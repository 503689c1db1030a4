----------------------------- MODULE MCModelServing -----------------------------
(* Two requests about costly or simple payments, a pool of two instances and *)
(* one that is empty.                                                         *)
EXTENDS ModelServing

CONSTANTS r1, r2, i1, i2

TwoRequests == { r1, r2 }
TwoInstances == { i1, i2 }
OnePool == [t \in Tier |-> IF t = "DEEP_REASONING" THEN << i1, i2 >> ELSE <<>>]
TwoContexts ==
  { [task |-> "recommendation", amount |-> 50000, attempt |-> 1,
     category |-> "TRANSIENT_NETWORK"],
    [task |-> "recommendation", amount |-> 500, attempt |-> 1,
     category |-> "TRANSIENT_NETWORK"] }
================================================================================
