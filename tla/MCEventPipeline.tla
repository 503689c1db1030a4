---------------------------- MODULE MCEventPipeline ----------------------------
(* Two events for the notification group, one for nobody (payment.created), *)
(* and one that cannot be read.                                              *)
EXTENDS EventPipeline

CONSTANTS notifications, notifyA, notifyB, created, garbage

AllGroups == { notifications }
AllEvents == { notifyA, notifyB, created, garbage }
OldEvents == << created, garbage >>
ConcernOf ==
  [e \in AllEvents |-> CASE e \in { notifyA, notifyB } -> notifications
                         [] e = created -> Nobody
                         [] e = garbage -> Malformed]
===============================================================================
