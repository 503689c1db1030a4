SPECIFICATION FairSpec
CONSTANTS
  notifications = notifications
  notifyA = notifyA
  notifyB = notifyB
  created = created
  garbage = garbage
  Nobody = Nobody
  Malformed = Malformed
  Groups <- AllGroups
  Events <- AllEvents
  Concern <- ConcernOf
  Backlog <- OldEvents
  MaxMessages = 1
  MaxFailures = 3
  MaxCrashes = 1
INVARIANTS
  TypeOK
  NothingLost
  DeadMeansTried
PROPERTIES
  EverySettled
  KeepsDelivery
CHECK_DEADLOCK FALSE
