CONSTANTS
  Messages = {m1, m2, big}
  Oversize = {big}
  MaxPush = 3
SPECIFICATION FairSpec
INVARIANTS ChannelInv AppliedInOrder AckMeansApplied NoLostWakeup
PROPERTIES PushReturns ServiceSpec
CHECK_DEADLOCK FALSE
