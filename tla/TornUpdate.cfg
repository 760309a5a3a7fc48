CONSTANTS
  Messages = {m1, m2}
  Oversize = {}
  MaxPush = 2
SPECIFICATION FairSpec
PROPERTIES EveryPushIsAnswered
CHECK_DEADLOCK FALSE
