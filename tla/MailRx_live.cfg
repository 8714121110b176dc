SPECIFICATION FairSpec
CONSTANTS
  Accounts = {a1, a2}
  NoAccount = none
  NMsgs = 2
  MaxFaults = 1
PROPERTIES
  EveryMessageHandled EveryMessageLeavesUnseen StopEndsThread
