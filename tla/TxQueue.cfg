SPECIFICATION FairSpec
CONSTANTS
  Capacity = 2
  MaxMsgs = 4
INVARIANTS
  ReadPermits WritePermits DequeueSafe InOrder Accounted OneAfterStop
PROPERTIES
  DropOnlyWhenFull ChannelSpec
  StopEndsThread AcceptedIsAttempted StrandedByLeaks
