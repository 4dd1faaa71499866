CONSTANTS
  Calls = {c1, c2, c3}
  c1 = c1
  c2 = c2
  c3 = c3
SPECIFICATION FairChannel
INVARIANTS ChannelTypeOK ReaderNeverBlocks NobodyLeftWaiting
PROPERTIES DeadProcessWakesCallers StopAlwaysReturns
CHECK_DEADLOCK FALSE
