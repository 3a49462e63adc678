SPECIFICATION Spec
CONSTANTS
  null = null
  NameSpaces = {n1}
  Names = {a}
  client = client
  sweeper = sweeper
  Threads = {client, sweeper}
  Values = {v1}
  AbsoluteTimes = {1}
  SlidingSpans = {1}
  Serves <- StringServes
  MaxEntries = 1
  MaxTime = 1
  TornReads = TRUE
INVARIANTS TypeOK DeletedOnce CastsSucceed
PROPERTIES EvictsOnlySelected StoreSpec
