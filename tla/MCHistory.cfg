SPECIFICATION HSpec
CONSTANTS
  null = null
  NameSpaces = {n1}
  Names = {a}
  client = client
  sweeper = sweeper
  Threads = {client, sweeper}
  Values = {v1}
  AbsoluteTimes = {1}
  SlidingSpans = {1}
  Serves <- HistoryServes
  MaxEntries = 1
  MaxTime = 1
  TornReads = FALSE
INVARIANT NeverServesExpired
PROPERTIES SweepLeavesNone CallsCountDown
