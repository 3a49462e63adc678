SPECIFICATION Spec
CONSTANTS
  null = null
  NameSpaces = {n1}
  Names = {a}
  client = client
  rival = rival
  collector = collector
  Threads = {client, rival, collector}
  Values = {v1}
  AbsoluteTimes = {}
  SlidingSpans = {1}
  Serves <- RacingServes
  MaxEntries = 2
  MaxTime = 3
  TornReads = FALSE
PROPERTY EvictsOnlyExpired
