SPECIFICATION HSpec
CONSTANTS
  null = null
  NameSpaces = {n1}
  Names = {a}
  client = client
  Threads = {client}
  Values = {v1}
  AbsoluteTimes = {}
  SlidingSpans = {1}
  Serves <- OneClientServes
  MaxEntries = 1
  MaxTime = 2
  TornReads = FALSE
INVARIANT UnreadSlidingExpires
