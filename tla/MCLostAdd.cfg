SPECIFICATION HSpec
CONSTANTS
  null = null
  NameSpaces = {n1}
  Names = {a}
  writer = writer
  reader = reader
  rival = rival
  Threads = {writer, rival}
  Values = {v1, v2}
  AbsoluteTimes = {}
  SlidingSpans = {}
  Serves <- TwoWritersServe
  MaxEntries = 1
  MaxTime = 0
  TornReads = FALSE
INVARIANT AcknowledgedStay
CHECK_DEADLOCK FALSE
