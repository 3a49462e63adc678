SPECIFICATION HSpec
CONSTANTS
  null = null
  b = b
  w1 = w1
  w2 = w2
  Bodies = {b}
  AbsoluteTimes = {0}
  SlidingSpans = {}
  Keys <- BothKeys
  Workers = {w1}
  Puts <- RobustPuts
  Values <- OneValue
  MaxEntries = 1
  MaxTime = 1
PROPERTIES StoredIsRecovered BackupsAreSnapshots
