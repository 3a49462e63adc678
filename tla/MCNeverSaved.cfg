SPECIFICATION BackedUpSpec
CONSTANTS
  null = null
  b = b
  w1 = w1
  Bodies = {b}
  AbsoluteTimes = {}
  SlidingSpans = {}
  Keys <- TextKey
  Workers = {w1}
  Puts <- PlainPuts
  Values <- NoValue
  MaxEntries = 1
  MaxTime = 0
PROPERTY EventuallySaved
