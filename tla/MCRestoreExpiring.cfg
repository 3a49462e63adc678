SPECIFICATION HSpec
CONSTANTS
  null = null
  b = b
  w1 = w1
  w2 = w2
  Bodies = {b}
  AbsoluteTimes = {2}
  SlidingSpans = {}
  Keys <- TextKey
  Workers = {w1}
  Puts <- ExpiringPuts
  Values <- NoValue
  MaxEntries = 1
  MaxTime = 1
PROPERTY StoredIsRecovered
