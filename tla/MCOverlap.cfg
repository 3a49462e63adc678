SPECIFICATION FairHSpec
CONSTANTS
  null = null
  b = b
  w1 = w1
  w2 = w2
  Bodies = {b}
  AbsoluteTimes = {}
  SlidingSpans = {}
  Keys <- SetKey
  Workers = {w1, w2}
  Puts <- SetPuts
  Values <- OneValue
  MaxEntries = 1
  MaxTime = 0
INVARIANTS CollectorTypeOK FlagsHaveOwners
PROPERTIES BackupsAreSnapshots JobsCountDown FlagsComeDown
