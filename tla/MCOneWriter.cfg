SPECIFICATION HSpec
CONSTANTS
  null = null
  NameSpaces = {n1}
  Names = {a}
  writer = writer
  rival = rival
  reader = reader
  Threads = {writer, reader, rival}
  Values = {v1, v2}
  AbsoluteTimes = {}
  SlidingSpans = {}
  Serves <- OneWriterServes
  MaxEntries = 2
  MaxTime = 0
  TornReads = TRUE
SYMMETRY SymmetricValues
INVARIANTS AcknowledgedStay WithdrawnStay
PROPERTIES ReadsWhole ReadsNoneWithdrawn
