SPECIFICATION FairSpec
CONSTANTS
  Pages = {p1, p2}
  s1 = s1
  s2 = s2
  Senders = {s1, s2}
  MaxSends <- Twice
INVARIANTS MonitorTypeOK GotInOrder GotWithoutGaps
PROPERTIES Delivered
