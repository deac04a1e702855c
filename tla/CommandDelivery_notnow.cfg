SPECIFICATION FairSpec
CONSTANTS
  d1 = d1
  c1 = c1
  c2 = c2
  c3 = c3
  None = None
  Device = {d1}
  Command = {c1}
  Session = {s1, s2}
  Owner <- OneOwner
  Unencodable = {}
  CommitBeforeReply = TRUE
  MaxFaults = 0
PROPERTY NotNowRequeued
