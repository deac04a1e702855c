SPECIFICATION FairSpec
CONSTANTS
  d1 = d1
  c1 = c1
  c2 = c2
  c3 = c3
  None = None
  Device = {d1}
  Command = {c1, c2}
  Session = {s1, s2}
  Owner <- OneOwner
  Unencodable = {c2}
  CommitBeforeReply = TRUE
  MaxFaults = 2
INVARIANTS TypeOK HandedOnce OnlyCommittedHanded StatusIsVerdict NoOvertaking
PROPERTIES SettledOnce ImplementsLifecycle LeavesQueue
