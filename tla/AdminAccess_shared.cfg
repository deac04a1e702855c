SPECIFICATION Spec
CONSTANTS
  r1 = r1
  r2 = r2
  a1 = a1
  None = None
  Request = {r1, r2}
  Account = {a1}
  AccountOf <- SameAccount
  Handler = {h1}
  Worker = {w1, w2}
  Poll = {p1}
  BatchLimit = 2
  CommitBeforeReply = TRUE
  MaxFaults = 0
INVARIANT GrantHolds
