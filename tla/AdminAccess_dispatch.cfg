SPECIFICATION FairSpec
CONSTANTS
  r1 = r1
  r2 = r2
  a1 = a1
  None = None
  Request = {r1}
  Account = {a1}
  AccountOf <- SameAccount
  Handler = {h1}
  Worker = {w1}
  Poll = {p1, p2}
  BatchLimit = 2
  CommitBeforeReply = FALSE
  MaxFaults = 2
INVARIANTS TypeOK DispatchedOnce ResultIsTrue AdminAccounted
PROPERTIES JobSettledOnce GrantEnds
