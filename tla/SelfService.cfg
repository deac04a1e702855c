SPECIFICATION Spec
CONSTANTS
  r1 = r1
  r2 = r2
  None = None
  User = {u1}
  Process = {p1, p2}
  MaxVisits = 4
  MaxTokens = 4
  MaxSecrets = 2
  MaxResets = 1
  Mac = {m1, m2}
  Request = {r1, r2}
  Package = {k1}
  Named = {m1}
  Packaged = {r1}
  Otherwise <- Elsewhere
  Item = {i1}
  Account = {n1, n2}
  MaxAnswers = 4
  Handler = {h1, h2}
  MaxRequests = 5
  MaxFaults = 1
  CommitBeforeReply = FALSE
INVARIANTS TypeOK SettledTruly RefusalExplained AgentAuthorised SingleUse SecondFactorWorks InventoryTrue
PROPERTIES RejectionFinal RevocationSticks
SYMMETRY Interchangeable
