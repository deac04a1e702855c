SPECIFICATION Spec
CONSTANTS
  starter = starter
  professional = professional
  None = None
  s1 = s1
  s2 = s2
  Sub = {s1, s2}
  PlanOf <- OneOfEach
  Plan = {starter, professional}
  Limit <- SmallLimits
  Worker = {w1, w2}
  User = {u1, u2}
  Mail = {e1, e2}
  Token = {t1, t2}
  Group = {g1, g2}
  Policy = {p1, p2}
  Profile = {f1, f2}
  Payload = {a, b}
  Mac = {m1, m2}
  Device = {d1}
  Handler = {h1, h2}
  MaxRequests = 5
  MaxCheckouts = 2
  MaxUpdates = 4
  MaxChanges = 3
  Message = {q1, q2}
  MaxReceives = 2
  MaxPushTokens = 2
  MaxDeliveries = 4
  MaxFaults = 1
  CommitBeforeReply = FALSE
INVARIANTS TypeOK Mirrors DoubledByOverlap TokensHonoured UnencryptedFlagged HistoryTrue PushesHonest
SYMMETRY Interchangeable
