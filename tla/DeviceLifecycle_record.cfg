SPECIFICATION Spec
CONSTANTS
  None = None
  Row = {i1, i2, i3}
  Session = {s1, s2, s3}
  CommitBeforeReply = FALSE
  MaxTokens = 3
  MaxFaults = 2
INVARIANTS TypeOK EnrolledIsShown GoneIsShown
PROPERTY SecondRow
SYMMETRY Interchangeable
CHECK_DEADLOCK FALSE
