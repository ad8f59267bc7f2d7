CONSTANTS
  u1 = u1
  u2 = u2
  e1 = e1
  e2 = e2
  n1 = n1
  n2 = n2
  s1 = s1
  s2 = s2
  b1 = b1
  b2 = b2
  a1 = a1
  Stranger = Stranger
  Malformed = Malformed
  Empty = Empty
  Absent = Absent
  None = None
  UserId <- OneUser
  AccountId <- OneAccount
  Email <- TwoEmails
  Name <- TwoNames
  Slot <- TwoSlots
  Backend <- TwoBackends
  Inputs <- PatchesAndAccounts
  Midnight = 1
SPECIFICATION LSpec
SYMMETRY Symmetry
CONSTRAINT FewAnswers
PROPERTIES StatementsAreAtomic UpdatedAtAdvances
