CONSTANTS
  u1 = u1
  u2 = u2
  a1 = a1
  e1 = e1
  e2 = e2
  n1 = n1
  n2 = n2
  s1 = s1
  s2 = s2
  b1 = b1
  b2 = b2
  Stranger = Stranger
  Malformed = Malformed
  Empty = Empty
  Absent = Absent
  None = None
  UserId <- MCUsers
  AccountId <- MCAccounts
  Email <- MCTwoEmails
  Name <- MCOneName
  Slot <- MCSlots
  Backend <- MCBackends
  Inputs <- MCHistoryInputs
SPECIFICATION HSpec
SYMMETRY Symmetry
INVARIANTS CreatedStays GoneIsFinal
