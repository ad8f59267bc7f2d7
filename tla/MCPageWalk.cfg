CONSTANTS
  PageSizeDefault = 1
  PageSizeMax = 2
  SpecPageSizeMax = 3
  Absent = Absent
  Malformed = Malformed
  o1 = o1
  o2 = o2
  Owner <- MCOwner
  Viewed = o1
  MaxId = 4
  OpenSizes <- MCSizes
  OpenCursors <- MCCursors
SPECIFICATION Spec
INVARIANTS NothingSkipped WalkInv LinksAccepted RoundTrip
PROPERTIES NoRepeats OnwardLinkExact PageIsWindow
