CONSTANTS
  PageSizeDefault = 1
  PageSizeMax = 1
  SpecPageSizeMax = 1
  Absent = Absent
  Malformed = Malformed
  o1 = o1
  o2 = o2
  Owner <- MCSoleOwner
  Viewed = o1
  MaxId = 3
  OpenSizes <- MCSizeOne
  OpenCursors <- MCNoCursors
SPECIFICATION Spec
PROPERTIES LinksNullAtTheEnds
