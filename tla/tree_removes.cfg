SPECIFICATION Spec
CONSTANTS
  nameA = nameA
  nameB = nameB
  nameC = nameC
  nameD = nameD
  Ids = {2, 3, 4, 5, 6}
  Root = 0
  NoItem = 99
  Folders = {2, 3, 4, 5, 6}
  Devices = {2}
  Names = {nameA, nameB, nameC, nameD}
  Given = {nameA, nameB, nameC}
  NoName = NoName
  Starts <- MCNamed
  Refreshing = FALSE
  MaxLookups = 1
INVARIANTS
  RemovesNamed
CHECK_DEADLOCK FALSE
