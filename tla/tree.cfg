SPECIFICATION FairSpec
CONSTANTS
  nameA = nameA
  nameB = nameB
  nameC = nameC
  nameD = nameD
  Ids = {2, 3, 4}
  Root = 0
  NoItem = 99
  Folders = {2, 3, 4}
  Devices = {2}
  Names = {nameA, nameB}
  Given = {nameA}
  NoName = NoName
  Starts <- MCStarts
  Refreshing = TRUE
  MaxLookups = 1
INVARIANTS
  TypeOK
  
  
PROPERTIES
  
  ChangesAreSeen
CHECK_DEADLOCK FALSE
