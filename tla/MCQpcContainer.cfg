SPECIFICATION Spec
CONSTANTS
  Slots = {1, 2}
  Room = 100
  NameOrder <- MCNameOrder
  Blobs <- MCBlobs
  OnDisk <- MCOnDisk
  DiskNames <- MCDiskNames
  Replaces = FALSE
  MaxBuilds = 1
INVARIANTS
  TypeOK
  MapsAgree
  
  
  ReadersSeeTheSegments
CONSTRAINT AtMostTwoInUse
CHECK_DEADLOCK FALSE
