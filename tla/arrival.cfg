CONSTANTS
  MaxInt = 262143
  ExtType = 7
  Array <- MCArray
  Leads <- Byte
  Chunks <- EveryObject
SPECIFICATION Spec
INVARIANTS ReadersFollowSkip NumbersAgree NextTypeIsReadable ExtensionTypeChecked ExtensionsNamed AnnouncedLength
PROPERTY ReadsAreStable
CHECK_DEADLOCK FALSE
