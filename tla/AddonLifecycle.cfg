SPECIFICATION FairSpec
CONSTANTS
  w1 = w1
  Windows <- OneWindow
  WrongType = WrongType
  NoFile = NoFile
  Truncated = Truncated
  OldVersion = OldVersion
  None = None
  Starts <- Installed
INVARIANTS
  TypeOK
  ObjectsAlive
  OneOwner
  SettingsKept
CHECK_DEADLOCK FALSE
PROPERTIES
  ReleaseCompletes
