SPECIFICATION Spec
CONSTANTS
  Unset = Unset
  Nothing = Nothing
  AnyModel <- AnyGlob
  Words <- WordsSaid
  Worlds <- Kept
  Root <- RootDir
  Cwd <- CwdDir
  Home <- HomeDir
  Versions <- VersionNumbers
CHECK_DEADLOCK FALSE
INVARIANTS
  LockedForAll
  LockedEvalsStay
  UntouchedExtends
