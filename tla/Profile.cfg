SPECIFICATION Spec
CONSTANTS
  Unset = Unset
  Nothing = Nothing
  AnyModel <- AnyGlob
  Words <- WordsSaid
  Worlds <- AllWorlds
  Root <- RootDir
  Cwd <- CwdDir
  Home <- HomeDir
  Versions <- VersionNumbers
CHECK_DEADLOCK FALSE
INVARIANTS
  LocksHold
  NeverLooser
  ReadsConfined
