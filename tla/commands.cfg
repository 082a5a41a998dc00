SPECIFICATION CmdSpec
CONSTANTS
  Program <- AllCommands
  Anonymous <- AllAnonymous
  KeysOf <- Keys
  Keepers <- Kept
  Unchecked <- NotAsking
  Unprotecting <- NotSparing
  Start <- Starts
  MaxTroubles = 1
INVARIANTS CmdTypeOK Accounted TargetProtected NoRefusal  CachesFollow TakesUpDisciplined
CHECK_DEADLOCK FALSE
