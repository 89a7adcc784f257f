SPECIFICATION IntakeSpec
CONSTANTS
  Fields <- FieldNames
  Lowest <- LowestDef
  Highest <- HighestDef
  Default <- DefaultDef
  Narrow = {"max_connections"}
  IntSpan = 16
  Contents <- ContentsDef
  NoFile = NoFile
  Paths = {p1}
  Loaders = {t1, t2}
  ReloadInterval = 2
  MaxNow = 4
  TicksPerSecond = 2
  BurstCount = 2
  MaxMessages = 3
SYMMETRY Alike
INVARIANTS
  ValuesOfOneFile
  IntakeTypeOK
  RateHeld
  RefusedIsOver
CHECK_DEADLOCK FALSE
