CONSTANTS
  Page = 4
  Word = 64
  RomChunk = 2
  FwChunk = 3
  MaxBoots = 1
  MainFiles <- MCLocMainFiles
  SensorFiles <- MCSensorFiles
  SkuFiles <- MCSkuFiles
SPECIFICATION Spec
INVARIANT LocationFromFile
CHECK_DEADLOCK FALSE
