CONSTANTS
  Page = 4
  Word = 64
  RomChunk = 2
  FwChunk = 3
  MaxBoots = 3
  MainFiles <- MCMainFiles
  SensorFiles <- MCSensorFiles
  SkuFiles <- MCSkuFiles
SPECIFICATION Spec
INVARIANTS TypeOK MatchesSilicon LiveData DownloadComplete NoOverlap
CHECK_DEADLOCK FALSE
