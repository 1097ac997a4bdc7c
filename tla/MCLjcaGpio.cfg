CONSTANTS
  NPins = 1
  Threads = {t1, t2}
  MaxQueue = 2
  None = None
SPECIFICATION FairSpec
INVARIANTS TypeOK ArmedWhenSettled SpuriousBounded
PROPERTY Rearmed
