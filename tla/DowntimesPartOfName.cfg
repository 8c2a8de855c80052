SPECIFICATION Spec
CONSTANTS
  c1 = c1
  c2 = c2
  web1 = web1
  web10 = web10
  disk = disk
  Calls <- OneCall
  Hosts <- BothHosts
  Objects <- BothHosts
  Matching <- PartOfName
  Parts <- NoParts
  DOWNTIMES_READ = 9
  Back = 1
  Ahead = 1
  MaxPolls = 1
  Length = 1
  MaxTime = 1
  MaxStart = 1
  MaxOthers = 1
INVARIANT CancelsOnlyItsObject
