SPECIFICATION Spec
CONSTANTS
  c1 = c1
  c2 = c2
  web1 = web1
  web10 = web10
  disk = disk
  Calls <- TwoCalls
  Hosts <- BothHosts
  Objects <- HostsAndService
  Matching <- PartOfName
  Parts <- DiskOnWeb1
  DOWNTIMES_READ = 2
  Back = 0
  Ahead = 1
  MaxPolls = 1
  Length = 2
  MaxTime = 1
  MaxStart = 2
  MaxOthers = 3
CONSTRAINT FewActors
SYMMETRY Symmetry
INVARIANTS AddedIsNew CancelsOnlyMatching CancelsEvery
PROPERTIES KeepsContract
