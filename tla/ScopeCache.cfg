SPECIFICATION ServingSpec
CONSTANTS
  t1 = t1
  t2 = t2
  u1 = u1
  u2 = u2
  k1 = k1
  p1 = p1
  p2 = p2
  Threads <- TwoThreads
  Users <- TwoUsers
  Keys <- OneKey
  CacheEnabled = TRUE
  TTL = 2
  RequestTime = 1
  MaxTime = 3
  MaxVersion = 2
  ReadTools = {"find"}
  WriteTools = {"create"}
  SetNames = {"health", "admin"}
  Selections <- Chosen
  MaxEdits = 1
  Messages <- TwoThreads
  People <- TwoPeople
  Finders = {"find_hosts"}
  ZoneTTL = 1
  HintTTL = 1
  AnswerTime = 1
  MaxClock = 2
  MaxZones = 1
  NModels = 2
  NReading = 1
  NActing = 1
  NSamples = 1
  Workers = 2
  MaxSteps = 2
  Attempts = 2
  Steps = 2
  NServers = 2
  MaxStarts = 2
SYMMETRY ServingSymmetry
INVARIANTS ServingTypeOK PartitionsApart StalenessBounded StaleOnlyFromOverlap ServesSelection TracebackOnlyForFiles ZoneIsRecent HintsAreRecent AloneWhileActing RestoredUnlessBroken KeptWhole AskedOnWholeData
