SPECIFICATION CommandsSpec
CONSTANTS
  c1 = c1
  c2 = c2
  c3 = c3
  s1 = s1
  s2 = s2
  Host = host
  Calls <- TwoCalls
  Services <- OneService
  SERVICES_READ = 1
  MaxPolls = 1
  MaxChecks = 0
  Clients <- TwoCalls
  HostNames = {"web", "web10"}
  ServiceNames = {"disk", "cpu"}
  PartsOfNames <- Webs
  DISABLED_READ = 1
  MaxObjects = 3
  MaxActors = 2
  n1 = n1
  n2 = n2
  n3 = n3
  Nodes <- ThreeNodes
  NoNode = none
  FAILED_HOSTS_READ = 2
  HOST_IDS_PER_REQUEST = 1
  PROBLEMS_READ = 2
  MaxTurns = 1
SYMMETRY CommandsSymmetry
INVARIANTS DoneIsNew ReportedIsComplete CausesAreAbove OverviewAddsUp
PROPERTIES KeepsContract NotFoundIsTrue NoSecondOfName
