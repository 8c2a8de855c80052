SPECIFICATION FairSpec
CONSTANTS
  c1 = c1
  c2 = c2
  c3 = c3
  s1 = s1
  s2 = s2
  Host = host
  Calls <- OneCall
  Services <- TwoServices
  SERVICES_READ = 1
  MaxPolls = 1
  MaxChecks = 1
PROPERTIES DoneLeavesNone CallsReturn
