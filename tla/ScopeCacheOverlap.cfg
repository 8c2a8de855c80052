SPECIFICATION Spec
CONSTANTS
  t1 = t1
  t2 = t2
  u1 = u1
  u2 = u2
  k1 = k1
  Threads <- TwoThreads
  Users <- OneUser
  Keys <- OneKey
  CacheEnabled = TRUE
  TTL = 2
  RequestTime = 1
  MaxTime = 4
  MaxVersion = 2
SYMMETRY Symmetry
INVARIANT ReadYourWrites
