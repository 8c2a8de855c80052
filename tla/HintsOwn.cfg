SPECIFICATION ContextSpec
CONSTANTS
  Messages = {m1, m2}
  People = {u1, u2}
  Finders = {"find_hosts"}
  ZoneTTL = 1
  HintTTL = 1
  AnswerTime = 1
  MaxClock = 2
  MaxZones = 1
INVARIANT HintsAreOwn
