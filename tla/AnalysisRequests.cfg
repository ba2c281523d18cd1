\* Two create calls or four claims, or one of each, over two documents, profiles and a key.
CONSTANTS
  c1 = c1
  c2 = c2
  d1 = d1
  d2 = d2
  w1 = w1
  w2 = w2
  p1 = p1
  p2 = p2
  Profiles = {p1, p2}
  Calls = {c1, c2}
  NoCall = NoCall
  Keys = {k1}
  NoKey = NoKey
  Scenarios = {"general", "academic"}
  Requests <- Posted
  OldRows <- Left
  Docs = {d1, d2}
  JobIds = {1, 2}
  Workers = {w1, w2}
  NoWorker = NoWorker
  GuidanceOf <- Rolling
  ApiGuidance = 2
  PoolSize = 2
  Budgets <- CallsOrClaims
  MaxEdits = 2
SPECIFICATION FairSpec
INVARIANTS
  OneJob
  AnswersMatchRequest
  OneConfiguration
PROPERTIES
  RaceIsNoConflict
  EveryCallEnds
CHECK_DEADLOCK FALSE
