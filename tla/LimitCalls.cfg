\* A throttled profile of two calls beside another profile, two global slots.
CONSTANTS
  c1 = c1
  c2 = c2
  c3 = c3
  p1 = p1
  p2 = p2
  Calls = {c1, c2, c3}
  Profiles = {p1, p2}
  ProfileOf <- TwoAndOne
  GlobalSlots = 2
  MaxLimit = 2
SPECIFICATION FairSpec
INVARIANTS
  PermitsAccounted
  ReleaseNotMissed
PROPERTIES
  StartsWithinLimit
  NoStandstill
