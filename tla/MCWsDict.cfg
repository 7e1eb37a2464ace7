CONSTANTS
  Keys = {"a", "b"}
  Patterns = {"a", "**"}
  Matches <- MCMatches
  Requests = {{"a"}, {"**"}}
  Writers = {"w1", "w2"}
  Subscribers = {"s1"}
  Discarding = {"s1"}
  Ttls = {0, 1}
  Capacity = 1
  MaxTime = 1
  MaxSets = 2
  MaxCloses = 1
SPECIFICATION FairSpec
CHECK_DEADLOCK FALSE
INVARIANTS MirrorRight
PROPERTIES SweepsOnlyExpired ExpiredAreSwept
