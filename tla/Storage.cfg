CONSTANTS
  Process = {p, q}
  Share = {s, t}
  outer = outer
  inner = inner
  other = other
  Directory = {outer, inner, other}
  Overlaps <- OuterInnerOther
SPECIFICATION FairSpec
INVARIANTS RegisteredWhole SharesDisjoint WorkedOnStays OneIdentity ActiveIsOwned
PROPERTIES CommandsEnd
