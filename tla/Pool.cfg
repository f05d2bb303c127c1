CONSTANTS
  Peer = {a, b}
  Session = {1, 2}
  MaxCached = 1
  MaxStreams = 1
  MaxDials = 1
  MaxNames = 3
  None = None
SPECIFICATION FairSpec
INVARIANTS HeldSlotsStay PoolBounded StreamsBounded NoneLeaked
PROPERTIES CallsEnd
\* A closed endpoint ends every call, and nothing is left to do.
CHECK_DEADLOCK FALSE
