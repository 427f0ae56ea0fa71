SPECIFICATION Spec
CONSTANTS
  CPUs = {c1, c2}
  Pids = {p1, p2}
  Ptrs = {a1, a2}
  NAllocs = 2
  Sizes <- MCSizes
  MaxPids = 2
  MaxAllocs = 2
  RingSize = 1
SYMMETRY Symmetry
INVARIANTS EventsAccountedFor SuspectsAreLive BytesBalance
CHECK_DEADLOCK FALSE
