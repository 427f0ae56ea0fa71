SPECIFICATION Spec
CONSTANTS
  Clients = {c1, c2}
  NAnswers = 3
  MaxTime = 1
SYMMETRY Symmetry
INVARIANTS ReadsSeeAcknowledged RecommendsWidely
