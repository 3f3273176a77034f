SPECIFICATION Spec
CONSTANTS
  Messages = {m1, m2}
  Blocks = {b1}
  Sockets = {s1, s2}
  Handles = {h1, h2}
  Contexts = {c1, c2}
  Ptrs = {p1, p2}
  Slots = {w1}
INVARIANTS
  BlocksOwned
  HandlesOwned
SYMMETRY
  MCAlike
CHECK_DEADLOCK FALSE
