\* Two process groups on two CPUs against polls.
SPECIFICATION Spec
CONSTANTS
  Tgids = {1, 2, 3}
  Cpus = {p, q}
  Elems = {e, f}
  Miss = Miss
  MaxCalls = 4
SYMMETRY Symmetry
INVARIANTS
  TypeOK
  EveryCallAccounted
PROPERTIES
  MetersCalls
