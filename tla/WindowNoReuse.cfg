SPECIFICATION Spec
CONSTANTS
  Keys = {k1, k2, k3, k4}
  Vals = {v1, v2}
  Absent = Absent
  NoKey = NoKey
  Workload = {"chain"}
SYMMETRY Symmetry
INVARIANTS TypeOK WindowFaithful FlushMatchesSource
