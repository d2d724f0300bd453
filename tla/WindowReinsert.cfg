SPECIFICATION Spec
CONSTANTS
  Keys = {k1, k2, k3}
  Vals = {v1, v2}
  Absent = Absent
  NoKey = NoKey
  Workload = {"reinsert"}
SYMMETRY Symmetry
INVARIANT NoLostRows
