SPECIFICATION Spec
CONSTANTS
  p1 = p1
  p2 = p2
  t1 = t1
  t2 = t2
  t3 = t3
  k1 = k1
  k2 = k2
  k3 = k3
  bad = bad
  Procs = {p1}
  Root = p1
  Threads = {t1, t2}
  Home <- OneProcess
  RawKeys = {k1, k2, k3}
  Keys = {k1, k2, k3}
  KeyOf <- ThreeKeys
  NumShards = 3
  ShardOf <- ThreeShards
  Deltas <- Minus
  Half = 1
  Checked = FALSE
  Text = Text
  Absent = Absent
SYMMETRY ThreadSymmetry
INVARIANTS
  TypeOK
  IncrementsAreIsolated
  KeysAreWeaklyConsistent
