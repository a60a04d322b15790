SPECIFICATION Spec
CONSTANTS
  p1 = p1
  p2 = p2
  t1 = t1
  t2 = t2
  t3 = t3
  k1 = k1
  k2 = k2
  k3 = k3
  bad = bad
  Procs = {p1, p2}
  Root = p1
  Threads = {t1, t2, t3}
  Home <- Forked
  RawKeys = {k1, bad}
  Keys = {k1}
  KeyOf <- OneKey
  NumShards = 1
  ShardOf <- OneShard
  Deltas <- Minus
  Half = 1
  Checked = TRUE
  Text = Text
  Absent = Absent
PROPERTIES
  ImplementsAtomicStore
