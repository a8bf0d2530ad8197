\* Fairness, no symmetry: a managed and a foreground launcher resolve any of three
\* configurations, c1 and c2 told apart without asking, the others only by the
\* answer of a generation; room for two records.
SPECIFICATION FairSpec
CONSTANTS
  m1 = m1
  m2 = m2
  f1 = f1
  c1 = c1
  c2 = c2
  c3 = c3
  i1 = i1
  i2 = i2
  Launchers = {m1, f1}
  Foreground = {f1}
  Configs = {c1, c2, c3}
  Apart <- OldAndNew
  MaxRecords = 2
  Inodes = {i1}
  NoInode = NoInode
  None = None
  Free = Free
  Stranded = Stranded
INVARIANTS NoOverlap
PROPERTIES NobodyWaitsForEver
CHECK_DEADLOCK FALSE
