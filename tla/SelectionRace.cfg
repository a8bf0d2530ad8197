\* Two managed launchers and a foreground one race for two configurations in a
\* registry with room for one record, with two inodes that are used again.
SPECIFICATION Spec
CONSTANTS
  m1 = m1
  m2 = m2
  f1 = f1
  c1 = c1
  c2 = c2
  c3 = c3
  i1 = i1
  i2 = i2
  Launchers = {m1, m2, f1}
  Foreground = {f1}
  Configs = {c1, c2}
  Apart <- NobodyApart
  MaxRecords = 1
  Inodes = {i1, i2}
  NoInode = NoInode
  None = None
  Free = Free
  Stranded = Stranded
SYMMETRY Alike
INVARIANTS RoomAtPublish EvidenceKept KilledNeverOwned OrphanNeedsCause
PROPERTIES ImplementsOwnership
CHECK_DEADLOCK FALSE
