\* Two moves of two issues with every fault, on a server that may let other
\* batches in between checking a batch and applying it.  And one move with every
\* fault beside an edit and the creation of the second issue.
SPECIFICATION EitherSpec
CONSTANTS
  Issues = {a, b}
  Projects = {p, q}
  NoParent = NoParent
  Nowhere = Nowhere
  Movers = {m1, m2}
  Spare = {}
  Home = {p}
  Stale = {}
  MaxEdits = 2
  MaxTasks = 3
  MaxTries = 2
  Faults = {"read", "unsent", "reply", "deadline"}
  Isolated = FALSE
  None = None
  Child = {b}
SYMMETRY Alike
CONSTRAINT OneAmongOthers
ACTION_CONSTRAINT KeepsAnEdit
INVARIANTS TypeOK ReportIsTrue NumbersAccounted
CHECK_DEADLOCK FALSE
