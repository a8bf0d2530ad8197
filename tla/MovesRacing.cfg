\* Two calls over every forest of three issues in one project, the numbers coming from
\* the projects' sequences.  And one call beside edits and a new child, over two projects
\* that both hold issues and rows whose cached ancestry may be wrong; there trees of three
\* are too large.
SPECIFICATION EitherSpec
CONSTANTS
  Issues = {a, b, c}
  Projects = {p, q}
  NoParent = NoParent
  Nowhere = Nowhere
  Movers = {m1, m2}
  Spare = {}
  Home = {p}
  Stale = {}
  MaxEdits = 0
  MaxTasks = 3
  MaxTries = 1
  Faults = {}
  Isolated = TRUE
  None = None
  Single = {m3}
  Child = {c}
SYMMETRY Alike
INVARIANTS DerivedDataExact
PROPERTIES ImplementsForest
CHECK_DEADLOCK FALSE
