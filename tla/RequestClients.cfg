\* Two calls over two requests and two acquisitions of the shared client: the
\* first may fail and the second take its place. No symmetry, for the liveness.
SPECIFICATION FairSpec
CONSTANTS
  Requests = {r1, r2}
  Calls = {c1, c2}
  Acquisitions = {a1, a2}
  None = None
INVARIANTS UsedIsOpen NothingLeaks OneSharedClient SilentMeansClean
PROPERTIES NothingHangs
CHECK_DEADLOCK FALSE
