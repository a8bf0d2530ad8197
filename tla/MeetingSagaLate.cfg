\* As in MeetingSaga.cfg: a message that a late request makes untrue.
SPECIFICATION Spec
CONSTANTS
  Originals = {o1, o2}
  Target = o1
  Late = {n1}
  Reads = 5
  QuietReads = 3
  None = None
INVARIANT RecoveredMeansCompensated
CHECK_DEADLOCK FALSE
