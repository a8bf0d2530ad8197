\* Two siblings and one that comes and goes, five polls of which the last three agree.
SPECIFICATION Spec
CONSTANTS
  Originals = {o1, o2}
  Target = o1
  Late = {n1}
  Reads = 5
  QuietReads = 3
  None = None
INVARIANTS OutcomeIsTrue OwnerChangesLast
CHECK_DEADLOCK FALSE
