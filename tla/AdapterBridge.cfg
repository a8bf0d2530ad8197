\* Two requests with two ids and a queue of one line: an id comes back while it
\* is in use or after it was, and both fibers wait for room.
SPECIFICATION FairSpec
CONSTANTS
  Requests = {q1, q2}
  Ids = {i1, i2}
  MaxRequests = 2
  Capacity = 1
  None = None
INVARIANTS RepliesAreOwned SessionComesFirst OutcomeIsKnown
PROPERTIES NothingWaits
CHECK_DEADLOCK FALSE
