\* Three requests against a limit of two: the limit is reached and one request
\* is refused for capacity in some behaviours. No symmetry, for CloseIsAnswered.
SPECIFICATION FairSpec
CONSTANTS
  Requests = {r1, r2, r3}
  MaxRequests = 2
  NoRequest = NoRequest
INVARIANTS DrainedIsQuiet
PROPERTIES SessionOutlivesWork ImplementsContract CloseIsAnswered
CHECK_DEADLOCK FALSE
