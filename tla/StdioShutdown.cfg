\* Two calls: one that ends in time and one that does not. The clock runs to the
\* longer deadline, 35 seconds.
SPECIFICATION FairSpec
CONSTANTS Calls = {c1, c2}
INVARIANTS CallsGetTheirTime ForcedIsStuck
PROPERTIES ServerEnds
CHECK_DEADLOCK FALSE
