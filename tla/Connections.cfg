\* Two users, two calls in flight, no bound on how often they act.
SPECIFICATION Spec
CONSTANTS
  Alice = Alice
  Bob = Bob
  NOBODY = NOBODY
  Calls = {c1, c2}
  RowIds = {1, 2, 3, 4}
INVARIANTS TypeOK NothingPastABlock DeclinedAndBlockedStays AcceptedByBoth RequestsDoNotCollide
CHECK_DEADLOCK FALSE
