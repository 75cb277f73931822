\* A request sent again while the first one is being accepted.
SPECIFICATION Spec
CONSTANTS
  Alice = Alice
  Bob = Bob
  NOBODY = NOBODY
  Calls = {c1, c2}
  RowIds = {1, 2, 3, 4}
PROPERTIES ConsentKept
CHECK_DEADLOCK FALSE
