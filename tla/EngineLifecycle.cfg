\* Two accounts, two sign-ins, two calls under way, one mishap.
SPECIFICATION FairSpec
CONSTANTS
  Users = {u1, u2}
  NOBODY = NOBODY
  Incoming = {1}
  Own = {2}
  Managers = {a, b}
  Calls = {c1, c2}
  MaxSignIns = 2
  MaxMishaps = 1
INVARIANTS TypeOK SessionIsolated HistorySurvives
PROPERTY EngineSettles
CHECK_DEADLOCK FALSE
