\* Two tabs that start on a conversation, each with its own copy of the device,
\* a crash or failed write and a reset of the session; the first handshake was
\* claimed when the one-time pools were empty.
SPECIFICATION Spec
CONSTANTS
  Tabs = {t1, t2}
  Own = {}
  None = None
  Depleted = {1}
  WarmStart = FALSE
  MaxSends = 2
  MaxHandshakes = 2
  MaxMishaps = 1
  MaxUnreadable = 0
  MaxPeerResets = 1
  MaxDeviceResets = 0
SYMMETRY TabSymmetry
INVARIANT OneLossPerMishap
PROPERTY SpentStaysSpent
CHECK_DEADLOCK FALSE
