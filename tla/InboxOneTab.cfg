\* One tab that starts on Home, every crash point, late rows, a reset of the
\* session or of the device, and a cache record that cannot be read after it:
\* what the receive path keeps.
SPECIFICATION Spec
CONSTANTS
  Tabs = {t1}
  Own = {own1}
  None = None
  Depleted = {}
  WarmStart = TRUE
  MaxSends = 3
  MaxHandshakes = 2
  MaxMishaps = 1
  MaxUnreadable = 1
  MaxPeerResets = 1
  MaxDeviceResets = 1
INVARIANTS TypeOK CounterFollowsChain InOrderNeverRefused OneLossPerMishap
CHECK_DEADLOCK FALSE
