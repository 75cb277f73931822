\* Two tabs under the Web Lock; the user resets the peer or the device.
SPECIFICATION Spec
CONSTANTS
  Clients = {t1, t2}
  Incoming = {1}
  None = None
  MaxRevision = 4
  MaxFresh = 7
  Serialised = TRUE
  Faults = {}
  MaxFaults = 0
  MaxResets = 2
SYMMETRY ClientSymmetry
INVARIANT KeyReleasedOnce
CHECK_DEADLOCK FALSE
