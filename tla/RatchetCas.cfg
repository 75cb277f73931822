\* Two tabs without the Web Lock, every storage fault, no reset: what the
\* compare-and-swap alone guarantees.
SPECIFICATION Spec
CONSTANTS
  Clients = {t1, t2}
  Incoming = {1}
  None = None
  MaxRevision = 4
  MaxFresh = 7
  Serialised = FALSE
  Faults = {"lost", "restored", "garbled", "evicted"}
  MaxFaults = 1
  MaxResets = 0
SYMMETRY ClientSymmetry
INVARIANTS TypeOK ReleasedIsSpent LinearHistory
PROPERTIES NeverOlder KeepsLedger
CHECK_DEADLOCK FALSE
