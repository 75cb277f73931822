\* A new or a legacy device: two peers, a reset, two rotations, and a crash or a failed request.
SPECIFICATION Spec
CONSTANTS
  Peers = {p1, p2}
  NONE = NONE
  PoolSize <- SmallPool
  PoolThreshold <- SmallThreshold
  Retention = 1
  Legacy = TRUE
  MaxResets = 1
  MaxRotations = 2
  MaxMishaps = 1
  MaxClaims = 2
SYMMETRY PeerSymmetry
INVARIANTS TypeOK ClaimCompletes PublishedCompletely PublishedIsServed
PROPERTIES NoKeyHandedTwice
CHECK_DEADLOCK FALSE
