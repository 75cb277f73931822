--------------------------- MODULE MCConnections ---------------------------
\* Model values for Connections: the slots for calls are interchangeable.
EXTENDS Connections, TLC

CallSymmetry == Permutations(Calls)
=============================================================================
