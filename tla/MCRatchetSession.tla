-------------------------- MODULE MCRatchetSession --------------------------
\* Model values for RatchetSession: tabs are interchangeable.
EXTENDS RatchetSession, TLC

ClientSymmetry == Permutations(Clients)
=============================================================================
