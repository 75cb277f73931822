---------------------------- MODULE MCDeviceKeys ----------------------------
\* Model values for DeviceKeys: peers are interchangeable; pools of two X25519
\* keys and one Kyber key, refilled when one and none are left.
EXTENDS DeviceKeys, TLC

PeerSymmetry == Permutations(Peers)

SmallPool == [otp |-> 2, kyber |-> 1]

SmallThreshold == [otp |-> 1, kyber |-> 0]
=============================================================================
