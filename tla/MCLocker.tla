------------------------------ MODULE MCLocker ------------------------------
\* Instances of Locker for TLC.
EXTENDS Locker

CONSTANTS m1, m2, m3

ThreeMutexes == {m1, m2, m3}
BothBackends == {"memory", "redis"}
SomeCounts == {-1, 0, 1}
=============================================================================
