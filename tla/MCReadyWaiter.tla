---------------------------- MODULE MCReadyWaiter ----------------------------
\* Instances of ReadyWaiter for TLC.
EXTENDS ReadyWaiter

CONSTANTS leader, follower, w1, w2

TwoReplicas == {leader, follower}
OneReplica == {leader}
TwoWaits == {w1, w2}
OneWait == {w1}
=============================================================================
