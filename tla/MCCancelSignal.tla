--------------------------- MODULE MCCancelSignal ---------------------------
\* Instances of CancelSignal for TLC.
EXTENDS CancelSignal

CONSTANTS j1, j2, j3

ThreeJobs == {j1, j2, j3}
BothModes == {"redis", "local"}
=============================================================================
