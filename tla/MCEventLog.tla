----------------------------- MODULE MCEventLog -----------------------------
\* Instances of EventLog for TLC.
EXTENDS EventLog, TLC

Symmetry == Permutations(Events)
=============================================================================
