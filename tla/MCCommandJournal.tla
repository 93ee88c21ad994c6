-------------------------- MODULE MCCommandJournal --------------------------
\* Instances of CommandJournal for TLC.
EXTENDS CommandJournal, TLC

CONSTANTS k1, k2, k3, k4

\* One key per way recovery can conclude; which of them exist is the cfg's choice of Keys.
MCKind == [k \in Keys |-> CASE k = k1 -> "turn" [] k = k2 -> "marker" [] k = k3 -> "redo" [] OTHER -> "unproven"]

Symmetry == Permutations(Calls) \cup Permutations(Hashes) \cup Permutations(Results)
=============================================================================
