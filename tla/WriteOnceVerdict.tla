-------------------------- MODULE WriteOnceVerdict --------------------------
(***************************************************************************)
(* What the daemon promises about a retryable mutation (web-delivery.md,   *)
(* "Request behavior"): each idempotency key gets at most one verdict,     *)
(* ever, for one request, and a call that is given an outcome is given     *)
(* that verdict.  No file, chain or crash appears here: to its clients the *)
(* daemon is a write-once register per key.                                *)
(***************************************************************************)
CONSTANTS Keys, Calls, Hashes, Outcomes, None

VARIABLES
    verdict,   \* key -> the decided request and its outcome
    told       \* call -> the key, request and outcome its client was told

Undecided == [hash |-> None, outcome |-> None]
Decided == [hash : Hashes, outcome : Outcomes]

Init ==
    /\ verdict = [k \in Keys |-> Undecided]
    /\ told = [c \in Calls |-> None]

\* A decided key keeps its verdict; others may be decided.
Decide ==
    /\ verdict' \in [Keys -> Decided \cup {Undecided}]
    /\ \A k \in Keys : verdict[k] # Undecided => verdict'[k] = verdict[k]

\* A call is told once, and what it is told is the verdict of a decided key.
Tell ==
    /\ told' \in [Calls -> [key : Keys, verdict : Decided] \cup {None}]
    /\ \A c \in Calls :
          \/ told'[c] = told[c]
          \/ told[c] = None /\ \E k \in Keys : told'[c] = [key |-> k, verdict |-> verdict'[k]]

Next == Decide /\ Tell

Spec == Init /\ [][Next]_<<verdict, told>>
=============================================================================
