----------------------------- MODULE EventFeed -----------------------------
(***************************************************************************)
(* What a session subscription promises to the client that holds it: the   *)
(* view is always a beginning of the session's canonical log.  It grows by *)
(* the events that follow the last one shown, without a hole, a duplicate  *)
(* or a change of order, and the only other thing that may happen to it is *)
(* to be emptied before it is loaded again from a snapshot.                *)
(***************************************************************************)
EXTENDS Naturals, Sequences

VARIABLES log,   \* the number of canonical events of the session
          view   \* the positions the client has shown, in order

Prefix(n) == [i \in 1..n |-> i]

FeedInit == log \in Nat /\ view = <<>>

\* The session appends one event.
Record == log' = log + 1 /\ UNCHANGED view

\* The client shows the events that follow, up to position n.
Show == /\ \E n \in (Len(view) + 1)..log : view' = Prefix(n)
        /\ UNCHANGED log

\* The client empties its view to load it again.
Clear == view' = <<>> /\ UNCHANGED log

FeedNext == Record \/ Show \/ Clear

Feed == FeedInit /\ [][FeedNext]_<<log, view>>
=============================================================================
