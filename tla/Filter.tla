------------------------------- MODULE Filter -------------------------------
(***************************************************************************)
(* Array.prototype.filter: the elements of a sequence that are in a set,   *)
(* in their order.  The recursion is a function, so that FilterLemmas can  *)
(* be proved about it.                                                     *)
(***************************************************************************)
EXTENDS Naturals, Sequences

Only(s, keep) ==
    LET kept[n \in 0..Len(s)] ==
            IF n = 0 THEN <<>>
            ELSE IF s[n] \in keep THEN Append(kept[n - 1], s[n])
            ELSE kept[n - 1]
    IN kept[Len(s)]
=============================================================================
