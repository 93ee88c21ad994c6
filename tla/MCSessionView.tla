--------------------------- MODULE MCSessionView ---------------------------
(* Instances of SessionView for TLC.                                        *)
EXTENDS SessionView
=============================================================================
