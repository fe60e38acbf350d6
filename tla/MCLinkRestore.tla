---------------------------- MODULE MCLinkRestore ----------------------------
(* A small instance of LinkRestore for TLC. *)
EXTENDS LinkRestore, TLC

CONSTANTS d1, p1, p2, p3

OneLink == {d1}
ThreeProcesses == {p1, p2, p3}
=============================================================================
