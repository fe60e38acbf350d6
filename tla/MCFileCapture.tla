---------------------------- MODULE MCFileCapture ----------------------------
(* A small instance of FileCapture for TLC. *)
EXTENDS FileCapture, TLC

CONSTANTS f, g, l

TwoFiles == {f, g}
OneLink == {l}
FineClock == {1}

\* Files are interchangeable: only the one that has the name differs.
FileSymmetry == Permutations(TwoFiles)
=============================================================================
