--------------------------- MODULE MCRestoreEngine ---------------------------
(* A small snapshot and destination for TLC: a directory with a file, and a  *)
(* link beside the directory.                                                *)
EXTENDS RestoreEngine, TLC

CONSTANTS d, f, l

Tree == {<<>>, <<d>>, <<d, f>>, <<l>>}
TreeType == (<<>> :> "directory") @@ (<<d>> :> "directory")
            @@ (<<d, f>> :> "regular_file") @@ (<<l>> :> "symbolic_link")
TreeChunks == [e \in Tree |-> IF e = <<d, f>> THEN 1 ELSE 0]

\* The whole snapshot with any answers to the prompts, a file with the
\* directories above it, or a link.
SomeRequests == {[policy |-> "prompt", paths |-> {}],
                 [policy |-> "never", paths |-> {<<d, f>>}],
                 [policy |-> "always", paths |-> {<<l>>}]}
=============================================================================
