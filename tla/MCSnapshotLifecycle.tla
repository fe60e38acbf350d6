------------------------- MODULE MCSnapshotLifecycle -------------------------
(* Small instances of SnapshotLifecycle for TLC. *)
EXTENDS SnapshotLifecycle, TLC

\* Handles and source paths are interchangeable.
HandleEntrySymmetry == Permutations(Handle) \cup Permutations(Entry)
=============================================================================
