--------------------------- MODULE MCSnapshotPipeline ---------------------------
(* A small instance of SnapshotPipeline for TLC. *)
EXTENDS SnapshotPipeline, TLC

\* Workers are interchangeable.
WorkerSymmetry == Permutations(Worker)
=============================================================================
