------------------------ MODULE MCProgressAggregator ------------------------
(* A small instance of ProgressAggregator for TLC. *)
EXTENDS ProgressAggregator, TLC
=============================================================================
