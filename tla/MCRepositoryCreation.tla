------------------------ MODULE MCRepositoryCreation ------------------------
(* A small instance of RepositoryCreation for TLC. *)
EXTENDS RepositoryCreation, TLC

\* Creators are interchangeable, and so are openers.
ProcessSymmetry == Permutations(Creator) \cup Permutations(Opener)
=============================================================================
