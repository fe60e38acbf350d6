----------------------------- MODULE MCObjectStore -----------------------------
(* A small instance of ObjectStore for TLC. *)
EXTENDS ObjectStore, TLC

CONSTANTS a, b, s1, w1, m1, m2

\* Two objects of one shard.
OneShard == [h \in Hash |-> s1]

\* The workers of one snapshot share their mutex table; a separately created
\* store does not.
TwoTables == [w \in Worker |-> IF w = w1 THEN m1 ELSE m2]
=============================================================================
