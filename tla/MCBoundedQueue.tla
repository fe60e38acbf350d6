---------------------------- MODULE MCBoundedQueue ----------------------------
(* A small instance of BoundedQueue for TLC. *)
EXTENDS BoundedQueue

CONSTANTS little, small, big, huge

\* With ByteCapacity = 2 a big element needs the whole budget, a huge one never
\* fits, and two of size 1 that can be told apart fit together.
SizeDef == [v \in Item |-> CASE v \in {little, small} -> 1 [] v = big -> 2 [] OTHER -> 3]
=============================================================================
