-------------------------- MODULE MCProgressiveTS --------------------------
(* Instances of ProgressiveTS for TLC.                                     *)
EXTENDS ProgressiveTS, TLC

CONSTANTS r1, r2, w1, w2

TwoRequests == {r1, r2}
TwoWriters == {w1, w2}
MCSymmetry == Permutations(Requests) \cup Permutations(Writers)
=============================================================================
