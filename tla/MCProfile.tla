------------------------------ MODULE MCProfile ------------------------------
(* Instances of Profile for TLC.                                           *)
EXTENDS Profile, TLC

(* Slots, photos and contents are interchangeable.                         *)
Symmetry == Permutations(Requests) \cup Permutations(Photos) \cup Permutations(Texts)

AllOps == Endpoints
=============================================================================
