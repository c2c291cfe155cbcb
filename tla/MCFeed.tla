------------------------------- MODULE MCFeed -------------------------------
(* Instances of Feed for TLC.                                              *)
EXTENDS Feed

CONSTANTS p, q, c

(* Two points, one unit apart, in one city.                                *)
Around == {[point |-> p, city |-> c], [point |-> q, city |-> c]}
OneApart == [x \in Points |-> [y \in Points |-> IF x = y THEN 0 ELSE 1]]
=============================================================================
