-------------------------------- MODULE MCGeo --------------------------------
(* Instances of Geo and of the import for TLC.                             *)
EXTENDS CityImport, TLC

CONSTANTS p1, p2, g1, g2, n1, n2

Apart == [pq \in Points \X Points |-> IF pq[1] = pq[2] THEN 0 ELSE 1]
FarApart == {<<p1, p2>>, <<p2, p1>>}

Line(g, pop, p) == [place |-> g, settlement |-> TRUE, country |-> "RU",
                    population |-> pop, at |-> p]
Alt(g, n, preferred) == [place |-> g, lang |-> "ru", name |-> n,
                         preferred |-> preferred, historic |-> FALSE]

(* A dump that has one city twice, and lines that are to be skipped: too   *)
(* small, no settlement, abroad; and a newer one, in which the city has    *)
(* moved and has got a name, and the other has grown.                      *)
Older == [cities |-> <<Line(g1, 2, p2), Line(g2, 0, p1),
                       [Line(g2, 2, p1) EXCEPT !.settlement = FALSE],
                       [Line(g2, 2, p1) EXCEPT !.country = "FR"], Line(g1, 2, p1)>>,
          alt |-> <<>>]
Newer == [cities |-> <<Line(g1, 2, p2), Line(g2, 1, p1)>>,
          alt |-> <<Alt(g1, n1, FALSE), Alt(g2, NoName, TRUE), Alt(g1, n2, TRUE)>>]
TwoDumps == {Older, Newer}

(* The lines about one place, and one about another.                       *)
AltLines == {Alt(g2, n1, TRUE)} \cup
    [place : {g1}, lang : {"ru"}, name : {n1, n2, NoName}, preferred : BOOLEAN, historic : {FALSE}]
    \cup {[Alt(g1, n1, TRUE) EXCEPT !.historic = TRUE], [Alt(g1, n1, TRUE) EXCEPT !.lang = "en"]}
ShortFiles == UNION {[1..n -> AltLines] : n \in 0..3}

Symmetry == Permutations(Requests) \cup Permutations(Cities)
=============================================================================
