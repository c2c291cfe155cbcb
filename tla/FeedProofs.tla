----------------------------- MODULE FeedProofs -----------------------------
(* Proofs about Feed: for any number of ads, any page size and any places. *)
EXTENDS Feed, FiniteSetTheorems, TLAPS

Active(a) == ads[a].status = "active"

(* An ad whose row stands where it stood, as far as the scan can tell.     *)
Fixed(a) == Active(a) /\ ~Drifted(a) /\ (watch.sort = "date" \/ place[a] # None)
Placed(a) == Position(watch.sort, watch.point, a)

Running == scan.cursor # NoCursor

(* What a request has learnt about the viewer stays true.                  *)
Begun ==
    /\ Running \/ req.pc \in {"viewerEffectivePoint", "feedPage", "tagsByAdIDs"}
          => viewer.created
    /\ At("viewerEffectivePoint") => ~Running
    /\ ~At("idle") => ~scan.ended
    /\ scan.ended => ~Running

(* Before the first answer nothing has been shown, and before the first    *)
(* query nothing is watched.                                               *)
FirstPage ==
    ~Running /\ ~scan.ended =>
        /\ scan.shown = {} /\ scan.again = {}
        /\ req.pc \in {"profileForUser", "viewerEffectivePoint", "feedPage"} => watch.steady = {}

(* All pages of a scan have the sort and the origin of the first.          *)
Pinned ==
    /\ Running => /\ watch.sort = scan.cursor.sort
                  /\ watch.point = scan.cursor.point
    /\ Running \/ At("tagsByAdIDs") => (scan.city = None => watch.point # None)
    /\ At("feedPage") => (scan.city = None => req.point # None)
    /\ (At("feedPage") /\ Running) \/ At("tagsByAdIDs") =>
          req.sort = watch.sort /\ req.point = watch.point
    /\ At("tagsByAdIDs") /\ req.next # NoCursor =>
          req.next.sort = watch.sort /\ req.next.point = watch.point

SteadyListed ==
    \A a \in watch.steady : Active(a) /\ Suits(place[a], scan.city, watch.point)

ShownExist == \A a \in scan.shown \cup req.page : ads[a].status \in {"active", "gone"}

(* The cursor divides the list: what was shown is behind it, what is       *)
(* steady and was not is ahead.                                            *)
Divides ==
    Running =>
        /\ \A a \in scan.shown : Fixed(a) => ~Less(scan.cursor.pos, Placed(a))
        /\ \A a \in watch.steady \ scan.shown : Drifted(a) \/ Less(scan.cursor.pos, Placed(a))

(* And so will the next one, when the answer arrives.                      *)
WillDivide ==
    At("tagsByAdIDs") =>
        /\ \A a \in req.page \cap scan.shown : Drifted(a)
        /\ Running /\ req.next # NoCursor => Less(scan.cursor.pos, req.next.pos)
        /\ req.next # NoCursor =>
              \A a \in scan.shown \cup req.page : Fixed(a) => ~Less(req.next.pos, Placed(a))
        /\ \A a \in watch.steady \ (scan.shown \cup req.page) :
              Drifted(a) \/ (req.next # NoCursor /\ Less(req.next.pos, Placed(a)))

Inv == /\ TypeOK /\ Begun /\ FirstPage /\ Pinned /\ SteadyListed /\ ShownExist
       /\ Divides /\ WillDivide /\ ShownOnce /\ SteadyShown

(* Positions are pairs of integers, as far as they are defined.            *)
LEMMA PositionType ==
    ASSUME TypeOK, NEW sort \in Sorts, NEW point \in Points \cup {None}, NEW a \in Ads,
           sort = "distance" => point # None /\ place[a] # None
    PROVE  Position(sort, point, a) \in Int \X Int
<1>1. CASE sort = "date"
  <2>1. ads[a].created \in Nat /\ a \in Nat
        BY FeedAssumption DEF TypeOK
  <2> QED
      BY <1>1, <2>1 DEF Position
<1>2. CASE sort = "distance"
  <2>1. point \in Points /\ place[a] \in Places
        BY <1>2 DEF TypeOK
  <2>2. place[a].point \in Points
        BY <2>1, FeedAssumption
  <2>3. Distance[point][place[a].point] \in Nat
        BY <2>1, <2>2, FeedAssumption
  <2> QED
      BY <1>2, <2>3, FeedAssumption DEF Position
<1> QED
    BY <1>1, <1>2 DEF Sorts

LEMMA LessTotal ==
    ASSUME NEW x \in Int \X Int, NEW y \in Int \X Int, NEW z \in Int \X Int
    PROVE  /\ ~Less(x, x)
           /\ Less(x, y) => ~Less(y, x)
           /\ Less(x, y) /\ Less(y, z) => Less(x, z)
           /\ ~Less(x, y) /\ Less(z, y) => Less(z, x) \/ z = x
           /\ ~Less(x, y) /\ ~Less(y, x) => x = y
    BY DEF Less

(* A row of the list has a position in the order of the query.             *)
LEMMA RestPositions ==
    ASSUME TypeOK, NEW a \in Rest
    PROVE  /\ a \in Ads /\ Active(a) /\ place[a] # None
           /\ Suits(place[a], scan.city, req.point)
           /\ Pos(a) \in Int \X Int
<1>1. /\ a \in Ads /\ Active(a) /\ place[a] # None
      /\ Suits(place[a], scan.city, req.point)
      BY DEF Rest, Candidates, Suits, Active
<1>2. req.sort \in Sorts /\ req.point \in Points \cup {None} /\ HasOrigin(req)
      BY DEF TypeOK, Request
<1>3. Pos(a) \in Int \X Int
      BY <1>1, <1>2, PositionType DEF Pos, HasOrigin
<1> QED
    BY <1>1, <1>3

LEMMA NoneTyped == NoCursor \in Cursor /\ NoRequest \in Request
    BY DEF NoCursor, Cursor, HasOrigin, NoRequest, Request, Sorts

LEMMA InitTyped == Init => TypeOK
<1> SUFFICES ASSUME Init PROVE TypeOK
    OBVIOUS
<1> QED
    BY NoneTyped DEF Init, TypeOK, Unborn, NoScan, NoWatch, Sorts

(* What the page and its cursor are of.                                    *)
LEMMA PageTyped ==
    ASSUME TypeOK, NEW rows \in SUBSET Rest, NEW last \in rows
    PROVE  rows \in SUBSET Ads /\ NextCursor(rows, last) \in Cursor
<1>1. rows \in SUBSET Ads
      BY DEF Rest, Candidates
<1>2. req.sort \in Sorts /\ req.point \in Points \cup {None} /\ HasOrigin(req)
      BY DEF TypeOK, Request
<1>3. Pos(last) \in Int \X Int
      BY RestPositions
<1> QED
    BY <1>1, <1>2, <1>3, NoneTyped DEF NextCursor, Cursor, HasOrigin

LEMMA AnswerTyped ==
    ASSUME TypeOK, NEW page \in SUBSET Ads, NEW next \in Cursor, Answer(page, next)
    PROVE  /\ scan' \in [city : Cities \cup {None}, sort : Sorts, cursor : Cursor,
                         shown : SUBSET Ads, again : SUBSET Ads, ended : BOOLEAN]
           /\ req' \in Request
<1>1. scan.shown \in SUBSET Ads /\ scan.again \in SUBSET Ads
      BY DEF TypeOK
<1>2. (next = NoCursor) \in BOOLEAN
      OBVIOUS
<1> QED
    BY <1>1, <1>2, NoneTyped DEF Answer, TypeOK

LEMMA QueryTyped ==
    ASSUME TypeOK, NEW sort \in Sorts, NEW point \in Points \cup {None},
           sort = "distance" => point # None, Query(sort, point)
    PROVE  /\ scan' \in [city : Cities \cup {None}, sort : Sorts, cursor : Cursor,
                         shown : SUBSET Ads, again : SUBSET Ads, ended : BOOLEAN]
           /\ req' \in Request
<1>1. CASE scan.city = None /\ point = None
      BY <1>1, AnswerTyped, NoneTyped DEF Query
<1>2. CASE ~(scan.city = None /\ point = None)
      BY <1>2 DEF Query, TypeOK, Request, HasOrigin
<1> QED
    BY <1>1, <1>2

LEMMA NextTyped == TypeOK /\ [Next]_vars => TypeOK'
<1> SUFFICES ASSUME TypeOK, [Next]_vars PROVE TypeOK'
    OBVIOUS
<1> USE DEF world
<1>1. CASE Tick
      BY <1>1 DEF Tick, TypeOK
<1>2. ASSUME NEW a \in Ads, InsertAd(a) \/ Commit(a) PROVE TypeOK'
      BY <1>2 DEF InsertAd, Commit, TypeOK
<1>3. ASSUME NEW a \in Ads, Leave(a) PROVE TypeOK'
      BY <1>3 DEF Leave, TypeOK
<1>4. ASSUME NEW a \in Ads, NEW pl \in Places \cup {None}, Move(a, pl) PROVE TypeOK'
      BY <1>4 DEF Move, TypeOK
<1>5. CASE ViewerChanges
      BY <1>5 DEF ViewerChanges, TypeOK
<1>6. CASE StartScan
      BY <1>6, NoneTyped DEF StartScan, TypeOK, NoScan, NoWatch, NoRequest, Request, Sorts, HasOrigin
<1>7. CASE NextPage
      BY <1>7, NoneTyped DEF NextPage, TypeOK, NoWatch, NoRequest, Request, Sorts, HasOrigin
<1>8. CASE Fail
      BY <1>8, NoneTyped DEF Fail, TypeOK
<1>9. CASE ProfileForUser
  <2>1. CASE ~viewer.created
        BY <1>9, <2>1, AnswerTyped, NoneTyped DEF ProfileForUser, TypeOK
  <2>2. CASE viewer.created /\ scan.cursor # NoCursor
    <3>1. Query(scan.cursor.sort, Origin)
          BY <1>9, <2>2 DEF ProfileForUser
    <3>2. /\ scan.cursor.sort \in Sorts /\ Origin \in Points \cup {None}
          /\ scan.cursor.sort = "distance" => Origin # None
          BY <2>2 DEF TypeOK, Cursor, HasOrigin, Origin
    <3> QED
        BY <1>9, <3>1, <3>2, QueryTyped DEF ProfileForUser, TypeOK
  <2>3. CASE viewer.created /\ scan.cursor = NoCursor
        BY <1>9, <2>3 DEF ProfileForUser, TypeOK, Request, HasOrigin
  <2> QED
      BY <2>1, <2>2, <2>3 DEF TypeOK
<1>10. CASE ViewerEffectivePoint
  <2>1. viewer.point \in Points \cup {None} /\ scan.sort \in Sorts
        BY DEF TypeOK
  <2>2. SortFor(scan.sort, viewer.point) \in Sorts
        BY <2>1 DEF SortFor, Sorts
  <2>3. SortFor(scan.sort, viewer.point) = "distance" => viewer.point # None
        BY DEF SortFor
  <2> QED
      BY <1>10, <2>1, <2>2, <2>3, QueryTyped DEF ViewerEffectivePoint, TypeOK
<1>11. CASE FeedPage
  <2>1. watch' \in [sort : Sorts, point : Points \cup {None},
                    steady : SUBSET Ads, moved : SUBSET Ads]
    <3>1. req.sort \in Sorts /\ req.point \in Points \cup {None} /\ Candidates \in SUBSET Ads
          BY DEF TypeOK, Request, Candidates
    <3> QED
        BY <1>11, <3>1 DEF FeedPage, Watch, TypeOK
  <2>2. PICK rows \in SUBSET Rest :
           IF rows = {} THEN Answer({}, NoCursor)
           ELSE \E last \in rows :
                /\ req' = [req EXCEPT !.pc = "tagsByAdIDs", !.page = rows,
                                      !.next = NextCursor(rows, last)]
                /\ UNCHANGED scan
        BY <1>11 DEF FeedPage
  <2>3. CASE rows = {}
        BY <1>11, <2>1, <2>2, <2>3, AnswerTyped, NoneTyped DEF FeedPage, TypeOK
  <2>4. ASSUME NEW last \in rows, UNCHANGED scan,
               req' = [req EXCEPT !.pc = "tagsByAdIDs", !.page = rows,
                                  !.next = NextCursor(rows, last)]
        PROVE  TypeOK'
    <3>1. rows \in SUBSET Ads /\ NextCursor(rows, last) \in Cursor
          BY PageTyped
    <3>2. req' \in Request
          BY <2>4, <3>1 DEF TypeOK, Request, HasOrigin
    <3> QED
        BY <1>11, <2>1, <2>4, <3>2 DEF FeedPage, TypeOK
  <2> QED
      BY <2>2, <2>3, <2>4
<1>12. CASE TagsByAdIDs
  <2>1. req.page \in SUBSET Ads /\ req.next \in Cursor
        BY DEF TypeOK, Request
  <2> QED
      BY <1>12, <2>1, AnswerTyped DEF TagsByAdIDs, TypeOK
<1>13. CASE UNCHANGED vars
      BY <1>13 DEF vars, TypeOK
<1> QED
    BY <1>1, <1>2, <1>3, <1>4, <1>5, <1>6, <1>7, <1>8, <1>9, <1>10, <1>11, <1>12, <1>13
       DEF Next, Statement

(* Every variable is of its type in every reachable state.                 *)
THEOREM TypeCorrect == Spec => []TypeOK
    BY InitTyped, NextTyped, PTL DEF Spec

-----------------------------------------------------------------------------

LEMMA InitInv == Init => Inv
    BY InitTyped DEF Init, Inv, Begun, FirstPage, Pinned, SteadyListed, ShownExist, Divides,
       WillDivide, ShownOnce, SteadyShown, NoScan, NoRequest, NoWatch, At, Running

(* A change of the world keeps the invariant when it keeps every row where *)
(* it stands, takes it off the list, or is recorded as a move.             *)
LEMMA WorldKeeps ==
    ASSUME Inv, TypeOK', UNCHANGED <<scan, req>>,
           watch'.sort = watch.sort, watch'.point = watch.point,
           watch'.steady \subseteq watch.steady,
           viewer.created => viewer'.created,
           \A a \in Ads :
              /\ a \in watch'.steady =>
                    Active(a)' /\ Suits(place'[a], scan.city, watch.point)
              /\ ads[a].status \in {"active", "gone"} => ads'[a].status \in {"active", "gone"}
              /\ Drifted(a) => Drifted(a)'
              /\ ads[a].status \in {"active", "gone"} /\ Fixed(a)' =>
                    Fixed(a) /\ Placed(a)' = Placed(a)
              /\ a \in watch'.steady /\ ~Drifted(a)' => Placed(a)' = Placed(a)
    PROVE  Inv'
<1>0. /\ watch.steady \subseteq Ads /\ scan.shown \subseteq Ads /\ scan.again \subseteq Ads
      /\ req.page \subseteq Ads /\ watch'.steady \subseteq Ads
      BY DEF Inv, TypeOK, Request
<1>1. Begun' /\ FirstPage' /\ Pinned'
      BY DEF Inv, Begun, FirstPage, Pinned, Running, At
<1>2. SteadyListed'
      BY <1>0 DEF SteadyListed
<1>3. ShownExist'
      BY <1>0 DEF Inv, ShownExist
<1>4. Divides'
      BY <1>0 DEF Inv, Divides, ShownExist, Running
<1>5. WillDivide'
  <2> SUFFICES ASSUME At("tagsByAdIDs") PROVE WillDivide'
      BY DEF WillDivide, At
  <2>1. \A a \in req.page \cap scan.shown : Drifted(a)'
        BY <1>0 DEF Inv, WillDivide
  <2>2. Running /\ req.next # NoCursor => Less(scan.cursor.pos, req.next.pos)
        BY DEF Inv, WillDivide
  <2>3. req.next # NoCursor =>
           \A a \in scan.shown \cup req.page : Fixed(a)' => ~Less(req.next.pos, Placed(a)')
        BY <1>0 DEF Inv, WillDivide, ShownExist
  <2>4. \A a \in watch'.steady \ (scan.shown \cup req.page) :
           Drifted(a)' \/ (req.next # NoCursor /\ Less(req.next.pos, Placed(a)'))
        BY <1>0 DEF Inv, WillDivide
  <2> QED
      BY <2>1, <2>2, <2>3, <2>4 DEF WillDivide, Running
<1>6. ShownOnce' /\ SteadyShown'
      BY <1>0 DEF Inv, ShownOnce, SteadyShown
<1> QED
    BY <1>1, <1>2, <1>3, <1>4, <1>5, <1>6 DEF Inv

LEMMA WorldSteps ==
    ASSUME Inv, TypeOK'
    PROVE  /\ Tick => Inv'
           /\ \A a \in Ads : InsertAd(a) \/ Commit(a) \/ Leave(a) => Inv'
           /\ \A a \in Ads, pl \in Places \cup {None} : Move(a, pl) => Inv'
           /\ ViewerChanges => Inv'
<1> USE DEF Inv
<1>0. /\ \A a \in Ads : ads[a] \in [status : {"none", "inserted", "active", "gone"}, created : Nat]
      /\ ads \in [Ads -> [status : {"none", "inserted", "active", "gone"}, created : Nat]]
      /\ place \in [Ads -> Places \cup {None}]
      /\ watch \in [sort : Sorts, point : Points \cup {None}, steady : SUBSET Ads, moved : SUBSET Ads]
      /\ viewer \in [created : BOOLEAN, point : Points \cup {None}]
      BY DEF TypeOK
<1>1. ASSUME Tick PROVE Inv'
      BY <1>1, WorldKeeps DEF Tick, SteadyListed, Active, Drifted, Fixed, Placed, Position
<1>2. ASSUME NEW a \in Ads, InsertAd(a) \/ Commit(a) PROVE Inv'
  <2>1. ads[a].status \in {"none", "inserted"} /\ UNCHANGED <<place, viewer, scan, req, watch>>
        BY <1>2 DEF InsertAd, Commit
  <2>2. \A b \in Ads \ {a} : ads'[b] = ads[b]
        BY <1>0, <1>2 DEF InsertAd, Commit
  <2>3. a \notin watch.steady
        BY <2>1 DEF SteadyListed, Active
  <2>4. \A b \in Ads :
              /\ b \in watch'.steady =>
                    Active(b)' /\ Suits(place'[b], scan.city, watch.point)
              /\ ads[b].status \in {"active", "gone"} => ads'[b].status \in {"active", "gone"}
              /\ Drifted(b) => Drifted(b)'
              /\ ads[b].status \in {"active", "gone"} /\ Fixed(b)' =>
                    Fixed(b) /\ Placed(b)' = Placed(b)
              /\ b \in watch'.steady /\ ~Drifted(b)' => Placed(b)' = Placed(b)
        BY <2>1, <2>2, <2>3 DEF SteadyListed, Active, Drifted, Fixed, Placed, Position
  <2> QED
      BY <2>1, <2>4, WorldKeeps
<1>3. ASSUME NEW a \in Ads, Leave(a) PROVE Inv'
  <2>1. \A b \in Ads \ {a} : ads'[b] = ads[b] /\ place'[b] = place[b]
        BY <1>0, <1>3 DEF Leave
  <2>2. /\ ads'[a].status = "gone" /\ UNCHANGED <<viewer, scan, req>>
        /\ watch' = [watch EXCEPT !.steady = @ \ {a}]
        BY <1>0, <1>3 DEF Leave
  <2>3. /\ watch'.steady = watch.steady \ {a} /\ watch'.sort = watch.sort
        /\ watch'.point = watch.point /\ watch'.moved = watch.moved
        BY <1>0, <2>2
  <2>4. \A b \in Ads :
              /\ b \in watch'.steady =>
                    Active(b)' /\ Suits(place'[b], scan.city, watch.point)
              /\ ads[b].status \in {"active", "gone"} => ads'[b].status \in {"active", "gone"}
              /\ Drifted(b) => Drifted(b)'
              /\ ads[b].status \in {"active", "gone"} /\ Fixed(b)' =>
                    Fixed(b) /\ Placed(b)' = Placed(b)
              /\ b \in watch'.steady /\ ~Drifted(b)' => Placed(b)' = Placed(b)
        BY <2>1, <2>2, <2>3 DEF SteadyListed, Active, Drifted, Fixed, Placed, Position
  <2> QED
      BY <2>2, <2>3, <2>4, WorldKeeps
<1>4. ASSUME NEW a \in Ads, NEW pl \in Places \cup {None}, Move(a, pl) PROVE Inv'
  <2>1. /\ UNCHANGED <<ads, viewer, scan, req>> /\ place'[a] = pl
        /\ \A b \in Ads \ {a} : place'[b] = place[b]
        BY <1>0, <1>4 DEF Move
  <2>2. /\ watch'.steady = IF Suits(pl, scan.city, watch.point) THEN watch.steady
                           ELSE watch.steady \ {a}
        /\ watch'.sort = watch.sort /\ watch'.point = watch.point
        /\ watch'.moved = IF watch.sort = "distance" THEN watch.moved \cup {a} ELSE watch.moved
        BY <1>0, <1>4 DEF Move
  <2>3. watch.sort \in {"date", "distance"}
        BY <1>0 DEF Sorts
  <2>4. \A b \in Ads :
              /\ b \in watch'.steady =>
                    Active(b)' /\ Suits(place'[b], scan.city, watch.point)
              /\ ads[b].status \in {"active", "gone"} => ads'[b].status \in {"active", "gone"}
              /\ Drifted(b) => Drifted(b)'
        BY <2>1, <2>2 DEF SteadyListed, Active, Drifted
  <2>5. \A b \in Ads : ~Drifted(b)' => Placed(b)' = Placed(b) /\ (Fixed(b)' => Fixed(b))
        BY <2>1, <2>2, <2>3 DEF Active, Drifted, Fixed, Placed, Position
  <2> QED
      BY <2>1, <2>2, <2>4, <2>5, WorldKeeps DEF Fixed
<1>5. ASSUME ViewerChanges PROVE Inv'
  <2>1. viewer.created => viewer'.created
        BY <1>0, <1>5 DEF ViewerChanges
  <2> QED
      BY <1>5, <2>1, WorldKeeps DEF ViewerChanges, SteadyListed, Active, Drifted, Fixed, Placed, Position
<1> QED
    BY <1>1, <1>2, <1>3, <1>4, <1>5

(* A new scan, a new request and a lost answer.                            *)
LEMMA ClientSteps == ASSUME Inv, TypeOK', StartScan \/ NextPage \/ Fail PROVE Inv'
<1>1. CASE StartScan
      BY <1>1 DEF StartScan, Inv, Begun, FirstPage, Pinned, SteadyListed, ShownExist, Divides,
         WillDivide, ShownOnce, SteadyShown, NoScan, NoRequest, NoWatch, At, Running, world
<1>2. CASE NextPage
  <2> USE <1>2 DEF NextPage, world, NoRequest, At
  <2>1. CASE Running
    <3>1. UNCHANGED <<world, scan, watch>>
          BY <2>1 DEF Running
    <3> QED
        BY <2>1, <3>1 DEF Inv, Begun, FirstPage, Pinned, SteadyListed, ShownExist, Divides,
           WillDivide, ShownOnce, SteadyShown, Running, Active, Fixed, Drifted, Placed, Position
  <2>2. CASE ~Running
    <3>1. watch' = NoWatch /\ UNCHANGED <<world, scan>>
          BY <2>2 DEF Running
    <3> QED
        BY <2>2, <3>1 DEF Inv, Begun, FirstPage, Pinned, SteadyListed, ShownExist, Divides,
           WillDivide, ShownOnce, SteadyShown, Running, NoWatch
  <2> QED
      BY <2>1, <2>2
<1>3. CASE Fail
      BY <1>3 DEF Fail, Inv, Begun, FirstPage, Pinned, SteadyListed, ShownExist, Divides,
         WillDivide, ShownOnce, SteadyShown, NoRequest, At, Running, world,
         Active, Fixed, Drifted, Placed, Position
<1> QED
    BY <1>1, <1>2, <1>3

(* The end of a scan with an empty answer.                                 *)
LEMMA EmptyEnds ==
    ASSUME Inv, TypeOK', UNCHANGED world, Answer({}, NoCursor),
           \A a \in watch'.steady : Active(a)' /\ Suits(place[a], scan.city, watch'.point),
           \A a \in watch'.steady \ scan.shown : Drifted(a)',
           \A a \in scan.again : Drifted(a)'
    PROVE  Inv'
<1>1. /\ scan'.shown = scan.shown /\ scan'.again = scan.again /\ scan'.city = scan.city
      /\ scan'.ended = TRUE /\ scan'.cursor = NoCursor /\ req' = NoRequest
      BY DEF Answer, Inv, TypeOK
<1> QED
    BY <1>1 DEF Inv, Begun, FirstPage, Pinned, SteadyListed, ShownExist, Divides,
       WillDivide, ShownOnce, SteadyShown, NoRequest, At, Running, world

LEMMA LookupSteps == ASSUME Inv, TypeOK', ProfileForUser \/ ViewerEffectivePoint PROVE Inv'
<1> USE DEF Inv
<1>0. /\ UNCHANGED <<world, watch>>
      /\ At("profileForUser") \/ At("viewerEffectivePoint")
      BY DEF ProfileForUser, ViewerEffectivePoint
<1>1. ~scan.ended
      BY <1>0 DEF Begun, At
<1>2. ASSUME ~Running, Answer({}, NoCursor) PROVE Inv'
  <2>1. watch.steady = {} /\ scan.again = {}
        BY <1>0, <1>1, <1>2 DEF FirstPage, At
  <2> QED
      BY <1>0, <1>2, <2>1, EmptyEnds
<1>3. ASSUME NEW sort \in Sorts, NEW point \in Points \cup {None},
             ~(scan.city = None /\ point = None), Query(sort, point), viewer.created,
             Running => sort = scan.cursor.sort /\ point = scan.cursor.point
      PROVE  Inv'
  <2>1. req' = [req EXCEPT !.pc = "feedPage", !.sort = sort, !.point = point] /\ UNCHANGED scan
        BY <1>3 DEF Query
  <2>2. /\ req'.pc = "feedPage" /\ req'.sort = sort /\ req'.point = point
        /\ req'.page = req.page
        BY <2>1 DEF TypeOK, Request
  <2>3. UNCHANGED <<ads, place, viewer, scan, watch>>
        BY <1>0, <2>1 DEF world
  <2>4. Begun' /\ FirstPage'
        BY <1>0, <1>1, <1>3, <2>2, <2>3 DEF Begun, FirstPage, At, Running
  <2>5. Pinned'
        BY <1>3, <2>2, <2>3 DEF Pinned, At, Running
  <2> QED
      BY <2>2, <2>3, <2>4, <2>5 DEF SteadyListed, ShownExist, Divides,
         WillDivide, ShownOnce, SteadyShown, At, Running, Active, Fixed, Drifted, Placed, Position
<1>4. CASE ProfileForUser
  <2>1. CASE ~viewer.created
        BY <1>2, <1>4, <2>1 DEF ProfileForUser, Begun
  <2>2. CASE viewer.created /\ Running
    <3>1. Query(scan.cursor.sort, scan.cursor.point)
          BY <1>4, <2>2 DEF ProfileForUser, Running, Origin
    <3>2. scan.cursor.sort \in Sorts /\ scan.cursor.point \in Points \cup {None}
          BY <2>2 DEF TypeOK, Cursor, Running
    <3>3. ~(scan.city = None /\ scan.cursor.point = None)
          BY <2>2 DEF Pinned
    <3> QED
        BY <1>3, <2>2, <3>1, <3>2, <3>3
  <2>3. CASE viewer.created /\ ~Running
    <3>1. req' = [req EXCEPT !.pc = "viewerEffectivePoint"] /\ UNCHANGED scan
          BY <1>4, <2>3 DEF ProfileForUser, Running
    <3>2. req'.pc = "viewerEffectivePoint" /\ req'.page = req.page
          BY <3>1 DEF TypeOK, Request
    <3>3. watch.steady = {}
          BY <1>0, <1>1, <2>3 DEF FirstPage, At
    <3> QED
        BY <1>0, <1>1, <2>3, <3>1, <3>2, <3>3 DEF Begun, FirstPage, Pinned, SteadyListed, ShownExist, Divides,
           WillDivide, ShownOnce, SteadyShown, At, Running, world, Drifted
  <2> QED
      BY <2>1, <2>2, <2>3 DEF TypeOK
<1>5. CASE ViewerEffectivePoint
  <2>1. ~Running /\ viewer.created
        BY <1>5 DEF ViewerEffectivePoint, Begun, At
  <2>2. Query(SortFor(scan.sort, viewer.point), viewer.point)
        BY <1>5 DEF ViewerEffectivePoint
  <2>3. /\ viewer.point \in Points \cup {None}
        /\ SortFor(scan.sort, viewer.point) \in Sorts
        BY DEF TypeOK, SortFor, Sorts
  <2>4. CASE scan.city = None /\ viewer.point = None
        BY <1>2, <2>1, <2>2, <2>4 DEF Query
  <2>5. CASE ~(scan.city = None /\ viewer.point = None)
        BY <1>3, <2>1, <2>2, <2>3, <2>5
  <2> QED
      BY <2>4, <2>5
<1> QED
    BY <1>4, <1>5

(* What the query of a page finds, against what is watched.                *)
LEMMA PageFound ==
    ASSUME Inv, FeedPage
    PROVE  /\ UNCHANGED world /\ ~scan.ended /\ viewer.created
           /\ watch'.sort = req.sort /\ watch'.point = req.point
           /\ scan.city = None => watch'.point # None
           /\ \A a \in watch'.steady : Active(a)' /\ Suits(place[a], scan.city, watch'.point)
           /\ \A a \in watch'.steady \ scan.shown : Drifted(a)' \/ a \in Rest
           /\ \A a \in Rest \cap scan.shown : Drifted(a)'
           /\ \A a \in scan.again : Drifted(a)'
           /\ \A a \in scan.shown : Running /\ Fixed(a)' => ~Less(scan.cursor.pos, Pos(a))
<1> USE DEF Inv
<1>1. At("feedPage") /\ UNCHANGED world /\ UNCHANGED <<ads, place, viewer>> /\ watch' = Watch
      BY DEF FeedPage, world
<1>2. ~scan.ended /\ viewer.created /\ (scan.city = None => req.point # None)
      BY <1>1 DEF Begun, Pinned, At
<1>3. CASE Running
  <2>1. watch' = watch /\ watch.sort = req.sort /\ watch.point = req.point
        BY <1>1, <1>3 DEF Watch, Running, Pinned
  <2>2. \A a \in watch.steady \cup scan.shown : a \in Ads /\ Placed(a) = Pos(a)
        BY <2>1 DEF Placed, Pos, TypeOK
  <2>3. \A a \in watch.steady \ scan.shown : Drifted(a) \/ a \in Rest
        BY <1>3, <2>1, <2>2 DEF Divides, SteadyListed, Rest, Candidates, Beyond, Active
  <2>4. \A a \in Rest \cap scan.shown : Drifted(a)
        BY <1>3, <2>1, <2>2, RestPositions DEF Divides, Rest, Beyond, Fixed, Running
  <2>5. \A a \in scan.shown : Fixed(a) => ~Less(scan.cursor.pos, Pos(a))
        BY <1>3, <2>2 DEF Divides
  <2> QED
      BY <1>1, <1>2, <2>1, <2>3, <2>4, <2>5 DEF SteadyListed, ShownOnce, Drifted, Active, Fixed
<1>4. CASE ~Running
  <2>1. watch' = [sort |-> req.sort, point |-> req.point, steady |-> Candidates, moved |-> {}]
        BY <1>1, <1>4 DEF Watch, Running
  <2>2. scan.shown = {} /\ scan.again = {}
        BY <1>2, <1>4 DEF FirstPage
  <2>3. Rest = Candidates
        BY <1>4 DEF Rest, Running, Candidates
  <2> QED
      BY <1>1, <1>2, <1>4, <2>1, <2>2, <2>3 DEF Candidates, Active
<1> QED
    BY <1>3, <1>4

LEMMA PageStep == ASSUME Inv, TypeOK', FeedPage PROVE Inv'
<1> USE DEF Inv
<1>1. PICK rows \in SUBSET Rest :
         /\ IsPage(rows)
         /\ IF rows = {} THEN Answer({}, NoCursor)
            ELSE \E last \in rows :
                 /\ IsLast(last, rows)
                 /\ req' = [req EXCEPT !.pc = "tagsByAdIDs", !.page = rows,
                                       !.next = NextCursor(rows, last)]
                 /\ UNCHANGED scan
      BY DEF FeedPage
<1>2. CASE rows = {}
  <2>1. Rest = {}
        BY <1>1, <1>2, FS_EmptySet, FeedAssumption DEF IsPage
  <2>2. Answer({}, NoCursor)
        BY <1>1, <1>2
  <2> QED
      BY <2>1, <2>2, PageFound, EmptyEnds
<1>3. ASSUME NEW last \in rows, IsLast(last, rows), UNCHANGED scan,
             req' = [req EXCEPT !.pc = "tagsByAdIDs", !.page = rows,
                                !.next = NextCursor(rows, last)]
      PROVE  Inv'
  <2> DEFINE next == NextCursor(rows, last)
  <2>1. /\ req'.pc = "tagsByAdIDs" /\ req'.page = rows /\ req'.next = next
        /\ req'.sort = req.sort /\ req'.point = req.point
        BY <1>3 DEF TypeOK, Request
  <2>2. /\ UNCHANGED <<ads, place, viewer, scan>> /\ ~scan.ended /\ viewer.created
        /\ watch'.sort = req.sort /\ watch'.point = req.point
        BY <1>3, PageFound DEF world
  <2>3. req.sort \in Sorts /\ req.point \in Points \cup {None} /\ HasOrigin(req)
        BY DEF TypeOK, Request
  <2>4. \A a \in Ads : Placed(a)' = Pos(a)
        BY <2>2 DEF Placed, Pos, Position
  <2>5. \A a \in rows : a \in Ads /\ Active(a) /\ Pos(a) \in Int \X Int
        BY <1>1, RestPositions
  <2>6. \/ next = NoCursor /\ rows = Rest
        \/ /\ next # NoCursor /\ next.pos = Pos(last)
           /\ next.sort = req.sort /\ next.point = req.point
    <3>1. CASE Cardinality(rows) < Limit
          BY <1>1, <3>1, FeedAssumption DEF NextCursor, IsPage
    <3>2. CASE ~(Cardinality(rows) < Limit)
      <4>1. next = [sort |-> req.sort, pos |-> Pos(last), point |-> req.point]
            BY <3>2 DEF NextCursor
      <4>2. next.sort = req.sort /\ req.sort # "none" /\ NoCursor.sort = "none"
            BY <2>3, <4>1 DEF NoCursor, Sorts
      <4> QED
          BY <4>1, <4>2
    <3> QED
        BY <3>1, <3>2
  <2>7. Running => scan.cursor.pos \in Int \X Int /\ Less(scan.cursor.pos, Pos(last))
        BY <1>1 DEF Running, TypeOK, Cursor, Rest, Beyond
  <2>8. Begun' /\ FirstPage'
        BY <2>1, <2>2 DEF Begun, FirstPage, Running, At
  <2>9. Pinned'
    <3>1. Running => watch' = watch
          BY DEF FeedPage, Watch, Running
    <3> QED
        BY <2>1, <2>2, <2>6, <3>1, PageFound DEF Pinned, Running, At
  <2>10. SteadyListed'
        BY <2>2, PageFound DEF SteadyListed
  <2>11. ShownExist'
        BY <2>1, <2>2, <2>5 DEF ShownExist, Active
  <2>12. Divides'
    <3>1. Running => watch' = watch
          BY DEF FeedPage, Watch, Running
    <3> QED
        BY <2>2, <3>1 DEF Divides, Running, Fixed, Active, Drifted, Placed, Position
  <2>13. ASSUME next # NoCursor, NEW a \in scan.shown \cup rows, Fixed(a)'
         PROVE  ~Less(next.pos, Placed(a)')
    <3>1. a \in Ads /\ Placed(a)' = Pos(a)
          BY <2>4, <2>5 DEF TypeOK
    <3>2. Pos(a) \in Int \X Int
      <4>1. req.sort = "distance" => req.point # None /\ place[a] # None
            BY <2>2, <2>3, <2>13 DEF HasOrigin, Fixed
      <4> QED
          BY <2>3, <3>1, <4>1, PositionType DEF Pos
    <3>3. CASE a \in rows
          BY <1>3, <2>5, <2>6, <2>13, <3>1, <3>3, LessTotal DEF IsLast
    <3>4. CASE a \in scan.shown
      <4>1. Running
            BY <2>2, <3>4 DEF FirstPage
      <4>2. ~Less(scan.cursor.pos, Pos(a))
            BY <2>13, <3>4, <4>1, PageFound
      <4> QED
          BY <2>5, <2>6, <2>7, <2>13, <3>1, <3>2, <4>1, <4>2, LessTotal
    <3> QED
        BY <3>3, <3>4
  <2>14. ASSUME NEW a \in watch'.steady \ (scan.shown \cup rows), ~Drifted(a)'
         PROVE  next # NoCursor /\ Less(next.pos, Placed(a)')
    <3>1. a \in Rest /\ a \in Ads
          BY <2>14, PageFound DEF Rest, Candidates
    <3>2. next # NoCursor
          BY <2>6, <2>14, <3>1
    <3>3. Less(Pos(last), Pos(a))
          BY <1>1, <2>14, <3>1 DEF IsPage
    <3> QED
        BY <2>4, <2>6, <3>1, <3>2, <3>3
  <2>15. WillDivide'
    <3>1. \A a \in rows \cap scan.shown : Drifted(a)'
          BY <1>1, PageFound
    <3>2. Running /\ next # NoCursor => Less(scan.cursor.pos, next.pos)
          BY <2>6, <2>7
    <3> QED
        BY <2>1, <2>2, <2>13, <2>14, <3>1, <3>2 DEF WillDivide, Running
  <2>16. ShownOnce' /\ SteadyShown'
        BY <2>2, PageFound DEF ShownOnce, SteadyShown
  <2> QED
      BY <2>8, <2>9, <2>10, <2>11, <2>12, <2>15, <2>16
<1> QED
    BY <1>1, <1>2, <1>3

LEMMA TagsStep == ASSUME Inv, TypeOK', TagsByAdIDs PROVE Inv'
<1> USE DEF Inv
<1>1. /\ At("tagsByAdIDs") /\ UNCHANGED <<ads, place, viewer, watch>>
      /\ scan'.shown = scan.shown \cup req.page
      /\ scan'.again = scan.again \cup (scan.shown \cap req.page)
      /\ scan'.city = scan.city /\ scan'.cursor = req.next
      /\ scan'.ended = (req.next = NoCursor)
      /\ req' = NoRequest
      BY DEF TagsByAdIDs, Answer, TypeOK, world
<1>2. Begun' /\ FirstPage'
      BY <1>1 DEF Begun, FirstPage, Running, At, NoRequest
<1>3. Pinned'
      BY <1>1 DEF Pinned, Running, At, NoRequest
<1>4. SteadyListed' /\ ShownExist'
      BY <1>1 DEF SteadyListed, ShownExist, Active, NoRequest
<1>5. Divides'
      BY <1>1 DEF Divides, WillDivide, Running, Fixed, Active, Drifted, Placed, Position
<1>6. WillDivide'
      BY <1>1 DEF WillDivide, At, NoRequest
<1>7. ShownOnce' /\ SteadyShown'
      BY <1>1 DEF ShownOnce, SteadyShown, WillDivide, Drifted
<1> QED
    BY <1>2, <1>3, <1>4, <1>5, <1>6, <1>7

LEMMA NextInv == Inv /\ [Next]_vars => Inv'
<1> SUFFICES ASSUME Inv, [Next]_vars PROVE Inv'
    OBVIOUS
<1>1. TypeOK'
      BY NextTyped DEF Inv
<1>2. CASE UNCHANGED vars
      BY <1>1, <1>2 DEF vars, Inv, Begun, FirstPage, Pinned, SteadyListed, ShownExist, Divides,
         WillDivide, ShownOnce, SteadyShown, At, Running, Active, Fixed, Drifted, Placed, Position
<1> QED
    BY <1>1, <1>2, WorldSteps, ClientSteps, LookupSteps, PageStep, TagsStep DEF Next, Statement

LEMMA AlwaysInv == Spec => []Inv
    BY InitInv, NextInv, PTL DEF Spec

(* Neither lost answers nor anything that happens between two pages makes  *)
(* a scan show an ad twice, unless by distance and that author has moved.  *)
THEOREM NoAdTwice == Spec => []ShownOnce
<1>1. Inv => ShownOnce
      BY DEF Inv
<1> QED
    BY <1>1, AlwaysInv, PTL

(* And nothing that stays on the list falls between two pages.             *)
THEOREM NoAdSkipped == Spec => []SteadyShown
<1>1. Inv => SteadyShown
      BY DEF Inv
<1> QED
    BY <1>1, AlwaysInv, PTL

(* Cursors only go down the list.                                          *)
THEOREM NoCircles == Spec => CursorAdvances
<1> DEFINE Advance == TagsByAdIDs /\ scan.cursor # NoCursor /\ scan'.cursor # NoCursor
                         => /\ Less(scan.cursor.pos, scan'.cursor.pos)
                            /\ scan'.cursor.sort = scan.cursor.sort
                            /\ scan'.cursor.point = scan.cursor.point
<1>1. Inv /\ [Next]_vars => [Advance]_vars
  <2> SUFFICES ASSUME Inv, TagsByAdIDs, scan.cursor # NoCursor, scan'.cursor # NoCursor
               PROVE  Advance
      OBVIOUS
  <2>1. scan'.cursor = req.next /\ At("tagsByAdIDs")
        BY DEF TagsByAdIDs, Answer, Inv, TypeOK
  <2> QED
      BY <2>1 DEF Inv, WillDivide, Pinned, Running
<1> QED
    BY <1>1, AlwaysInv, PTL DEF Spec, CursorAdvances
=============================================================================
