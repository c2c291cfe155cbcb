-------------------------------- MODULE Feed --------------------------------
(* The discovery feed, internal/meeting/feed_*.go: one viewer scrolls      *)
(* through pages of a list that changes under way.  A page is one request; *)
(* the server keeps nothing between two of them, all a scan knows of       *)
(* itself is the cursor that the client sends back.                        *)
(*                                                                         *)
(* One author per ad: an author has one active ad, and one that has ended  *)
(* is never listed again.  The filters by gender, goal, age and tags are   *)
(* properties of an ad that do not change here: Ads are those that pass.   *)
EXTENDS Integers, FiniteSets

CONSTANTS
    Ads,        \* ids; uuids are ordered, so these are numbers
    Points,
    Cities,
    Places,     \* what user_geo can hold: an effective point and its city
    Distance,   \* ST_Distance of two points
    Radius,
    Limit,
    None,
    MaxTime     \* bound on the clock of the database

ASSUME FeedAssumption ==
    /\ Ads \subseteq Nat /\ IsFiniteSet(Ads)
    /\ Places \subseteq [point : Points, city : Cities \cup {None}]
    /\ Distance \in [Points -> [Points -> Nat]]
    /\ Radius \in Nat
    /\ Limit \in Nat \ {0}
    /\ None \notin Points \cup Cities \cup Places
    /\ MaxTime \in Nat

Sorts == {"distance", "date"}

(* Where a row stands in the order of the list: created_at and id          *)
(* descending, or distance and id ascending.                               *)
Less(x, y) == x[1] < y[1] \/ (x[1] = y[1] /\ x[2] < y[2])

(* The cursor: the sort, the last row's place in it, the viewer's point    *)
(* when the scan began.  Sort "none": no cursor.                           *)
NoCursor == [sort |-> "none", pos |-> <<0, 0>>, point |-> None]

VARIABLES
    now,        \* the clock of the database
    ads,        \* meeting_ads: status and created_at
    place,      \* user_geo of the author of each ad, None without a point
    viewer,     \* the viewer's profile and own point
    scan,       \* the client: filters, cursor, what the pages have shown
    req,        \* the request in flight
    watch       \* an observer of the scan, see FeedPage

vars == <<now, ads, place, viewer, scan, req, watch>>
world == <<now, ads, place, viewer>>

Unborn == [status |-> "none", created |-> 0]
NoScan == [city |-> None, sort |-> "date", cursor |-> NoCursor,
           shown |-> {}, again |-> {}, ended |-> TRUE]
NoRequest == [pc |-> "idle", sort |-> "date", point |-> None,
              page |-> {}, next |-> NoCursor]
NoWatch == [sort |-> "date", point |-> None, steady |-> {}, moved |-> {}]

Init ==
    /\ now = 0
    /\ ads = [a \in Ads |-> Unborn]
    /\ place \in [Ads -> Places \cup {None}]
    /\ viewer \in [created : BOOLEAN, point : Points \cup {None}]
    /\ scan = NoScan
    /\ req = NoRequest
    /\ watch = NoWatch

At(stmt) == req.pc = stmt

-----------------------------------------------------------------------------
(* The rest of the system.                                                 *)

Tick ==
    /\ now < MaxTime
    /\ now' = now + 1
    /\ UNCHANGED <<ads, place, viewer, scan, req, watch>>

(* created_at is now() of the transaction, which begins before the COMMIT  *)
(* that makes the ad visible.                                              *)
InsertAd(a) ==
    /\ ads[a].status = "none"
    /\ ads' = [ads EXCEPT ![a] = [status |-> "inserted", created |-> now]]
    /\ UNCHANGED <<now, place, viewer, scan, req, watch>>

Commit(a) ==
    /\ ads[a].status = "inserted"
    /\ ads' = [ads EXCEPT ![a].status = "active"]
    /\ UNCHANGED <<now, place, viewer, scan, req, watch>>

(* The ad is closed, expires, or the viewer likes it.  Where its author    *)
(* is does not matter from then on.                                        *)
Leave(a) ==
    /\ ads[a].status = "active"
    /\ ads' = [ads EXCEPT ![a] = [status |-> "gone", created |-> 0]]
    /\ place' = [place EXCEPT ![a] = None]
    /\ watch' = [watch EXCEPT !.steady = @ \ {a}]
    /\ UNCHANGED <<now, viewer, scan, req>>

(* The author is somewhere else, or nowhere: Geo says when and where.      *)
Suits(pl, city, point) ==
    /\ pl # None
    /\ IF city # None THEN pl.city = city
                      ELSE point # None /\ Distance[point][pl.point] =< Radius

Move(a, pl) ==
    /\ place[a] # pl
    /\ ads[a].status # "gone"
    /\ place' = [place EXCEPT ![a] = pl]
    /\ watch' = [watch EXCEPT
          !.steady = IF Suits(pl, scan.city, watch.point) THEN @ ELSE @ \ {a},
          !.moved = IF watch.sort = "distance" THEN @ \cup {a} ELSE @]
    /\ UNCHANGED <<now, ads, viewer, scan, req>>

(* The viewer completes the profile, or moves.                             *)
ViewerChanges ==
    /\ \/ ~viewer.created /\ viewer' = [viewer EXCEPT !.created = TRUE]
       \/ \E p \in Points \cup {None} : viewer' = [viewer EXCEPT !.point = p]
    /\ UNCHANGED <<now, ads, place, scan, req, watch>>

-----------------------------------------------------------------------------
(* The client.                                                             *)

(* parseFeedFilters: a city or a radius, and one of two sorts.  New        *)
(* filters begin a new scan, without a cursor.                             *)
StartScan ==
    /\ At("idle")
    /\ \E city \in Cities \cup {None}, sort \in Sorts :
          /\ scan' = [NoScan EXCEPT !.city = city, !.sort = sort, !.ended = FALSE]
          /\ req' = [NoRequest EXCEPT !.pc = "profileForUser"]
    /\ watch' = NoWatch
    /\ UNCHANGED world

(* The next page, or the same one when its answer was lost.                *)
NextPage ==
    /\ At("idle")
    /\ ~scan.ended
    /\ req' = [NoRequest EXCEPT !.pc = "profileForUser"]
    /\ watch' = IF scan.cursor = NoCursor THEN NoWatch ELSE watch
    /\ UNCHANGED <<world, scan>>

Answer(page, next) ==
    /\ scan' = [scan EXCEPT !.shown = @ \cup page, !.again = @ \cup (scan.shown \cap page),
                            !.cursor = next, !.ended = (next = NoCursor)]
    /\ req' = NoRequest

Fail ==
    /\ ~At("idle")
    /\ req' = NoRequest
    /\ UNCHANGED <<world, scan, watch>>

-----------------------------------------------------------------------------
(* The statements of a page.                                               *)

(* Radius mode is meaningless without the viewer's location.               *)
Query(sort, point) ==
    IF scan.city = None /\ point = None
    THEN Answer({}, NoCursor)
    ELSE /\ req' = [req EXCEPT !.pc = "feedPage", !.sort = sort, !.point = point]
         /\ UNCHANGED scan

(* Later pages take sort and origin from the cursor, whatever the request  *)
(* says and wherever the viewer is by then.                                *)
MutUnpinned == IF viewer.point # None THEN viewer.point ELSE scan.cursor.point
Origin == scan.cursor.point

ProfileForUser ==
    /\ At("profileForUser")
    /\ IF ~viewer.created THEN Answer({}, NoCursor)
       ELSE IF scan.cursor # NoCursor THEN Query(scan.cursor.sort, Origin)
       ELSE req' = [req EXCEPT !.pc = "viewerEffectivePoint"] /\ UNCHANGED scan
    /\ UNCHANGED <<world, watch>>

(* Without an origin the list cannot be sorted by distance.                *)
MutKeepsSort(sort, point) == sort
SortFor(sort, point) == IF point = None THEN "date" ELSE sort

ViewerEffectivePoint ==
    /\ At("viewerEffectivePoint")
    /\ Query(SortFor(scan.sort, viewer.point), viewer.point)
    /\ UNCHANGED <<world, watch>>

Position(sort, point, a) ==
    IF sort = "date" THEN <<-ads[a].created, -a>>
                     ELSE <<Distance[point][place[a].point], a>>

Pos(a) == Position(req.sort, req.point, a)

Candidates ==
    {a \in Ads : ads[a].status = "active" /\ Suits(place[a], scan.city, req.point)}

(* The keyset condition of the query.                                      *)
MutInclusive(pos, last) == Less(last, pos) \/ pos = last
MutWithoutId(pos, last) == last[1] < pos[1]
Beyond(pos, last) == Less(last, pos)

Rest == {a \in Candidates :
            scan.cursor # NoCursor => Beyond(Pos(a), scan.cursor.pos)}

(* ORDER BY ... LIMIT: the rows ahead of all the others.                   *)
IsPage(rows) ==
    /\ \A a \in rows, b \in Rest \ rows : Less(Pos(a), Pos(b))
    /\ \/ rows = Rest /\ Cardinality(rows) =< Limit
       \/ Cardinality(rows) = Limit

IsLast(last, rows) == \A a \in rows \ {last} : Less(Pos(a), Pos(last))

(* A full page has a cursor, at its last row.                              *)
NextCursor(rows, last) ==
    IF Cardinality(rows) < Limit THEN NoCursor
    ELSE [sort |-> req.sort, pos |-> Pos(last), point |-> req.point]

(* From its first page on, a scan is watched: steady are the ads on the    *)
(* list at that moment that have not left it since, moved are those of     *)
(* authors who have moved.                                                 *)
Watch ==
    IF scan.cursor # NoCursor THEN watch
    ELSE [sort |-> req.sort, point |-> req.point, steady |-> Candidates, moved |-> {}]

FeedPage ==
    /\ At("feedPage")
    /\ \E rows \in SUBSET Rest :
          /\ IsPage(rows)
          /\ IF rows = {} THEN Answer({}, NoCursor)
             ELSE \E last \in rows :
                  /\ IsLast(last, rows)
                  /\ req' = [req EXCEPT !.pc = "tagsByAdIDs", !.page = rows,
                                        !.next = NextCursor(rows, last)]
                  /\ UNCHANGED scan
    /\ watch' = Watch
    /\ UNCHANGED world

TagsByAdIDs ==
    /\ At("tagsByAdIDs")
    /\ Answer(req.page, req.next)
    /\ UNCHANGED <<world, watch>>

-----------------------------------------------------------------------------

Statement == ProfileForUser \/ ViewerEffectivePoint \/ FeedPage \/ TagsByAdIDs

Next ==
    \/ Tick
    \/ \E a \in Ads : InsertAd(a) \/ Commit(a) \/ Leave(a)
    \/ \E a \in Ads, pl \in Places \cup {None} : Move(a, pl)
    \/ ViewerChanges \/ StartScan \/ NextPage \/ Statement \/ Fail

Spec == Init /\ [][Next]_vars

-----------------------------------------------------------------------------
(* Properties.                                                             *)

(* Every variable is of its type; what is sorted by distance has an origin. *)
HasOrigin(q) == q.sort = "distance" => q.point # None
Cursor == {NoCursor} \cup
          {c \in [sort : Sorts, pos : Int \X Int, point : Points \cup {None}] : HasOrigin(c)}
Request == {q \in [pc : {"idle", "profileForUser", "viewerEffectivePoint", "feedPage",
                         "tagsByAdIDs"},
                   sort : Sorts, point : Points \cup {None}, page : SUBSET Ads, next : Cursor] :
               HasOrigin(q)}
TypeOK ==
    /\ now \in Nat
    /\ ads \in [Ads -> [status : {"none", "inserted", "active", "gone"}, created : Nat]]
    /\ place \in [Ads -> Places \cup {None}]
    /\ viewer \in [created : BOOLEAN, point : Points \cup {None}]
    /\ scan \in [city : Cities \cup {None}, sort : Sorts, cursor : Cursor,
                 shown : SUBSET Ads, again : SUBSET Ads, ended : BOOLEAN]
    /\ req \in Request
    /\ watch \in [sort : Sorts, point : Points \cup {None},
                  steady : SUBSET Ads, moved : SUBSET Ads]

Drifted(a) == watch.sort = "distance" /\ a \in watch.moved

(* A scan shows no ad twice, whatever is published, ends or moves between  *)
(* its pages, whichever answers are lost and wherever the viewer goes;     *)
(* by distance, unless the author of that very ad has moved.               *)
ShownOnce == \A a \in scan.again : Drifted(a)

(* A scan that has come to its end has shown every ad that was on the list *)
(* from its first page on, with the same exception: the keyset has no gap  *)
(* between two pages.                                                      *)
SteadyShown == scan.ended => \A a \in watch.steady \ scan.shown : Drifted(a)

(* Each page of a scan ends further down the list than the one before, so  *)
(* a scan goes in no circle even while authors move.                       *)
CursorAdvances ==
    [][TagsByAdIDs /\ scan.cursor # NoCursor /\ scan'.cursor # NoCursor
          => /\ Less(scan.cursor.pos, scan'.cursor.pos)
             /\ scan'.cursor.sort = scan.cursor.sort
             /\ scan'.cursor.point = scan.cursor.point]_vars
=============================================================================
