--------------------------------- MODULE Geo ---------------------------------
(***************************************************************************)
(* The location of one user (internal/geo): the last GPS fix, the mode,    *)
(* and the point and city that the feed takes the user to be at.  The      *)
(* table of cities changes under it; module CityImport says how.           *)
(*                                                                         *)
(* Every write is one statement on the user's row, but what it writes was  *)
(* worked out from a row read before.  Requests are modelled as in Meeting *)
(* and Auth: req[r].pc is what request r does next.                        *)
(***************************************************************************)
EXTENDS Naturals

CONSTANTS
    Points,     \* positions on the earth
    Cities,     \* ids of the rows of table cities
    Places,     \* geoname ids
    Names,      \* values of name_ru
    Dist,       \* the distance between two positions
    Far,        \* pairs of positions more than jumpMaxKm apart
    None,       \* NULL
    Requests,   \* slots for requests in flight
    JumpWindow, \* jumpWindow
    MaxTime     \* bound: the clock stops here

ASSUME GeoAssumption ==
    /\ None \notin Points \cup Cities \cup Places \cup Names
    /\ Dist \in [Points \X Points -> Nat]
    /\ Far \subseteq Points \X Points
    /\ \A p \in Points : <<p, p>> \notin Far
    /\ JumpWindow \in Nat /\ MaxTime \in Nat

VARIABLES
    now,        \* the clock, of server and database alike
    geo,        \* the user's row of user_geo
    cities,     \* table cities, by id
    req         \* the request in each slot

vars == <<now, geo, cities, req>>

(* A row that is not there has no place.  been is history: every location  *)
(* the row has had.  A new row gets an id that no row has had before.      *)
CityRow == [place : Places \cup {None}, at : Points \cup {None},
            name : Names \cup {None}, been : SUBSET Points]
NoCity == [place |-> None, at |-> None, name |-> None, been |-> {}]

Known == {c \in Cities : cities[c].place # None}
Unused == {c \in Cities : cities[c] = NoCity}

(* manual_city_id, gps_lat and gps_lng, gps_updated_at, effective_point,   *)
(* resolved_city_id                                                        *)
GeoRow == [exists : BOOLEAN, mode : {"AUTO", "MANUAL"}, manual : Cities \cup {None},
           gps : Points \cup {None}, at : Nat,
           point : Points \cup {None}, city : Cities \cup {None}]
NoRow == [exists |-> FALSE, mode |-> "AUTO", manual |-> None, gps |-> None,
          at |-> 0, point |-> None, city |-> None]

Stmts == {"done", "currentGeo", "plausible", "nearestCityID", "applyGPS",
          "cityExists", "setManual", "setAuto", "modeAndCity"}

(* seen is the fix that currentGeo has returned, and its time.             *)
Request == [op : {"UpdateGPS", "MANUAL", "AUTO"}, pc : Stmts,
            fix : Points \cup {None}, city : Cities \cup {None},
            seen : [gps : Points \cup {None}, at : Nat]]
NoRequest == [op |-> "AUTO", pc |-> "done", fix |-> None, city |-> None,
              seen |-> [gps |-> None, at |-> 0]]

At(r, stmt) == req[r].pc = stmt
Goto(r, stmt) == req' = [req EXCEPT ![r].pc = stmt]
Reply(r) == req' = [req EXCEPT ![r] = [NoRequest EXCEPT !.pc = "modeAndCity"]]
Answer(r) == req' = [req EXCEPT ![r] = NoRequest]

-----------------------------------------------------------------------------

Init ==
    /\ now = 0
    /\ geo = NoRow
    /\ cities = [c \in Cities |-> NoCity]
    /\ req = [r \in Requests |-> NoRequest]

Tick ==
    /\ now < MaxTime
    /\ now' = now + 1
    /\ UNCHANGED <<geo, cities, req>>

(* POST /my-geo.  A fix of low accuracy is dropped before anything is read.*)
StartUpdateGPS(r) ==
    /\ At(r, "done")
    /\ \E p \in Points :
         req' = [req EXCEPT ![r] = [NoRequest EXCEPT !.op = "UpdateGPS", !.fix = p,
                                                     !.pc = "currentGeo"]]
    /\ UNCHANGED <<now, geo, cities>>

(* PUT /me/location                                                        *)
StartSetLocation(r) ==
    /\ At(r, "done")
    /\ \/ req' = [req EXCEPT ![r] = [@ EXCEPT !.op = "AUTO", !.pc = "currentGeo"]]
       \/ \E c \in Cities \ Unused :
            req' = [req EXCEPT ![r] = [@ EXCEPT !.op = "MANUAL", !.city = c, !.pc = "cityExists"]]
    /\ UNCHANGED <<now, geo, cities>>

(* A statement errors, the context is cancelled, or the process dies.      *)
Fail(r) ==
    /\ ~At(r, "done")
    /\ Answer(r)
    /\ UNCHANGED <<now, geo, cities>>

-----------------------------------------------------------------------------

(* Without a fix nothing is implausible, and no city is the nearest.       *)
MutAlwaysLocated == FALSE
Unlocated == geo.gps = None

CurrentGeo(r) ==
    /\ At(r, "currentGeo")
    /\ req' = [req EXCEPT ![r] = [@ EXCEPT
                  !.seen = [gps |-> geo.gps, at |-> geo.at],
                  !.pc = IF req[r].op = "UpdateGPS" THEN "plausible"
                         ELSE IF Unlocated THEN "setAuto" ELSE "nearestCityID"]]
    /\ UNCHANGED <<now, geo, cities>>

(* time.Since, taken some time after the row was read.                     *)
MutTooLate(seen, fix) == <<seen.gps, fix>> \in Far /\ now >= seen.at + JumpWindow
ImplausibleJump(seen, fix) == <<seen.gps, fix>> \in Far /\ now < seen.at + JumpWindow

Plausible(r) ==
    /\ At(r, "plausible")
    /\ IF ImplausibleJump(req[r].seen, req[r].fix) THEN Answer(r)
                                                   ELSE Goto(r, "nearestCityID")
    /\ UNCHANGED <<now, geo, cities>>

Nearest(p) ==
    {c \in Known : \A d \in Known : Dist[p, cities[c].at] =< Dist[p, cities[d].at]}

(* No city at all as long as none is imported.                             *)
NearestCityID(r) ==
    LET gps == req[r].op = "UpdateGPS"
        p == IF gps THEN req[r].fix ELSE req[r].seen.gps
    IN
    /\ At(r, "nearestCityID")
    /\ \E c \in IF Known = {} THEN {None} ELSE Nearest(p) :
         req' = [req EXCEPT ![r] =
                    IF gps THEN [@ EXCEPT !.pc = "applyGPS", !.city = c]
                    ELSE [NoRequest EXCEPT !.pc = "setAuto", !.city = c]]
    /\ UNCHANGED <<now, geo, cities>>

(* The upsert keeps point and city of a row that is MANUAL by now.         *)
MutIgnoresMode == FALSE
KeepsPlace == geo.exists /\ geo.mode = "MANUAL"

(* resolved_city_id and manual_city_id REFERENCE cities (id).              *)
MutNoForeignKey(c) == TRUE
Referable(c) == c = None \/ c \in Known

ApplyGPS(r) ==
    LET fixed == [geo EXCEPT !.exists = TRUE, !.gps = req[r].fix, !.at = now]
    IN
    /\ At(r, "applyGPS")
    /\ geo' = IF KeepsPlace THEN fixed
              ELSE IF Referable(req[r].city)
              THEN [fixed EXCEPT !.point = req[r].fix, !.city = req[r].city]
              ELSE geo
    /\ Answer(r)
    /\ UNCHANGED <<now, cities>>

CityExists(r) ==
    /\ At(r, "cityExists")
    /\ IF req[r].city \in Known THEN Goto(r, "setManual") ELSE Answer(r)
    /\ UNCHANGED <<now, geo, cities>>

SetManual(r) ==
    LET c == req[r].city IN
    /\ At(r, "setManual")
    /\ \/ /\ Referable(c)
          /\ geo' = [geo EXCEPT !.exists = TRUE, !.mode = "MANUAL", !.manual = c,
                                !.point = cities[c].at, !.city = c]
          /\ Reply(r)
       \/ ~Referable(c) /\ UNCHANGED geo /\ Answer(r)
    /\ UNCHANGED <<now, cities>>

(* An UPDATE: without a row it does nothing.  The point is that of the     *)
(* stored fix, the city the one worked out before.                         *)
PointOfFix == geo.gps

SetAuto(r) ==
    /\ At(r, "setAuto")
    /\ \/ ~geo.exists /\ UNCHANGED geo /\ Reply(r)
       \/ /\ geo.exists /\ Referable(req[r].city)
          /\ geo' = [geo EXCEPT !.mode = "AUTO", !.manual = None,
                                !.point = PointOfFix, !.city = req[r].city]
          /\ Reply(r)
       \/ geo.exists /\ ~Referable(req[r].city) /\ UNCHANGED geo /\ Answer(r)
    /\ UNCHANGED <<now, cities>>

ModeAndCity(r) ==
    /\ At(r, "modeAndCity")
    /\ Answer(r)
    /\ UNCHANGED <<now, geo, cities>>

-----------------------------------------------------------------------------

Statement(r) ==
    \/ CurrentGeo(r) \/ Plausible(r) \/ NearestCityID(r) \/ ApplyGPS(r)
    \/ CityExists(r) \/ SetManual(r) \/ SetAuto(r) \/ ModeAndCity(r)

Endpoint(r) ==
    StartUpdateGPS(r) \/ StartSetLocation(r) \/ Fail(r) \/ Statement(r)

(* What may happen to the table of cities: the row of a place is inserted  *)
(* or overwritten, or all of them go, and CASCADE empties user_geo too.    *)
Of(place) == {c \in Cities : cities[c].place = place}
MutInsertsAgain(place) == Unused
Target(place) == IF Of(place) = {} THEN Unused ELSE Of(place)

Upsert(place, p, name) ==
    /\ \E c \in Target(place) :
         cities' = [cities EXCEPT ![c] = [place |-> place, at |-> p, name |-> name,
                                          been |-> @.been \cup {p}]]
    /\ UNCHANGED <<now, geo, req>>

Truncate ==
    /\ cities' = [c \in Cities |-> [NoCity EXCEPT !.been = cities[c].been]]
    /\ geo' = NoRow
    /\ UNCHANGED <<now, req>>

Next ==
    \/ Tick
    \/ \E r \in Requests : Endpoint(r)
    \/ \E place \in Places, p \in Points, name \in Names \cup {None} :
          Upsert(place, p, name)
    \/ Truncate

Spec == Init /\ [][Next]_vars

-----------------------------------------------------------------------------
(* Properties.                                                             *)

HasArguments(q) ==
    /\ q.op = "UpdateGPS" => q.fix \in Points
    /\ q.pc \in {"plausible", "applyGPS"} => q.op = "UpdateGPS"
    /\ q.pc \in {"currentGeo", "nearestCityID"} => q.op # "MANUAL"
    /\ q.pc = "nearestCityID" /\ q.op = "AUTO" => q.seen.gps \in Points
    /\ q.pc \in {"cityExists", "setManual"} => q.city \in Cities

(* The row and every request hold values of their type, a row that is not  *)
(* there holds nothing, and every statement has the arguments it needs: no *)
(* pointer that may be nil is dereferenced on the way there.               *)
TypeOK ==
    /\ now \in Nat
    /\ geo \in GeoRow
    /\ ~geo.exists => geo = NoRow
    /\ cities \in [Cities -> CityRow]
    /\ \A c \in Known : cities[c].at \in cities[c].been
    /\ req \in [Requests -> Request]
    /\ \A r \in Requests : HasArguments(req[r])

(* In MANUAL the user is in the chosen city, at a centroid it has had,     *)
(* whatever fixes arrive; in AUTO at the last fix, also when it came while *)
(* the mode was MANUAL (docs/geolocation.md).  And the city is one of the  *)
(* table, whatever an import does to it: a new dump may move the centroid, *)
(* but takes no city from under a user.                                    *)
PointFollowsMode ==
    /\ geo.mode = "MANUAL" => /\ geo.manual \in Known
                              /\ geo.point \in cities[geo.manual].been
                              /\ geo.city = geo.manual
    /\ geo.mode = "AUTO" => geo.manual = None /\ geo.point = geo.gps
    /\ geo.city # None => geo.city \in Known

(* A fix replaces another that is too far for its age.                     *)
Jump == ImplausibleJump([gps |-> geo.gps, at |-> geo.at], geo'.gps)

(* The guard against jumps is only passed by a fix that raced another: the *)
(* fix it replaces is not the one it was compared with, however long the   *)
(* request took between the comparison and the write.                      *)
JumpNeedsRace ==
    [][Jump => \E r \in Requests :
                  /\ At(r, "applyGPS")
                  /\ req[r].seen # [gps |-> geo.gps, at |-> geo.at]]_vars

=============================================================================
