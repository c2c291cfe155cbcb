------------------------------ MODULE GeoProofs ------------------------------
(* Proofs about Geo: types, the place that the mode says, and the guard    *)
(* against jumps, for any positions, cities and number of requests.  And   *)
(* about CityImport, for any files: what a run leaves in the table, and    *)
(* that it does no more to it than Geo allows for.                         *)
EXTENDS CityImport, FiniteSetTheorems, SequenceTheorems, WellFoundedInduction, TLAPS

(* A request is replaced by one that is of its type and has its arguments. *)
LEMMA ReplacedRequest ==
    ASSUME TypeOK, NEW r \in Requests, NEW q \in Request, HasArguments(q),
           req' = [req EXCEPT ![r] = q]
    PROVE  /\ req' \in [Requests -> Request]
           /\ \A s \in Requests : HasArguments(req'[s])
BY DEF TypeOK

LEMMA NoRequestOK == NoRequest \in Request /\ HasArguments(NoRequest)
BY DEF NoRequest, Request, HasArguments, Stmts

(* A request goes on to a statement that finds its arguments.              *)
LEMMA GoneTo ==
    ASSUME TypeOK, NEW r \in Requests, NEW stmt \in Stmts,
           stmt \notin {"currentGeo", "plausible", "nearestCityID", "applyGPS",
                        "cityExists"},
           stmt = "setManual" => req[r].city \in Cities,
           Goto(r, stmt)
    PROVE  /\ req' \in [Requests -> Request]
           /\ \A s \in Requests : HasArguments(req'[s])
<1> DEFINE q == [req[r] EXCEPT !.pc = stmt]
<1>1. req' = [req EXCEPT ![r] = q]
      BY DEF Goto, TypeOK
<1>2. req[r] \in Request /\ HasArguments(req[r])
      BY DEF TypeOK
<1>3. q \in Request
      BY <1>2 DEF Request
<1>4. HasArguments(q)
      BY <1>2 DEF HasArguments, Request, Stmts
<1> QED
    BY <1>1, <1>3, <1>4, ReplacedRequest

LEMMA InitTypeOK == Init => TypeOK
BY NoRequestOK, GeoAssumption DEF Init, TypeOK, GeoRow, NoRow, CityRow, NoCity, Known

(* What the table of cities may become.                                    *)
LEMMA UpsertOK ==
    ASSUME TypeOK, NEW place \in Places, NEW p \in Points, NEW name \in Names \cup {None},
           Upsert(place, p, name)
    PROVE  TypeOK' /\ Known \subseteq Known'
           /\ \A c \in Cities : cities[c].been \subseteq cities'[c].been
<1>1. PICK c \in Cities :
         cities' = [cities EXCEPT ![c] = [place |-> place, at |-> p, name |-> name,
                                          been |-> cities[c].been \cup {p}]]
      BY DEF Upsert, Target, Of, Unused, TypeOK
<1>2. cities' \in [Cities -> CityRow]
      BY <1>1 DEF TypeOK, CityRow
<1>3. \A d \in Known' : cities'[d].at \in cities'[d].been
      BY <1>1 DEF TypeOK, Known
<1>4. Known \subseteq Known'
      BY <1>1, GeoAssumption DEF TypeOK, Known
<1>5. \A d \in Cities : cities[d].been \subseteq cities'[d].been
      BY <1>1 DEF TypeOK
<1> QED
    BY <1>2, <1>3, <1>4, <1>5 DEF Upsert, TypeOK

LEMMA TruncateOK ==
    ASSUME TypeOK, Truncate
    PROVE  TypeOK'
<1>1. cities' \in [Cities -> CityRow] /\ Known' = {}
      BY DEF Truncate, TypeOK, CityRow, NoCity, Known
<1>2. geo' \in GeoRow
      BY DEF Truncate, GeoRow, NoRow
<1> QED
    BY <1>1, <1>2 DEF Truncate, TypeOK

LEMMA NextTypeOK == TypeOK /\ [Next]_vars => TypeOK'
<1> SUFFICES ASSUME TypeOK, [Next]_vars PROVE TypeOK'
    OBVIOUS
<1> DEFINE RequestsOK == /\ req' \in [Requests -> Request]
                         /\ \A s \in Requests : HasArguments(req'[s])
<1>a. \A r \in Requests : Answer(r) \/ Reply(r) => RequestsOK
  <2> DEFINE q == [NoRequest EXCEPT !.pc = "modeAndCity"]
  <2>1. q \in Request /\ HasArguments(q)
        BY DEF NoRequest, Request, HasArguments, Stmts
  <2> QED
      BY <2>1, NoRequestOK, ReplacedRequest DEF Answer, Reply
<1>b. \A r \in Requests : req[r] \in Request /\ HasArguments(req[r])
      BY DEF TypeOK
<1>1. CASE Tick
      BY <1>1 DEF Tick, TypeOK, Known
<1>2. ASSUME NEW r \in Requests, StartUpdateGPS(r) PROVE TypeOK'
  <2>1. PICK p \in Points :
           req' = [req EXCEPT ![r] = [NoRequest EXCEPT !.op = "UpdateGPS", !.fix = p,
                                                       !.pc = "currentGeo"]]
        BY <1>2 DEF StartUpdateGPS
  <2> DEFINE q == [NoRequest EXCEPT !.op = "UpdateGPS", !.fix = p, !.pc = "currentGeo"]
  <2>2. q \in Request /\ HasArguments(q)
        BY DEF NoRequest, Request, HasArguments, Stmts
  <2>3. RequestsOK
        BY <2>1, <2>2, ReplacedRequest
  <2> QED
      BY <1>2, <2>3 DEF StartUpdateGPS, TypeOK, Known
<1>3. ASSUME NEW r \in Requests, StartSetLocation(r) PROVE TypeOK'
  <2>1. CASE req' = [req EXCEPT ![r] = [@ EXCEPT !.op = "AUTO", !.pc = "currentGeo"]]
    <3> DEFINE q == [req[r] EXCEPT !.op = "AUTO", !.pc = "currentGeo"]
    <3>1. req' = [req EXCEPT ![r] = q]
          BY <2>1 DEF TypeOK
    <3>2. q \in Request /\ HasArguments(q)
          BY <1>b DEF Request, HasArguments, Stmts
    <3> QED
        BY <1>3, <3>1, <3>2, ReplacedRequest DEF StartSetLocation, TypeOK, Known
  <2>2. ASSUME NEW c \in Cities,
               req' = [req EXCEPT ![r] = [@ EXCEPT !.op = "MANUAL", !.city = c, !.pc = "cityExists"]]
        PROVE  TypeOK'
    <3> DEFINE q == [req[r] EXCEPT !.op = "MANUAL", !.city = c, !.pc = "cityExists"]
    <3>1. req' = [req EXCEPT ![r] = q]
          BY <2>2 DEF TypeOK
    <3>2. q \in Request /\ HasArguments(q)
          BY <1>b DEF Request, HasArguments, Stmts
    <3> QED
        BY <1>3, <3>1, <3>2, ReplacedRequest DEF StartSetLocation, TypeOK, Known
  <2> QED
      BY <1>3, <2>1, <2>2 DEF StartSetLocation
<1>4. ASSUME NEW r \in Requests, Fail(r) PROVE TypeOK'
      BY <1>4, <1>a DEF Fail, TypeOK, Known
<1>5. ASSUME NEW r \in Requests, CurrentGeo(r) PROVE TypeOK'
  <2> DEFINE pc == IF req[r].op = "UpdateGPS" THEN "plausible"
                   ELSE IF Unlocated THEN "setAuto" ELSE "nearestCityID"
             q == [req[r] EXCEPT !.seen = [gps |-> geo.gps, at |-> geo.at], !.pc = pc]
  <2>1. req' = [req EXCEPT ![r] = q]
        BY <1>5 DEF CurrentGeo, TypeOK, Known
  <2>2. q \in Request
        BY <1>b DEF TypeOK, GeoRow, Request, Stmts
  <2>3. HasArguments(q)
        BY <1>b, <1>5 DEF CurrentGeo, At, HasArguments, Request, Unlocated, TypeOK, GeoRow
  <2> QED
      BY <1>5, <2>1, <2>2, <2>3, ReplacedRequest DEF CurrentGeo, TypeOK, Known
<1>6. ASSUME NEW r \in Requests, Plausible(r) PROVE TypeOK'
  <2>1. CASE Answer(r)
        BY <1>6, <2>1, <1>a DEF Plausible, TypeOK, Known
  <2>2. CASE Goto(r, "nearestCityID")
    <3> DEFINE q == [req[r] EXCEPT !.pc = "nearestCityID"]
    <3>1. req' = [req EXCEPT ![r] = q]
          BY <2>2 DEF Goto, TypeOK
    <3>2. q \in Request /\ HasArguments(q)
          BY <1>b, <1>6 DEF Plausible, At, Request, HasArguments, Stmts
    <3> QED
        BY <1>6, <3>1, <3>2, ReplacedRequest DEF Plausible, TypeOK, Known
  <2> QED
      BY <1>6, <2>1, <2>2 DEF Plausible
<1>7. ASSUME NEW r \in Requests, NearestCityID(r) PROVE TypeOK'
  <2> DEFINE q(c) == IF req[r].op = "UpdateGPS"
                     THEN [req[r] EXCEPT !.pc = "applyGPS", !.city = c]
                     ELSE [NoRequest EXCEPT !.pc = "setAuto", !.city = c]
  <2>1. PICK c \in Cities \cup {None} : req' = [req EXCEPT ![r] = q(c)]
        BY <1>7 DEF NearestCityID, TypeOK, Nearest, Known
  <2>3. q(c) \in Request /\ HasArguments(q(c))
        BY <1>b DEF Request, HasArguments, Stmts, NoRequest
  <2> QED
      BY <1>7, <2>1, <2>3, ReplacedRequest DEF NearestCityID, TypeOK, Known
<1>8. ASSUME NEW r \in Requests, ApplyGPS(r) PROVE TypeOK'
  <2>1. req[r].fix \in Points /\ req[r].city \in Cities \cup {None}
        BY <1>b, <1>8 DEF ApplyGPS, At, HasArguments, Request
  <2>2. geo' \in GeoRow /\ (geo' = geo \/ geo'.exists)
        BY <1>8, <2>1 DEF ApplyGPS, TypeOK, GeoRow
  <2> QED
      BY <1>8, <2>2, <1>a DEF ApplyGPS, TypeOK, Known
<1>9. ASSUME NEW r \in Requests, CityExists(r) PROVE TypeOK'
  <2>1. CASE Answer(r)
        BY <1>9, <2>1, <1>a DEF CityExists, TypeOK, Known
  <2>2. CASE Goto(r, "setManual")
    <3>1. req[r].city \in Cities
          BY <1>9, <1>b DEF CityExists, At, HasArguments
    <3>2. RequestsOK
          BY <2>2, <3>1, GoneTo DEF Stmts
    <3> QED
        BY <1>9, <3>2 DEF CityExists, TypeOK, Known
  <2> QED
      BY <1>9, <2>1, <2>2 DEF CityExists
<1>10. ASSUME NEW r \in Requests, SetManual(r) PROVE TypeOK'
  <2>1. req[r].city \in Cities
        BY <1>b, <1>10 DEF SetManual, At, HasArguments
  <2>2. geo' \in GeoRow /\ (geo' = geo \/ geo'.exists)
    <3>1. cities[req[r].city].at \in Points \cup {None}
          BY <2>1 DEF TypeOK, CityRow
    <3> QED
        BY <1>10, <2>1, <3>1 DEF SetManual, TypeOK, GeoRow
  <2>3. RequestsOK
        BY <1>10, <1>a DEF SetManual
  <2> QED
      BY <1>10, <2>2, <2>3 DEF SetManual, TypeOK, Known
<1>11. ASSUME NEW r \in Requests, SetAuto(r) PROVE TypeOK'
  <2>1. geo' \in GeoRow /\ (~geo'.exists => geo' = NoRow)
        BY <1>11, <1>b DEF SetAuto, PointOfFix, TypeOK, GeoRow, Request
  <2>2. RequestsOK
        BY <1>11, <1>a DEF SetAuto
  <2> QED
      BY <1>11, <2>1, <2>2 DEF SetAuto, TypeOK, Known
<1>12. ASSUME NEW r \in Requests, ModeAndCity(r) PROVE TypeOK'
      BY <1>12, <1>a DEF ModeAndCity, TypeOK, Known
<1>13. CASE UNCHANGED vars
      BY <1>13 DEF vars, TypeOK, Known
<1> QED
    BY <1>1, <1>2, <1>3, <1>4, <1>5, <1>6, <1>7, <1>8, <1>9, <1>10, <1>11,
       <1>12, <1>13, UpsertOK, TruncateOK DEF Next, Endpoint, Statement

(* The row and the requests are well typed in every reachable state.       *)
THEOREM TypeCorrect == Spec => []TypeOK
BY InitTypeOK, NextTypeOK, PTL DEF Spec

-----------------------------------------------------------------------------

(* In MANUAL the point is a centroid of the chosen city, in AUTO the last  *)
(* fix: no read that has become stale is written to the point, and no city *)
(* that is gone to the row.                                                *)
THEOREM PointIsOfTheMode == Spec => []PointFollowsMode
<1>1. Init => PointFollowsMode
      BY GeoAssumption DEF Init, PointFollowsMode, NoRow
<1>2. TypeOK /\ PointFollowsMode /\ [Next]_vars => PointFollowsMode'
  <2> USE GeoAssumption DEF PointFollowsMode
  <2> SUFFICES ASSUME TypeOK, PointFollowsMode, [Next]_vars
               PROVE  PointFollowsMode'
      OBVIOUS
  <2>1. CASE UNCHANGED geo
    <3>1. CASE UNCHANGED cities
          BY <2>1, <3>1 DEF Known
    <3>2. ASSUME NEW place \in Places, NEW p \in Points, NEW name \in Names \cup {None},
                 Upsert(place, p, name)
          PROVE  PointFollowsMode'
          BY <2>1, <3>2, UpsertOK DEF Known
    <3>3. CASE Truncate
          BY <2>1, <3>3 DEF Truncate, NoRow
    <3> QED
        BY <3>1, <3>2, <3>3
        DEF Next, vars, Tick, Endpoint, StartUpdateGPS, StartSetLocation, Fail, Statement,
            CurrentGeo, Plausible, NearestCityID, CityExists, ModeAndCity, ApplyGPS,
            SetManual, SetAuto
  <2>2. ASSUME NEW r \in Requests, ApplyGPS(r) PROVE PointFollowsMode'
        BY <2>2 DEF ApplyGPS, KeepsPlace, Referable, Known, TypeOK, GeoRow, NoRow
  <2>3. ASSUME NEW r \in Requests, SetManual(r) PROVE PointFollowsMode'
    <3>1. req[r].city \in Cities
          BY <2>3 DEF SetManual, At, TypeOK, HasArguments
    <3>2. CASE UNCHANGED geo
          BY <2>1, <3>2
    <3>3. CASE geo' # geo
      <4>1. /\ geo'.mode = "MANUAL" /\ geo'.manual = req[r].city
            /\ geo'.point = cities[req[r].city].at /\ geo'.city = req[r].city
            BY <2>3, <3>3 DEF SetManual, TypeOK, GeoRow
      <4>2. req[r].city \in Known /\ cities' = cities
            BY <2>3, <3>1, <3>3 DEF SetManual, Referable
      <4> QED
          BY <4>1, <4>2 DEF TypeOK, Known
    <3> QED
        BY <3>2, <3>3
  <2>4. ASSUME NEW r \in Requests, SetAuto(r) PROVE PointFollowsMode'
        BY <2>4 DEF SetAuto, PointOfFix, Referable, Known, TypeOK, GeoRow
  <2>5. CASE Truncate
        BY <2>5 DEF Truncate, NoRow
  <2> QED
      BY <2>1, <2>2, <2>3, <2>4, <2>5
      DEF Next, vars, Tick, Upsert, Endpoint, StartUpdateGPS, StartSetLocation, Fail, Statement,
          CurrentGeo, Plausible, NearestCityID, CityExists, ModeAndCity
<1> QED
    BY <1>1, <1>2, TypeCorrect, PTL DEF Spec

-----------------------------------------------------------------------------

(* A fix on its way to be written has passed the guard against the row it  *)
(* has seen; as the clock only goes on, it passes the guard ever after.    *)
Compared ==
    \A r \in Requests :
        req[r].op = "UpdateGPS" /\ (At(r, "nearestCityID") \/ At(r, "applyGPS"))
           => ~ImplausibleJump(req[r].seen, req[r].fix)

LEMMA InitCompared == Init => Compared
BY DEF Init, Compared, NoRequest, At

PassedGuard(q) ==
    q.op = "UpdateGPS" /\ q.pc \in {"nearestCityID", "applyGPS"}
       => ~ImplausibleJump(q.seen, q.fix)

LEMMA ComparedSlot ==
    ASSUME TypeOK, Compared, UNCHANGED now, NEW r \in Requests, NEW q,
           req' = [req EXCEPT ![r] = q], PassedGuard(q)
    PROVE  Compared'
BY DEF TypeOK, Compared, PassedGuard, ImplausibleJump, At

LEMMA NextCompared == TypeOK /\ Compared /\ [Next]_vars => Compared'
<1> SUFFICES ASSUME TypeOK, Compared, [Next]_vars PROVE Compared'
    OBVIOUS
<1>a. \A r \in Requests : req[r] \in Request
      BY DEF TypeOK
<1>b. \A r \in Requests : (Answer(r) \/ Reply(r)) /\ UNCHANGED now => Compared'
  <2>1. PassedGuard(NoRequest) /\ PassedGuard([NoRequest EXCEPT !.pc = "modeAndCity"])
        BY DEF PassedGuard, NoRequest
  <2> QED
      BY <2>1, ComparedSlot DEF Answer, Reply
<1>c. ASSUME NEW r \in Requests, NEW stmt, Goto(r, stmt), UNCHANGED now,
             (stmt \in {"nearestCityID", "applyGPS"} /\ req[r].op = "UpdateGPS") =>
                ~ImplausibleJump(req[r].seen, req[r].fix)
      PROVE  Compared'
  <2> DEFINE q == [req[r] EXCEPT !.pc = stmt]
  <2>1. req' = [req EXCEPT ![r] = q]
        BY <1>c DEF Goto
  <2>2. PassedGuard(q)
        BY <1>a, <1>c DEF PassedGuard, Request
  <2> QED
      BY <1>c, <2>1, <2>2, ComparedSlot
<1>1. CASE Tick
  <2>1. ASSUME NEW r \in Requests,
               req[r].op = "UpdateGPS" /\ (At(r, "nearestCityID") \/ At(r, "applyGPS"))
        PROVE  ~ImplausibleJump(req[r].seen, req[r].fix)'
    <3>1. ~(<<req[r].seen.gps, req[r].fix>> \in Far /\ now < req[r].seen.at + JumpWindow)
          BY <2>1 DEF Compared, ImplausibleJump
    <3>2. req[r].seen.at \in Nat /\ now \in Nat /\ JumpWindow \in Nat
          BY <1>a, GeoAssumption DEF TypeOK, Request
    <3> QED
        BY <1>1, <3>1, <3>2 DEF Tick, ImplausibleJump
  <2> QED
      BY <1>1, <2>1 DEF Tick, Compared, At
<1>2. ASSUME NEW r \in Requests, StartUpdateGPS(r) PROVE Compared'
  <2>1. PICK p \in Points :
           req' = [req EXCEPT ![r] = [NoRequest EXCEPT !.op = "UpdateGPS", !.fix = p,
                                                       !.pc = "currentGeo"]]
        BY <1>2 DEF StartUpdateGPS
  <2>2. PassedGuard([NoRequest EXCEPT !.op = "UpdateGPS", !.fix = p, !.pc = "currentGeo"])
        BY DEF PassedGuard, NoRequest
  <2> QED
      BY <1>2, <2>1, <2>2, ComparedSlot DEF StartUpdateGPS
<1>3. ASSUME NEW r \in Requests, StartSetLocation(r) PROVE Compared'
  <2>1. CASE req' = [req EXCEPT ![r] = [@ EXCEPT !.op = "AUTO", !.pc = "currentGeo"]]
    <3> DEFINE q == [req[r] EXCEPT !.op = "AUTO", !.pc = "currentGeo"]
    <3>1. req' = [req EXCEPT ![r] = q]
          BY <2>1
    <3>2. PassedGuard(q)
          BY <1>a DEF PassedGuard, Request
    <3> QED
        BY <1>3, <3>1, <3>2, ComparedSlot DEF StartSetLocation
  <2>2. ASSUME NEW c \in Cities,
               req' = [req EXCEPT ![r] = [@ EXCEPT !.op = "MANUAL", !.city = c,
                                                   !.pc = "cityExists"]]
        PROVE  Compared'
    <3> DEFINE q == [req[r] EXCEPT !.op = "MANUAL", !.city = c, !.pc = "cityExists"]
    <3>1. req' = [req EXCEPT ![r] = q]
          BY <2>2
    <3>2. PassedGuard(q)
          BY <1>a DEF PassedGuard, Request
    <3> QED
        BY <1>3, <3>1, <3>2, ComparedSlot DEF StartSetLocation
  <2> QED
      BY <1>3, <2>1, <2>2 DEF StartSetLocation
<1>4. ASSUME NEW r \in Requests, Fail(r) \/ ApplyGPS(r) \/ ModeAndCity(r) PROVE Compared'
      BY <1>4, <1>b DEF Fail, ApplyGPS, ModeAndCity
<1>5. ASSUME NEW r \in Requests, CurrentGeo(r) PROVE Compared'
  <2> DEFINE pc == IF req[r].op = "UpdateGPS" THEN "plausible"
                   ELSE IF Unlocated THEN "setAuto" ELSE "nearestCityID"
             q == [req[r] EXCEPT !.seen = [gps |-> geo.gps, at |-> geo.at], !.pc = pc]
  <2>1. req' = [req EXCEPT ![r] = q]
        BY <1>5 DEF CurrentGeo
  <2>2. PassedGuard(q)
        BY <1>a DEF PassedGuard, Request
  <2> QED
      BY <1>5, <2>1, <2>2, ComparedSlot DEF CurrentGeo
<1>6. ASSUME NEW r \in Requests, Plausible(r) PROVE Compared'
      BY <1>6, <1>b, <1>c DEF Plausible
<1>7. ASSUME NEW r \in Requests, NearestCityID(r) PROVE Compared'
  <2> DEFINE q(c) == IF req[r].op = "UpdateGPS"
                     THEN [req[r] EXCEPT !.pc = "applyGPS", !.city = c]
                     ELSE [NoRequest EXCEPT !.pc = "setAuto", !.city = c]
  <2>1. PICK c : req' = [req EXCEPT ![r] = q(c)]
        BY <1>7 DEF NearestCityID
  <2>2. req[r].op = "UpdateGPS" => ~ImplausibleJump(req[r].seen, req[r].fix)
        BY <1>7 DEF NearestCityID, Compared
  <2>3. PassedGuard(q(c))
        BY <1>a, <2>2 DEF PassedGuard, Request, NoRequest
  <2> QED
      BY <1>7, <2>1, <2>3, ComparedSlot DEF NearestCityID
<1>8. ASSUME NEW r \in Requests, CityExists(r) PROVE Compared'
      BY <1>8, <1>b, <1>c DEF CityExists
<1>9. ASSUME NEW r \in Requests, SetManual(r) \/ SetAuto(r) PROVE Compared'
      BY <1>9, <1>b DEF SetManual, SetAuto
<1>10. CASE UNCHANGED <<now, req>>
      BY <1>10 DEF Compared, At, ImplausibleJump
<1> QED
    BY <1>1, <1>2, <1>3, <1>4, <1>5, <1>6, <1>7, <1>8, <1>9, <1>10
    DEF Next, vars, Upsert, Truncate, Endpoint, Statement

(* A fix replaces one it is implausibly far from only when that one is not *)
(* the fix it was compared with.                                           *)
THEOREM JumpsAreRaces == Spec => JumpNeedsRace
<1> DEFINE Raced == Jump => \E r \in Requests :
                       /\ At(r, "applyGPS")
                       /\ req[r].seen # [gps |-> geo.gps, at |-> geo.at]
<1>1. TypeOK /\ Compared /\ [Next]_vars => [Raced]_vars
  <2> SUFFICES ASSUME TypeOK, Compared, Next, Jump PROVE Raced
      OBVIOUS
  <2>1. geo' # geo /\ geo'.gps # geo.gps /\ geo'.gps # None
        BY GeoAssumption DEF Jump, ImplausibleJump
  <2>2. PICK r \in Requests : ApplyGPS(r)
    <3>1. ~Truncate
          BY <2>1 DEF Truncate, NoRow
    <3>2. ASSUME NEW s \in Requests, SetManual(s) \/ SetAuto(s) PROVE FALSE
          BY <2>1, <3>2 DEF SetManual, SetAuto, TypeOK, GeoRow
    <3> QED
        BY <2>1, <3>1, <3>2
        DEF Next, Statement, Tick, StartUpdateGPS, StartSetLocation, Fail, CurrentGeo,
            Plausible, NearestCityID, CityExists, ModeAndCity, Endpoint, Upsert
  <2>3. /\ At(r, "applyGPS") /\ req[r].op = "UpdateGPS"
        /\ geo'.gps = req[r].fix /\ now' = now
    <3>1. At(r, "applyGPS") /\ now' = now
          BY <2>2 DEF ApplyGPS
    <3>2. req[r].op = "UpdateGPS"
          BY <3>1 DEF TypeOK, HasArguments, At
    <3>3. geo'.gps = req[r].fix
          BY <2>1, <2>2 DEF ApplyGPS, TypeOK, GeoRow
    <3> QED
        BY <3>1, <3>2, <3>3
  <2>4. ~ImplausibleJump(req[r].seen, req[r].fix)
        BY <2>3 DEF Compared
  <2>5. req[r].seen # [gps |-> geo.gps, at |-> geo.at]
        BY <2>3, <2>4 DEF Jump
  <2> QED
      BY <2>3, <2>5
<1> QED
    BY <1>1, TypeCorrect, InitCompared, NextCompared, PTL DEF Spec, JumpNeedsRace

-----------------------------------------------------------------------------
(* The loops over the lines of the files.                                  *)

(* Induction, for a set.                                                   *)
LEMMA NatSetInduction ==
    ASSUME NEW C, 0 \in C, \A n \in Nat : n \in C => n + 1 \in C
    PROVE  Nat \subseteq C
<1> DEFINE R == OpToRel(<, Nat)
<1>1. IsWellFoundedOn(R, Nat)
      BY NatLessThanWellFounded
<1>2. \A m, n \in Nat : m < n => <<m, n>> \in R
      BY DEF OpToRel
<1> SUFFICES ASSUME Nat \ C # {} PROVE FALSE
    OBVIOUS
<1> HIDE DEF R
<1>3. PICK n \in Nat \ C : \A m \in Nat \ C : ~(<<m, n>> \in R)
      BY <1>1, WFMin
<1>4. n # 0 /\ n - 1 \in Nat /\ n - 1 < n /\ (n - 1) + 1 = n
      BY <1>3
<1>5. n - 1 \in C
      BY <1>2, <1>3, <1>4
<1> QED
    BY <1>3, <1>4, <1>5

(* A set of numbers that is not empty has a least one.                     *)
LEMMA LeastOf ==
    ASSUME NEW P, P \subseteq Nat, P # {}
    PROVE  \E i \in P : \A j \in P : i =< j
<1> DEFINE R == OpToRel(<, Nat)
<1>1. IsWellFoundedOn(R, Nat)
      BY NatLessThanWellFounded
<1>2. \A m, n \in Nat : m < n => <<m, n>> \in R
      BY DEF OpToRel
<1> HIDE DEF R
<1>3. PICK n \in P : \A m \in P : ~(<<m, n>> \in R)
      BY <1>1, WFMin
<1>4. \A m \in P : m \in Nat /\ n \in Nat /\ ~(m < n)
      BY <1>2, <1>3
<1> QED
    BY <1>4

LEMMA GreatestOf ==
    ASSUME NEW N \in Nat, NEW P, P \subseteq 1 .. N, P # {}
    PROVE  \E i \in P : \A j \in P : j =< i
<1> DEFINE Q == {N - i : i \in P}
<1>1. Q \subseteq Nat /\ Q # {}
  <2>1. ASSUME NEW i \in P PROVE N - i \in Nat
        OBVIOUS
  <2> QED
      BY <2>1
<1>2. PICK q \in Q : \A k \in Q : q =< k
      BY <1>1, LeastOf
<1>3. PICK i \in P : q = N - i
      BY <1>2
<1>4. ASSUME NEW j \in P PROVE j =< i
  <2>1. N - j \in Q
        OBVIOUS
  <2>2. N - i =< N - j /\ i \in 1 .. N /\ j \in 1 .. N
        BY <1>2, <1>3, <2>1
  <2> QED
      BY <2>2
<1> QED
    BY <1>4

(* What a loop of N rounds computes, whose round is the function G.        *)
LoopOf(N, S, x, G) ==
    \E g \in [0 .. N -> S] : g[0] = x /\ \A n \in 1 .. N : g[n] = G[n][g[n - 1]]

LEMMA LoopExists ==
    ASSUME NEW N \in Nat, NEW S, NEW x \in S, NEW G,
           \A n \in 1 .. N : \A t \in S : G[n][t] \in S
    PROVE  LoopOf(N, S, x, G)
<1> DEFINE Good(g, m) == g[0] = x /\ \A n \in 1 .. m : g[n] = G[n][g[n - 1]]
           C == {m \in Nat : m =< N => \E g \in [0 .. m -> S] : Good(g, m)}
<1>1. 0 \in C
  <2>1. [k \in 0 .. 0 |-> x] \in [0 .. 0 -> S] /\ Good([k \in 0 .. 0 |-> x], 0)
        OBVIOUS
  <2> QED
      BY <2>1
<1>2. ASSUME NEW m \in Nat, m \in C PROVE m + 1 \in C
  <2> SUFFICES ASSUME m + 1 =< N PROVE \E g \in [0 .. m + 1 -> S] : Good(g, m + 1)
      OBVIOUS
  <2>1. PICK g \in [0 .. m -> S] : Good(g, m)
        BY <1>2
  <2>2. G[m + 1][g[m]] \in S
    <3>1. m + 1 \in 1 .. N /\ g[m] \in S
          OBVIOUS
    <3> QED
        BY <3>1
  <2> DEFINE h == [k \in 0 .. m + 1 |-> IF k =< m THEN g[k] ELSE G[m + 1][g[m]]]
  <2>3. h \in [0 .. m + 1 -> S]
        BY <2>2
  <2>4. h[0] = x
        BY <2>1
  <2>5. ASSUME NEW n \in 1 .. m + 1 PROVE h[n] = G[n][h[n - 1]]
    <3>1. CASE n =< m
          BY <2>1, <3>1
    <3>2. CASE n = m + 1
          BY <3>2
    <3> QED
        BY <3>1, <3>2
  <2> HIDE DEF h
  <2> QED
      BY <2>3, <2>4, <2>5
<1>3. Nat \subseteq C
  <2> HIDE DEF C
  <2> QED
      BY <1>1, <1>2, NatSetInduction
<1> QED
    BY <1>3 DEF LoopOf

(* The lines kept of the first n, and what is known of the names by then.  *)
OutBody(lines, f) ==
    [n \in 0 .. Len(lines) |->
        IF n = 0 THEN <<>>
        ELSE IF Kept(lines[n]) THEN Append(f[n - 1], lines[n]) ELSE f[n - 1]]
Out(lines) == CHOOSE f : f = OutBody(lines, f)

Found == [set : BOOLEAN, name : Names \cup {NoName}, preferred : BOOLEAN]
NoneFound(ids) == [p \in ids |-> [set |-> FALSE, name |-> NoName, preferred |-> FALSE]]
ResBody(lines, ids, f) ==
    [n \in 0 .. Len(lines) |->
        IF n = 0 THEN NoneFound(ids)
        ELSE IF Skipped(lines[n], ids) THEN f[n - 1] ELSE Scan(f[n - 1], lines[n])]
Res(lines, ids) == CHOOSE f : f = ResBody(lines, ids, f)

LEMMA OutExists ==
    ASSUME NEW lines \in Seq(CityLine)
    PROVE  \E f : f = OutBody(lines, f)
<1> DEFINE N == Len(lines)
           S == Seq(CityLine)
           G == [n \in 1 .. N |->
                    [t \in S |-> IF Kept(lines[n]) THEN Append(t, lines[n]) ELSE t]]
           x == <<>>
<1>1. N \in Nat /\ x \in S /\ \A n \in 1 .. N : lines[n] \in CityLine
      BY EmptySeq
<1>2. \A n \in 1 .. N, t \in S : /\ G[n][t] = (IF Kept(lines[n]) THEN Append(t, lines[n]) ELSE t)
                                 /\ Append(t, lines[n]) \in S
      BY <1>1, AppendProperties
<1>3. \A n \in 1 .. N : \A t \in S : G[n][t] \in S
      BY <1>2
<1> HIDE DEF G, S, N, x
<1>4. LoopOf(N, S, x, G)
      BY <1>1, <1>3, LoopExists
<1>5. PICK g \in [0 .. N -> S] : g[0] = x /\ \A n \in 1 .. N : g[n] = G[n][g[n - 1]]
      BY <1>4 DEF LoopOf
<1>6. ASSUME NEW n \in 0 .. N PROVE g[n] = OutBody(lines, g)[n]
  <2>1. OutBody(lines, g)[n] = IF n = 0 THEN <<>>
                               ELSE IF Kept(lines[n]) THEN Append(g[n - 1], lines[n]) ELSE g[n - 1]
        BY DEF OutBody, N
  <2>2. CASE n = 0
        BY <1>5, <2>1, <2>2 DEF x
  <2>3. CASE n # 0
    <3>1. n \in 1 .. N /\ g[n - 1] \in S
          BY <1>1, <1>5, <2>3
    <3> QED
        BY <1>2, <1>5, <2>1, <2>3, <3>1
  <2> QED
      BY <2>2, <2>3
<1>7. g = [n \in 0 .. N |-> g[n]] /\ OutBody(lines, g) = [n \in 0 .. N |-> OutBody(lines, g)[n]]
      BY <1>5 DEF OutBody, N
<1>8. g = OutBody(lines, g)
      BY <1>6, <1>7
<1> QED
    BY <1>8

LEMMA OutLoop ==
    ASSUME NEW lines \in Seq(CityLine)
    PROVE  /\ parseCities(lines) = Out(lines)[Len(lines)] /\ Out(lines)[0] = <<>>
           /\ \A n \in 1 .. Len(lines) : Out(lines)[n] =
                 IF Kept(lines[n]) THEN Append(Out(lines)[n - 1], lines[n]) ELSE Out(lines)[n - 1]
<1> DEFINE f == Out(lines)
           N == Len(lines)
<1>1. f = OutBody(lines, f)
      BY OutExists DEF Out
<1>2. parseCities(lines) = f[N]
      BY DEF parseCities, Out, OutBody
<1> HIDE DEF f
<1>3. N \in Nat
      OBVIOUS
<1>4. f[0] = <<>>
  <2>1. 0 \in 0 .. N
        BY <1>3
  <2> QED
      BY <1>1, <2>1 DEF OutBody
<1>5. ASSUME NEW n \in 1 .. N
      PROVE  f[n] = IF Kept(lines[n]) THEN Append(f[n - 1], lines[n]) ELSE f[n - 1]
  <2>1. n \in 0 .. N /\ n # 0
        BY <1>3
  <2> QED
      BY <1>1, <2>1 DEF OutBody
<1> QED
    BY <1>2, <1>4, <1>5 DEF f

LEMMA OutType ==
    ASSUME NEW lines \in Seq(CityLine)
    PROVE  \A n \in 0 .. Len(lines) : Out(lines)[n] \in Seq(CityLine)
<1> DEFINE C == {n \in Nat : n =< Len(lines) => Out(lines)[n] \in Seq(CityLine)}
<1>1. 0 \in C
      BY OutLoop, EmptySeq
<1>2. ASSUME NEW n \in Nat, n \in C PROVE n + 1 \in C
  <2> SUFFICES ASSUME n + 1 =< Len(lines) PROVE Out(lines)[n + 1] \in Seq(CityLine)
      OBVIOUS
  <2>1. n + 1 \in 1 .. Len(lines) /\ (n + 1) - 1 = n /\ lines[n + 1] \in CityLine
        OBVIOUS
  <2>2. Out(lines)[n] \in Seq(CityLine)
        BY <1>2
  <2>3. Append(Out(lines)[n], lines[n + 1]) \in Seq(CityLine)
        BY <2>1, <2>2, AppendProperties
  <2> QED
      BY <2>1, <2>2, <2>3, OutLoop
<1>3. Nat \subseteq C
  <2> HIDE DEF C
  <2> QED
      BY <1>1, <1>2, NatSetInduction
<1> QED
    BY <1>3

LEMMA ScanType ==
    ASSUME NEW ids, NEW f \in [ids -> Found], NEW line \in AltLine, line.place \in ids
    PROVE  Scan(f, line) \in [ids -> Found]
<1>1. [set |-> TRUE, name |-> line.name, preferred |-> f[line.place].preferred \/ line.preferred]
         \in Found
      BY DEF Found, AltLine
<1> QED
    BY <1>1 DEF Scan

LEMMA ResExists ==
    ASSUME NEW ids, NEW lines \in Seq(AltLine)
    PROVE  \E f : f = ResBody(lines, ids, f)
<1> DEFINE N == Len(lines)
           S == [ids -> Found]
           G == [n \in 1 .. N |->
                    [t \in S |-> IF Skipped(lines[n], ids) THEN t ELSE Scan(t, lines[n])]]
           x == NoneFound(ids)
<1>1. N \in Nat /\ x \in S /\ \A n \in 1 .. N : lines[n] \in AltLine
      BY DEF NoneFound, Found
<1>2. \A n \in 1 .. N, t \in S :
         /\ G[n][t] = (IF Skipped(lines[n], ids) THEN t ELSE Scan(t, lines[n]))
         /\ ~Skipped(lines[n], ids) => Scan(t, lines[n]) \in S
      BY <1>1, ScanType DEF Skipped
<1>3. \A n \in 1 .. N : \A t \in S : G[n][t] \in S
      BY <1>2
<1> HIDE DEF G, S, N, x
<1>4. LoopOf(N, S, x, G)
      BY <1>1, <1>3, LoopExists
<1>5. PICK g \in [0 .. N -> S] : g[0] = x /\ \A n \in 1 .. N : g[n] = G[n][g[n - 1]]
      BY <1>4 DEF LoopOf
<1>6. ASSUME NEW n \in 0 .. N PROVE g[n] = ResBody(lines, ids, g)[n]
  <2>1. ResBody(lines, ids, g)[n] = IF n = 0 THEN x ELSE
           IF Skipped(lines[n], ids) THEN g[n - 1] ELSE Scan(g[n - 1], lines[n])
        BY DEF ResBody, N, x
  <2>2. CASE n = 0
        BY <1>5, <2>1, <2>2
  <2>3. CASE n # 0
    <3>1. n \in 1 .. N /\ g[n - 1] \in S
          BY <1>1, <1>5, <2>3
    <3> QED
        BY <1>2, <1>5, <2>1, <2>3, <3>1
  <2> QED
      BY <2>2, <2>3
<1>7. /\ g = [n \in 0 .. N |-> g[n]]
      /\ ResBody(lines, ids, g) = [n \in 0 .. N |-> ResBody(lines, ids, g)[n]]
      BY <1>5 DEF ResBody, N
<1>8. g = ResBody(lines, ids, g)
      BY <1>6, <1>7
<1> QED
    BY <1>8

LEMMA ResLoop ==
    ASSUME NEW ids, NEW lines \in Seq(AltLine)
    PROVE  /\ parseRuNames(lines, ids) = Res(lines, ids)[Len(lines)]
           /\ Res(lines, ids)[0] = NoneFound(ids)
           /\ \A n \in 1 .. Len(lines) : Res(lines, ids)[n] =
                 IF Skipped(lines[n], ids) THEN Res(lines, ids)[n - 1]
                 ELSE Scan(Res(lines, ids)[n - 1], lines[n])
<1> DEFINE f == Res(lines, ids)
           N == Len(lines)
<1>1. f = ResBody(lines, ids, f)
      BY ResExists DEF Res
<1>2. parseRuNames(lines, ids) = f[N]
      BY DEF parseRuNames, Res, ResBody, NoneFound
<1> HIDE DEF f
<1>3. N \in Nat
      OBVIOUS
<1>4. f[0] = NoneFound(ids)
  <2>1. 0 \in 0 .. N
        BY <1>3
  <2> QED
      BY <1>1, <2>1 DEF ResBody
<1>5. ASSUME NEW n \in 1 .. N
      PROVE  f[n] = IF Skipped(lines[n], ids) THEN f[n - 1] ELSE Scan(f[n - 1], lines[n])
  <2>1. n \in 0 .. N /\ n # 0
        BY <1>3
  <2> QED
      BY <1>1, <2>1 DEF ResBody
<1> QED
    BY <1>2, <1>4, <1>5 DEF f

LEMMA ResType ==
    ASSUME NEW ids, NEW lines \in Seq(AltLine)
    PROVE  \A n \in 0 .. Len(lines) : Res(lines, ids)[n] \in [ids -> Found]
<1> DEFINE C == {n \in Nat : n =< Len(lines) => Res(lines, ids)[n] \in [ids -> Found]}
<1>1. 0 \in C
  <2>1. NoneFound(ids) \in [ids -> Found]
        BY DEF NoneFound, Found
  <2> QED
      BY <2>1, ResLoop
<1>2. ASSUME NEW n \in Nat, n \in C PROVE n + 1 \in C
  <2> SUFFICES ASSUME n + 1 =< Len(lines) PROVE Res(lines, ids)[n + 1] \in [ids -> Found]
      OBVIOUS
  <2>1. n + 1 \in 1 .. Len(lines) /\ (n + 1) - 1 = n /\ lines[n + 1] \in AltLine
        OBVIOUS
  <2>2. Res(lines, ids)[n] \in [ids -> Found]
        BY <1>2
  <2>3. ~Skipped(lines[n + 1], ids) => Scan(Res(lines, ids)[n], lines[n + 1]) \in [ids -> Found]
        BY <2>1, <2>2, ScanType DEF Skipped
  <2> QED
      BY <2>1, <2>2, <2>3, ResLoop
<1>3. Nat \subseteq C
  <2> HIDE DEF C
  <2> QED
      BY <1>1, <1>2, NatSetInduction
<1> QED
    BY <1>3

(* A line that is kept of a place, and the last line of a place.           *)
Fits(lines, p, i) == lines[i].place = p /\ Kept(lines[i])
LastIs(seq, p, line) ==
    \E k \in 1 .. Len(seq) : /\ seq[k] = line /\ line.place = p
                             /\ \A m \in k + 1 .. Len(seq) : seq[m].place # p

(* The lines that are kept are of the places that fit, in their order.     *)
Filtered(lines, out, n) ==
    \A p \in Places :
        /\ (\E i \in 1 .. n : Fits(lines, p, i)) <=> \E k \in 1 .. Len(out) : out[k].place = p
        /\ \A i \in 1 .. n :
              Fits(lines, p, i) /\ (\A j \in 1 .. n : Fits(lines, p, j) => j =< i)
                 => LastIs(out, p, lines[i])

LEMMA OneMoreLine ==
    ASSUME NEW lines \in Seq(CityLine), NEW out \in Seq(CityLine), NEW n \in Nat,
           n + 1 =< Len(lines), Filtered(lines, out, n)
    PROVE  Filtered(lines, IF Kept(lines[n + 1]) THEN Append(out, lines[n + 1]) ELSE out, n + 1)
<1> DEFINE l == lines[n + 1]
<1>1. l \in CityLine
      OBVIOUS
<1>2. CASE ~Kept(l)
  <2>1. \A p \in Places : ~Fits(lines, p, n + 1)
        BY <1>2 DEF Fits
  <2>2. ASSUME NEW p \in Places
        PROVE  /\ (\E i \in 1 .. n + 1 : Fits(lines, p, i)) <=> \E i \in 1 .. n : Fits(lines, p, i)
               /\ \A i \in 1 .. n + 1 : Fits(lines, p, i) => i \in 1 .. n
        BY <2>1
  <2>3. Filtered(lines, out, n + 1)
    <3> SUFFICES ASSUME NEW p \in Places
                 PROVE  /\ (\E i \in 1 .. n + 1 : Fits(lines, p, i))
                              <=> \E k \in 1 .. Len(out) : out[k].place = p
                        /\ \A i \in 1 .. n + 1 :
                              Fits(lines, p, i) /\ (\A j \in 1 .. n + 1 : Fits(lines, p, j) => j =< i)
                                 => LastIs(out, p, lines[i])
        BY DEF Filtered
    <3>1. 1 .. n \subseteq 1 .. n + 1
          OBVIOUS
    <3> QED
        BY <2>2, <3>1 DEF Filtered
  <2> QED
      BY <1>2, <2>3
<1>3. CASE Kept(l)
  <2> DEFINE new == Append(out, l)
             N == Len(out)
  <2>1. /\ N \in Nat /\ new \in Seq(CityLine) /\ Len(new) = N + 1 /\ new[N + 1] = l
        /\ \A k \in 1 .. N : new[k] = out[k]
        BY <1>1, AppendProperties
  <2> HIDE DEF new, N
  <2>2. Fits(lines, l.place, n + 1) /\ \A p \in Places : p # l.place => ~Fits(lines, p, n + 1)
        BY <1>3 DEF Fits
  <2> SUFFICES ASSUME NEW p \in Places
               PROVE  /\ (\E i \in 1 .. n + 1 : Fits(lines, p, i))
                            <=> \E k \in 1 .. Len(new) : new[k].place = p
                      /\ \A i \in 1 .. n + 1 :
                            Fits(lines, p, i) /\ (\A j \in 1 .. n + 1 : Fits(lines, p, j) => j =< i)
                               => LastIs(new, p, lines[i])
      BY <1>3 DEF Filtered, new
  <2>3. CASE p = l.place
    <3>1. n + 1 \in 1 .. n + 1 /\ N + 1 \in 1 .. Len(new)
          BY <2>1
    <3>2. LastIs(new, p, l)
          BY <2>1, <2>3, <3>1 DEF LastIs
    <3>3. ASSUME NEW i \in 1 .. n + 1, \A j \in 1 .. n + 1 : Fits(lines, p, j) => j =< i
          PROVE  i = n + 1
          BY <2>2, <2>3, <3>1, <3>3
    <3> QED
        BY <2>1, <2>2, <2>3, <3>1, <3>2, <3>3
  <2>4. CASE p # l.place
    <3>1. ~Fits(lines, p, n + 1)
          BY <2>2, <2>4
    <3>2. (\E i \in 1 .. n + 1 : Fits(lines, p, i)) <=> \E i \in 1 .. n : Fits(lines, p, i)
          BY <3>1
    <3>3. (\E k \in 1 .. Len(new) : new[k].place = p) <=> \E k \in 1 .. N : out[k].place = p
          BY <2>1, <2>4
    <3>4. ASSUME NEW i \in 1 .. n + 1, Fits(lines, p, i),
                 \A j \in 1 .. n + 1 : Fits(lines, p, j) => j =< i
          PROVE  LastIs(new, p, lines[i])
      <4>1. i \in 1 .. n /\ \A j \in 1 .. n : Fits(lines, p, j) => j =< i
            BY <3>1, <3>4
      <4>2. LastIs(out, p, lines[i])
            BY <3>4, <4>1 DEF Filtered
      <4>3. PICK k \in 1 .. N : /\ out[k] = lines[i] /\ lines[i].place = p
                                /\ \A m \in k + 1 .. N : out[m].place # p
            BY <4>2 DEF LastIs, N
      <4>4. k \in 1 .. Len(new) /\ new[k] = lines[i]
            BY <2>1, <4>3
      <4>5. ASSUME NEW m \in k + 1 .. Len(new) PROVE new[m].place # p
        <5>1. CASE m = N + 1
              BY <2>1, <2>4, <5>1
        <5>2. CASE m # N + 1
          <6>1. m \in k + 1 .. N /\ m \in 1 .. N
                BY <2>1, <5>2
          <6> QED
              BY <2>1, <4>3, <6>1
        <5> QED
            BY <5>1, <5>2
      <4> QED
          BY <4>3, <4>4, <4>5 DEF LastIs
    <3> QED
        BY <3>2, <3>3, <3>4 DEF Filtered, N
  <2> QED
      BY <2>3, <2>4
<1> QED
    BY <1>2, <1>3

LEMMA LinesFiltered ==
    ASSUME NEW lines \in Seq(CityLine)
    PROVE  /\ parseCities(lines) \in Seq(CityLine)
           /\ Filtered(lines, parseCities(lines), Len(lines))
<1> DEFINE C == {n \in Nat : n =< Len(lines) => Filtered(lines, Out(lines)[n], n)}
<1>0. Len(lines) \in Nat
      OBVIOUS
<1>1. 0 \in C
  <2>1. Out(lines)[0] = <<>>
        BY OutLoop
  <2>2. Filtered(lines, <<>>, 0)
        BY DEF Filtered
  <2> QED
      BY <2>1, <2>2
<1>2. ASSUME NEW n \in Nat, n \in C PROVE n + 1 \in C
  <2> SUFFICES ASSUME n + 1 =< Len(lines) PROVE Filtered(lines, Out(lines)[n + 1], n + 1)
      OBVIOUS
  <2>1. n \in 0 .. Len(lines) /\ n + 1 \in 1 .. Len(lines) /\ (n + 1) - 1 = n
        BY <1>0
  <2>2. Filtered(lines, Out(lines)[n], n) /\ Out(lines)[n] \in Seq(CityLine)
        BY <1>2, <2>1, OutType
  <2>3. Out(lines)[n + 1] = IF Kept(lines[n + 1]) THEN Append(Out(lines)[n], lines[n + 1])
                            ELSE Out(lines)[n]
        BY <2>1, OutLoop
  <2> QED
      BY <2>1, <2>2, <2>3, OneMoreLine
<1>3. Nat \subseteq C
  <2> HIDE DEF C
  <2> QED
      BY <1>1, <1>2, NatSetInduction
<1>4. Len(lines) \in 0 .. Len(lines)
      BY <1>0
<1> QED
    BY <1>0, <1>3, <1>4, OutLoop, OutType

-----------------------------------------------------------------------------
(* The names.                                                              *)

(* What the scan knows of a place after n lines, f being its entry: the    *)
(* name is that of the last preferred line, or else of the first.          *)
Names1(lines, p, n, f) ==
    LET fit == {i \in 1 .. n : ~Skipped(lines[i], {p})}
        best == {i \in fit : lines[i].preferred}
    IN /\ f.set <=> fit # {}
       /\ f.preferred <=> best # {}
       /\ fit = {} => f.name = NoName
       /\ \A i \in best : (\A j \in best : j =< i) => f.name = lines[i].name
       /\ best = {} => \A i \in fit : (\A j \in fit : i =< j) => f.name = lines[i].name

LEMMA OneMoreName ==
    ASSUME NEW lines \in Seq(AltLine), NEW n \in Nat, n + 1 =< Len(lines), NEW ids, NEW p \in ids,
           NEW f \in [ids -> Found], Names1(lines, p, n, f[p])
    PROVE  Names1(lines, p, n + 1,
                  (IF Skipped(lines[n + 1], ids) THEN f ELSE Scan(f, lines[n + 1]))[p])
<1> DEFINE l == lines[n + 1]
           fit == {i \in 1 .. n : ~Skipped(lines[i], {p})}
           best == {i \in fit : lines[i].preferred}
           fit1 == {i \in 1 .. n + 1 : ~Skipped(lines[i], {p})}
           best1 == {i \in fit1 : lines[i].preferred}
           g == f[p]
<1>1. /\ g.set <=> fit # {}
      /\ g.preferred <=> best # {}
      /\ fit = {} => g.name = NoName
      /\ \A i \in best : (\A j \in best : j =< i) => g.name = lines[i].name
      /\ best = {} => \A i \in fit : (\A j \in fit : i =< j) => g.name = lines[i].name
      BY DEF Names1
<1>2. /\ l \in AltLine /\ g \in Found /\ n + 1 \in 1 .. n + 1
      /\ fit \subseteq 1 .. n /\ fit1 \subseteq 1 .. n + 1
      OBVIOUS
<1>3. CASE Skipped(l, {p})
  <2>1. (IF Skipped(l, ids) THEN f ELSE Scan(f, l))[p] = g
    <3>1. CASE Skipped(l, ids)
          BY <3>1
    <3>2. CASE ~Skipped(l, ids)
      <4>1. l.place # p
            BY <1>3, <3>2 DEF Skipped
      <4>2. Scan(f, l)[p] = g
            BY <4>1 DEF Scan
      <4> QED
          BY <3>2, <4>2
    <3> QED
        BY <3>1, <3>2
  <2>2. fit1 = fit
        BY <1>3
  <2>3. best1 = best
        BY <2>2
  <2>4. Names1(lines, p, n + 1, g)
        BY <1>1, <2>2, <2>3 DEF Names1
  <2> QED
      BY <2>1, <2>4
<1>4. CASE ~Skipped(l, {p})
  <2>1. l.place = p /\ ~Skipped(l, ids)
        BY <1>4 DEF Skipped
  <2>2. fit1 = fit \cup {n + 1}
        BY <1>2, <1>4
  <2>3. best1 = IF l.preferred THEN best \cup {n + 1} ELSE best
        BY <2>2
  <2>4. Scan(f, l)[p] = IF KeepsName(g, l) THEN g
                        ELSE [set |-> TRUE, name |-> l.name, preferred |-> g.preferred \/ l.preferred]
        BY <2>1 DEF Scan
  <2>5. ASSUME NEW h, h = Scan(f, l)[p]
        PROVE  /\ h.set <=> fit1 # {}
               /\ h.preferred <=> best1 # {}
               /\ fit1 = {} => h.name = NoName
               /\ \A i \in best1 : (\A j \in best1 : j =< i) => h.name = lines[i].name
               /\ best1 = {} => \A i \in fit1 : (\A j \in fit1 : i =< j) => h.name = lines[i].name
    <3> HIDE DEF fit, best, fit1, best1, l, g
    <3>0. best \subseteq fit
          BY DEF best
    <3>1. CASE KeepsName(g, l)
      <4>1. h = g /\ ~l.preferred /\ fit # {}
            BY <1>1, <2>4, <2>5, <3>0, <3>1 DEF KeepsName
      <4>2. best1 = best
            BY <2>3, <4>1
      <4>3. ASSUME NEW i \in fit1, \A j \in fit1 : i =< j PROVE i \in fit /\ \A j \in fit : i =< j
        <5>1. PICK j \in fit : TRUE
              BY <4>1
        <5>2. j \in 1 .. n /\ i =< j /\ i \in 1 .. n + 1
              BY <1>2, <2>2, <4>3, <5>1
        <5>3. i # n + 1
              BY <5>2
        <5> QED
            BY <2>2, <4>3, <5>3
      <4> QED
          BY <1>1, <2>2, <4>1, <4>2, <4>3
    <3>2. CASE ~KeepsName(g, l)
      <4>1. h.set /\ h.name = l.name /\ (h.preferred <=> g.preferred \/ l.preferred)
        <5>1. h = [set |-> TRUE, name |-> l.name, preferred |-> g.preferred \/ l.preferred]
              BY <2>4, <2>5, <3>2
        <5> QED
            BY <5>1, Zenon
      <4>2. l.preferred \/ (~g.preferred /\ ~g.set)
            BY <3>2 DEF KeepsName
      <4>3. h.preferred <=> best1 # {}
            BY <1>1, <2>3, <4>1
      <4>4. ASSUME NEW i \in best1, \A j \in best1 : j =< i PROVE h.name = lines[i].name
        <5>1. CASE l.preferred
          <6>1. n + 1 =< i /\ i \in 1 .. n + 1
                BY <1>2, <2>2, <2>3, <3>0, <4>4, <5>1
          <6>2. i = n + 1
                BY <6>1
          <6> QED
              BY <4>1, <6>2 DEF l
        <5>2. CASE ~l.preferred
              BY <1>1, <2>3, <4>2, <4>4, <5>2
        <5> QED
            BY <5>1, <5>2
      <4>5. ASSUME best1 = {}, NEW i \in fit1 PROVE h.name = lines[i].name
        <5>1. ~l.preferred /\ fit = {}
              BY <1>1, <2>3, <4>2, <4>5
        <5>2. i = n + 1
              BY <2>2, <5>1
        <5> QED
            BY <4>1, <5>2 DEF l
      <4> QED
          BY <2>2, <4>1, <4>3, <4>4, <4>5
    <3> QED
        BY <3>1, <3>2
  <2>6. Names1(lines, p, n + 1, Scan(f, l)[p])
        BY <2>5 DEF Names1
  <2> QED
      BY <2>1, <2>6
<1> QED
    BY <1>3, <1>4

LEMMA NamesFound ==
    ASSUME NEW lines \in Seq(AltLine), NEW ids, NEW p \in ids
    PROVE  /\ parseRuNames(lines, ids) \in [ids -> Found]
           /\ Names1(lines, p, Len(lines), parseRuNames(lines, ids)[p])
<1> DEFINE f == Res(lines, ids)
           C == {n \in Nat : n =< Len(lines) => Names1(lines, p, n, f[n][p])}
<1>0. Len(lines) \in Nat
      OBVIOUS
<1>1. 0 \in C
  <2>1. f[0][p] = [set |-> FALSE, name |-> NoName, preferred |-> FALSE]
    <3>1. f[0] = NoneFound(ids)
          BY ResLoop
    <3> HIDE DEF f
    <3> QED
        BY <3>1 DEF NoneFound
  <2>2. Names1(lines, p, 0, [set |-> FALSE, name |-> NoName, preferred |-> FALSE])
        BY DEF Names1
  <2> QED
      BY <2>1, <2>2
<1>2. ASSUME NEW n \in Nat, n \in C PROVE n + 1 \in C
  <2> SUFFICES ASSUME n + 1 =< Len(lines) PROVE Names1(lines, p, n + 1, f[n + 1][p])
      OBVIOUS
  <2>1. n \in 0 .. Len(lines) /\ n + 1 \in 1 .. Len(lines) /\ (n + 1) - 1 = n
        BY <1>0
  <2>2. Names1(lines, p, n, f[n][p]) /\ f[n] \in [ids -> Found]
        BY <1>2, <2>1, ResType
  <2>3. f[n + 1] = IF Skipped(lines[n + 1], ids) THEN f[n] ELSE Scan(f[n], lines[n + 1])
        BY <2>1, ResLoop
  <2> HIDE DEF f
  <2> QED
      BY <2>1, <2>2, <2>3, OneMoreName
<1>3. Nat \subseteq C
  <2> HIDE DEF C
  <2> QED
      BY <1>1, <1>2, NatSetInduction
<1>4. Len(lines) \in 0 .. Len(lines)
      BY <1>0
<1> QED
    BY <1>0, <1>3, <1>4, ResLoop, ResType

(* And so the name is the one that is meant, whatever places are asked for.*)
LEMMA NameIsRight ==
    ASSUME NEW lines \in Seq(AltLine), NEW ids, NEW p \in ids
    PROVE  parseRuNames(lines, ids)[p].name = RuName(lines, p)
<1> DEFINE N == Len(lines)
           fit == {i \in DOMAIN lines : ~Skipped(lines[i], {p})}
           best == {i \in fit : lines[i].preferred}
           f == parseRuNames(lines, ids)[p]
<1>1. N \in Nat /\ DOMAIN lines = 1 .. N
      OBVIOUS
<1>2. /\ fit = {} => f.name = NoName
      /\ \A i \in best : (\A j \in best : j =< i) => f.name = lines[i].name
      /\ best = {} => \A i \in fit : (\A j \in fit : i =< j) => f.name = lines[i].name
  <2>1. Names1(lines, p, N, f)
        BY NamesFound
  <2> HIDE DEF f
  <2> QED
      BY <1>1, <2>1 DEF Names1
<1>3. RuName(lines, p) =
         CASE best # {} -> lines[CHOOSE i \in best : \A j \in best : j =< i].name
           [] best = {} /\ fit # {} -> lines[CHOOSE i \in fit : \A j \in fit : i =< j].name
           [] OTHER -> NoName
      BY DEF RuName
<1>4. fit \subseteq Nat /\ fit \subseteq 1 .. N /\ best \subseteq fit
      BY <1>1
<1> HIDE DEF fit, best, f, N
<1>5. CASE best # {}
  <2>1. \E i \in best : \A j \in best : j =< i
        BY <1>1, <1>4, <1>5, GreatestOf
  <2> DEFINE i == CHOOSE i \in best : \A j \in best : j =< i
  <2>2. i \in best /\ \A j \in best : j =< i
        BY <2>1
  <2>3. RuName(lines, p) = lines[i].name
        BY <1>3, <1>5
  <2> HIDE DEF i
  <2>4. f.name = lines[i].name
        BY <1>2, <2>2
  <2> QED
      BY <2>3, <2>4 DEF f
<1>6. CASE best = {} /\ fit # {}
  <2>1. \E i \in fit : \A j \in fit : i =< j
        BY <1>4, <1>6, LeastOf
  <2> DEFINE i == CHOOSE i \in fit : \A j \in fit : i =< j
  <2>2. i \in fit /\ \A j \in fit : i =< j
        BY <2>1
  <2>3. RuName(lines, p) = lines[i].name
        BY <1>3, <1>6
  <2> HIDE DEF i
  <2>4. f.name = lines[i].name
        BY <1>2, <1>6, <2>2
  <2> QED
      BY <2>3, <2>4 DEF f
<1>7. CASE best = {} /\ fit = {}
      BY <1>2, <1>3, <1>7 DEF f
<1> QED
    BY <1>5, <1>6, <1>7

-----------------------------------------------------------------------------
(* The command.                                                            *)

Command == [pc : {"idle", "truncate", "upsert"}, truncate : BOOLEAN, dump : Dumps \cup {None},
            next : Nat \ {0}, done : BOOLEAN, runs : Nat]

(* What a run knows, and what of its dump is in the table once the first n *)
(* lines are written.                                                      *)
Running ==
    /\ imp \in Command
    /\ imp.pc # "idle" \/ imp.done => imp.dump \in Dumps
    /\ imp.pc # "idle" => ~imp.done
    /\ imp.pc = "truncate" => imp.truncate /\ imp.next = 1
OneRowEach ==
    \A c, d \in Known : cities[c].place = cities[d].place => c = d
WrittenUpTo(n) ==
    /\ \A p \in Places, k \in 1 .. n :
          Parsed[k].place = p /\ (\A m \in k + 1 .. n : Parsed[m].place # p)
             => \E c \in Cities : /\ cities[c].place = p /\ cities[c].at = Parsed[k].at
                                  /\ cities[c].name = nullable(RuNames[p].name)
    /\ imp.truncate => \A c \in Known : \E k \in 1 .. n : Parsed[k].place = cities[c].place
Written ==
    /\ imp.pc = "upsert" => imp.next =< Len(Parsed) + 1 /\ WrittenUpTo(imp.next - 1)
    /\ imp.done => WrittenUpTo(Len(Parsed))
ImpInv == TypeOK /\ Running /\ OneRowEach /\ Written

(* The rows of a dump that is read are ones that the table may have.       *)
LEMMA DumpOK ==
    ASSUME imp.dump \in Dumps
    PROVE  /\ imp.dump.cities \in Seq(CityLine) /\ imp.dump.alt \in Seq(AltLine)
           /\ Parsed \in Seq(CityLine) /\ Len(Parsed) \in Nat
           /\ \A k \in 1 .. Len(Parsed) :
                 /\ Parsed[k].place \in Places /\ Parsed[k].at \in Points
                 /\ nullable(RuNames[Parsed[k].place].name) \in Names \cup {None}
           /\ \A p : (\E k \in 1 .. Len(Parsed) : Parsed[k].place = p) =>
                 RuNames[p].name = RuName(imp.dump.alt, p)
<1>1. imp.dump.cities \in Seq(CityLine) /\ imp.dump.alt \in Seq(AltLine)
      BY ImportAssumption
<1>2. Parsed \in Seq(CityLine)
      BY <1>1, LinesFiltered DEF Parsed
<1>3. Len(Parsed) \in Nat /\ DOMAIN Parsed = 1 .. Len(Parsed)
      BY <1>2
<1>4. ASSUME NEW p, NEW k \in 1 .. Len(Parsed), Parsed[k].place = p
      PROVE  RuNames[p].name = RuName(imp.dump.alt, p) /\ RuNames[p] \in Found
  <2>1. p \in PlacesIn(Parsed)
        BY <1>3, <1>4 DEF PlacesIn
  <2>2. parseRuNames(imp.dump.alt, PlacesIn(Parsed)) \in [PlacesIn(Parsed) -> Found]
        BY <1>1, <2>1, NamesFound
  <2>3. parseRuNames(imp.dump.alt, PlacesIn(Parsed))[p].name = RuName(imp.dump.alt, p)
        BY <1>1, <2>1, NameIsRight
  <2> QED
      BY <2>1, <2>2, <2>3 DEF RuNames
<1>5. ASSUME NEW k \in 1 .. Len(Parsed)
      PROVE  /\ Parsed[k].place \in Places /\ Parsed[k].at \in Points
             /\ nullable(RuNames[Parsed[k].place].name) \in Names \cup {None}
  <2>1. Parsed[k] \in CityLine
        BY <1>2
  <2>2. RuNames[Parsed[k].place].name \in Names \cup {NoName}
        BY <1>4 DEF Found
  <2> QED
      BY <2>1, <2>2 DEF CityLine, nullable
<1> QED
    BY <1>1, <1>2, <1>3, <1>4, <1>5

LEMMA UpsertIsOfGeo ==
    ASSUME Running, UpsertCity
    PROVE  \E place \in Places, p \in Points, name \in Names \cup {None} :
              Upsert(place, p, name)
<1>1. imp.dump \in Dumps /\ imp.next \in 1 .. Len(Parsed)
  <2>1. imp.dump \in Dumps /\ imp.next \in Nat \ {0} /\ imp.next =< Len(Parsed)
        BY DEF Running, UpsertCity, Command
  <2>2. Len(Parsed) \in Nat
        BY <2>1, DumpOK
  <2> QED
      BY <2>1, <2>2
<1> DEFINE line == Parsed[imp.next]
<1>2. /\ line.place \in Places /\ line.at \in Points
      /\ nullable(RuNames[line.place].name) \in Names \cup {None}
      BY <1>1, DumpOK
<1>3. Upsert(line.place, line.at, nullable(RuNames[line.place].name))
      BY DEF UpsertCity
<1> QED
    BY <1>2, <1>3

LEMMA ImportIsOfGeo ==
    ASSUME Running, [ImportNext]_<<vars, imp>>
    PROVE  [Next]_vars
<1>1. CASE StartImport \/ FinishImport \/ FailImport \/ UNCHANGED <<vars, imp>>
      BY <1>1 DEF StartImport, FinishImport, FailImport, vars
<1>2. CASE TruncateCities
      BY <1>2 DEF TruncateCities, Next
<1>3. CASE UpsertCity
      BY <1>3, UpsertIsOfGeo DEF Next
<1>4. CASE (Tick \/ \E r \in Requests : Endpoint(r)) /\ UNCHANGED imp
      BY <1>4 DEF Next
<1> QED
    BY <1>1, <1>2, <1>3, <1>4 DEF ImportNext

(* A request leaves the table of cities alone.                             *)
LEMMA RequestsKeepCities ==
    ASSUME Tick \/ \E r \in Requests : Endpoint(r)
    PROVE  cities' = cities
BY DEF Tick, Endpoint, StartUpdateGPS, StartSetLocation, Fail, Statement, CurrentGeo,
       Plausible, NearestCityID, ApplyGPS, CityExists, SetManual, SetAuto, ModeAndCity

LEMMA NextRunning == Running /\ [ImportNext]_<<vars, imp>> => Running'
<1> SUFFICES ASSUME Running, [ImportNext]_<<vars, imp>> PROVE Running'
    OBVIOUS
<1>0. imp \in Command
      BY DEF Running
<1>1. CASE StartImport
  <2>1. PICK d \in Dumps, truncate \in BOOLEAN :
           imp' = [pc |-> IF truncate THEN "truncate" ELSE "upsert", truncate |-> truncate,
                   dump |-> d, next |-> 1, done |-> FALSE, runs |-> imp.runs + 1]
        BY <1>1 DEF StartImport
  <2>2. imp.runs + 1 \in Nat
        BY <1>0 DEF Command
  <2> QED
      BY <2>1, <2>2 DEF Running, Command
<1>2. CASE TruncateCities
      BY <1>0, <1>2 DEF TruncateCities, Running, Command
<1>3. CASE UpsertCity
      BY <1>0, <1>3 DEF UpsertCity, Running, Command
<1>4. CASE FinishImport
      BY <1>0, <1>4 DEF FinishImport, Running, Command
<1>5. CASE FailImport
  <2>1. imp' = [pc |-> "idle", truncate |-> FALSE, dump |-> None, next |-> 1,
                done |-> FALSE, runs |-> imp.runs]
        BY <1>5 DEF FailImport, NotRun
  <2>2. imp.runs \in Nat
        BY <1>0 DEF Command
  <2> QED
      BY <2>1, <2>2 DEF Running, Command
<1>6. CASE UNCHANGED imp
      BY <1>6 DEF Running
<1> QED
    BY <1>1, <1>2, <1>3, <1>4, <1>5, <1>6 DEF ImportNext

(* The import writes one more line.                                        *)
LEMMA LineWritten ==
    ASSUME ImpInv, UpsertCity
    PROVE  OneRowEach' /\ Written'
<1>1. /\ imp.pc = "upsert" /\ imp.dump \in Dumps /\ imp \in Command /\ ~imp.done
      /\ imp' = [imp EXCEPT !.next = @ + 1]
      /\ imp.next \in Nat \ {0} /\ imp.next =< Len(Parsed)
      /\ WrittenUpTo(imp.next - 1)
      BY DEF ImpInv, Running, Written, UpsertCity, Command
<1>2. /\ imp'.dump = imp.dump /\ imp'.truncate = imp.truncate /\ imp'.pc = "upsert"
      /\ imp'.next = imp.next + 1 /\ imp'.done = FALSE
      BY <1>1 DEF Command
<1>3. Parsed' = Parsed /\ RuNames' = RuNames
      BY <1>2 DEF Parsed, RuNames
<1> DEFINE n == imp.next
           line == Parsed[n]
           place == line.place
           name == nullable(RuNames[place].name)
<1>4. Len(Parsed) \in Nat /\ n \in 1 .. Len(Parsed)
      BY <1>1, DumpOK
<1>5. place \in Places /\ line.at \in Points /\ name \in Names \cup {None} /\ None \notin Places
      BY <1>1, <1>4, DumpOK, GeoAssumption
<1>6. cities \in [Cities -> CityRow]
      BY DEF ImpInv, TypeOK
<1>7. PICK c \in Target(place) :
         cities' = [cities EXCEPT ![c] = [place |-> place, at |-> line.at, name |-> name,
                                          been |-> @.been \cup {line.at}]]
      BY DEF UpsertCity, Upsert
<1>8. c \in Cities
      BY <1>7 DEF Target, Of, Unused
<1> HIDE DEF name, place, line, n
<1>9. /\ cities'[c].place = place /\ cities'[c].at = line.at /\ cities'[c].name = name
      /\ \A d \in Cities : d # c => cities'[d] = cities[d]
      BY <1>6, <1>7, <1>8
<1>10. \A d \in Cities : cities[d].place = place => d = c
  <2> SUFFICES ASSUME NEW d \in Cities, cities[d].place = place PROVE d = c
      OBVIOUS
  <2>1. d \in Of(place)
        BY DEF Of
  <2>2. c \in Of(place)
        BY <1>7, <2>1 DEF Target
  <2> QED
      BY <1>5, <2>1, <2>2 DEF Of, Known, ImpInv, OneRowEach
<1>11. ASSUME NEW d \in Cities, cities[d].place \in Places, cities[d].place # place
       PROVE  d # c
      BY <1>5, <1>7, <1>11 DEF Target, Of, Unused, NoCity
<1>12. OneRowEach'
  <2> SUFFICES ASSUME NEW d \in Known', NEW e \in Known', cities'[d].place = cities'[e].place
               PROVE  d = e
      BY DEF OneRowEach
  <2>1. d \in Cities /\ e \in Cities /\ cities'[d].place # None /\ cities'[e].place # None
        BY DEF Known
  <2>2. CASE d = c \/ e = c
        BY <1>9, <1>10, <2>1, <2>2
  <2>3. CASE d # c /\ e # c
        BY <1>9, <2>1, <2>3 DEF Known, ImpInv, OneRowEach
  <2> QED
      BY <2>2, <2>3
<1>13. \A p \in Places, k \in 1 .. n :
          Parsed[k].place = p /\ (\A m \in k + 1 .. n : Parsed[m].place # p)
             => \E d \in Cities : /\ cities'[d].place = p /\ cities'[d].at = Parsed[k].at
                                  /\ cities'[d].name = nullable(RuNames[p].name)
  <2> SUFFICES ASSUME NEW p \in Places, NEW k \in 1 .. n, Parsed[k].place = p,
                      \A m \in k + 1 .. n : Parsed[m].place # p
               PROVE  \E d \in Cities : /\ cities'[d].place = p /\ cities'[d].at = Parsed[k].at
                                        /\ cities'[d].name = nullable(RuNames[p].name)
      OBVIOUS
  <2>1. CASE k = n
        BY <1>8, <1>9, <2>1 DEF line, place, name
  <2>2. CASE k # n
    <3>1. n \in k + 1 .. n /\ k \in 1 .. n - 1
          BY <1>4, <2>2
    <3>2. p # place
          BY <3>1 DEF place, line
    <3>3. \A m \in k + 1 .. n - 1 : Parsed[m].place # p
          BY <1>4
    <3>4. PICK d \in Cities : /\ cities[d].place = p /\ cities[d].at = Parsed[k].at
                              /\ cities[d].name = nullable(RuNames[p].name)
          BY <1>1, <3>1, <3>3 DEF WrittenUpTo, n
    <3>5. d # c
          BY <1>11, <3>2, <3>4
    <3> QED
        BY <1>9, <3>4, <3>5
  <2> QED
      BY <2>1, <2>2
<1>14. imp.truncate => \A d \in Known' : \E k \in 1 .. n : Parsed[k].place = cities'[d].place
  <2> SUFFICES ASSUME imp.truncate, NEW d \in Known'
               PROVE  \E k \in 1 .. n : Parsed[k].place = cities'[d].place
      OBVIOUS
  <2>1. CASE d = c
        BY <1>4, <1>9, <2>1 DEF place, line
  <2>2. CASE d # c
    <3>1. d \in Known /\ cities'[d] = cities[d]
          BY <1>9, <2>2 DEF Known
    <3>2. PICK k \in 1 .. n - 1 : Parsed[k].place = cities[d].place
          BY <1>1, <3>1 DEF WrittenUpTo, n
    <3> QED
        BY <1>4, <3>1, <3>2
  <2> QED
      BY <2>1, <2>2
<1>15. imp'.next - 1 = n /\ imp'.next =< Len(Parsed) + 1
      BY <1>1, <1>2, <1>4 DEF n
<1>16. Written'
      BY <1>2, <1>3, <1>13, <1>14, <1>15 DEF Written, WrittenUpTo
<1> QED
    BY <1>12, <1>16

LEMMA InitImport == ImportInit => ImpInv
<1> SUFFICES ASSUME ImportInit PROVE ImpInv
    OBVIOUS
<1>1. TypeOK
      BY InitTypeOK DEF ImportInit
<1>2. Running /\ Written
      BY DEF ImportInit, NotRun, Running, Written, Command
<1>3. Known = {}
      BY DEF ImportInit, Init, NoCity, Known
<1> QED
    BY <1>1, <1>2, <1>3 DEF ImpInv, OneRowEach

LEMMA NextImport == ImpInv /\ [ImportNext]_<<vars, imp>> => ImpInv'
<1> SUFFICES ASSUME ImpInv, [ImportNext]_<<vars, imp>> PROVE ImpInv'
    OBVIOUS
<1>a. Running /\ TypeOK
      BY DEF ImpInv
<1>b. Running' /\ [Next]_vars
      BY <1>a, NextRunning, ImportIsOfGeo
<1>c. Running' /\ TypeOK'
      BY <1>a, <1>b, NextTypeOK
<1> SUFFICES OneRowEach' /\ Written'
    BY <1>c DEF ImpInv
<1>0. Running /\ imp \in Command
      BY DEF ImpInv, Running
<1>1. CASE StartImport
  <2>1. PICK d \in Dumps, truncate \in BOOLEAN :
           imp' = [pc |-> IF truncate THEN "truncate" ELSE "upsert", truncate |-> truncate,
                   dump |-> d, next |-> 1, done |-> FALSE, runs |-> imp.runs + 1]
        BY <1>1 DEF StartImport
  <2>2. imp' \in Command /\ imp'.dump \in Dumps
        BY NextRunning, <1>0, <2>1 DEF Running
  <2>3. Len(Parsed') \in Nat
        BY ImportAssumption, LinesFiltered, <2>2 DEF Parsed
  <2>4. cities' = cities
        BY <1>1 DEF StartImport, vars
  <2>5. imp'.pc = "upsert" => ~imp'.truncate
        BY <2>1
  <2>6. imp'.next = 1 /\ ~imp'.done
        BY <2>1
  <2> QED
      BY <2>3, <2>4, <2>5, <2>6 DEF ImpInv, OneRowEach, Known, Written, WrittenUpTo
<1>2. CASE TruncateCities
  <2>1. imp'.pc = "upsert" /\ imp'.next = 1 /\ ~imp'.done /\ imp'.dump \in Dumps
        BY <1>0, <1>2 DEF TruncateCities, Running, Command
  <2>2. Len(Parsed') \in Nat
        BY ImportAssumption, LinesFiltered, <2>1 DEF Parsed
  <2>3. Known' = {}
        BY <1>2 DEF TruncateCities, Truncate, NoCity, Known
  <2> QED
      BY <2>1, <2>2, <2>3 DEF OneRowEach, Written, WrittenUpTo
<1>3. CASE UpsertCity
      BY <1>3, LineWritten
<1>4. CASE FinishImport
  <2>1. /\ imp.next > Len(Parsed) /\ imp.next \in Nat \ {0} /\ imp.pc = "upsert"
        /\ imp.dump \in Dumps /\ imp.next =< Len(Parsed) + 1 /\ WrittenUpTo(imp.next - 1)
        BY <1>0, <1>4 DEF FinishImport, Running, Command, ImpInv, Written
  <2>2. Len(Parsed) \in Nat
        BY <2>1, DumpOK
  <2>3. WrittenUpTo(Len(Parsed))
    <3>1. imp.next - 1 = Len(Parsed)
          BY <2>1, <2>2
    <3> QED
        BY <2>1, <3>1
  <2>4. /\ imp'.pc = "idle" /\ imp'.dump = imp.dump /\ imp'.truncate = imp.truncate
        /\ cities' = cities
        BY <1>0, <1>4 DEF FinishImport, Command, vars
  <2>5. Parsed' = Parsed /\ RuNames' = RuNames
        BY <2>4 DEF Parsed, RuNames
  <2> QED
      BY <2>3, <2>4, <2>5 DEF ImpInv, OneRowEach, Known, Written, WrittenUpTo
<1>5. CASE FailImport
  <2>1. imp'.pc = "idle" /\ ~imp'.done /\ cities' = cities
        BY <1>5 DEF FailImport, NotRun, vars
  <2> QED
      BY <2>1 DEF ImpInv, OneRowEach, Known, Written
<1>6. CASE UNCHANGED <<imp, cities>>
  <2>1. Parsed' = Parsed /\ RuNames' = RuNames
        BY <1>6 DEF Parsed, RuNames
  <2> QED
      BY <1>6, <2>1 DEF ImpInv, OneRowEach, Known, Written, WrittenUpTo
<1>7. CASE (Tick \/ \E r \in Requests : Endpoint(r)) /\ UNCHANGED imp
      BY <1>6, <1>7, RequestsKeepCities
<1>8. CASE UNCHANGED <<vars, imp>>
      BY <1>6, <1>8 DEF vars
<1> QED
    BY <1>1, <1>2, <1>3, <1>4, <1>5, <1>7, <1>8 DEF ImportNext

(* A dump that is written as far as it goes is there as it says.           *)
LEMMA AllThere ==
    ASSUME TypeOK, imp.dump \in Dumps, WrittenUpTo(Len(Parsed))
    PROVE  LET lines == imp.dump.cities
               fit(place) == {i \in DOMAIN lines : lines[i].place = place /\ Kept(lines[i])}
               last(place) == CHOOSE i \in fit(place) : \A j \in fit(place) : j =< i
               kept == {place \in Places : fit(place) # {}}
           IN /\ \A place \in kept : \E c \in Of(place) :
                   /\ cities[c].at = lines[last(place)].at
                   /\ cities[c].name = nullable(RuName(imp.dump.alt, place))
              /\ imp.truncate => {cities[c].place : c \in Known} = kept
<1> DEFINE lines == imp.dump.cities
           fit(place) == {i \in DOMAIN lines : lines[i].place = place /\ Kept(lines[i])}
           last(place) == CHOOSE i \in fit(place) : \A j \in fit(place) : j =< i
           kept == {place \in Places : fit(place) # {}}
           N == Len(Parsed)
<1>1. lines \in Seq(CityLine) /\ Len(lines) \in Nat /\ DOMAIN lines = 1 .. Len(lines) /\ N \in Nat
      BY DumpOK
<1>2. Filtered(lines, Parsed, Len(lines))
      BY <1>1, LinesFiltered DEF Parsed
<1>3. \A p \in Places : p \in kept <=> \E k \in 1 .. N : Parsed[k].place = p
  <2> SUFFICES ASSUME NEW p \in Places PROVE p \in kept <=> \E k \in 1 .. N : Parsed[k].place = p
      OBVIOUS
  <2>1. p \in kept <=> \E i \in 1 .. Len(lines) : Fits(lines, p, i)
        BY <1>1 DEF Fits
  <2> QED
      BY <1>2, <2>1 DEF Filtered
<1>4. ASSUME NEW p \in kept
      PROVE  \E c \in Of(p) : /\ cities[c].at = lines[last(p)].at
                              /\ cities[c].name = nullable(RuName(imp.dump.alt, p))
  <2>1. p \in Places /\ fit(p) \subseteq 1 .. Len(lines) /\ fit(p) # {}
        BY <1>1
  <2>2. \E i \in fit(p) : \A j \in fit(p) : j =< i
    <3> HIDE DEF fit
    <3> QED
        BY <1>1, <2>1, GreatestOf
  <2>3. last(p) \in fit(p) /\ \A j \in fit(p) : j =< last(p)
        BY <2>2
  <2> DEFINE i == last(p)
  <2>4. i \in 1 .. Len(lines) /\ Fits(lines, p, i) /\ \A j \in 1 .. Len(lines) : Fits(lines, p, j) => j =< i
    <3> HIDE DEF last
    <3> QED
        BY <1>1, <2>3 DEF Fits
  <2> HIDE DEF last, fit, kept, lines
  <2>5. LastIs(Parsed, p, lines[i])
        BY <1>2, <2>1, <2>4 DEF Filtered
  <2>6. PICK k \in 1 .. N : /\ Parsed[k] = lines[i] /\ lines[i].place = p
                            /\ \A m \in k + 1 .. N : Parsed[m].place # p
        BY <2>5 DEF LastIs
  <2>7. PICK c \in Cities : /\ cities[c].place = p /\ cities[c].at = Parsed[k].at
                            /\ cities[c].name = nullable(RuNames[p].name)
        BY <2>1, <2>6 DEF WrittenUpTo
  <2>8. RuNames[p].name = RuName(imp.dump.alt, p)
        BY <2>6, DumpOK
  <2> QED
      BY <2>6, <2>7, <2>8 DEF Of
<1>5. imp.truncate => {cities[c].place : c \in Known} = kept
  <2> SUFFICES ASSUME imp.truncate PROVE {cities[c].place : c \in Known} = kept
      OBVIOUS
  <2>1. ASSUME NEW c \in Known PROVE cities[c].place \in kept
    <3>1. PICK k \in 1 .. N : Parsed[k].place = cities[c].place
          BY DEF WrittenUpTo
    <3>2. cities[c].place \in Places
          BY DumpOK, <3>1
    <3> QED
        BY <1>3, <3>1, <3>2
  <2>2. ASSUME NEW p \in kept PROVE \E c \in Known : cities[c].place = p
    <3>1. PICK c \in Of(p) : TRUE
          BY <1>4
    <3>2. p \in Places /\ p # None
          BY GeoAssumption
    <3> HIDE DEF kept
    <3> QED
        BY <3>1, <3>2 DEF Of, Known
  <2> HIDE DEF kept
  <2> QED
      BY <2>1, <2>2
<1> QED
    BY <1>4, <1>5

(* An import that has finished leaves the table as its dump says, whatever *)
(* runs broke off before it, whatever requests do beside it, and whatever  *)
(* the dump holds; and the one pass over the names finds what it should.   *)
THEOREM ImportLeavesTheDump == ImportSpec => []ImportConverges
<1>1. ImpInv => ImportConverges
  <2> SUFFICES ASSUME ImpInv PROVE ImportConverges
      OBVIOUS
  <2>1. NamesMatch
    <3> SUFFICES ASSUME NEW lines \in AltFiles, NEW place \in Places
                 PROVE  parseRuNames(lines, {place})[place].name = RuName(lines, place)
        BY DEF NamesMatch
    <3>1. lines \in Seq(AltLine) /\ place \in {place}
          BY ImportAssumption
    <3> QED
        BY <3>1, NameIsRight
  <2>2. ASSUME NEW place \in Places PROVE Cardinality(Of(place)) =< 1
    <3>1. CASE Of(place) = {}
          BY <3>1, FS_EmptySet
    <3>2. CASE Of(place) # {}
      <4>1. PICK c \in Of(place) : TRUE
            BY <3>2
      <4>2. Of(place) = {c}
            BY <4>1, GeoAssumption DEF Of, Known, ImpInv, OneRowEach
      <4>3. Cardinality({c}) = 1
            BY FS_Singleton
      <4> QED
          BY <4>2, <4>3
    <3> QED
        BY <3>1, <3>2
  <2>3. imp.done => imp.dump \in Dumps /\ WrittenUpTo(Len(Parsed)) /\ TypeOK
        BY DEF ImpInv, Running, Written
  <2> QED
      BY <2>1, <2>2, <2>3, AllThere DEF ImportConverges
<1> QED
    BY <1>1, InitImport, NextImport, PTL DEF ImportSpec

(* A running import does to the table what Geo allows for, and to a user's *)
(* row no more, so that what is proved of Geo holds beside it.             *)
THEOREM ImportStaysWithinGeo == ImportSpec => ImplementsGeo
<1>1. ImportInit => Init
      BY DEF ImportInit
<1>2. ImpInv /\ [ImportNext]_<<vars, imp>> => [Next]_vars
      BY ImportIsOfGeo DEF ImpInv
<1> QED
    BY <1>1, <1>2, InitImport, NextImport, PTL DEF ImportSpec, ImplementsGeo, Spec

(* And so the user's place follows the mode, and jumps are races, while    *)
(* any number of imports run and die.                                      *)
THEOREM GeoBesideTheImport == ImportSpec => [](TypeOK /\ PointFollowsMode) /\ JumpNeedsRace
BY ImportStaysWithinGeo, TypeCorrect, PointIsOfTheMode, JumpsAreRaces, PTL DEF ImplementsGeo
=============================================================================
