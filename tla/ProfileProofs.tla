---------------------------- MODULE ProfileProofs ----------------------------
(***************************************************************************)
(* Proofs about Profile for any photos, contents, ceiling and number of    *)
(* concurrent requests.                                                    *)
(*                                                                         *)
(* Checks and writes are different statements, so what a request has found *)
(* must still be true when it writes: Relies says so of every request that *)
(* has passed its checks.  It is kept because onboarding only moves        *)
(* forward.                                                                *)
(***************************************************************************)
EXTENDS Profile, FunctionTheorems, FiniteSetTheorems, SequenceTheorems, TLAPS

(* The statements of each endpoint.                                        *)
StmtsOf ==
    [SaveBasics |-> {"saveRow", "advanceStep", "reply"},
     SaveAbout |-> {"onboardingStep", "profileByUserID", "countInterests", "saveRow",
                    "advanceStep", "reply"},
     UploadPhoto |-> {"profileByUserID", "onboardingStep", "countPhotos", "put",
                      "insertPhoto", "placePhoto", "cleanUp"},
     SetCrop |-> {"profileByUserID", "updatePhotoCrop"},
     Reorder |-> {"profileByUserID", "photosByProfileID", "shiftPositions",
                  "lockPhotos", "placePhotos", "reply"},
     DeletePhoto |-> {"profileByUserID", "deletePhoto", "deleteObject"},
     Complete |-> {"onboardingStep", "profileByUserID", "countPhotos", "markComplete"}]

(* A request in flight is at a statement of its endpoint and carries what  *)
(* that statement needs.                                                   *)
Form(q) ==
    q.pc # "done" =>
        /\ q.pc \in StmtsOf[q.op]
        /\ q.op = "SaveAbout" => q.text \in Texts
        /\ q.op \in {"SetCrop", "DeletePhoto"} => q.photo \in Photos
        /\ q.pc \in {"insertPhoto", "placePhoto", "cleanUp"} => q.photo \in Photos

TypeInv == TypeOK /\ \A r \in Requests : Form(req[r])

RequestsOK == req \in [Requests -> Request] /\ \A r \in Requests : Form(req[r])

-----------------------------------------------------------------------------

LEMMA NoRequestType == NoRequest \in Request /\ Form(NoRequest)
<1>1. <<>> \in Seq(Photos)
  OBVIOUS
<1>2. NoRequest \in Request
  BY <1>1 DEF NoRequest, Request, Endpoints, Stmts
<1>3. QED BY <1>2 DEF Form, NoRequest

(* A change of one slot preserves the types of all of them.                *)
LEMMA OneSlot ==
    ASSUME TypeInv, NEW r \in Requests, NEW q \in Request, Form(q),
           req' = [req EXCEPT ![r] = q]
    PROVE  RequestsOK'
BY DEF TypeInv, TypeOK, RequestsOK

LEMMA AnswerType ==
    ASSUME TypeInv, NEW r \in Requests, NEW out, Answer(r, out)
    PROVE  RequestsOK'
BY NoRequestType, OneSlot DEF Answer

LEMMA GotoType ==
    ASSUME TypeInv, NEW r \in Requests, NEW stmt \in Stmts, Goto(r, stmt),
           req[r].pc # "done", stmt \in StmtsOf[req[r].op],
           stmt \in {"insertPhoto", "placePhoto", "cleanUp"} => req[r].photo \in Photos
    PROVE  RequestsOK'
<1> DEFINE q == [req[r] EXCEPT !.pc = stmt]
<1>1. req[r] \in Request /\ Form(req[r])
  BY DEF TypeInv, TypeOK
<1>2. req' = [req EXCEPT ![r] = q]
  BY DEF Goto
<1>3. q \in Request
  BY <1>1 DEF Request
<1>4. Form(q)
  BY <1>1 DEF Form, Request
<1>5. QED BY <1>2, <1>3, <1>4, OneSlot

(* An order is a sequence of photos.                                       *)
LEMMA OrderType ==
    ASSUME NEW o \in AnyOrder
    PROVE  o \in Seq(Photos)
<1>1. PICK S \in SUBSET Rows : o \in [1 .. Cardinality(S) -> S]
  BY DEF AnyOrder, Orders
<1>2. Cardinality(S) \in Nat
  BY ProfileAssumption, FS_Subset, FS_CardinalityType DEF Rows
<1>3. o \in [1 .. Cardinality(S) -> Photos]
  BY <1>1 DEF Rows
<1>4. QED BY <1>2, <1>3, SeqDef

-----------------------------------------------------------------------------
(* Types are preserved, one action at a time.                              *)

LEMMA InitType == Init => TypeInv
<1> SUFFICES ASSUME Init PROVE TypeInv
  OBVIOUS
<1>1. RequestsOK
  BY NoRequestType DEF Init, RequestsOK
<1>2. photos \in [Photos -> PhotoRow]
  BY DEF Init, PhotoRow, NoPhoto
<1>3. step \in Steps /\ created \in BOOLEAN /\ profile \in BOOLEAN
  BY DEF Init, Steps, stepRank
<1>4. about \in [fields : Texts \cup {None}, interests : Texts \cup {None}]
  BY DEF Init
<1>5. QED BY <1>1, <1>2, <1>3, <1>4 DEF TypeInv, TypeOK, RequestsOK, Init

LEMMA StartType ==
    ASSUME TypeInv, NEW r \in Requests, Start(r)
    PROVE  TypeInv'
<1>1. PICK op \in Ops :
         \E photo \in IF op \in {"SetCrop", "DeletePhoto"} THEN Photos ELSE {None},
            text \in IF op = "SaveAbout" THEN Texts ELSE {None},
            order \in IF op = "Reorder" THEN {o \in AnyOrder : validateReorder(o)} ELSE {<<>>} :
              req' = [req EXCEPT ![r] = [NoRequest EXCEPT !.op = op, !.photo = photo,
                         !.text = text, !.order = order, !.pc = FirstStatement[op]]]
  BY DEF Start
<1>a. PICK photo \in IF op \in {"SetCrop", "DeletePhoto"} THEN Photos ELSE {None},
           text \in IF op = "SaveAbout" THEN Texts ELSE {None},
           order \in IF op = "Reorder" THEN {o \in AnyOrder : validateReorder(o)} ELSE {<<>>} :
              req' = [req EXCEPT ![r] = [NoRequest EXCEPT !.op = op, !.photo = photo,
                         !.text = text, !.order = order, !.pc = FirstStatement[op]]]
  BY <1>1
<1> DEFINE q == [NoRequest EXCEPT !.op = op, !.photo = photo, !.text = text,
                                  !.order = order, !.pc = FirstStatement[op]]
<1>2. op \in Endpoints /\ photo \in Photos \cup {None} /\ text \in Texts \cup {None}
  BY ProfileAssumption
<1>3. order \in Seq(Photos)
  <2>1. <<>> \in Seq(Photos)
    OBVIOUS
  <2>2. \A o \in AnyOrder : o \in Seq(Photos)
    BY OrderType
  <2>3. QED BY <2>1, <2>2
<1>4. FirstStatement[op] \in Stmts /\ FirstStatement[op] \in StmtsOf[op]
      /\ FirstStatement[op] \notin {"insertPhoto", "placePhoto", "cleanUp"}
  BY <1>2 DEF FirstStatement, Endpoints, Stmts, StmtsOf
<1>6. q \in Request
  BY <1>2, <1>3, <1>4, NoRequestType DEF Request
<1>7. Form(q)
  BY <1>2, <1>4, NoRequestType DEF Form, Request
<1>8. RequestsOK'
  BY <1>a, <1>6, <1>7, OneSlot
<1>9. UNCHANGED <<user, photos, store, history>>
  BY DEF Start
<1>10. QED BY <1>8, <1>9 DEF TypeInv, TypeOK, RequestsOK, user, history

(* Statements that change no table.                                        *)
Looks(r) ==
    \/ ProfileByUserID(r) \/ OnboardingStep(r) \/ CountPhotos(r)
    \/ CountInterests(r) \/ SaveRow(r) \/ Reply(r) \/ InsertPhoto(r)
    \/ PhotosByProfileID(r) \/ ShiftPositions(r) \/ LockPhotos(r)

LEMMA LooksType ==
    ASSUME TypeInv, NEW r \in Requests, Looks(r)
    PROVE  TypeInv'
<1>1. req[r] \in Request /\ Form(req[r])
  BY DEF TypeInv, TypeOK
<1>2. \A out : Answer(r, out) => RequestsOK'
  BY AnswerType
<1>3. RequestsOK'
  <2>1. CASE ProfileByUserID(r)
    <3>1. req[r].op \in {"SaveAbout", "Complete", "UploadPhoto", "SetCrop", "Reorder",
                         "DeletePhoto"}
      BY <1>1, <2>1 DEF ProfileByUserID, At, Form, StmtsOf, Request, Endpoints
    <3>2. ASSUME NEW stmt \in {"countInterests", "countPhotos", "onboardingStep",
                               "updatePhotoCrop", "photosByProfileID", "deletePhoto"},
                 Goto(r, stmt), stmt \in StmtsOf[req[r].op]
          PROVE  RequestsOK'
      BY <2>1, <3>2, GotoType DEF ProfileByUserID, At, Stmts
    <3>3. CASE Answer(r, "PROFILE_NOT_FOUND")
      BY <1>2, <3>3
    <3>4. CASE ~Answer(r, "PROFILE_NOT_FOUND")
      BY <2>1, <3>1, <3>2, <3>4 DEF ProfileByUserID, StmtsOf
    <3>5. QED BY <3>3, <3>4
  <2>2. CASE OnboardingStep(r)
    <3>1. req[r].op \in {"SaveAbout", "UploadPhoto", "Complete"} /\ req[r].pc # "done"
      BY <1>1, <2>2 DEF OnboardingStep, At, Form, StmtsOf, Request, Endpoints
    <3>2. CASE Answer(r, "STEP_ORDER")
      BY <1>2, <3>2
    <3>3. CASE Goto(r, IF req[r].op = "UploadPhoto" THEN "countPhotos" ELSE "profileByUserID")
      BY <3>1, <3>3, GotoType DEF Stmts, StmtsOf
    <3>4. QED BY <2>2, <3>2, <3>3 DEF OnboardingStep
  <2>3. CASE CountPhotos(r)
    <3>1. req[r].op \in {"UploadPhoto", "Complete"} /\ req[r].pc # "done"
      BY <1>1, <2>3 DEF CountPhotos, At, Form, StmtsOf, Request, Endpoints
    <3>2. CASE Answer(r, "VALIDATION_ERROR") \/ Answer(r, "PROFILE_INCOMPLETE")
      BY <1>2, <3>2
    <3>3. CASE req[r].op = "UploadPhoto" /\ Goto(r, "put")
      BY <3>1, <3>3, GotoType DEF Stmts, StmtsOf
    <3>4. CASE req[r].op # "UploadPhoto" /\ Goto(r, "markComplete")
      BY <3>1, <3>4, GotoType DEF Stmts, StmtsOf
    <3>5. QED BY <2>3, <3>2, <3>3, <3>4 DEF CountPhotos
  <2>4. CASE CountInterests(r)
    <3>1. req[r].op = "SaveAbout" /\ req[r].pc # "done"
      BY <1>1, <2>4 DEF CountInterests, At, Form, StmtsOf, Request, Endpoints
    <3>2. CASE Goto(r, "saveRow")
      BY <3>1, <3>2, GotoType DEF Stmts, StmtsOf
    <3>3. QED BY <1>2, <2>4, <3>2 DEF CountInterests
  <2>5. CASE SaveRow(r)
    <3>1. req[r].op \in {"SaveBasics", "SaveAbout"} /\ req[r].pc # "done"
      BY <1>1, <2>5 DEF SaveRow, At, Form, StmtsOf, Request, Endpoints
    <3>2. QED BY <2>5, <3>1, GotoType DEF SaveRow, Stmts, StmtsOf
  <2>6. CASE Reply(r)
    BY <1>2, <2>6 DEF Reply
  <2>7. CASE InsertPhoto(r)
    <3>1. PICK n \in 0 .. 2 * Shift :
             req' = [req EXCEPT ![r] = [@ EXCEPT !.pc = "placePhoto", !.pos = n]]
      BY <2>7 DEF InsertPhoto
    <3> DEFINE q == [req[r] EXCEPT !.pc = "placePhoto", !.pos = n]
    <3>2. req' = [req EXCEPT ![r] = q]
      BY <3>1
    <3>3. n \in Nat
      BY ProfileAssumption
    <3>4. q \in Request
      BY <1>1, <3>3 DEF Request, Stmts
    <3>5. req[r].pc = "insertPhoto"
      BY <2>7 DEF InsertPhoto, At
    <3>6. req[r].op = "UploadPhoto" /\ req[r].photo \in Photos
      BY <1>1, <3>5 DEF Form, StmtsOf, Request, Endpoints
    <3>7. Form(q)
      BY <1>1, <3>6 DEF Form, StmtsOf, Request
    <3>8. QED BY <3>2, <3>4, <3>7, OneSlot
  <2>8. CASE PhotosByProfileID(r)
    <3>1. req[r].op = "Reorder" /\ req[r].pc # "done"
      BY <1>1, <2>8 DEF PhotosByProfileID, At, Form, StmtsOf, Request, Endpoints
    <3>2. CASE Goto(r, "shiftPositions")
      BY <3>1, <3>2, GotoType DEF Stmts, StmtsOf
    <3>3. QED BY <1>2, <2>8, <3>2 DEF PhotosByProfileID
  <2>9. CASE ShiftPositions(r)
    <3> DEFINE q == [req[r] EXCEPT !.pc = "lockPhotos", !.targets = Rows]
    <3>1. req' = [req EXCEPT ![r] = q]
      BY <2>9 DEF ShiftPositions
    <3>2. q \in Request
      BY <1>1 DEF Request, Stmts, Rows
    <3>3. req[r].pc = "shiftPositions"
      BY <2>9 DEF ShiftPositions, At
    <3>4. req[r].op = "Reorder"
      BY <1>1, <3>3 DEF Form, StmtsOf, Request, Endpoints
    <3>5. Form(q)
      BY <1>1, <3>4 DEF Form, StmtsOf, Request
    <3>6. QED BY <3>1, <3>2, <3>5, OneSlot
  <2>10. CASE LockPhotos(r)
    <3>1. CASE Answer(r, "UNIQUE_VIOLATION")
      BY <1>2, <3>1
    <3> DEFINE q == [req[r] EXCEPT !.pc = "placePhotos", !.targets = req[r].targets \cap Rows]
    <3>2. CASE req' = [req EXCEPT ![r] = q]
      <4>1. q \in Request
        BY <1>1 DEF Request, Stmts
      <4>2. req[r].pc = "lockPhotos"
        BY <2>10 DEF LockPhotos, At
      <4>3. req[r].op = "Reorder"
        BY <1>1, <4>2 DEF Form, StmtsOf, Request, Endpoints
      <4>4. Form(q)
        BY <1>1, <4>3 DEF Form, StmtsOf, Request
      <4>5. QED BY <3>2, <4>1, <4>4, OneSlot
    <3>3. QED BY <2>10, <3>1, <3>2 DEF LockPhotos
  <2>11. QED BY <2>1, <2>2, <2>3, <2>4, <2>5, <2>6, <2>7, <2>8, <2>9, <2>10 DEF Looks
<1>4. UNCHANGED <<user, photos, store, history>>
  BY DEF Looks, ProfileByUserID, OnboardingStep, CountPhotos, CountInterests, SaveRow,
         Reply, InsertPhoto, PhotosByProfileID, ShiftPositions, LockPhotos
<1>5. QED BY <1>3, <1>4 DEF TypeInv, TypeOK, RequestsOK, user, history

LEMMA FailType ==
    ASSUME TypeInv, NEW r \in Requests, Fail(r)
    PROVE  TypeInv'
<1>1. RequestsOK'
  BY AnswerType DEF Fail
<1>2. InHand(r) \subseteq Photos
  <2>1. req[r] \in Request /\ Form(req[r])
    BY DEF TypeInv, TypeOK
  <2>2. req[r].pc = "deleteObject" => req[r].op = "DeletePhoto"
    BY <2>1 DEF Form, StmtsOf, Request, Endpoints
  <2>3. QED BY <2>1, <2>2 DEF InHand, Form
<1>3. QED BY <1>1, <1>2 DEF Fail, TypeInv, TypeOK, RequestsOK, user

LEMMA StepsType ==
    ASSUME TypeInv, NEW r \in Requests, AdvanceStep(r) \/ MarkComplete(r)
    PROVE  TypeInv'
<1>1. req[r] \in Request /\ Form(req[r])
  BY DEF TypeInv, TypeOK
<1>2. CASE AdvanceStep(r)
  <2>1. req[r].op \in {"SaveBasics", "SaveAbout"} /\ req[r].pc # "done"
    BY <1>1, <1>2 DEF AdvanceStep, At, Form, StmtsOf, Request, Endpoints
  <2>2. RequestsOK'
    BY <1>2, <2>1, GotoType DEF AdvanceStep, Stmts, StmtsOf
  <2>3. step' \in Steps
    BY <1>2 DEF AdvanceStep, Advanced, Steps, stepRank, TypeInv, TypeOK
  <2>4. about' \in [fields : Texts \cup {None}, interests : Texts \cup {None}]
    BY <1>1, <1>2 DEF AdvanceStep, Request, TypeInv, TypeOK
  <2>5. profile' \in BOOLEAN
    BY <1>2 DEF AdvanceStep, TypeInv, TypeOK
  <2>6. QED
    BY <1>2, <2>2, <2>3, <2>4, <2>5 DEF AdvanceStep, TypeInv, TypeOK, RequestsOK, history
<1>3. CASE MarkComplete(r)
  <2>1. RequestsOK'
    BY <1>3, AnswerType DEF MarkComplete
  <2>2. step' \in Steps
    BY <1>3 DEF MarkComplete, Steps, stepRank
  <2>3. QED BY <1>3, <2>1, <2>2 DEF MarkComplete, TypeInv, TypeOK, RequestsOK, history
<1>4. QED BY <1>2, <1>3

LEMMA StoreType ==
    ASSUME TypeInv, NEW r \in Requests, Put(r) \/ CleanUp(r) \/ DeleteStored(r)
    PROVE  TypeInv'
<1>1. req[r] \in Request /\ Form(req[r])
  BY DEF TypeInv, TypeOK
<1>2. CASE Put(r)
  <2>1. PICK p \in Unused :
           /\ store' = store \cup {p}
           /\ \/ req' = [req EXCEPT ![r] = [@ EXCEPT !.pc = "insertPhoto", !.photo = p]]
                 /\ UNCHANGED lost
              \/ Answer(r, "FAILED") /\ lost' = lost \cup {p}
    BY <1>2 DEF Put
  <2>2. p \in Photos
    BY DEF Unused
  <2>3. RequestsOK'
    <3>1. CASE Answer(r, "FAILED")
      BY <3>1, AnswerType
    <3> DEFINE q == [req[r] EXCEPT !.pc = "insertPhoto", !.photo = p]
    <3>2. CASE req' = [req EXCEPT ![r] = q]
      <4>1. q \in Request
        BY <1>1, <2>2 DEF Request, Stmts
      <4>2. req[r].op = "UploadPhoto"
        <5>1. req[r].pc = "put"
          BY <1>2 DEF Put, At
        <5>2. QED BY <1>1, <5>1 DEF Form, StmtsOf, Request, Endpoints
      <4>3. Form(q)
        BY <1>1, <2>2, <4>2 DEF Form, StmtsOf, Request
      <4>4. QED BY <3>2, <4>1, <4>3, OneSlot
    <3>3. QED BY <2>1, <3>1, <3>2
  <2>4. store' \in SUBSET Photos /\ lost' \in SUBSET Photos
    BY <2>1, <2>2 DEF TypeInv, TypeOK
  <2>5. QED BY <1>2, <2>3, <2>4 DEF Put, TypeInv, TypeOK, RequestsOK, user
<1>3. CASE CleanUp(r) \/ DeleteStored(r)
  <2>1. RequestsOK'
    BY <1>3, AnswerType DEF CleanUp, DeleteStored
  <2>2. req[r].photo \in Photos
    BY <1>1, <1>3 DEF CleanUp, DeleteStored, At, Form, StmtsOf, Request, Endpoints
  <2>3. store' \in SUBSET Photos /\ lost' \in SUBSET Photos
    BY <1>3, <2>2 DEF CleanUp, DeleteStored, DeleteObject, TypeInv, TypeOK
  <2>4. QED BY <1>3, <2>1, <2>3 DEF CleanUp, DeleteStored, TypeInv, TypeOK, RequestsOK, user
<1>4. QED BY <1>2, <1>3

LEMMA RowType ==
    ASSUME TypeInv, NEW r \in Requests,
           PlacePhoto(r) \/ UpdatePhotoCrop(r) \/ DeleteRow(r)
    PROVE  TypeInv'
<1>1. req[r] \in Request /\ Form(req[r]) /\ photos \in [Photos -> PhotoRow]
  BY DEF TypeInv, TypeOK
<1>2. CASE PlacePhoto(r)
  <2>1. req[r].photo \in Photos /\ req[r].op = "UploadPhoto" /\ req[r].pc # "done"
    BY <1>1, <1>2 DEF PlacePhoto, At, Form, StmtsOf, Request, Endpoints
  <2>2. RequestsOK'
    <3>1. CASE Answer(r, "OK")
      BY <3>1, AnswerType
    <3>2. CASE Goto(r, "cleanUp")
      BY <2>1, <3>2, GotoType DEF Stmts, StmtsOf
    <3>3. QED BY <1>2, <3>1, <3>2 DEF PlacePhoto
  <2>3. photos' \in [Photos -> PhotoRow] /\ unheard' \in SUBSET Photos
    <3>1. [exists |-> TRUE, pos |-> req[r].pos, crop |-> FALSE] \in PhotoRow
      BY <1>1 DEF PhotoRow, Request
    <3>2. QED BY <1>1, <1>2, <2>1, <3>1 DEF PlacePhoto, TypeInv, TypeOK
  <2>4. QED BY <1>2, <2>2, <2>3 DEF PlacePhoto, TypeInv, TypeOK, RequestsOK, user
<1>3. CASE UpdatePhotoCrop(r)
  <2>1. RequestsOK'
    BY <1>3, AnswerType DEF UpdatePhotoCrop
  <2>2. photos' \in [Photos -> PhotoRow]
    BY <1>1, <1>3 DEF UpdatePhotoCrop, PhotoRow
  <2>3. QED
    BY <1>3, <2>1, <2>2 DEF UpdatePhotoCrop, TypeInv, TypeOK, RequestsOK, user, history
<1>4. CASE DeleteRow(r)
  <2>1. req[r].op = "DeletePhoto" /\ req[r].pc # "done"
    BY <1>1, <1>4 DEF DeleteRow, At, Form, StmtsOf, Request, Endpoints
  <2>2. RequestsOK'
    <3>1. CASE Answer(r, "PHOTO_NOT_FOUND")
      BY <3>1, AnswerType
    <3>2. CASE Goto(r, "deleteObject")
      BY <2>1, <3>2, GotoType DEF Stmts, StmtsOf
    <3>3. QED BY <1>4, <3>1, <3>2 DEF DeleteRow
  <2>3. photos' \in [Photos -> PhotoRow]
    <3>1. NoPhoto \in PhotoRow
      BY DEF NoPhoto, PhotoRow
    <3>2. QED BY <1>1, <1>4, <3>1 DEF DeleteRow
  <2>4. QED
    BY <1>4, <2>2, <2>3 DEF DeleteRow, TypeInv, TypeOK, RequestsOK, user, history
<1>5. QED BY <1>2, <1>3, <1>4

(* The second phase of a Reorder gives every photo a position.             *)
LEMMA PlacedType ==
    ASSUME TypeInv, NEW r \in Requests
    PROVE  /\ Placed(r) \in [Photos -> PhotoRow]
           /\ \A p \in Photos : Placed(r)[p].exists = photos[p].exists
<1>1. req[r].order \in Seq(Photos) /\ photos \in [Photos -> PhotoRow]
  BY DEF TypeInv, TypeOK, Request
<1> SUFFICES ASSUME NEW p \in Photos
             PROVE  Placed(r)[p] \in PhotoRow /\ Placed(r)[p].exists = photos[p].exists
  BY DEF Placed
<1>2. CASE p \in Set(req[r].order)
  <2> DEFINE i == Index(req[r].order, p)
  <2>1. i \in 1 .. Len(req[r].order)
    BY <1>2 DEF Set, Index
  <2>2. i - 1 \in Nat
    BY <1>1, <2>1, LenProperties
  <2>3. Placed(r)[p] = [photos[p] EXCEPT !.pos = i - 1, !.crop = @ /\ i = 1]
    BY <1>2 DEF Placed
  <2>4. QED BY <1>1, <2>2, <2>3 DEF PhotoRow
<1>3. CASE p \notin Set(req[r].order)
  <2>1. Shifted(p) \in Nat
    BY <1>1, ProfileAssumption DEF Shifted, PhotoRow
  <2>2. QED BY <1>1, <1>3, <2>1 DEF Placed, PhotoRow
<1>4. QED BY <1>2, <1>3

LEMMA PlacePhotosType ==
    ASSUME TypeInv, NEW r \in Requests, PlacePhotos(r)
    PROVE  TypeInv'
<1>1. req[r] \in Request /\ Form(req[r])
  BY DEF TypeInv, TypeOK
<1>2. req[r].op = "Reorder" /\ req[r].pc # "done"
  <2>1. req[r].pc = "placePhotos"
    BY DEF PlacePhotos, At
  <2>2. QED BY <1>1, <2>1 DEF Form, StmtsOf, Request, Endpoints
<1>3. RequestsOK'
  <2>1. ASSUME NEW out, Answer(r, out) PROVE RequestsOK'
    BY <2>1, AnswerType
  <2>2. CASE Goto(r, "reply")
    BY <1>2, <2>2, GotoType DEF Stmts, StmtsOf
  <2>3. QED BY <2>1, <2>2 DEF PlacePhotos
<1>4. photos' \in [Photos -> PhotoRow]
  BY PlacedType DEF PlacePhotos, TypeInv, TypeOK
<1>5. QED
  BY <1>3, <1>4 DEF PlacePhotos, TypeInv, TypeOK, RequestsOK, user, history

LEMMA StepType == TypeInv /\ [Next]_vars => TypeInv'
<1> SUFFICES ASSUME TypeInv, [Next]_vars PROVE TypeInv'
  OBVIOUS
<1>1. CASE UNCHANGED vars
  BY <1>1 DEF vars, user, history, TypeInv, TypeOK
<1>2. CASE Next
  <2>1. PICK r \in Requests : Start(r) \/ Fail(r) \/ Statement(r)
    BY <1>2 DEF Next
  <2>2. QED
    BY <2>1, StartType, FailType, LooksType, StepsType, StoreType, RowType,
       PlacePhotosType DEF Statement, Looks
<1>3. QED BY <1>1, <1>2

(* The user, the tables, the storage and the requests are well typed in    *)
(* every reachable state, for any number of photos and requests.           *)
THEOREM TypeCorrect == Spec => []TypeOK
<1>1. TypeInv => TypeOK
  BY DEF TypeInv
<1>2. QED BY <1>1, InitType, StepType, PTL DEF Spec

-----------------------------------------------------------------------------
(* Onboarding.  A request that has passed the check of the step can rely   *)
(* on it until it writes.                                                  *)

Relies(q, s) ==
    /\ q.op = "SaveAbout"
          /\ q.pc \in {"profileByUserID", "countInterests", "saveRow", "advanceStep"}
             => Reached(s, "ABOUT")
    /\ q.op = "UploadPhoto" /\ q.pc \in {"countPhotos", "put", "insertPhoto", "placePhoto"}
          => Reached(s, "PHOTOS")
    /\ q.op = "Complete" /\ q.pc \in {"profileByUserID", "countPhotos", "markComplete"}
          => Reached(s, "PHOTOS")

StepsInv ==
    /\ TypeInv
    /\ CreatedIffDone
    /\ StepsInOrder
    /\ \A r \in Requests : Relies(req[r], step)

(* The only writes of the step raise it.                                   *)
LEMMA Forward ==
    ASSUME TypeInv, [Next]_vars
    PROVE  Reached(step', step)
<1>1. step \in Steps
  BY DEF TypeInv, TypeOK
<1>2. CASE UNCHANGED step
  BY <1>1, <1>2 DEF Reached, Steps, stepRank
<1>3. ASSUME NEW r \in Requests, AdvanceStep(r) PROVE Reached(step', step)
  BY <1>1, <1>3 DEF AdvanceStep, Advanced, Reached, Steps, stepRank
<1>4. ASSUME NEW r \in Requests, MarkComplete(r) PROVE Reached(step', step)
  BY <1>1, <1>4 DEF MarkComplete, Reached, Steps, stepRank
<1>5. QED
  BY <1>2, <1>3, <1>4
  DEF Next, vars, user, Start, Fail, Statement, ProfileByUserID, OnboardingStep,
      CountPhotos, CountInterests, SaveRow, Reply, Put, InsertPhoto, PlacePhoto, CleanUp,
      UpdatePhotoCrop, DeleteRow, DeleteStored, PhotosByProfileID, ShiftPositions,
      LockPhotos, PlacePhotos

LEMMA ReliesStays ==
    ASSUME NEW q, NEW s \in Steps, NEW t \in Steps, Reached(t, s), Relies(q, s)
    PROVE  Relies(q, t)
BY DEF Relies, Reached, Steps, stepRank

(* A change of one slot.                                                   *)
LEMMA OneRelies ==
    ASSUME StepsInv, [Next]_vars, NEW r \in Requests, NEW q,
           req' = [req EXCEPT ![r] = q], Relies(q, step')
    PROVE  \A s \in Requests : Relies(req'[s], step')
<1>1. step \in Steps /\ step' \in Steps
  BY StepType DEF StepsInv, TypeInv, TypeOK
<1>2. Reached(step', step)
  BY Forward DEF StepsInv
<1>3. \A s \in Requests : Relies(req[s], step')
  BY <1>1, <1>2, ReliesStays DEF StepsInv
<1>4. QED BY <1>3 DEF StepsInv, TypeInv, TypeOK

LEMMA AnswerRelies ==
    ASSUME StepsInv, [Next]_vars, NEW r \in Requests, NEW out, Answer(r, out)
    PROVE  \A s \in Requests : Relies(req'[s], step')
<1>1. Relies(NoRequest, step')
  BY DEF Relies, NoRequest
<1>2. QED BY <1>1, OneRelies DEF Answer

(* Going on, a request relies on no more than before, unless it has just   *)
(* looked at the step.                                                     *)
LEMMA GotoRelies ==
    ASSUME StepsInv, [Next]_vars, NEW r \in Requests, NEW stmt, Goto(r, stmt),
           Relies([req[r] EXCEPT !.pc = stmt], step')
    PROVE  \A s \in Requests : Relies(req'[s], step')
BY OneRelies DEF Goto

LEMMA ReliesStep ==
    ASSUME StepsInv, [Next]_vars
    PROVE  \A s \in Requests : Relies(req'[s], step')
<1> DEFINE Goal == \A s \in Requests : Relies(req'[s], step')
<1> USE DEF At
<1>1. CASE UNCHANGED vars
  BY <1>1 DEF vars, StepsInv
<1>2. ASSUME NEW r \in Requests, Start(r) \/ Fail(r) \/ Statement(r)
      PROVE  Goal
  <2>1. req[r] \in Request /\ Form(req[r]) /\ Relies(req[r], step)
    BY DEF StepsInv, TypeInv, TypeOK
  <2>2. \A out : Answer(r, out) => Goal
    BY AnswerRelies
  <2>3. Relies(req[r], step')
    BY <2>1, Forward, StepType, ReliesStays DEF StepsInv, TypeInv, TypeOK
  <2>4. ASSUME NEW stmt, Goto(r, stmt),
               stmt \notin {"profileByUserID", "countInterests", "saveRow", "advanceStep",
                            "countPhotos", "put", "insertPhoto", "placePhoto", "markComplete"}
        PROVE  Goal
    <3>1. Relies([req[r] EXCEPT !.pc = stmt], step')
      BY <2>1, <2>4 DEF Relies, Request
    <3>2. QED BY <2>4, <3>1, GotoRelies
  <2>5. CASE Start(r)
    <3>1. PICK op \in Ops :
             \E photo \in IF op \in {"SetCrop", "DeletePhoto"} THEN Photos ELSE {None},
                text \in IF op = "SaveAbout" THEN Texts ELSE {None},
                order \in IF op = "Reorder" THEN {o \in AnyOrder : validateReorder(o)}
                                            ELSE {<<>>} :
                  req' = [req EXCEPT ![r] = [NoRequest EXCEPT !.op = op, !.photo = photo,
                             !.text = text, !.order = order, !.pc = FirstStatement[op]]]
      BY <2>5 DEF Start
    <3>2. PICK photo, text, order :
            req' = [req EXCEPT ![r] = [NoRequest EXCEPT !.op = op, !.photo = photo,
                       !.text = text, !.order = order, !.pc = FirstStatement[op]]]
      BY <3>1
    <3> DEFINE q == [NoRequest EXCEPT !.op = op, !.photo = photo, !.text = text,
                                      !.order = order, !.pc = FirstStatement[op]]
    <3>3. op \in Endpoints
      BY ProfileAssumption
    <3>4. q.op = op /\ q.pc = FirstStatement[op]
      BY DEF NoRequest
    <3>5. Relies(q, step')
      BY <3>3, <3>4 DEF Relies, FirstStatement, Endpoints
    <3>6. QED BY <3>2, <3>5, OneRelies
  <2>6. CASE Fail(r)
    BY <2>2, <2>6 DEF Fail
  <2>7. CASE ProfileByUserID(r)
    <3>1. ASSUME NEW stmt, Goto(r, stmt), req[r].op = "SaveAbout" \/ req[r].op = "Complete"
          PROVE  Goal
      <4>1. Relies([req[r] EXCEPT !.pc = stmt], step')
        BY <2>1, <2>3, <2>7, <3>1 DEF ProfileByUserID, Relies, Request
      <4>2. QED BY <3>1, <4>1, GotoRelies
    <3>2. req[r].op \in {"SaveAbout", "Complete", "UploadPhoto", "SetCrop", "Reorder",
                         "DeletePhoto"}
      BY <2>1, <2>7 DEF ProfileByUserID, Form, StmtsOf, Request, Endpoints
    <3>3. QED BY <2>2, <2>4, <2>7, <3>1, <3>2 DEF ProfileByUserID
  <2>8. CASE OnboardingStep(r)
    <3>1. CASE Answer(r, "STEP_ORDER")
      BY <2>2, <3>1
    <3> DEFINE stmt == IF req[r].op = "UploadPhoto" THEN "countPhotos" ELSE "profileByUserID"
    <3>2. CASE Reached(step, Needed[req[r].op]) /\ Goto(r, stmt)
      <4>1. step' = step
        BY <2>8 DEF OnboardingStep, user
      <4>2. Relies([req[r] EXCEPT !.pc = stmt], step')
        BY <2>1, <3>2, <4>1 DEF Relies, Needed, Request
      <4>3. QED BY <3>2, <4>2, GotoRelies
    <3>3. QED BY <2>8, <3>1, <3>2 DEF OnboardingStep
  <2>9. CASE CountPhotos(r)
    <3>1. ASSUME NEW stmt \in {"put", "markComplete"}, Goto(r, stmt) PROVE Goal
      <4>1. req[r].op \in {"UploadPhoto", "Complete"}
        BY <2>1, <2>9 DEF CountPhotos, Form, StmtsOf, Request, Endpoints
      <4>2. Relies([req[r] EXCEPT !.pc = stmt], step')
        BY <2>1, <2>3, <2>9, <4>1 DEF CountPhotos, Relies, Request
      <4>3. QED BY <3>1, <4>2, GotoRelies
    <3>2. QED BY <2>2, <2>9, <3>1 DEF CountPhotos
  <2>10. CASE CountInterests(r) \/ SaveRow(r)
    <3>1. ASSUME NEW stmt \in {"saveRow", "advanceStep"}, Goto(r, stmt) PROVE Goal
      <4>1. req[r].op \in {"SaveBasics", "SaveAbout"}
        BY <2>1, <2>10 DEF CountInterests, SaveRow, Form, StmtsOf, Request, Endpoints
      <4>2. Relies([req[r] EXCEPT !.pc = stmt], step')
        BY <2>1, <2>3, <2>10, <4>1 DEF CountInterests, SaveRow, Relies, Request
      <4>3. QED BY <3>1, <4>2, GotoRelies
    <3>2. QED BY <2>2, <2>10, <3>1 DEF CountInterests, SaveRow
  <2>11. CASE AdvanceStep(r)
    BY <2>4, <2>11 DEF AdvanceStep
  <2>12. CASE MarkComplete(r) \/ Reply(r) \/ CleanUp(r) \/ UpdatePhotoCrop(r) \/ DeleteStored(r)
    BY <2>2, <2>12 DEF MarkComplete, Reply, CleanUp, UpdatePhotoCrop, DeleteStored
  <2>13. CASE Put(r)
    <3>1. PICK p \in Unused : \/ req' = [req EXCEPT ![r] = [@ EXCEPT !.pc = "insertPhoto", !.photo = p]]
                              \/ Answer(r, "FAILED")
      BY <2>13 DEF Put
    <3> DEFINE q == [req[r] EXCEPT !.pc = "insertPhoto", !.photo = p]
    <3>2. CASE req' = [req EXCEPT ![r] = q]
      <4>1. Relies(q, step')
        BY <2>1, <2>3, <2>13 DEF Put, Relies, Request
      <4>2. QED BY <3>2, <4>1, OneRelies
    <3>3. QED BY <2>2, <3>1, <3>2
  <2>14. CASE InsertPhoto(r)
    <3>1. PICK n : req' = [req EXCEPT ![r] = [@ EXCEPT !.pc = "placePhoto", !.pos = n]]
      BY <2>14 DEF InsertPhoto
    <3> DEFINE q == [req[r] EXCEPT !.pc = "placePhoto", !.pos = n]
    <3>2. Relies(q, step')
      BY <2>1, <2>3, <2>14 DEF InsertPhoto, Relies, Request
    <3>3. QED BY <3>1, <3>2, OneRelies
  <2>15. CASE PlacePhoto(r)
    BY <2>2, <2>4, <2>15 DEF PlacePhoto
  <2>16. CASE DeleteRow(r) \/ PhotosByProfileID(r)
    BY <2>2, <2>4, <2>16 DEF DeleteRow, PhotosByProfileID
  <2>17. CASE ShiftPositions(r) \/ LockPhotos(r) \/ PlacePhotos(r)
    <3>2. CASE ShiftPositions(r)
      <4> DEFINE q == [req[r] EXCEPT !.pc = "lockPhotos", !.targets = Rows]
      <4>1. Relies(q, step')
        BY <2>1 DEF Relies, Request
      <4>2. req' = [req EXCEPT ![r] = q]
        BY <3>2 DEF ShiftPositions
      <4>3. QED BY <4>1, <4>2, OneRelies
    <3>3. CASE LockPhotos(r)
      <4> DEFINE q == [req[r] EXCEPT !.pc = "placePhotos", !.targets = req[r].targets \cap Rows]
      <4>1. Relies(q, step')
        BY <2>1 DEF Relies, Request
      <4>2. CASE req' = [req EXCEPT ![r] = q]
        BY <4>1, <4>2, OneRelies
      <4>3. QED BY <2>2, <3>3, <4>2 DEF LockPhotos
    <3>4. CASE PlacePhotos(r)
      BY <2>2, <2>4, <3>4 DEF PlacePhotos
    <3>5. QED BY <2>17, <3>2, <3>3, <3>4
  <2>18. QED
    BY <1>2, <2>5, <2>6, <2>7, <2>8, <2>9, <2>10, <2>11, <2>12, <2>13, <2>14, <2>15,
       <2>16, <2>17 DEF Statement
<1>3. QED BY <1>1, <1>2 DEF Next

(* No statement but PlacePhoto makes a row of photos appear.               *)
LEMMA RowsGrow ==
    ASSUME TypeInv, [Next]_vars, NEW p \in Rows', p \notin Rows
    PROVE  \E r \in Requests : PlacePhoto(r) /\ p = req[r].photo
<1>1. photos \in [Photos -> PhotoRow] /\ p \in Photos /\ ~photos[p].exists
      /\ photos'[p].exists
  BY DEF TypeInv, TypeOK, Rows
<1>2. photos' # photos
  BY <1>1
<1>3. PICK r \in Requests :
        PlacePhoto(r) \/ UpdatePhotoCrop(r) \/ DeleteRow(r) \/ PlacePhotos(r)
  BY <1>2
  DEF Next, vars, Start, Fail, Statement, ProfileByUserID, OnboardingStep, CountPhotos,
      CountInterests, SaveRow, AdvanceStep, MarkComplete, Reply, Put, InsertPhoto,
      CleanUp, DeleteStored, PhotosByProfileID, ShiftPositions, LockPhotos
<1>4. ~UpdatePhotoCrop(r)
  BY <1>1 DEF UpdatePhotoCrop, PhotoRow
<1>5. ~DeleteRow(r)
  BY <1>1 DEF DeleteRow, NoPhoto
<1>6. ~PlacePhotos(r)
  BY <1>1, PlacedType DEF PlacePhotos
<1>7. p = req[r].photo
  BY <1>1, <1>3, <1>4, <1>5, <1>6 DEF PlacePhoto
<1>8. QED BY <1>3, <1>4, <1>5, <1>6, <1>7

LEMMA StepsInit == Init => StepsInv
<1> SUFFICES ASSUME Init PROVE StepsInv
  OBVIOUS
<1>1. TypeInv
  BY InitType
<1>2. CreatedIffDone
  BY DEF Init, CreatedIffDone
<1>3. StepsInOrder
  <2>1. Rows = {}
    BY DEF Init, Rows, NoPhoto
  <2>2. PICK t \in IF step = "PHOTOS" THEN Texts ELSE {None} :
          about = [fields |-> t, interests |-> t]
    BY DEF Init
  <2>a. profile = (step = "PHOTOS")
    BY DEF Init
  <2>3. CASE step = "BASICS"
    <3>1. ~Reached(step, "ABOUT") /\ ~Reached(step, "PHOTOS")
      BY <2>3 DEF Reached, stepRank
    <3>2. ~profile
      BY <2>3, <2>a
    <3>3. QED BY <2>1, <2>2, <3>1, <3>2 DEF StepsInOrder
  <2>4. CASE step = "PHOTOS"
    <3>1. Reached(step, "ABOUT") /\ Reached(step, "PHOTOS")
      BY <2>4 DEF Reached, stepRank
    <3>2. profile
      BY <2>4, <2>a
    <3>3. QED BY <2>1, <2>2, <2>4, <3>1, <3>2 DEF StepsInOrder
  <2>5. QED BY <2>3, <2>4 DEF Init
<1>4. \A r \in Requests : Relies(req[r], step)
  BY DEF Init, Relies, NoRequest
<1>5. QED BY <1>1, <1>2, <1>3, <1>4 DEF StepsInv

LEMMA StepsStep == StepsInv /\ [Next]_vars => StepsInv'
<1> SUFFICES ASSUME StepsInv, [Next]_vars PROVE StepsInv'
  OBVIOUS
<1>1. TypeInv /\ TypeInv' /\ step \in Steps /\ step' \in Steps
  BY StepType DEF StepsInv, TypeInv, TypeOK
<1>2. \A r \in Requests : Relies(req'[r], step')
  BY ReliesStep
<1>3. CASE UNCHANGED user
  <2>1. CreatedIffDone'
    BY <1>3 DEF StepsInv, CreatedIffDone, user
  <2>2. ASSUME Rows' # {} PROVE Reached(step', "PHOTOS")
    <3>1. CASE Rows # {}
      BY <1>3, <3>1 DEF StepsInv, StepsInOrder, user
    <3>2. CASE Rows = {}
      <4>1. PICK r \in Requests : PlacePhoto(r)
        BY <1>1, <2>2, <3>2, RowsGrow
      <4>2. req[r] \in Request /\ Form(req[r]) /\ req[r].pc = "placePhoto"
        BY <1>1, <4>1 DEF PlacePhoto, At, TypeInv, TypeOK
      <4>3. req[r].op = "UploadPhoto"
        BY <4>2 DEF Form, StmtsOf, Request, Endpoints
      <4>4. QED BY <1>3, <4>2, <4>3 DEF StepsInv, Relies, user
    <3>3. QED BY <3>1, <3>2
  <2>3. StepsInOrder'
    BY <1>3, <2>2 DEF StepsInv, StepsInOrder, user
  <2>4. QED BY <1>1, <1>2, <2>1, <2>3 DEF StepsInv
<1>4. ASSUME NEW r \in Requests, AdvanceStep(r) PROVE StepsInv'
  <2>1. req[r] \in Request /\ Form(req[r]) /\ Relies(req[r], step)
        /\ req[r].pc = "advanceStep"
    BY <1>1, <1>4 DEF AdvanceStep, At, StepsInv, TypeInv, TypeOK
  <2>2. req[r].op \in {"SaveBasics", "SaveAbout"}
    BY <2>1 DEF Form, StmtsOf, Request, Endpoints
  <2>3. CreatedIffDone'
    BY <1>1, <1>4 DEF AdvanceStep, Advanced, StepsInv, CreatedIffDone, Steps, stepRank
  <2>4. Rows' = Rows
    BY <1>4 DEF AdvanceStep, Rows
  <2>5. CASE req[r].op = "SaveBasics"
    <3>1. profile' = TRUE /\ step' = Advanced(step, "ABOUT") /\ about' = about
      BY <1>4, <2>5 DEF AdvanceStep
    <3>2. Reached(step', "ABOUT") /\ (Reached(step', "PHOTOS") <=> Reached(step, "PHOTOS"))
      BY <1>1, <3>1 DEF Advanced, Reached, Steps, stepRank
    <3>3. StepsInOrder'
      BY <2>4, <3>1, <3>2 DEF StepsInv, StepsInOrder
    <3>4. QED BY <1>1, <1>2, <2>3, <3>3 DEF StepsInv
  <2>6. CASE req[r].op = "SaveAbout"
    <3>1. /\ profile' = profile /\ step' = Advanced(step, "PHOTOS")
          /\ about' = [fields |-> req[r].text, interests |-> req[r].text]
      BY <1>4, <2>6 DEF AdvanceStep
    <3>2. Reached(step, "ABOUT") /\ req[r].text \in Texts
      BY <2>1, <2>6 DEF Relies, Form
    <3>3. Reached(step', "ABOUT") /\ Reached(step', "PHOTOS")
      BY <1>1, <3>1 DEF Advanced, Reached, Steps, stepRank
    <3>4. profile' <=> Reached(step', "ABOUT")
      BY <3>1, <3>2, <3>3 DEF StepsInv, StepsInOrder
    <3>5. StepsInOrder'
      BY <3>1, <3>2, <3>3, <3>4 DEF StepsInOrder
    <3>6. QED BY <1>1, <1>2, <2>3, <3>5 DEF StepsInv
  <2>7. QED BY <2>2, <2>5, <2>6
<1>5. ASSUME NEW r \in Requests, MarkComplete(r) PROVE StepsInv'
  <2>1. req[r] \in Request /\ Form(req[r]) /\ Relies(req[r], step)
        /\ req[r].pc = "markComplete"
    BY <1>1, <1>5 DEF MarkComplete, At, StepsInv, TypeInv, TypeOK
  <2>2. req[r].op = "Complete"
    BY <2>1 DEF Form, StmtsOf, Request, Endpoints
  <2>3. Reached(step, "PHOTOS") /\ Reached(step, "ABOUT")
    BY <1>1, <2>1, <2>2 DEF Relies, Reached, Steps, stepRank
  <2>4. Reached(step', "PHOTOS") /\ Reached(step', "ABOUT")
    BY <1>5 DEF MarkComplete, Reached, stepRank
  <2>5. Rows' = Rows /\ profile' = profile /\ about' = about
    BY <1>5 DEF MarkComplete, Rows
  <2>6. StepsInOrder'
    BY <2>3, <2>4, <2>5 DEF StepsInv, StepsInOrder
  <2>7. CreatedIffDone'
    BY <1>5 DEF MarkComplete, CreatedIffDone
  <2>8. QED BY <1>1, <1>2, <2>6, <2>7 DEF StepsInv
<1>6. CASE UNCHANGED vars
  BY <1>3, <1>6 DEF vars, user
<1>7. ASSUME NEW r \in Requests, Start(r) \/ Fail(r) \/ Statement(r) PROVE StepsInv'
  <2>1. CASE AdvanceStep(r) \/ MarkComplete(r)
    BY <1>4, <1>5, <2>1
  <2>2. CASE ~(AdvanceStep(r) \/ MarkComplete(r))
    <3>1. UNCHANGED user
      BY <1>7, <2>2
      DEF Start, Fail, Statement, ProfileByUserID, OnboardingStep, CountPhotos,
          CountInterests, SaveRow, Reply, Put, InsertPhoto, PlacePhoto, CleanUp,
          UpdatePhotoCrop, DeleteRow, DeleteStored, PhotosByProfileID, ShiftPositions,
          LockPhotos, PlacePhotos
    <3>2. QED BY <1>3, <3>1
  <2>3. QED BY <2>1, <2>2
<1>8. QED BY <1>6, <1>7 DEF Next

LEMMA StepsCorrect == Spec => []StepsInv
BY StepsInit, StepsStep, PTL DEF Spec

(* is_created_profile is set exactly when the step is DONE, whatever saves *)
(* race the completion.                                                    *)
THEOREM CreatedWithTheLastStep == Spec => []CreatedIffDone
<1>1. StepsInv => CreatedIffDone
  BY DEF StepsInv
<1>2. QED BY <1>1, StepsCorrect, PTL

(* A user past a step has what the step asks for, and photos only past the *)
(* about step.                                                             *)
THEOREM StepsComeInOrder == Spec => []StepsInOrder
<1>1. StepsInv => StepsInOrder
  BY DEF StepsInv
<1>2. QED BY <1>1, StepsCorrect, PTL

(* Onboarding never goes back, neither the step nor the flag.              *)
THEOREM OnboardingOnlyForward == Spec => StepNeverBack
<1>1. StepsInv /\ [Next]_vars => [Reached(step', step) /\ (created => created')]_vars
  <2> SUFFICES ASSUME StepsInv, [Next]_vars
               PROVE  Reached(step', step) /\ (created => created')
    OBVIOUS
  <2>1. Reached(step', step)
    BY Forward DEF StepsInv
  <2>2. step \in Steps /\ step' \in Steps
    BY StepType DEF StepsInv, TypeInv, TypeOK
  <2>3. step = "DONE" => step' = "DONE"
    BY <2>1, <2>2 DEF Reached, Steps, stepRank
  <2>4. QED BY <2>1, <2>3, StepsStep DEF StepsInv, CreatedIffDone
<1>2. QED BY <1>1, StepsCorrect, PTL DEF Spec, StepNeverBack

-----------------------------------------------------------------------------
(* Photos and their objects.                                               *)

(* A step of one request leaves the other slots alone.                     *)
LEMMA OtherSlots ==
    ASSUME TypeInv, NEW r \in Requests, NEW s \in Requests, s # r,
           Start(r) \/ Fail(r) \/ Statement(r)
    PROVE  req'[s] = req[s]
<1>1. req \in [Requests -> Request]
  BY DEF TypeInv, TypeOK
<1>2. CASE Start(r)
  BY <1>1, <1>2 DEF Start
<1>3. CASE Fail(r) \/ ProfileByUserID(r) \/ OnboardingStep(r) \/ CountPhotos(r) \/ CountInterests(r)
  BY <1>1, <1>3 DEF Fail, ProfileByUserID, OnboardingStep, CountPhotos, CountInterests,
                    Answer, Goto
<1>4. CASE SaveRow(r) \/ AdvanceStep(r) \/ MarkComplete(r) \/ Reply(r) \/ Put(r) \/ InsertPhoto(r)
  BY <1>1, <1>4 DEF SaveRow, AdvanceStep, MarkComplete, Reply, Put, InsertPhoto, Answer, Goto
<1>5. CASE PlacePhoto(r) \/ CleanUp(r) \/ UpdatePhotoCrop(r) \/ DeleteRow(r) \/ DeleteStored(r)
  BY <1>1, <1>5 DEF PlacePhoto, CleanUp, UpdatePhotoCrop, DeleteRow, DeleteStored, Answer, Goto
<1>6. CASE PhotosByProfileID(r) \/ ShiftPositions(r)
  BY <1>1, <1>6 DEF PhotosByProfileID, ShiftPositions, Answer, Goto
<1>7. CASE LockPhotos(r) \/ PlacePhotos(r)
  BY <1>1, <1>7 DEF LockPhotos, PlacePhotos, Answer, Goto
<1>8. QED BY <1>2, <1>3, <1>4, <1>5, <1>6, <1>7 DEF Statement

(* A photo leaves the table only by DeleteRow.                             *)
LEMMA RowsShrink ==
    ASSUME TypeInv, NEW r \in Requests, Start(r) \/ Fail(r) \/ Statement(r),
           NEW p \in Rows, p \notin Rows'
    PROVE  DeleteRow(r) /\ p = req[r].photo /\ photos[p].exists
<1>1. photos \in [Photos -> PhotoRow] /\ p \in Photos /\ photos[p].exists
      /\ ~photos'[p].exists
  BY DEF TypeInv, TypeOK, Rows
<1>2. PlacePhoto(r) \/ UpdatePhotoCrop(r) \/ DeleteRow(r) \/ PlacePhotos(r)
  BY <1>1
  DEF Start, Fail, Statement, ProfileByUserID, OnboardingStep, CountPhotos,
      CountInterests, SaveRow, AdvanceStep, MarkComplete, Reply, Put, InsertPhoto,
      CleanUp, DeleteStored, PhotosByProfileID, ShiftPositions, LockPhotos
<1>3. ~PlacePhoto(r)
  BY <1>1 DEF PlacePhoto
<1>4. ~UpdatePhotoCrop(r)
  BY <1>1 DEF UpdatePhotoCrop, PhotoRow
<1>5. ~PlacePhotos(r)
  BY <1>1, PlacedType DEF PlacePhotos
<1>6. DeleteRow(r)
  BY <1>2, <1>3, <1>4, <1>5
<1>7. QED BY <1>1, <1>6 DEF DeleteRow

(* What a request has in hand it keeps, stores, deletes or loses.          *)
LEMMA HandsKept ==
    ASSUME TypeInv, NEW r \in Requests, Start(r) \/ Fail(r) \/ Statement(r),
           NEW x \in InHand(r), x \in store'
    PROVE  x \in Rows' \/ x \in lost' \/ x \in InHand(r)'
<1>1. req[r] \in Request /\ Form(req[r]) /\ photos \in [Photos -> PhotoRow]
      /\ req \in [Requests -> Request]
  BY DEF TypeInv, TypeOK
<1>2. /\ x = req[r].photo
      /\ req[r].pc \in {"insertPhoto", "placePhoto", "cleanUp", "deleteObject"}
  BY DEF InHand
<1>3. CASE Fail(r)
  BY <1>3 DEF Fail
<1>4. CASE InsertPhoto(r)
  <2>1. PICK n : req' = [req EXCEPT ![r] = [@ EXCEPT !.pc = "placePhoto", !.pos = n]]
    BY <1>4 DEF InsertPhoto
  <2>2. req'[r].pc = "placePhoto" /\ req'[r].photo = req[r].photo
    BY <1>1, <2>1 DEF Request
  <2>3. QED BY <1>2, <2>2 DEF InHand
<1>5. CASE PlacePhoto(r)
  <2>1. CASE Goto(r, "cleanUp")
    <3>1. req'[r].pc = "cleanUp" /\ req'[r].photo = req[r].photo
      BY <1>1, <2>1 DEF Goto, Request
    <3>2. QED BY <1>2, <3>1 DEF InHand
  <2>2. CASE photos' = [photos EXCEPT ![req[r].photo] =
                           [exists |-> TRUE, pos |-> req[r].pos, crop |-> FALSE]]
    <3>1. req[r].photo \in Photos
      BY <1>1, <1>2, <1>5 DEF PlacePhoto, At, Form
    <3>2. QED BY <1>1, <1>2, <2>2, <3>1 DEF Rows
  <2>3. QED BY <1>5, <2>1, <2>2 DEF PlacePhoto
<1>6. CASE CleanUp(r) \/ DeleteStored(r)
  BY <1>2, <1>6 DEF CleanUp, DeleteStored, DeleteObject
<1>7. QED
  BY <1>2, <1>3, <1>4, <1>5, <1>6
  DEF Start, Statement, At, ProfileByUserID, OnboardingStep, CountPhotos,
      CountInterests, SaveRow, AdvanceStep, MarkComplete, Reply, Put,
      UpdatePhotoCrop, DeleteRow, PhotosByProfileID, ShiftPositions, LockPhotos, PlacePhotos

(* Only Put brings an object, and has it in hand or has lost it.           *)
LEMMA NewObject ==
    ASSUME TypeInv, NEW r \in Requests, Start(r) \/ Fail(r) \/ Statement(r),
           NEW x \in store', x \notin store
    PROVE  x \in lost' \/ x \in InHand(r)'
<1>1. req[r] \in Request /\ req \in [Requests -> Request]
  BY DEF TypeInv, TypeOK
<1>2. Put(r)
  BY DEF Start, Fail, Statement, ProfileByUserID, OnboardingStep, CountPhotos,
         CountInterests, SaveRow, AdvanceStep, MarkComplete, Reply, InsertPhoto,
         PlacePhoto, CleanUp, UpdatePhotoCrop, DeleteRow, DeleteStored, DeleteObject,
         PhotosByProfileID, ShiftPositions, LockPhotos, PlacePhotos
<1>3. PICK p \in Unused :
         /\ store' = store \cup {p}
         /\ \/ req' = [req EXCEPT ![r] = [@ EXCEPT !.pc = "insertPhoto", !.photo = p]]
            \/ lost' = lost \cup {p}
  BY <1>2 DEF Put
<1>4. x = p
  BY <1>3
<1>5. CASE req' = [req EXCEPT ![r] = [@ EXCEPT !.pc = "insertPhoto", !.photo = p]]
  <2>1. req'[r].pc = "insertPhoto" /\ req'[r].photo = p
    BY <1>1, <1>5 DEF Request
  <2>2. QED BY <1>4, <2>1 DEF InHand
<1>6. QED BY <1>3, <1>4, <1>5

LEMMA OrphansStep == TypeInv /\ NoOrphans /\ [Next]_vars => NoOrphans'
<1> SUFFICES ASSUME TypeInv, NoOrphans, [Next]_vars PROVE NoOrphans'
  OBVIOUS
<1>1. CASE UNCHANGED vars
  BY <1>1 DEF vars, history, NoOrphans, Rows, InHand
<1>2. ASSUME NEW r \in Requests, Start(r) \/ Fail(r) \/ Statement(r), NEW x \in store'
      PROVE  x \in Rows' \/ x \in lost' \/ \E s \in Requests : x \in InHand(s)'
  <2>1. CASE x \notin store
    BY <1>2, <2>1, NewObject
  <2>2. CASE x \in Rows
    <3>1. CASE x \notin Rows'
      <4>1. DeleteRow(r) /\ x = req[r].photo /\ photos[x].exists
        BY <1>2, <2>2, <3>1, RowsShrink
      <4>2. Goto(r, "deleteObject")
        BY <4>1 DEF DeleteRow
      <4>3. req'[r].pc = "deleteObject" /\ req'[r].photo = x
        BY <4>1, <4>2 DEF Goto, TypeInv, TypeOK, Request
      <4>4. QED BY <4>3 DEF InHand
    <3>2. QED BY <3>1
  <2>3. CASE x \in lost
    BY <1>2, <2>3
    DEF Start, Fail, Statement, ProfileByUserID, OnboardingStep, CountPhotos,
        CountInterests, SaveRow, AdvanceStep, MarkComplete, Reply, Put, InsertPhoto,
        PlacePhoto, CleanUp, UpdatePhotoCrop, DeleteRow, DeleteStored, DeleteObject,
        PhotosByProfileID, ShiftPositions, LockPhotos, PlacePhotos, history
  <2>4. ASSUME NEW s \in Requests, x \in InHand(s)
        PROVE  x \in Rows' \/ x \in lost' \/ x \in InHand(s)'
    <3>1. CASE s = r
      BY <1>2, <2>4, <3>1, HandsKept
    <3>2. CASE s # r
      <4>1. req'[s] = req[s]
        BY <1>2, <3>2, OtherSlots
      <4>2. QED BY <2>4, <4>1 DEF InHand
    <3>3. QED BY <3>1, <3>2
  <2>5. QED BY <1>2, <2>1, <2>2, <2>3, <2>4 DEF NoOrphans
<1>3. QED BY <1>1, <1>2 DEF Next, NoOrphans

(* No object is left behind unnoticed, wherever a request breaks off.      *)
THEOREM ObjectsAccounted == Spec => []NoOrphans
<1>1. Init => NoOrphans
  BY DEF Init, NoOrphans
<1>2. QED BY <1>1, InitType, StepType, OrphansStep, PTL DEF Spec

-----------------------------------------------------------------------------
(* Photos and their objects, the other way round: a photo that is shown    *)
(* has its object.  The requests that still write the row of a photo, and  *)
(* those that delete its object, never hold the same photo.                *)

Uploading(q) == q.pc \in {"insertPhoto", "placePhoto"}
Removing(q) == q.pc \in {"cleanUp", "deleteObject"}

(* What a request holds, given the rows, the objects and the rows nobody   *)
(* was told of.                                                            *)
Holds(q, rows, objects, silent) ==
    /\ Uploading(q) => q.photo \in objects /\ q.photo \notin rows
    /\ Removing(q) => q.photo \notin rows \ silent

Apart == \A r, s \in Requests :
    r # s /\ Uploading(req[r]) /\ (Uploading(req[s]) \/ Removing(req[s]))
        => req[r].photo # req[s].photo

StoredInv ==
    /\ PhotosStored
    /\ \A r \in Requests : Holds(req[r], Rows, store, unheard)
    /\ Apart

(* A step that changes no row and no object, after which the request holds *)
(* nothing it did not write to before.                                     *)
LEMMA StoredQuiet ==
    ASSUME TypeInv, StoredInv, NEW r \in Requests,
           \A s \in Requests \ {r} : req'[s] = req[s],
           Rows' = Rows, UNCHANGED <<store, unheard>>,
           \/ ~Uploading(req'[r]) /\ ~Removing(req'[r])
           \/ /\ req'[r].photo = req[r].photo
              /\ Uploading(req[r])
              /\ Uploading(req'[r]) \/ Removing(req'[r])
    PROVE  StoredInv'
<1>1. PhotosStored'
  BY DEF StoredInv, PhotosStored
<1>2. ASSUME NEW s \in Requests PROVE Holds(req'[s], Rows', store', unheard')
  BY DEF StoredInv, Holds
<1>3. Apart'
  BY DEF StoredInv, Apart
<1>4. QED BY <1>1, <1>2, <1>3 DEF StoredInv

(* The statement of the slot after an answer and after a Goto.             *)
LEMMA NextStmt ==
    ASSUME TypeInv, NEW r \in Requests
    PROVE  /\ \A out : Answer(r, out) => req'[r].pc = "done"
           /\ \A stmt : Goto(r, stmt) => req'[r].pc = stmt /\ req'[r].photo = req[r].photo
<1>1. req \in [Requests -> Request] /\ req[r] \in Request
  BY DEF TypeInv, TypeOK
<1>2. ASSUME NEW out, Answer(r, out) PROVE req'[r].pc = "done"
  BY <1>1, <1>2 DEF Answer, NoRequest
<1>3. ASSUME NEW stmt, Goto(r, stmt)
      PROVE  req'[r].pc = stmt /\ req'[r].photo = req[r].photo
  <2>1. req'[r] = [req[r] EXCEPT !.pc = stmt]
    BY <1>1, <1>3 DEF Goto
  <2>2. QED BY <1>1, <2>1 DEF Request
<1>4. QED BY <1>2, <1>3

(* The statements after which a request holds no photo and is not about to *)
(* upload one.                                                             *)
Hands == {"put", "insertPhoto", "placePhoto", "cleanUp", "deleteObject"}

LEMMA Elsewhere ==
    ASSUME TypeInv, NEW r \in Requests,
           \/ Start(r) \/ Fail(r) \/ Looks(r) \/ AdvanceStep(r) \/ MarkComplete(r)
           \/ UpdatePhotoCrop(r) \/ PlacePhotos(r),
           ~InsertPhoto(r), ~CountPhotos(r)
    PROVE  req'[r].pc \notin Hands
<1>1. req \in [Requests -> Request] /\ req[r] \in Request
  BY DEF TypeInv, TypeOK
<1>2. CASE Start(r)
  <2>1. PICK op \in Ops : \E photo, text, order :
            req' = [req EXCEPT ![r] = [NoRequest EXCEPT !.op = op, !.photo = photo,
                       !.text = text, !.order = order, !.pc = FirstStatement[op]]]
    BY <1>2 DEF Start
  <2>2. req'[r].pc = FirstStatement[op]
    BY <1>1, <2>1 DEF NoRequest
  <2>3. op \in Endpoints
    BY ProfileAssumption
  <2>4. QED BY <2>2, <2>3 DEF FirstStatement, Endpoints, Hands
<1>3. CASE ShiftPositions(r) \/ LockPhotos(r)
  <2>1. CASE \E out : Answer(r, out)
    BY <2>1, NextStmt DEF Hands
  <2>2. CASE \E stmt \in {"lockPhotos", "placePhotos"} : \E set :
               req' = [req EXCEPT ![r] = [@ EXCEPT !.pc = stmt, !.targets = set]]
    BY <1>1, <2>2 DEF Request, Hands
  <2>3. QED BY <1>3, <2>1, <2>2 DEF ShiftPositions, LockPhotos
<1>4. CASE ~(Start(r) \/ ShiftPositions(r) \/ LockPhotos(r))
  <2>1. \/ \E out : Answer(r, out)
        \/ \E stmt : Goto(r, stmt) /\ stmt \notin Hands
    <3>1. CASE ProfileByUserID(r)
      <4>1. req[r] \in Request /\ Form(req[r]) /\ req[r].pc = "profileByUserID"
        BY <1>1, <3>1 DEF ProfileByUserID, At, TypeInv
      <4>2. req[r].op \in {"SaveAbout", "Complete", "UploadPhoto", "SetCrop", "Reorder",
                           "DeletePhoto"}
        BY <4>1 DEF Form, StmtsOf, Request, Endpoints
      <4>3. QED BY <3>1, <4>2 DEF ProfileByUserID, Hands
    <3>2. CASE OnboardingStep(r)
      BY <3>2 DEF OnboardingStep, Hands
    <3>3. CASE CountInterests(r) \/ SaveRow(r) \/ Reply(r)
      BY <3>3 DEF CountInterests, SaveRow, Reply, Hands
    <3>4. CASE \/ Fail(r) \/ AdvanceStep(r) \/ MarkComplete(r) \/ UpdatePhotoCrop(r)
               \/ PhotosByProfileID(r) \/ PlacePhotos(r)
      BY <3>4 DEF Fail, AdvanceStep, MarkComplete, UpdatePhotoCrop, PhotosByProfileID,
                  PlacePhotos, Hands
    <3>5. QED BY <1>4, <3>1, <3>2, <3>3, <3>4 DEF Looks
  <2>2. QED BY <2>1, NextStmt DEF Hands
<1>5. QED BY <1>2, <1>3, <1>4

(* Which rows there are, only three statements change.                     *)
LEMMA SameRows ==
    ASSUME TypeInv, NEW r \in Requests,
           Start(r) \/ Fail(r) \/ Statement(r), ~PlacePhoto(r), ~DeleteRow(r)
    PROVE  Rows' = Rows
<1>1. photos \in [Photos -> PhotoRow]
  BY DEF TypeInv, TypeOK
<1>2. CASE UpdatePhotoCrop(r)
  BY <1>1, <1>2 DEF UpdatePhotoCrop, Rows, PhotoRow
<1>3. CASE PlacePhotos(r)
  BY <1>1, <1>3, PlacedType DEF PlacePhotos, Rows
<1>4. CASE UNCHANGED photos
  BY <1>4 DEF Rows
<1>5. QED BY <1>2, <1>3, <1>4
      DEF Start, Fail, Statement, AdvanceStep, MarkComplete, ProfileByUserID, OnboardingStep,
          CountPhotos, CountInterests, SaveRow, Reply, InsertPhoto, PhotosByProfileID,
          ShiftPositions, LockPhotos, Put, CleanUp, DeleteStored

LEMMA StoredLooks ==
    ASSUME TypeInv, StoredInv, NEW r \in Requests,
           \/ Start(r) \/ Fail(r) \/ Looks(r) \/ AdvanceStep(r) \/ MarkComplete(r)
           \/ UpdatePhotoCrop(r) \/ PlacePhotos(r)
    PROVE  StoredInv'
<1>1. /\ req \in [Requests -> Request] /\ req[r] \in Request
      /\ photos \in [Photos -> PhotoRow]
  BY DEF TypeInv, TypeOK
<1>2. \A s \in Requests \ {r} : req'[s] = req[s]
  BY OtherSlots DEF Statement, Looks
<1>3. UNCHANGED <<store, unheard>>
  BY DEF Start, Fail, Looks, AdvanceStep, MarkComplete, ProfileByUserID, OnboardingStep,
         CountPhotos, CountInterests, SaveRow, Reply, InsertPhoto, PhotosByProfileID,
         ShiftPositions, LockPhotos, UpdatePhotoCrop, PlacePhotos, history
<1>4. Rows' = Rows
  <2>1. req[r].pc = "placePhoto" \/ req[r].pc = "deletePhoto" => Fail(r)
    BY DEF Start, Looks, AdvanceStep, MarkComplete, ProfileByUserID, OnboardingStep,
           CountPhotos, CountInterests, SaveRow, Reply, InsertPhoto, PhotosByProfileID,
           ShiftPositions, LockPhotos, UpdatePhotoCrop, PlacePhotos, At
  <2>2. Fail(r) => Rows' = Rows
    BY DEF Fail, Rows
  <2>3. QED BY <2>1, <2>2, SameRows DEF PlacePhoto, DeleteRow, At, Statement, Looks
<1>5. CASE InsertPhoto(r)
  <2>1. PICK n : req' = [req EXCEPT ![r] = [@ EXCEPT !.pc = "placePhoto", !.pos = n]]
    BY <1>5 DEF InsertPhoto
  <2>2. req'[r].pc = "placePhoto" /\ req'[r].photo = req[r].photo
    BY <1>1, <2>1 DEF Request
  <2>3. Uploading(req[r]) /\ Uploading(req'[r])
    BY <1>5, <2>2 DEF InsertPhoto, At, Uploading
  <2>4. QED BY <1>2, <1>3, <1>4, <2>2, <2>3, StoredQuiet
<1>6. CASE ~InsertPhoto(r)
  <2>1. req'[r].pc \notin Hands \/ req'[r].pc = "put"
    <3>1. CASE CountPhotos(r)
      BY <3>1, NextStmt DEF CountPhotos, Hands
    <3>2. QED BY <1>6, <3>1, Elsewhere
  <2>2. ~Uploading(req'[r]) /\ ~Removing(req'[r])
    BY <2>1 DEF Hands, Uploading, Removing
  <2>3. QED BY <1>2, <1>3, <1>4, <2>2, StoredQuiet
<1>7. QED BY <1>5, <1>6

(* Put takes a photo that is new to every table and every request.         *)
LEMMA StoredPut ==
    ASSUME TypeInv, StoredInv, NEW r \in Requests, Put(r)
    PROVE  StoredInv'
<1>1. req \in [Requests -> Request] /\ req[r] \in Request
  BY DEF TypeInv, TypeOK
<1>2. \A s \in Requests \ {r} : req'[s] = req[s]
  BY OtherSlots DEF Statement
<1>3. Rows' = Rows /\ unheard' = unheard
  BY DEF Put, Rows
<1>4. PICK p \in Unused :
         /\ store' = store \cup {p}
         /\ \/ req' = [req EXCEPT ![r] = [@ EXCEPT !.pc = "insertPhoto", !.photo = p]]
            \/ Answer(r, "FAILED")
  BY DEF Put
<1>5. p \notin Rows /\ \A s \in Requests : req[s].photo # p
  BY DEF Unused
<1>6. PhotosStored'
  BY <1>3, <1>4 DEF StoredInv, PhotosStored
<1>7. CASE Answer(r, "FAILED")
  <2>1. ~Uploading(req'[r]) /\ ~Removing(req'[r])
    BY <1>7, NextStmt DEF Uploading, Removing
  <2>2. ASSUME NEW s \in Requests PROVE Holds(req'[s], Rows', store', unheard')
    BY <1>2, <1>3, <1>4, <2>1 DEF StoredInv, Holds
  <2>3. Apart'
    BY <1>2, <2>1 DEF StoredInv, Apart
  <2>4. QED BY <1>6, <2>2, <2>3 DEF StoredInv
<1>8. CASE req' = [req EXCEPT ![r] = [@ EXCEPT !.pc = "insertPhoto", !.photo = p]]
  <2>1. req'[r].pc = "insertPhoto" /\ req'[r].photo = p
    BY <1>1, <1>8 DEF Request
  <2>2. ASSUME NEW s \in Requests PROVE Holds(req'[s], Rows', store', unheard')
    <3>1. CASE s = r
      BY <1>3, <1>4, <1>5, <2>1, <3>1 DEF Holds, Removing
    <3>2. CASE s # r
      BY <1>2, <1>3, <1>4, <3>2 DEF StoredInv, Holds
    <3>3. QED BY <3>1, <3>2
  <2>3. Apart'
    BY <1>2, <1>5, <2>1 DEF StoredInv, Apart
  <2>4. QED BY <1>6, <2>2, <2>3 DEF StoredInv
<1>9. QED BY <1>4, <1>7, <1>8

LEMMA StoredPlace ==
    ASSUME TypeInv, StoredInv, NEW r \in Requests, PlacePhoto(r)
    PROVE  StoredInv'
<1> DEFINE p == req[r].photo
<1>1. /\ req \in [Requests -> Request] /\ req[r] \in Request
      /\ photos \in [Photos -> PhotoRow]
  BY DEF TypeInv, TypeOK
<1>2. \A s \in Requests \ {r} : req'[s] = req[s]
  BY OtherSlots DEF Statement
<1>3. Uploading(req[r]) /\ p \in Photos
  <2>1. req[r].pc = "placePhoto" /\ Form(req[r])
    BY DEF PlacePhoto, At, TypeInv
  <2>2. QED BY <2>1 DEF Form, Uploading
<1>4. store' = store
  BY DEF PlacePhoto
<1>5. ASSUME Goto(r, "cleanUp") PROVE req'[r].pc = "cleanUp" /\ req'[r].photo = p
  BY <1>5, NextStmt
<1>6. CASE Goto(r, "cleanUp") /\ UNCHANGED <<photos, unheard>>
  <2>1. Rows' = Rows
    BY <1>6 DEF Rows
  <2>2. Removing(req'[r]) /\ req'[r].photo = p
    BY <1>5, <1>6 DEF Removing
  <2>3. QED BY <1>2, <1>3, <1>4, <1>6, <2>1, <2>2, StoredQuiet
<1>7. CASE /\ photos' = [photos EXCEPT ![p] = [exists |-> TRUE, pos |-> req[r].pos,
                                               crop |-> FALSE]]
           /\ \/ Answer(r, "OK") /\ UNCHANGED unheard
              \/ Goto(r, "cleanUp") /\ unheard' = unheard \cup {p}
  <2>1. Rows' = Rows \cup {p}
    BY <1>1, <1>3, <1>7 DEF Rows
  <2>2. p \in store
    BY <1>3 DEF StoredInv, Holds
  <2>3. PhotosStored'
    BY <1>4, <1>7, <2>1, <2>2 DEF StoredInv, PhotosStored
  <2>4. ~Uploading(req'[r]) /\ (Removing(req'[r]) => p \in unheard' /\ req'[r].photo = p)
    <3>1. CASE Answer(r, "OK")
      BY <3>1, NextStmt DEF Uploading, Removing
    <3>2. CASE Goto(r, "cleanUp") /\ unheard' = unheard \cup {p}
      BY <1>5, <3>2 DEF Uploading
    <3>3. QED BY <1>7, <3>1, <3>2
  <2>5. ASSUME NEW s \in Requests, s # r, Uploading(req[s]) \/ Removing(req[s])
        PROVE  req[s].photo # p
    BY <1>3, <2>5 DEF StoredInv, Apart
  <2>6. ASSUME NEW s \in Requests PROVE Holds(req'[s], Rows', store', unheard')
    <3>1. CASE s = r
      BY <2>4, <3>1 DEF Holds
    <3>2. CASE s # r
      <4>1. unheard \subseteq unheard' /\ Holds(req[s], Rows, store, unheard)
        BY <1>7 DEF StoredInv
      <4>2. QED BY <1>2, <1>4, <2>1, <2>5, <3>2, <4>1 DEF Holds
    <3>3. QED BY <3>1, <3>2
  <2>7. Apart'
    BY <1>2, <2>4, <2>5 DEF StoredInv, Apart
  <2>8. QED BY <2>3, <2>6, <2>7 DEF StoredInv
<1>8. QED BY <1>6, <1>7 DEF PlacePhoto

(* Whoever deletes an object holds a photo that is not shown.              *)
LEMMA StoredRemove ==
    ASSUME TypeInv, StoredInv, NEW r \in Requests, CleanUp(r) \/ DeleteStored(r)
    PROVE  StoredInv'
<1> DEFINE p == req[r].photo
<1>1. \A s \in Requests \ {r} : req'[s] = req[s]
  BY OtherSlots DEF Statement
<1>2. Removing(req[r])
  BY DEF CleanUp, DeleteStored, At, Removing
<1>3. ~Uploading(req'[r]) /\ ~Removing(req'[r])
  BY NextStmt DEF CleanUp, DeleteStored, Uploading, Removing
<1>4. Rows' = Rows /\ unheard' = unheard /\ store \ {p} \subseteq store'
  BY DEF CleanUp, DeleteStored, DeleteObject, Rows
<1>5. p \notin Rows \ unheard
  BY <1>2 DEF StoredInv, Holds
<1>6. PhotosStored'
  BY <1>4, <1>5 DEF StoredInv, PhotosStored
<1>7. ASSUME NEW s \in Requests PROVE Holds(req'[s], Rows', store', unheard')
  <2>1. CASE s = r
    BY <1>3, <2>1 DEF Holds
  <2>2. CASE s # r
    <3>1. Uploading(req[s]) => req[s].photo # p
      BY <1>2, <2>2 DEF StoredInv, Apart
    <3>2. QED BY <1>1, <1>4, <2>2, <3>1 DEF StoredInv, Holds
  <2>3. QED BY <2>1, <2>2
<1>8. Apart'
  BY <1>1, <1>3 DEF StoredInv, Apart
<1>9. QED BY <1>6, <1>7, <1>8 DEF StoredInv

LEMMA StoredDelete ==
    ASSUME TypeInv, StoredInv, NEW r \in Requests, DeleteRow(r)
    PROVE  StoredInv'
<1> DEFINE p == req[r].photo
<1>1. \A s \in Requests \ {r} : req'[s] = req[s]
  BY OtherSlots DEF Statement
<1>2. /\ req \in [Requests -> Request] /\ req[r] \in Request
      /\ photos \in [Photos -> PhotoRow] /\ p \in Photos
  <2>1. req \in [Requests -> Request] /\ photos \in [Photos -> PhotoRow]
    BY DEF TypeInv, TypeOK
  <2>2. req[r] \in Request /\ Form(req[r]) /\ req[r].pc = "deletePhoto"
    BY DEF DeleteRow, At, TypeInv, TypeOK
  <2>3. req[r].op = "DeletePhoto"
    BY <2>2 DEF Form, StmtsOf, Request, Endpoints
  <2>4. QED BY <2>1, <2>2, <2>3 DEF Form
<1>3. UNCHANGED <<store, unheard>>
  BY DEF DeleteRow, history
<1>4. CASE ~photos[p].exists
  <2>1. Rows' = Rows /\ ~Uploading(req'[r]) /\ ~Removing(req'[r])
    BY <1>4, NextStmt DEF DeleteRow, Rows, Uploading, Removing
  <2>2. QED BY <1>1, <1>3, <2>1, StoredQuiet
<1>5. CASE photos[p].exists
  <2>1. Rows' = Rows \ {p} /\ p \in Rows
    BY <1>2, <1>5 DEF DeleteRow, Rows, NoPhoto
  <2>2. req'[r].pc = "deleteObject" /\ req'[r].photo = p
    BY <1>2, <1>5 DEF DeleteRow, Goto, Request
  <2>3. PhotosStored'
    BY <1>3, <2>1 DEF StoredInv, PhotosStored
  <2>4. ASSUME NEW s \in Requests PROVE Holds(req'[s], Rows', store', unheard')
    <3>1. CASE s = r
      BY <2>1, <2>2, <3>1 DEF Holds, Uploading
    <3>2. CASE s # r
      BY <1>1, <1>3, <2>1, <3>2 DEF StoredInv, Holds
    <3>3. QED BY <3>1, <3>2
  <2>5. ASSUME NEW s \in Requests, Uploading(req[s]) PROVE req[s].photo # p
    BY <2>1, <2>5 DEF StoredInv, Holds
  <2>6. Apart'
    BY <1>1, <2>2, <2>5 DEF StoredInv, Apart, Uploading
  <2>7. QED BY <2>3, <2>4, <2>6 DEF StoredInv
<1>6. QED BY <1>4, <1>5

LEMMA StoredStep == TypeInv /\ StoredInv /\ [Next]_vars => StoredInv'
<1> SUFFICES ASSUME TypeInv, StoredInv, [Next]_vars PROVE StoredInv'
  OBVIOUS
<1>1. CASE UNCHANGED vars
  BY <1>1 DEF vars, history, StoredInv, PhotosStored, Rows, Apart
<1>2. ASSUME NEW r \in Requests, Start(r) \/ Fail(r) \/ Statement(r) PROVE StoredInv'
  BY <1>2, StoredLooks, StoredPut, StoredPlace, StoredRemove, StoredDelete
     DEF Statement, Looks
<1>3. QED BY <1>1, <1>2 DEF Next

(* Every photo that is shown has its object, unless the answer to its      *)
(* INSERT was lost.                                                        *)
THEOREM PhotosHaveObjects == Spec => []PhotosStored
<1>1. Init => StoredInv
  BY DEF Init, StoredInv, PhotosStored, Rows, NoPhoto, Holds, Apart, Uploading, Removing,
         NoRequest
<1>2. StoredInv => PhotosStored
  BY DEF StoredInv
<1>3. QED BY <1>1, <1>2, InitType, StepType, StoredStep, PTL DEF Spec

-----------------------------------------------------------------------------
(* The ceiling.  An upload that has passed the count may still add a row,  *)
(* so the rows are counted together with those uploads.                    *)

Incoming == {r \in Requests : req[r].pc \in {"put", "insertPhoto", "placePhoto"}}
Ceiling == MaxPhotos + Cardinality(Requests) - 1
CeilingInv == Cardinality(Rows) + Cardinality(Incoming) =< Ceiling

LEMMA Sizes ==
    /\ IsFiniteSet(Rows) /\ IsFiniteSet(Incoming)
    /\ Cardinality(Rows) \in Nat /\ Cardinality(Incoming) \in Nat
    /\ Cardinality(Requests) \in Nat /\ Cardinality(Incoming) =< Cardinality(Requests)
    /\ Ceiling \in Nat
<1>1. IsFiniteSet(Rows) /\ IsFiniteSet(Incoming)
      /\ Cardinality(Incoming) =< Cardinality(Requests)
  BY ProfileAssumption, FS_Subset DEF Rows, Incoming
<1>2. /\ Cardinality(Rows) \in Nat /\ Cardinality(Incoming) \in Nat
      /\ Cardinality(Requests) \in Nat
  BY <1>1, ProfileAssumption, FS_CardinalityType
<1>3. Ceiling \in Nat
  BY <1>2, ProfileAssumption DEF Ceiling
<1>4. QED BY <1>1, <1>2, <1>3

LEMMA SizesNext ==
    ASSUME TypeInv, TypeInv'
    PROVE  /\ IsFiniteSet(Rows') /\ IsFiniteSet(Incoming')
           /\ Cardinality(Rows') \in Nat /\ Cardinality(Incoming') \in Nat
           /\ Cardinality(Incoming') =< Cardinality(Requests)
<1>1. IsFiniteSet(Rows') /\ IsFiniteSet(Incoming')
      /\ Cardinality(Incoming') =< Cardinality(Requests)
  BY ProfileAssumption, FS_Subset DEF Rows, Incoming
<1>2. QED BY <1>1, FS_CardinalityType

LEMMA CeilingShrinks ==
    ASSUME TypeInv, TypeInv', CeilingInv, Rows' \subseteq Rows, Incoming' \subseteq Incoming
    PROVE  CeilingInv'
<1>1. Cardinality(Rows') =< Cardinality(Rows) /\ Cardinality(Incoming') =< Cardinality(Incoming)
  BY Sizes, FS_Subset
<1> DEFINE a == Cardinality(Rows)
           b == Cardinality(Incoming)
           c == Cardinality(Rows')
           d == Cardinality(Incoming')
<1>2. /\ a \in Nat /\ b \in Nat /\ c \in Nat /\ d \in Nat /\ c =< a /\ d =< b
      /\ a + b =< Ceiling /\ Ceiling \in Nat
  BY <1>1, Sizes, SizesNext DEF CeilingInv
<1> HIDE DEF a, b, c, d
<1>3. c + d =< Ceiling
  BY <1>2
<1>4. QED BY <1>3 DEF c, d, CeilingInv, Ceiling

LEMMA CeilingStep == TypeInv /\ CeilingInv /\ [Next]_vars => CeilingInv'
<1> SUFFICES ASSUME TypeInv, CeilingInv, [Next]_vars PROVE CeilingInv'
  OBVIOUS
<1>1. TypeInv /\ TypeInv'
  BY StepType
<1>2. CASE UNCHANGED vars
  <2>1. Rows' = Rows /\ Incoming' = Incoming
    BY <1>2 DEF vars, Rows, Incoming
  <2>2. QED BY <1>1, <2>1, CeilingShrinks
<1>3. ASSUME NEW r \in Requests, Start(r) \/ Fail(r) \/ Statement(r) PROVE CeilingInv'
  <2>1. \A s \in Requests \ {r} : req'[s] = req[s]
    BY <1>1, <1>3, OtherSlots
  <2>2. r \in Incoming \/ r \notin Incoming' => Incoming' \subseteq Incoming
    BY <2>1 DEF Incoming
  <2>3. CASE CountPhotos(r)
    <3>1. Rows' = Rows
      BY <2>3 DEF CountPhotos, Rows
    <3>2. CASE Goto(r, "put") /\ ~Full(Cardinality(Rows))
      <4> DEFINE a == Cardinality(Rows)
                 d == Cardinality(Incoming')
                 n == Cardinality(Requests)
      <4>1. a \in Nat /\ d \in Nat /\ n \in Nat /\ d =< n /\ ~(a >= MaxPhotos)
            /\ MaxPhotos \in Nat
        BY <1>1, <3>2, Sizes, SizesNext, ProfileAssumption DEF Full
      <4> HIDE DEF a, d, n
      <4>2. a + d =< MaxPhotos + n - 1
        BY <4>1
      <4>3. QED BY <3>1, <4>2 DEF a, d, n, CeilingInv, Ceiling
    <3>3. CASE ~(Goto(r, "put") /\ ~Full(Cardinality(Rows)))
      <4>1. (\E out : Answer(r, out)) \/ Goto(r, "markComplete")
        BY <2>3, <3>3 DEF CountPhotos
      <4>2. r \notin Incoming'
        BY <1>1, <4>1, NextStmt DEF Incoming
      <4>3. QED BY <1>1, <2>2, <3>1, <4>2, CeilingShrinks
    <3>4. QED BY <3>2, <3>3
  <2>4. CASE PlacePhoto(r)
    <3>1. r \in Incoming /\ r \notin Incoming'
      <4>1. (\E out : Answer(r, out)) \/ Goto(r, "cleanUp")
        BY <2>4 DEF PlacePhoto
      <4>2. QED BY <1>1, <2>4, <4>1, NextStmt DEF PlacePhoto, At, Incoming
    <3>2. Incoming' = Incoming \ {r}
      BY <2>1, <3>1 DEF Incoming
    <3> DEFINE p == req[r].photo
    <3>3. Rows' \subseteq Rows \cup {p}
      <4>1. photos \in [Photos -> PhotoRow]
        BY <1>1 DEF TypeInv, TypeOK
      <4>2. \A q \in Photos \ {p} : photos'[q] = photos[q]
        BY <2>4, <4>1 DEF PlacePhoto
      <4>3. QED BY <4>2 DEF Rows
    <3> DEFINE a == Cardinality(Rows)
               b == Cardinality(Incoming)
               c == Cardinality(Rows')
               d == Cardinality(Incoming')
               e == Cardinality(Rows \cup {p})
    <3>4. d = b - 1
      BY <3>1, <3>2, Sizes, FS_RemoveElement
    <3>5. IsFiniteSet(Rows \cup {p}) /\ (e = a \/ e = a + 1)
      BY Sizes, FS_AddElement
    <3>6. c =< e
      BY <3>3, <3>5, FS_Subset
    <3>7. a \in Nat /\ b \in Nat /\ c \in Nat /\ d \in Nat /\ a + b =< Ceiling /\ Ceiling \in Nat
      BY <1>1, Sizes, SizesNext DEF CeilingInv
    <3> HIDE DEF a, b, c, d, e
    <3>8. c + d =< Ceiling
      BY <3>4, <3>5, <3>6, <3>7
    <3>9. QED BY <3>8 DEF c, d, CeilingInv, Ceiling
  <2>5. CASE DeleteRow(r)
    <3>1. (\E out : Answer(r, out)) \/ Goto(r, "deleteObject")
      BY <2>5 DEF DeleteRow
    <3>2. r \notin Incoming'
      BY <1>1, <3>1, NextStmt DEF Incoming
    <3>3. Rows' \subseteq Rows
      BY <2>5 DEF DeleteRow, Rows, NoPhoto, TypeInv, TypeOK
    <3>4. QED BY <1>1, <2>2, <3>2, <3>3, CeilingShrinks
  <2>6. CASE ~(CountPhotos(r) \/ PlacePhoto(r) \/ DeleteRow(r))
    <3>1. Rows' = Rows
      BY <1>1, <1>3, <2>6, SameRows
    <3>2. CASE Put(r) \/ InsertPhoto(r)
      <4>1. r \in Incoming
        BY <3>2 DEF Put, InsertPhoto, At, Incoming
      <4>2. QED BY <1>1, <2>2, <3>1, <4>1, CeilingShrinks
    <3>3. CASE CleanUp(r) \/ DeleteStored(r)
      <4>1. r \notin Incoming'
        BY <1>1, <3>3, NextStmt DEF CleanUp, DeleteStored, Incoming
      <4>2. QED BY <1>1, <2>2, <3>1, <4>1, CeilingShrinks
    <3>4. CASE ~(Put(r) \/ InsertPhoto(r) \/ CleanUp(r) \/ DeleteStored(r))
      <4>1. req'[r].pc \notin Hands
        BY <1>1, <1>3, <2>6, <3>4, Elsewhere DEF Statement, Looks
      <4>2. r \notin Incoming'
        BY <4>1 DEF Incoming, Hands
      <4>3. QED BY <1>1, <2>2, <3>1, <4>2, CeilingShrinks
    <3>5. QED BY <3>2, <3>3, <3>4
  <2>7. QED BY <2>3, <2>4, <2>5, <2>6
<1>4. QED BY <1>2, <1>3 DEF Next

(* A profile has no more photos than the ceiling and the uploads that      *)
(* passed the count together allow.                                        *)
THEOREM PhotosBounded == Spec => []CeilingBounded
<1>1. Init => CeilingInv
  <2> SUFFICES ASSUME Init PROVE CeilingInv
    OBVIOUS
  <2>1. Rows = {} /\ Incoming = {}
    BY DEF Init, Rows, NoPhoto, Incoming, NoRequest
  <2>2. Cardinality(Rows) = 0 /\ Cardinality(Incoming) = 0
    BY <2>1, FS_EmptySet
  <2>3. QED BY <2>2, Sizes DEF CeilingInv
<1>2. CeilingInv => CeilingBounded
  <2> SUFFICES ASSUME CeilingInv PROVE CeilingBounded
    OBVIOUS
  <2> DEFINE a == Cardinality(Rows)
             b == Cardinality(Incoming)
  <2>1. a \in Nat /\ b \in Nat /\ a + b =< Ceiling /\ Ceiling \in Nat
    BY Sizes DEF CeilingInv
  <2> HIDE DEF a, b
  <2>2. a =< Ceiling
    BY <2>1
  <2>3. QED BY <2>2 DEF a, CeilingBounded, Ceiling
<1>3. QED BY <1>1, <1>2, InitType, StepType, CeilingStep, PTL DEF Spec

-----------------------------------------------------------------------------
(* The main photo.  A new order names a photo for position 0.              *)

Distinct(order) == \A i, j \in 1 .. Len(order) : order[i] = order[j] => i = j
Ordered(q) == q.op = "Reorder" => q.order # <<>> /\ Distinct(q.order)

LEMMA SameInterval ==
    ASSUME NEW m \in Nat, NEW n \in Nat, 1 .. m = 1 .. n
    PROVE  m = n
<1>1. m > n => m \in 1 .. m /\ m \notin 1 .. n
  OBVIOUS
<1>2. n > m => n \in 1 .. n /\ n \notin 1 .. m
  OBVIOUS
<1>3. QED BY <1>1, <1>2

(* An order of as many photos as there are places repeats none.            *)
LEMMA OrdersDistinct ==
    ASSUME NEW S \in SUBSET Rows, NEW o \in Orders(S)
    PROVE  Distinct(o)
<1> DEFINE n == Cardinality(S)
<1>1. IsFiniteSet(S) /\ n \in Nat
  BY ProfileAssumption, FS_Subset, FS_CardinalityType DEF Rows
<1>2. o \in [1 .. n -> S] /\ Set(o) = S
  BY DEF Orders
<1>3. o \in Seq(S) /\ Len(o) = n
  <2> HIDE DEF n
  <2>1. o \in Seq(S)
    BY <1>1, <1>2, SeqDef
  <2>2. DOMAIN o = 1 .. Len(o) /\ Len(o) \in Nat /\ DOMAIN o = 1 .. n
    BY <1>2, <2>1, LenProperties
  <2>3. QED BY <1>1, <2>1, <2>2, SameInterval
<1>4. \A x \in S : \E i \in 1 .. n : o[i] = x
  BY <1>2, <1>3 DEF Set
<1>5. IsFiniteSet(1 .. n) /\ Cardinality(1 .. n) = n
  <2>1. IsFiniteSet(1 .. n) /\ Cardinality(1 .. n) = IF 1 > n THEN 0 ELSE n - 1 + 1
    BY <1>1, FS_Interval
  <2> HIDE DEF n
  <2>2. QED BY <1>1, <2>1
<1>6. o \in Surjection(1 .. n, S)
  BY <1>2, <1>4, Fun_IsSurj
<1>7. o \in Injection(1 .. n, S)
  BY <1>5, <1>6, FS_SurjSameCardinalityImpliesInj
<1>8. \A i, j \in 1 .. n : o[i] = o[j] => i = j
  BY <1>7, Fun_InjectionProperties
<1>9. QED BY <1>3, <1>8 DEF Distinct

(* Only Start gives a request its order.                                   *)
LEMMA OrderKept ==
    ASSUME TypeInv, NEW r \in Requests, Fail(r) \/ Statement(r)
    PROVE  \/ req'[r] = NoRequest
           \/ req'[r].op = req[r].op /\ req'[r].order = req[r].order
<1>1. req[r] \in Request
  BY DEF TypeInv, TypeOK
<1>2. req \in [Requests -> Request]
  BY DEF TypeInv, TypeOK
<1>3. CASE \E out : Answer(r, out)
  BY <1>2, <1>3 DEF Answer
<1>4. CASE \E stmt : Goto(r, stmt)
  <2>1. PICK stmt : req'[r] = [req[r] EXCEPT !.pc = stmt]
    BY <1>2, <1>4 DEF Goto
  <2>2. QED BY <1>1, <2>1 DEF Request
<1>5. CASE Put(r)
  <2>1. CASE \E p : req' = [req EXCEPT ![r] = [@ EXCEPT !.pc = "insertPhoto", !.photo = p]]
    <3>1. PICK p : req'[r] = [req[r] EXCEPT !.pc = "insertPhoto", !.photo = p]
      BY <1>2, <2>1
    <3>2. QED BY <1>1, <3>1 DEF Request
  <2>2. QED BY <1>3, <1>5, <2>1 DEF Put
<1>6. CASE InsertPhoto(r)
  <2>1. PICK n : req'[r] = [req[r] EXCEPT !.pc = "placePhoto", !.pos = n]
    BY <1>2, <1>6 DEF InsertPhoto
  <2>2. QED BY <1>1, <2>1 DEF Request
<1>7. CASE ShiftPositions(r) \/ LockPhotos(r)
  <2>1. CASE \E stmt, set : req' = [req EXCEPT ![r] = [@ EXCEPT !.pc = stmt, !.targets = set]]
    <3>1. PICK stmt, set : req'[r] = [req[r] EXCEPT !.pc = stmt, !.targets = set]
      BY <1>2, <2>1
    <3>2. QED BY <1>1, <3>1 DEF Request
  <2>2. QED BY <1>3, <1>7, <2>1 DEF ShiftPositions, LockPhotos
<1>8. CASE ProfileByUserID(r)
  <2>1. req[r].pc = "profileByUserID" /\ Form(req[r])
    BY <1>8 DEF ProfileByUserID, At, TypeInv
  <2>2. req[r].op \in {"SaveAbout", "Complete", "UploadPhoto", "SetCrop", "Reorder",
                       "DeletePhoto"}
    BY <1>1, <2>1 DEF Form, StmtsOf, Request, Endpoints
  <2>3. QED BY <1>3, <1>4, <1>8, <2>2 DEF ProfileByUserID
<1>9. CASE OnboardingStep(r) \/ CountPhotos(r) \/ CountInterests(r) \/ SaveRow(r) \/ AdvanceStep(r)
  BY <1>3, <1>4, <1>9 DEF OnboardingStep, CountPhotos, CountInterests, SaveRow, AdvanceStep
<1>10. CASE Fail(r) \/ MarkComplete(r) \/ Reply(r) \/ CleanUp(r) \/ UpdatePhotoCrop(r) \/ DeleteStored(r)
  BY <1>3, <1>10 DEF Fail, MarkComplete, Reply, CleanUp, UpdatePhotoCrop, DeleteStored
<1>11. CASE PlacePhoto(r) \/ DeleteRow(r) \/ PhotosByProfileID(r) \/ PlacePhotos(r)
  BY <1>3, <1>4, <1>11 DEF PlacePhoto, DeleteRow, PhotosByProfileID, PlacePhotos
<1>12. QED BY <1>5, <1>6, <1>7, <1>8, <1>9, <1>10, <1>11 DEF Statement

OrdersInv == \A r \in Requests : Ordered(req[r])

LEMMA OrdersStep == TypeInv /\ OrdersInv /\ [Next]_vars => OrdersInv'
<1> SUFFICES ASSUME TypeInv, OrdersInv, [Next]_vars PROVE OrdersInv'
  OBVIOUS
<1>1. CASE UNCHANGED vars
  BY <1>1 DEF vars, OrdersInv
<1>2. ASSUME NEW r \in Requests, Start(r) \/ Fail(r) \/ Statement(r) PROVE OrdersInv'
  <2>1. \A s \in Requests \ {r} : Ordered(req'[s])
    BY <1>2, OtherSlots DEF OrdersInv
  <2>2. CASE Start(r)
    <3>1. PICK op \in Ops : \E photo, text :
              \E order \in IF op = "Reorder" THEN {o \in AnyOrder : validateReorder(o)}
                                          ELSE {<<>>} :
                req' = [req EXCEPT ![r] = [NoRequest EXCEPT !.op = op, !.photo = photo,
                           !.text = text, !.order = order, !.pc = FirstStatement[op]]]
      BY <2>2 DEF Start
    <3>2. PICK order \in IF op = "Reorder" THEN {o \in AnyOrder : validateReorder(o)}
                                         ELSE {<<>>} :
              \E photo, text :
                req' = [req EXCEPT ![r] = [NoRequest EXCEPT !.op = op, !.photo = photo,
                           !.text = text, !.order = order, !.pc = FirstStatement[op]]]
      BY <3>1
    <3>3. req'[r].op = op /\ req'[r].order = order
      <4>1. req \in [Requests -> Request]
        BY DEF TypeInv, TypeOK
      <4>2. QED BY <3>2, <4>1 DEF NoRequest
    <3>4. op = "Reorder" => order # <<>> /\ Distinct(order)
      BY <3>2, OrdersDistinct DEF AnyOrder, validateReorder
    <3>5. Ordered(req'[r])
      BY <3>3, <3>4 DEF Ordered
    <3>6. QED BY <2>1, <3>5 DEF OrdersInv
  <2>3. CASE ~Start(r)
    <3>1. \/ req'[r] = NoRequest
          \/ req'[r].op = req[r].op /\ req'[r].order = req[r].order
      BY <1>2, <2>3, OrderKept
    <3>2. NoRequest.op # "Reorder"
      BY DEF NoRequest
    <3>3. Ordered(req'[r])
      BY <3>1, <3>2 DEF Ordered, OrdersInv
    <3>4. QED BY <2>1, <3>3 DEF OrdersInv
  <2>4. QED BY <2>2, <2>3
<1>3. QED BY <1>1, <1>2 DEF Next

(* A new order that goes through puts a photo first.                       *)
LEMMA ReorderNamesMain ==
    ASSUME TypeInv, OrdersInv, NEW r \in Requests, PlacePhotos(r), UNCHANGED photos => FALSE
    PROVE  Main' # {}
<1> DEFINE order == req[r].order
<1>1. /\ req[r] \in Request /\ Form(req[r]) /\ req[r].pc = "placePhotos"
  BY DEF PlacePhotos, At, TypeInv, TypeOK
<1>2. req[r].op = "Reorder"
  BY <1>1 DEF Form, StmtsOf, Request, Endpoints
<1>3. order \in Seq(Photos) /\ order # <<>> /\ Distinct(order)
  BY <1>1, <1>2 DEF OrdersInv, Ordered, Request
<1>4. 1 \in 1 .. Len(order) /\ order[1] \in Photos
  BY <1>3, LenProperties, EmptySeq
<1>5. photos' = Placed(r) /\ order[1] \in Rows
  BY <1>4 DEF PlacePhotos
<1> DEFINE m == order[1]
<1>6. m \in Set(order)
  BY <1>4 DEF Set
<1>7. Index(order, m) = 1
  <2>1. Index(order, m) \in 1 .. Len(order) /\ order[Index(order, m)] = m
    BY <1>4 DEF Index
  <2>2. QED BY <1>3, <1>4, <2>1 DEF Distinct
<1>8. photos'[m].pos = 0
  <2>1. photos[m] \in PhotoRow
    BY <1>4 DEF TypeInv, TypeOK
  <2>2. photos'[m] = [photos[m] EXCEPT !.pos = 1 - 1, !.crop = @ /\ 1 = 1]
    BY <1>4, <1>5, <1>6, <1>7 DEF Placed
  <2>3. QED BY <2>1, <2>2 DEF PhotoRow
<1>9. photos'[m].exists
  BY <1>4, <1>5, PlacedType DEF Rows
<1>10. QED BY <1>4, <1>8, <1>9 DEF Main, Rows

(* The main photo is lost only by deleting it.                             *)
THEOREM MainStaysOrIsDeleted == Spec => MainLostByDeletion
<1> DEFINE MInv == TypeInv /\ StoredInv /\ OrdersInv
<1>1. Init => MInv
  <2>1. Init => TypeInv
    BY InitType
  <2>2. Init => StoredInv
    BY DEF Init, StoredInv, PhotosStored, Rows, NoPhoto, Holds, Apart, Uploading, Removing,
           NoRequest
  <2>3. Init => OrdersInv
    BY DEF Init, OrdersInv, Ordered, NoRequest
  <2>4. QED BY <2>1, <2>2, <2>3
<1>2. MInv /\ [Next]_vars => MInv'
  BY StepType, StoredStep, OrdersStep
<1>3. MInv /\ [Next]_vars => [Main # {} /\ Main' = {} => Main \cap Rows' = {}]_vars
  <2> SUFFICES ASSUME MInv, [Next]_vars, Main' = {}, NEW m \in Main, m \in Rows' PROVE FALSE
    OBVIOUS
  <2>1. photos \in [Photos -> PhotoRow] /\ m \in Photos /\ photos[m].pos = 0
        /\ photos[m].exists /\ photos'[m].exists
    BY DEF TypeInv, TypeOK, Main, Rows
  <2>2. photos'[m].pos # 0
    BY <2>1 DEF Main, Rows
  <2>3. photos' # photos
    BY <2>1, <2>2
  <2>4. PICK r \in Requests :
          PlacePhoto(r) \/ UpdatePhotoCrop(r) \/ DeleteRow(r) \/ PlacePhotos(r)
    BY <2>3
    DEF Next, vars, Start, Fail, Statement, ProfileByUserID, OnboardingStep, CountPhotos,
        CountInterests, SaveRow, AdvanceStep, MarkComplete, Reply, Put, InsertPhoto,
        CleanUp, DeleteStored, PhotosByProfileID, ShiftPositions, LockPhotos
  <2>5. CASE PlacePhoto(r)
    <3>1. req[r].photo \notin Rows
      BY <2>5 DEF PlacePhoto, At, StoredInv, Holds, Uploading
    <3>2. m # req[r].photo
      BY <2>1, <3>1 DEF Rows
    <3>3. photos'[m] = photos[m]
      BY <2>1, <2>5, <3>2 DEF PlacePhoto
    <3>4. QED BY <2>1, <2>2, <3>3
  <2>6. CASE UpdatePhotoCrop(r)
    BY <2>1, <2>2, <2>6 DEF UpdatePhotoCrop, PhotoRow
  <2>7. CASE DeleteRow(r)
    BY <2>1, <2>2, <2>7 DEF DeleteRow, NoPhoto
  <2>8. CASE PlacePhotos(r)
    BY <2>3, <2>8, ReorderNamesMain
  <2>9. QED BY <2>4, <2>5, <2>6, <2>7, <2>8
<1> HIDE DEF MInv
<1>4. QED BY <1>1, <1>2, <1>3, PTL DEF Spec, MainLostByDeletion
=============================================================================
