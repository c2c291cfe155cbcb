------------------------------- MODULE Profile -------------------------------
(***************************************************************************)
(* Onboarding and photos of one user (internal/profile, and the storage of *)
(* internal/platform/storage as it is used there).                         *)
(*                                                                         *)
(* Every statement is restricted to one user_id or profile_id, so users do *)
(* not disturb each other and one is enough.  Requests are goroutines that *)
(* run SQL statements at READ COMMITTED and calls of the storage; req[r].pc*)
(* is the one request r makes next, locks of open transactions are read    *)
(* off it.                                                                 *)
(***************************************************************************)
EXTENDS Integers, Sequences, FiniteSets

CONSTANTS
    Photos,     \* photo ids; the photo's object key goes by the same name
    Texts,      \* contents of the about step: fields and interests
    None,       \* no photo, no content
    Requests,   \* slots for requests in flight
    Ops,        \* the endpoints an instance exercises
    MaxPhotos, MinPhotos,   \* maxPhotos, minPhotosToComplete
    Shift,      \* what reorderPhotos adds to get positions out of the way: 1000
    Churn       \* bound: uploads that take a position since the last Reorder

Endpoints == {"SaveBasics", "SaveAbout", "UploadPhoto", "SetCrop", "Reorder",
              "DeletePhoto", "Complete"}

(* stepRank                                                                *)
stepRank == [BASICS |-> 0, ABOUT |-> 1, PHOTOS |-> 2, DONE |-> 3]
Steps == DOMAIN stepRank
Reached(s, t) == stepRank[s] >= stepRank[t]

ASSUME ProfileAssumption ==
    /\ None \notin Photos \cup Texts
    /\ Texts # {} /\ IsFiniteSet(Photos) /\ IsFiniteSet(Requests)
    /\ Ops \subseteq Endpoints
    /\ MaxPhotos \in Nat \ {0} /\ MinPhotos \in Nat
    /\ Shift \in Nat /\ Churn \in Nat /\ Shift > Churn

VARIABLES
    step,       \* users.onboarding_step
    created,    \* users.is_created_profile
    profile,    \* whether the row of table profiles exists
    about,      \* its fields of the about step, and profile_interests
    photos,     \* table photos, by id
    store,      \* objects in the storage
    req,        \* the request in each slot
    lost,       \* history: photos whose upload or deletion broke off
    unheard     \* history: photos whose INSERT was done but not confirmed

vars == <<step, created, profile, about, photos, store, req, lost, unheard>>
user == <<step, created, profile, about>>
history == <<lost, unheard>>

-----------------------------------------------------------------------------

(* An absent row of photos has exists = FALSE.                             *)
PhotoRow == [exists : BOOLEAN, pos : Nat, crop : BOOLEAN]
NoPhoto == [exists |-> FALSE, pos |-> 0, crop |-> FALSE]
Rows == {p \in Photos : photos[p].exists}
Main == {p \in Rows : photos[p].pos = 0}

Stmts == {"done", "profileByUserID", "onboardingStep", "countInterests",
          "saveRow", "advanceStep", "countPhotos", "put", "insertPhoto",
          "placePhoto", "cleanUp", "updatePhotoCrop", "photosByProfileID",
          "shiftPositions", "lockPhotos", "placePhotos", "deletePhoto",
          "deleteObject", "markComplete", "reply"}

Request == [op : Endpoints, pc : Stmts, photo : Photos \cup {None},
            text : Texts \cup {None}, pos : Nat, order : Seq(Photos),
            targets : SUBSET Photos]

NoRequest == [op |-> "SaveBasics", pc |-> "done", photo |-> None, text |-> None,
              pos |-> 0, order |-> <<>>, targets |-> {}]

At(r, stmt) == req[r].pc = stmt
Goto(r, stmt) == req' = [req EXCEPT ![r].pc = stmt]

(* The slot forgets a request that is answered, whatever the answer.       *)
Answer(r, out) == req' = [req EXCEPT ![r] = NoRequest]

ProfileLocked == \E r \in Requests : At(r, "advanceStep")
Shifted(p) == photos[p].pos + Shift
Pending(pos) == \E r \in Requests : At(r, "placePhotos")
                    /\ \E p \in req[r].targets : pos \in {photos[p].pos, Shifted(p)}
PhotoLocked(p) == \E r \in Requests : At(r, "placePhotos") /\ p \in req[r].targets

Set(order) == {order[i] : i \in 1 .. Len(order)}
Orders(S) == {o \in [1 .. Cardinality(S) -> S] : Set(o) = S}

-----------------------------------------------------------------------------

(* A behaviour may begin with the first two steps taken.                   *)
Init ==
    /\ step \in {"BASICS", "PHOTOS"}
    /\ created = FALSE
    /\ profile = (step = "PHOTOS")
    /\ \E t \in IF step = "PHOTOS" THEN Texts ELSE {None} :
          about = [fields |-> t, interests |-> t]
    /\ photos = [p \in Photos |-> NoPhoto]
    /\ store = {}
    /\ req = [r \in Requests |-> NoRequest]
    /\ lost = {} /\ unheard = {}

FirstStatement ==
    [SaveBasics |-> "saveRow", SaveAbout |-> "onboardingStep",
     Complete |-> "onboardingStep", UploadPhoto |-> "profileByUserID",
     SetCrop |-> "profileByUserID", Reorder |-> "profileByUserID",
     DeletePhoto |-> "profileByUserID"]

(* An order lists distinct photos the client has seen, at least one.       *)
MutNoValidation(order) == TRUE
validateReorder(order) == order # <<>>
AnyOrder == UNION {Orders(S) : S \in SUBSET Rows}

Start(r) ==
    /\ At(r, "done")
    /\ \E op \in Ops :
       \E photo \in IF op \in {"SetCrop", "DeletePhoto"} THEN Photos ELSE {None},
          text \in IF op = "SaveAbout" THEN Texts ELSE {None},
          order \in IF op = "Reorder" THEN {o \in AnyOrder : validateReorder(o)}
                                      ELSE {<<>>} :
         req' = [req EXCEPT ![r] = [NoRequest EXCEPT !.op = op, !.photo = photo,
                    !.text = text, !.order = order, !.pc = FirstStatement[op]]]
    /\ UNCHANGED <<user, photos, store, history>>

(* The object of an upload or a deletion that breaks off stays behind.     *)
InHand(r) == IF req[r].pc \in {"insertPhoto", "placePhoto", "cleanUp", "deleteObject"}
             THEN {req[r].photo} ELSE {}

(* A statement errors, the request is cancelled or the process dies: an    *)
(* open transaction rolls back and the rest never runs.                    *)
Fail(r) ==
    /\ ~At(r, "done")
    /\ Answer(r, "FAILED")
    /\ lost' = lost \cup InHand(r)
    /\ UNCHANGED <<user, photos, store, unheard>>

-----------------------------------------------------------------------------
(* What the endpoints look at first.                                       *)

ProfileByUserID(r) ==
    /\ At(r, "profileByUserID")
    /\ IF profile
       THEN Goto(r, CASE req[r].op = "SaveAbout" -> "countInterests"
                      [] req[r].op = "Complete" -> "countPhotos"
                      [] req[r].op = "UploadPhoto" -> "onboardingStep"
                      [] req[r].op = "SetCrop" -> "updatePhotoCrop"
                      [] req[r].op = "Reorder" -> "photosByProfileID"
                      [] req[r].op = "DeletePhoto" -> "deletePhoto")
       ELSE Answer(r, "PROFILE_NOT_FOUND")
    /\ UNCHANGED <<user, photos, store, history>>

Needed == [SaveAbout |-> "ABOUT", UploadPhoto |-> "PHOTOS", Complete |-> "PHOTOS"]

OnboardingStep(r) ==
    /\ At(r, "onboardingStep")
    /\ IF Reached(step, Needed[req[r].op])
       THEN Goto(r, IF req[r].op = "UploadPhoto" THEN "countPhotos" ELSE "profileByUserID")
       ELSE Answer(r, "STEP_ORDER")
    /\ UNCHANGED <<user, photos, store, history>>

MutNoCeiling(n) == FALSE
Full(n) == n >= MaxPhotos
TooFew(n) == n < MinPhotos

CountPhotos(r) ==
    LET n == Cardinality(Rows) IN
    /\ At(r, "countPhotos")
    /\ IF req[r].op = "UploadPhoto"
       THEN IF Full(n) THEN Answer(r, "VALIDATION_ERROR") ELSE Goto(r, "put")
       ELSE IF TooFew(n) THEN Answer(r, "PROFILE_INCOMPLETE") ELSE Goto(r, "markComplete")
    /\ UNCHANGED <<user, photos, store, history>>

-----------------------------------------------------------------------------
(* The steps of onboarding.                                                *)

(* interests is reference data: whether all exist is up to the caller.     *)
CountInterests(r) ==
    /\ At(r, "countInterests")
    /\ Goto(r, "saveRow") \/ Answer(r, "VALIDATION_ERROR")
    /\ UNCHANGED <<user, photos, store, history>>

(* Both saves open a transaction that locks the row of profiles, or the    *)
(* user_id that is not there yet.                                          *)
SaveRow(r) ==
    /\ At(r, "saveRow")
    /\ ~ProfileLocked
    /\ Goto(r, "advanceStep")
    /\ UNCHANGED <<user, photos, store, history>>

MutStepBack(s, target) == target
Advanced(s, target) == IF stepRank[s] < stepRank[target] THEN target ELSE s

(* advanceStep is the last statement of the transaction; COMMIT shows all. *)
MutAboutBeforeBasics(r) ==
    /\ At(r, "advanceStep")
    /\ IF req[r].op = "SaveBasics"
       THEN profile' = TRUE /\ step' = Advanced(step, "PHOTOS") /\ UNCHANGED about
       ELSE /\ about' = [fields |-> req[r].text, interests |-> req[r].text]
            /\ step' = Advanced(step, "PHOTOS")
            /\ UNCHANGED profile
    /\ Goto(r, "reply")
    /\ UNCHANGED <<created, photos, store, history>>
AdvanceStep(r) ==
    /\ At(r, "advanceStep")
    /\ IF req[r].op = "SaveBasics"
       THEN profile' = TRUE /\ step' = Advanced(step, "ABOUT") /\ UNCHANGED about
       ELSE /\ about' = [fields |-> req[r].text, interests |-> req[r].text]
            /\ step' = Advanced(step, "PHOTOS")
            /\ UNCHANGED profile
    /\ Goto(r, "reply")
    /\ UNCHANGED <<created, photos, store, history>>

MarkComplete(r) ==
    /\ At(r, "markComplete")
    /\ created' = TRUE /\ step' = "DONE"
    /\ Answer(r, "OK")
    /\ UNCHANGED <<profile, about, photos, store, history>>

(* Statements that read what goes into the answer.                         *)
Reply(r) ==
    /\ At(r, "reply")
    /\ Answer(r, "OK")
    /\ UNCHANGED <<user, photos, store, history>>

-----------------------------------------------------------------------------
(* Uploads: the object first, then the row.                                *)

Unused == {p \in Photos \ (store \cup lost \cup unheard \cup Rows) :
              \A r \in Requests : req[r].photo # p /\ p \notin Set(req[r].order)}

(* A Put that fails may have written part of the object.                   *)
Put(r) ==
    /\ At(r, "put")
    /\ \E p \in Unused :
         /\ store' = store \cup {p}
         /\ \/ req' = [req EXCEPT ![r] = [@ EXCEPT !.pc = "insertPhoto", !.photo = p]] /\ UNCHANGED lost
            \/ Answer(r, "FAILED") /\ lost' = lost \cup {p}
    /\ UNCHANGED <<user, photos, unheard>>

(* The subquery of the INSERT takes the next position of its snapshot ...  *)
IsNext(n) ==
    /\ \A p \in Rows : photos[p].pos < n
    /\ n = 0 \/ \E p \in Rows : n = photos[p].pos + 1

(* Positions grow by deletions and uploads, only a Reorder takes them      *)
(* back; bound: they do not grow as far as a Shift by themselves, nor      *)
(* after a second one.                                                     *)
InsertPhoto(r) ==
    /\ At(r, "insertPhoto")
    /\ \E n \in 0 .. 2 * Shift :
         /\ IsNext(n)
         /\ n % Shift < Churn /\ n < 2 * Shift
         /\ req' = [req EXCEPT ![r] = [@ EXCEPT !.pc = "placePhoto", !.pos = n]]
    /\ UNCHANGED <<user, photos, store, history>>

Taken(pos) == \E p \in Rows : photos[p].pos = pos

(* ... and may then find it taken; it waits for an open transaction that   *)
(* moves a photo to or from it.  A connection that breaks, or a context    *)
(* that is cancelled, after the row is in looks to the request like an     *)
(* INSERT that failed.                                                     *)
PlacePhoto(r) ==
    LET inserted == [photos EXCEPT ![req[r].photo] =
                        [exists |-> TRUE, pos |-> req[r].pos, crop |-> FALSE]]
    IN
    /\ At(r, "placePhoto")
    /\ ~Pending(req[r].pos)
    /\ \/ Taken(req[r].pos) /\ Goto(r, "cleanUp") /\ UNCHANGED <<photos, unheard>>
       \/ ~Taken(req[r].pos) /\ photos' = inserted
          /\ Answer(r, "OK") /\ UNCHANGED unheard
       \/ ~Taken(req[r].pos) /\ photos' = inserted
          /\ Goto(r, "cleanUp") /\ unheard' = unheard \cup {req[r].photo}
    /\ UNCHANGED <<user, store, lost>>

(* Deletes of objects are best-effort.                                     *)
DeleteObject(p) ==
    \/ store' = store \ {p} /\ UNCHANGED lost
    \/ lost' = lost \cup {p} /\ UNCHANGED store

MutNoCleanUp(r) ==
    /\ At(r, "cleanUp")
    /\ Answer(r, "FAILED")
    /\ UNCHANGED <<user, photos, store, history>>
CleanUp(r) ==
    /\ At(r, "cleanUp")
    /\ DeleteObject(req[r].photo)
    /\ Answer(r, "FAILED")
    /\ UNCHANGED <<user, photos, unheard>>

-----------------------------------------------------------------------------
(* Changes to photos that are there.                                       *)

UpdatePhotoCrop(r) ==
    LET p == req[r].photo IN
    /\ At(r, "updatePhotoCrop")
    /\ ~PhotoLocked(p)
    /\ photos' = IF photos[p].exists THEN [photos EXCEPT ![p].crop = TRUE] ELSE photos
    /\ Answer(r, IF photos[p].exists THEN "OK" ELSE "PHOTO_NOT_FOUND")
    /\ UNCHANGED <<user, store, history>>

(* The row first, then the object.                                         *)
MutObjectFirst(r) ==
    LET p == req[r].photo IN
    /\ At(r, "deletePhoto")
    /\ ~PhotoLocked(p)
    /\ IF photos[p].exists
       THEN store' = store \ {p} /\ Goto(r, "deleteObject")
       ELSE Answer(r, "PHOTO_NOT_FOUND") /\ UNCHANGED store
    /\ UNCHANGED <<user, photos, history>>
DeleteRow(r) ==
    LET p == req[r].photo IN
    /\ At(r, "deletePhoto")
    /\ ~PhotoLocked(p)
    /\ IF photos[p].exists
       THEN photos' = [photos EXCEPT ![p] = NoPhoto] /\ Goto(r, "deleteObject")
       ELSE Answer(r, "PHOTO_NOT_FOUND") /\ UNCHANGED photos
    /\ UNCHANGED <<user, store, history>>

DeleteStored(r) ==
    /\ At(r, "deleteObject")
    /\ DeleteObject(req[r].photo)
    /\ Answer(r, "OK")
    /\ UNCHANGED <<user, photos, unheard>>

(* Reorder: the list is compared with the photos there are now, ...        *)
sameIDSet(rows, ids) == Len(ids) = Cardinality(rows) /\ Set(ids) \subseteq rows

PhotosByProfileID(r) ==
    /\ At(r, "photosByProfileID")
    /\ IF sameIDSet(Rows, req[r].order) THEN Goto(r, "shiftPositions")
                                        ELSE Answer(r, "VALIDATION_ERROR")
    /\ UNCHANGED <<user, photos, store, history>>

(* ... then a transaction moves all positions out of the way.  The UPDATE  *)
(* sees the rows of its snapshot and waits for those that are locked, ...  *)
ShiftPositions(r) ==
    /\ At(r, "shiftPositions")
    /\ req' = [req EXCEPT ![r] = [@ EXCEPT !.pc = "lockPhotos", !.targets = Rows]]
    /\ UNCHANGED <<user, photos, store, history>>

(* ... the unique index being checked row by row, in no certain order.     *)
LockPhotos(r) ==
    LET mine == req[r].targets \cap Rows
        hit(S) == \E p \in mine, q \in S : q # p /\ Shifted(p) = photos[q].pos
    IN
    /\ At(r, "lockPhotos")
    /\ \A p \in mine : ~PhotoLocked(p)
    /\ \/ hit(Rows) /\ Answer(r, "UNIQUE_VIOLATION")
       \/ ~hit(Rows \ mine)
          /\ req' = [req EXCEPT ![r] = [@ EXCEPT !.pc = "placePhotos", !.targets = mine]]
    /\ UNCHANGED <<user, photos, store, history>>

(* Each listed photo gets its place, one after the other.  A photo that is *)
(* gone, or a place that a photo holds which the transaction did not move, *)
(* rolls it back; an unlisted photo that it did move stays there.          *)
MutIndexBefore(order, p) == (CHOOSE i \in 1 .. Len(order) : order[i] = p) - 1
Index(order, p) == CHOOSE i \in 1 .. Len(order) : order[i] = p
Placed(r) ==
    [p \in Photos |->
        IF p \in Set(req[r].order)
        THEN LET i == Index(req[r].order, p)
             IN [photos[p] EXCEPT !.pos = i - 1, !.crop = @ /\ i = 1]
        ELSE IF p \in req[r].targets THEN [photos[p] EXCEPT !.pos = Shifted(p)]
        ELSE photos[p]]

PlacePhotos(r) ==
    LET order == req[r].order
        stops == {i \in 1 .. Len(order) :
                     \/ order[i] \notin Rows
                     \/ \E q \in Rows \ req[r].targets : photos[q].pos = i - 1}
        first == CHOOSE i \in stops : \A j \in stops : i =< j
    IN
    /\ At(r, "placePhotos")
    /\ IF stops # {}
       THEN /\ Answer(r, IF order[first] \in Rows THEN "UNIQUE_VIOLATION"
                                                  ELSE "REORDER_MISMATCH")
            /\ UNCHANGED photos
       ELSE photos' = Placed(r) /\ Goto(r, "reply")
    /\ UNCHANGED <<user, store, history>>

-----------------------------------------------------------------------------

Statement(r) ==
    \/ ProfileByUserID(r) \/ OnboardingStep(r) \/ CountPhotos(r)
    \/ CountInterests(r) \/ SaveRow(r) \/ AdvanceStep(r) \/ MarkComplete(r)
    \/ Reply(r) \/ Put(r) \/ InsertPhoto(r) \/ PlacePhoto(r) \/ CleanUp(r)
    \/ UpdatePhotoCrop(r) \/ DeleteRow(r) \/ DeleteStored(r)
    \/ PhotosByProfileID(r) \/ ShiftPositions(r) \/ LockPhotos(r) \/ PlacePhotos(r)

Next == \E r \in Requests : Start(r) \/ Fail(r) \/ Statement(r)

Spec == Init /\ [][Next]_vars

-----------------------------------------------------------------------------
(* Properties.                                                             *)

(* Every table and every request holds values of its type.                 *)
TypeOK ==
    /\ step \in Steps
    /\ created \in BOOLEAN
    /\ profile \in BOOLEAN
    /\ about \in [fields : Texts \cup {None}, interests : Texts \cup {None}]
    /\ photos \in [Photos -> PhotoRow]
    /\ store \in SUBSET Photos
    /\ req \in [Requests -> Request]
    /\ lost \in SUBSET Photos
    /\ unheard \in SUBSET Photos

(* is_created_profile === (onboarding_step = 'DONE') (migration 000003):   *)
(* saves that were checked before the profile was completed and commit     *)
(* after it do not take the step back.                                     *)
CreatedIffDone == created <=> step = "DONE"

(* The steps come in order, and each with what it asks for: a user past    *)
(* BASICS has a profile, past ABOUT the fields and interests of one and    *)
(* the same request, and only then photos.                                 *)
StepsInOrder ==
    /\ profile <=> Reached(step, "ABOUT")
    /\ Reached(step, "PHOTOS") => about.fields \in Texts
    /\ about.fields = about.interests
    /\ Rows # {} => Reached(step, "PHOTOS")

(* The ceiling holds up to the uploads that passed the count together.     *)
CeilingBounded == Cardinality(Rows) =< MaxPhotos + Cardinality(Requests) - 1

(* Every photo that is shown has its object in the storage, unless the     *)
(* answer to its INSERT was lost: uploads store before they insert,        *)
(* deletions delete the row before the object.                             *)
PhotosStored == Rows \ unheard \subseteq store

(* An object without a row belongs to a request at work, or to one that    *)
(* broke off.                                                              *)
NoOrphans ==
    store \subseteq Rows \cup lost \cup UNION {InHand(r) : r \in Requests}

(* A user loses the main photo only by deleting it: no new order, late     *)
(* upload or failure leaves position 0 empty while the photo that was      *)
(* there is still shown.                                                   *)
MainLostByDeletion == [][Main # {} /\ Main' = {} => Main \cap Rows' = {}]_vars

(* Onboarding only moves forward.                                          *)
StepNeverBack == [][Reached(step', step) /\ (created => created')]_vars
=============================================================================
