---------------------------- MODULE MeetingProofs ----------------------------
(***************************************************************************)
(* Proofs about Meeting for any number of profiles, ads and concurrent     *)
(* requests, and any clock.  The argument has two layers: TypeInv says     *)
(* which statements a request of each endpoint can be at and what it       *)
(* carries there; Inv says what a request between two statements may rely  *)
(* on because of the lock it holds.                                        *)
(***************************************************************************)
EXTENDS Meeting, TLAPS

(* The statements of each endpoint.                                        *)
StmtsOf ==
    [Create |-> {"profileForUser", "expireStale", "activeAdByProfile",
                 "countTags", "createAd", "insertAd", "insertAdTags", "withTags"},
     GetMine |-> {"profileForUser", "expireStale", "activeAdByProfile", "withTags"},
     GetByID |-> {"adByID", "withTags"},
     Update |-> {"profileForUser", "expireStale", "countTags", "updateAdRow",
                 "replaceTags", "withTags"},
     Delete |-> {"profileForUser", "expireStale", "closeActiveAd"},
     Like |-> {"profileForUser", "adByID", "createCandidate"},
     ListLikes |-> {"profileForUser", "expireStale", "activeAdByProfile",
                    "pendingLikesForAd"},
     Accept |-> {"profileForUser", "candidateForAuthor", "markAccepted", "openChat"},
     Reject |-> {"profileForUser", "candidateForAuthor", "rejectCandidate"}]

(* A request in flight is at a statement of its endpoint and carries what  *)
(* that statement needs.                                                   *)
Form(q) ==
    q.pc # "done" =>
        /\ q.pc \in StmtsOf[q.op]
        /\ q.who \in Profiles
        /\ q.op \in {"GetByID", "Like", "Accept", "Reject"} => q.ad \in Ads
        /\ q.op \in {"Accept", "Reject"} => q.liker \in Profiles
        /\ q.op \in {"Create", "Update"} => q.text \in Texts
        /\ q.pc \in {"insertAdTags", "replaceTags", "withTags", "createCandidate"} => q.ad \in Ads

TypeInv == TypeOK /\ \A r \in Requests : Form(req[r])

-----------------------------------------------------------------------------
(* Replies are requests again, at "done".                                  *)

LEMMA AnsweredType ==
    ASSUME NEW q \in Request, NEW out \in Outs
    PROVE  /\ Answered(q, out) \in Request
           /\ Answered(q, out).pc = "done"
           /\ Form(Answered(q, out))
BY DEF Answered, Request, Form, Stmts

LEMMA RefusedType ==
    ASSUME NEW out \in Outs
    PROVE  /\ [NoRequest EXCEPT !.out = out] \in Request
           /\ [NoRequest EXCEPT !.out = out].pc = "done"
           /\ Form([NoRequest EXCEPT !.out = out])
BY DEF NoRequest, Request, Form, Stmts, AdOps, LikeOps

(* A change of one slot preserves the types of all of them.                *)
LEMMA OneSlot ==
    ASSUME TypeInv, NEW r \in Requests, NEW q \in Request, Form(q),
           req' = [req EXCEPT ![r] = q]
    PROVE  req' \in [Requests -> Request] /\ \A s \in Requests : Form(req'[s])
BY DEF TypeInv, TypeOK

LEMMA AnswerType ==
    ASSUME TypeInv, NEW r \in Requests, NEW out \in Outs,
           Answer(r, out) \/ Refuse(r, out)
    PROVE  /\ req' \in [Requests -> Request] /\ \A s \in Requests : Form(req'[s])
           /\ req'[r].pc = "done" /\ \A s \in Requests \ {r} : req'[s] = req[s]
<1>1. req[r] \in Request
  BY DEF TypeInv, TypeOK
<1>2. CASE Answer(r, out)
  <2>1. req' = [req EXCEPT ![r] = Answered(req[r], out)]
    BY <1>2 DEF Answer
  <2>2. QED BY <1>1, <2>1, AnsweredType, OneSlot DEF TypeInv, TypeOK
<1>3. CASE Refuse(r, out)
  <2>1. req' = [req EXCEPT ![r] = [NoRequest EXCEPT !.out = out]]
    BY <1>3 DEF Refuse
  <2>2. QED BY <2>1, RefusedType, OneSlot DEF TypeInv, TypeOK
<1>4. QED BY <1>2, <1>3

LEMMA GotoType ==
    ASSUME TypeInv, NEW r \in Requests, NEW stmt \in Stmts, Goto(r, stmt),
           Form([req[r] EXCEPT !.pc = stmt])
    PROVE  /\ req' \in [Requests -> Request] /\ \A s \in Requests : Form(req'[s])
           /\ req'[r] = [req[r] EXCEPT !.pc = stmt]
           /\ \A s \in Requests \ {r} : req'[s] = req[s]
<1>1. req[r] \in Request
  BY DEF TypeInv, TypeOK
<1>2. [req[r] EXCEPT !.pc = stmt] \in Request
  BY <1>1 DEF Request
<1>3. req' = [req EXCEPT ![r] = [req[r] EXCEPT !.pc = stmt]]
  BY DEF Goto
<1>4. QED BY <1>2, <1>3, OneSlot DEF TypeInv, TypeOK
-----------------------------------------------------------------------------
(* Types are preserved, one action at a time.                              *)

LEMMA InitType == Init => TypeInv
<1> SUFFICES ASSUME Init PROVE TypeInv
  OBVIOUS
<1>1. NoRequest \in Request /\ Form(NoRequest)
  BY DEF NoRequest, Request, Form, Stmts, AdOps, LikeOps, Outs
<1>2. Unborn \in AdRow
  BY DEF Unborn, AdRow, AdStatus
<1>3. req \in [Requests -> Request] /\ \A r \in Requests : Form(req[r])
  BY <1>1 DEF Init
<1>4. ads \in [Ads -> AdRow]
  BY <1>2 DEF Init
<1>5. cands \in [Pairs -> CandStatus] /\ chats \in [Pairs -> Nat]
  BY DEF Init, CandStatus
<1>6. now \in Nat /\ stage \in [Profiles -> Stages] /\ told \in SUBSET Ads
  BY DEF Init
<1>7. QED BY <1>3, <1>4, <1>5, <1>6 DEF TypeInv, TypeOK

LEMMA StartType ==
    ASSUME TypeInv, NEW r \in Requests, Start(r)
    PROVE  TypeInv'
<1>1. PICK op \in Ops, who \in Profiles :
        \E ad \in IF op \in {"GetByID", "Like", "Accept", "Reject"}
                 THEN Ads ELSE {None},
           liker \in IF op \in {"Accept", "Reject"} THEN Profiles ELSE {None},
           text \in IF op \in {"Create", "Update"} THEN Texts ELSE {None} :
        req' = [req EXCEPT ![r] = Issue(op, who, ad, liker, text)]
  BY DEF Start
<1>2. PICK ad \in IF op \in {"GetByID", "Like", "Accept", "Reject"}
                THEN Ads ELSE {None},
           liker \in IF op \in {"Accept", "Reject"} THEN Profiles ELSE {None},
           text \in IF op \in {"Create", "Update"} THEN Texts ELSE {None} :
        req' = [req EXCEPT ![r] = Issue(op, who, ad, liker, text)]
  BY <1>1
<1> DEFINE q == Issue(op, who, ad, liker, text)
<1>3. op \in AdOps \cup LikeOps
  BY MeetingAssumption
<1>4. q \in Request
  BY <1>3 DEF Issue, Request, Stmts, Outs, TypeInv, TypeOK
<1>5. Form(q)
  BY <1>3 DEF Issue, Form, StmtsOf, AdOps, LikeOps
<1>6. req' = [req EXCEPT ![r] = q]
  BY <1>2
<1> HIDE DEF q
<1>7. req' \in [Requests -> Request] /\ \A s \in Requests : Form(req'[s])
  BY <1>4, <1>5, <1>6, OneSlot
<1>8. QED BY <1>7 DEF Start, TypeInv, TypeOK, db, env

(* The actions that only answer or go on to the next statement.            *)
LEMMA ReadsType ==
    ASSUME TypeInv, NEW r \in Requests, ~At(r, "done"),
           \/ ProfileForUser(r) \/ NoActiveAd(r) \/ CountTags(r)
           \/ InsertConflict(r) \/ PendingLikesForAd(r)
           \/ CandidateForAuthor(r) \/ MarkAccepted(r) \/ Fail(r)
    PROVE  TypeInv'
<1> USE DEF At
<1>1. /\ req[r] \in Request /\ Form(req[r]) /\ req[r].pc \in StmtsOf[req[r].op]
      /\ req[r].op \in AdOps \cup LikeOps
  BY DEF TypeInv, TypeOK, Form, Request
<1>2. req' \in [Requests -> Request] /\ \A s \in Requests : Form(req'[s])
  <2>1. CASE ProfileForUser(r)
    <3>1. req[r].op \in (AdOps \cup LikeOps) \ {"GetByID"}
      BY <1>1, <2>1 DEF ProfileForUser, StmtsOf
    <3>2. /\ AfterProfile[req[r].op] \in Stmts
          /\ AfterProfile[req[r].op] \in StmtsOf[req[r].op]
          /\ AfterProfile[req[r].op] \notin {"insertAdTags", "replaceTags", "withTags", "createCandidate"}
      BY <3>1 DEF AfterProfile, Stmts, StmtsOf, AdOps, LikeOps
    <3>3. NoProfile[req[r].op] \in {"PROFILE_REQUIRED", "NO_ACTIVE_AD", "OK",
                                     "LIKE_NOT_FOUND"}
      BY <3>1 DEF NoProfile, AdOps, LikeOps
    <3>4. Form([req[r] EXCEPT !.pc = AfterProfile[req[r].op]])
      BY <1>1, <2>1, <3>2 DEF Form, ProfileForUser, Request
    <3>5. NoProfile[req[r].op] \in Outs
      BY <3>3 DEF Outs
    <3>6. QED BY <2>1, <3>2, <3>4, <3>5, GotoType, AnswerType DEF ProfileForUser
  <2>2. CASE NoActiveAd(r)
    <3>1. Form([req[r] EXCEPT !.pc = "countTags"]) \/ req[r].op # "Create"
      BY <1>1, <2>2 DEF Form, NoActiveAd, Request, StmtsOf
    <3>2. QED BY <2>2, <3>1, GotoType, AnswerType DEF NoActiveAd, Stmts, Outs
  <2>3. CASE CountTags(r)
    <3>1. req[r].op \in {"Create", "Update"}
      BY <1>1, <2>3 DEF CountTags, StmtsOf, AdOps, LikeOps
    <3>2. Form([req[r] EXCEPT !.pc = IF req[r].op = "Create" THEN "createAd"
                                     ELSE "updateAdRow"])
      BY <1>1, <2>3, <3>1 DEF Form, CountTags, Request, StmtsOf
    <3>3. QED BY <2>3, <3>2, GotoType, AnswerType DEF CountTags, Stmts, Outs
  <2>4. CASE InsertConflict(r) \/ PendingLikesForAd(r) \/ Fail(r)
    BY <2>4, AnswerType DEF InsertConflict, PendingLikesForAd, Fail, Outs
  <2>5. CASE CandidateForAuthor(r)
    <3>1. req[r].op \in {"Accept", "Reject"}
      BY <1>1, <2>5 DEF CandidateForAuthor, StmtsOf, AdOps, LikeOps
    <3>2. IF req[r].op = "Reject"
          THEN Form([req[r] EXCEPT !.pc = "rejectCandidate"])
          ELSE Form([req[r] EXCEPT !.pc = "markAccepted"])
      BY <1>1, <2>5, <3>1 DEF Form, CandidateForAuthor, Request, StmtsOf
    <3>3. QED BY <2>5, <3>2, GotoType, AnswerType DEF CandidateForAuthor, Stmts, Outs
  <2>6. CASE MarkAccepted(r)
    <3>1. Form([req[r] EXCEPT !.pc = "openChat"])
      BY <1>1, <2>6 DEF Form, MarkAccepted, Request, StmtsOf, AdOps, LikeOps
    <3>2. QED BY <2>6, <3>1, GotoType, AnswerType DEF MarkAccepted, Stmts, Outs
  <2>7. QED BY <2>1, <2>2, <2>3, <2>4, <2>5, <2>6
<1>3. UNCHANGED <<db, env>>
  BY DEF ProfileForUser, NoActiveAd, CountTags, InsertConflict, PendingLikesForAd,
         CandidateForAuthor, MarkAccepted, Fail
<1>4. QED BY <1>2, <1>3 DEF TypeInv, TypeOK, db, env
(* The actions that fill in a field of the request.                        *)
LEMMA FindsType ==
    ASSUME TypeInv, NEW r \in Requests,
           \/ ActiveAdFound(r) \/ CreateAd(r) \/ InsertAd(r) \/ UpdateAdRow(r)
           \/ GetAdByID(r)
    PROVE  TypeInv'
<1> USE DEF At
<1>1. req[r] \in Request /\ Form(req[r])
  BY DEF TypeInv, TypeOK
<1>2. req[r].pc \in StmtsOf[req[r].op] /\ req[r].op \in AdOps \cup LikeOps
  BY <1>1 DEF Form, Request, ActiveAdFound, CreateAd, InsertAd, UpdateAdRow, GetAdByID
<1>3. req' \in [Requests -> Request] /\ \A s \in Requests : Form(req'[s])
  <2>1. CASE ActiveAdFound(r)
    <3>1. PICK a \in Ads : req' = [req EXCEPT ![r] =
              CASE req[r].op = "Create" -> Answered([req[r] EXCEPT !.ad = a], "ACTIVE_AD_EXISTS")
                [] req[r].op = "GetMine" -> [[req[r] EXCEPT !.ad = a] EXCEPT !.pc = "withTags"]
                [] OTHER -> [[req[r] EXCEPT !.ad = a] EXCEPT !.pc = "pendingLikesForAd"]]
      BY <2>1 DEF ActiveAdFound, Active
    <3> DEFINE found == [req[r] EXCEPT !.ad = a]
    <3>2. found \in Request /\ req[r].who \in Profiles
      BY <1>1, <2>1 DEF Request, ActiveAdFound, Form
    <3>6. req[r].op \in {"Create", "GetMine", "ListLikes"}
      <4>1. req[r].pc = "activeAdByProfile"
        BY <2>1 DEF ActiveAdFound
      <4>2. QED BY <1>2, <4>1 DEF StmtsOf, AdOps, LikeOps
    <3>3. CASE req[r].op = "Create"
      <4>1. req' = [req EXCEPT ![r] = Answered(found, "ACTIVE_AD_EXISTS")]
        BY <3>1, <3>3
      <4> HIDE DEF found
      <4>2. QED BY <4>1, <3>2, AnsweredType, OneSlot DEF Outs
    <3>4. CASE req[r].op = "GetMine"
      <4>1. req' = [req EXCEPT ![r] = [found EXCEPT !.pc = "withTags"]]
        BY <3>1, <3>4
      <4>2. [found EXCEPT !.pc = "withTags"] \in Request
        BY <1>1 DEF Request, Stmts
      <4>3. Form([found EXCEPT !.pc = "withTags"])
        BY <1>1, <3>2, <3>4 DEF Form, Request, StmtsOf
      <4>4. QED BY <4>1, <4>2, <4>3, OneSlot
    <3>5. CASE req[r].op \notin {"Create", "GetMine"}
      <4>1. req' = [req EXCEPT ![r] = [found EXCEPT !.pc = "pendingLikesForAd"]]
        BY <3>1, <3>5
      <4>2. [found EXCEPT !.pc = "pendingLikesForAd"] \in Request
        BY <1>1 DEF Request, Stmts
      <4>3. req[r].op = "ListLikes"
        BY <3>6, <3>5
      <4>4. Form([found EXCEPT !.pc = "pendingLikesForAd"])
        BY <1>1, <3>2, <4>3 DEF Form, Request, StmtsOf
      <4>5. QED BY <4>1, <4>2, <4>4, OneSlot
    <3>7. QED BY <3>3, <3>4, <3>5
  <2>2. CASE CreateAd(r)
    <3> DEFINE q == [req[r] EXCEPT !.pc = "insertAd", !.expires = now + TTL]
    <3>1. req' = [req EXCEPT ![r] = q]
      BY <2>2, <1>1 DEF CreateAd, TypeInv, TypeOK
    <3>2. now + TTL \in Nat
      BY MeetingAssumption DEF TypeInv, TypeOK
    <3>3. q \in Request
      BY <1>1, <3>2 DEF Request, Stmts
    <3>4. Form(q)
      BY <1>1, <1>2, <2>2 DEF CreateAd, Form, Request, StmtsOf, AdOps, LikeOps
    <3>5. QED BY <3>1, <3>3, <3>4, OneSlot
  <2>3. CASE InsertAd(r)
    <3>1. PICK a \in Ads : req' = [req EXCEPT ![r] = [@ EXCEPT !.pc = "insertAdTags", !.ad = a]]
      BY <2>3 DEF InsertAd, Fresh
    <3> DEFINE q == [req[r] EXCEPT !.pc = "insertAdTags", !.ad = a]
    <3>2. req' = [req EXCEPT ![r] = q]
      BY <3>1, <1>1 DEF TypeInv, TypeOK
    <3>3. q \in Request
      BY <1>1 DEF Request, Stmts
    <3>4. req[r].pc = "insertAd"
      BY <2>3 DEF InsertAd
    <3>5. req[r].op = "Create"
      BY <1>1, <1>2, <3>4 DEF Form, Request, StmtsOf, AdOps, LikeOps
    <3>6. Form(q)
      BY <1>1, <3>4, <3>5 DEF Form, Request, StmtsOf
    <3>7. QED BY <3>2, <3>3, <3>6, OneSlot
  <2>4. CASE UpdateAdRow(r)
    <3>1. CASE Refuse(r, "NO_ACTIVE_AD")
      BY <3>1, AnswerType DEF Outs
    <3>2. CASE \E a \in Ads : req' = [req EXCEPT ![r] = [@ EXCEPT !.pc = "replaceTags", !.ad = a]]
      <4>1. PICK a \in Ads : req' = [req EXCEPT ![r] = [@ EXCEPT !.pc = "replaceTags", !.ad = a]]
        BY <3>2
      <4> DEFINE q == [req[r] EXCEPT !.pc = "replaceTags", !.ad = a]
      <4>2. req' = [req EXCEPT ![r] = q]
        BY <4>1, <1>1 DEF TypeInv, TypeOK
      <4>3. q \in Request
        BY <1>1 DEF Request, Stmts
      <4>4. req[r].pc = "updateAdRow"
        BY <2>4 DEF UpdateAdRow
      <4>5. req[r].op = "Update"
        BY <1>1, <1>2, <4>4 DEF Form, Request, StmtsOf, AdOps, LikeOps
      <4>6. Form(q)
        BY <1>1, <4>4, <4>5 DEF Form, Request, StmtsOf
      <4>7. QED BY <4>2, <4>3, <4>6, OneSlot
    <3>3. QED BY <2>4, <3>1, <3>2 DEF UpdateAdRow, Active
  <2>5. CASE GetAdByID(r)
    <3>1. CASE Refuse(r, "AD_NOT_FOUND")
      BY <3>1, AnswerType DEF Outs
    <3>2. CASE \E t \in AppTimes :
                  /\ ads[req[r].ad].status # "NONE"
                  /\ req' = [req EXCEPT ![r] = [@ EXCEPT !.pc = "withTags",
                           !.out = IF /\ ads[req[r].ad].status = "ACTIVE"
                                      /\ t > ads[req[r].ad].expires
                                   THEN "EXPIRED" ELSE ads[req[r].ad].status]]
      <4>1. PICK out : /\ out \in {"EXPIRED", ads[req[r].ad].status} \ {"NONE"}
                       /\ req' = [req EXCEPT ![r] = [@ EXCEPT !.pc = "withTags", !.out = out]]
        BY <3>2
      <4> DEFINE q == [req[r] EXCEPT !.pc = "withTags", !.out = out]
      <4>2. req' = [req EXCEPT ![r] = q]
        BY <4>1, <1>1 DEF TypeInv, TypeOK
      <4>3. out \in Outs
        <5>1. ads[req[r].ad].status \in AdStatus
          BY <1>1, <2>5 DEF GetAdByID, Form, TypeInv, TypeOK, AdRow
        <5>2. QED BY <4>1, <5>1 DEF Outs, AdStatus
      <4>4. q \in Request
        BY <1>1, <4>3 DEF Request, Stmts
      <4>5. req[r].pc = "adByID" /\ req[r].op = "GetByID"
        BY <2>5 DEF GetAdByID
      <4>6. Form(q)
        BY <1>1, <4>5 DEF Form, Request, StmtsOf
      <4>7. QED BY <4>2, <4>4, <4>6, OneSlot
    <3>3. QED BY <2>5, <3>1, <3>2 DEF GetAdByID
  <2>6. QED BY <2>1, <2>2, <2>3, <2>4, <2>5
<1>4. UNCHANGED <<db, env>>
  BY DEF ActiveAdFound, CreateAd, InsertAd, UpdateAdRow, GetAdByID
<1>5. QED BY <1>3, <1>4 DEF TypeInv, TypeOK, db, env
(* The actions that write a table, or the history of replies.              *)
LEMMA AdWritesType ==
    ASSUME TypeInv, NEW r \in Requests,
           \/ ExpireStale(r) \/ InsertAdTags(r) \/ ReplaceTags(r) \/ CloseActiveAd(r)
    PROVE  TypeInv'
<1> USE DEF At
<1>1. req[r] \in Request /\ Form(req[r]) /\ ads \in [Ads -> AdRow]
  BY DEF TypeInv, TypeOK
<1>2. req[r].pc \in StmtsOf[req[r].op] /\ req[r].op \in AdOps \cup LikeOps
  BY <1>1 DEF Form, Request, ExpireStale, InsertAdTags, ReplaceTags, CloseActiveAd
<1>3. /\ req' \in [Requests -> Request] /\ \A s \in Requests : Form(req'[s])
      /\ ads' \in [Ads -> AdRow]
      /\ told' \in SUBSET Ads
      /\ UNCHANGED <<now, stage, cands, chats>>
  <2>1. CASE ExpireStale(r)
    <3>1. /\ req[r].op \in {"Create", "GetMine", "Update", "Delete", "ListLikes"}
          /\ req[r].who \in Profiles
          /\ req[r].op = "Update" => req[r].text \in Texts
          /\ req[r].op = "Create" => req[r].text \in Texts
      BY <1>1, <1>2, <2>1 DEF ExpireStale, StmtsOf, AdOps, LikeOps, Form
    <3> DEFINE next == CASE req[r].op = "Update" -> "countTags"
                         [] req[r].op = "Delete" -> "closeActiveAd"
                         [] OTHER -> "activeAdByProfile"
    <3>2. next \in Stmts /\ next \in StmtsOf[req[r].op]
          /\ next \notin {"insertAdTags", "replaceTags", "withTags", "createCandidate"}
      BY <3>1 DEF Stmts, StmtsOf
    <3>3. Goto(r, next)
      BY <2>1 DEF ExpireStale
    <3> HIDE DEF next
    <3>4. Form([req[r] EXCEPT !.pc = next])
      BY <1>1, <3>1, <3>2 DEF Form, Request
    <3>5. ads' \in [Ads -> AdRow]
      BY <1>1, <2>1 DEF ExpireStale, AdRow, AdStatus
    <3>6. QED BY <2>1, <3>2, <3>3, <3>4, <3>5, GotoType
              DEF ExpireStale, env, TypeInv, TypeOK
  <2>2. CASE InsertAdTags(r)
    <3>1. req[r].op = "Create"
      BY <1>2, <2>2 DEF InsertAdTags, StmtsOf, AdOps, LikeOps
    <3>2. Form([req[r] EXCEPT !.pc = "withTags"])
      BY <1>1, <2>2, <3>1 DEF InsertAdTags, Form, Request, StmtsOf
    <3>3. [author |-> req[r].who, status |-> "ACTIVE", expires |-> req[r].expires,
           desc |-> req[r].text, tags |-> req[r].text] \in AdRow
      BY <1>1 DEF Request, AdRow, AdStatus
    <3>4. ads' \in [Ads -> AdRow]
      BY <1>1, <2>2, <3>3 DEF InsertAdTags
    <3>5. QED BY <2>2, <3>2, <3>4, GotoType DEF InsertAdTags, env, Stmts, TypeInv, TypeOK
  <2>3. CASE ReplaceTags(r)
    <3>1. req[r].op = "Update" /\ req[r].ad \in Ads /\ req[r].text \in Texts
      BY <1>1, <1>2, <2>3 DEF ReplaceTags, StmtsOf, AdOps, LikeOps, Form
    <3>2. Form([req[r] EXCEPT !.pc = "withTags"])
      BY <1>1, <2>3, <3>1 DEF ReplaceTags, Form, Request, StmtsOf
    <3>3. ads' \in [Ads -> AdRow]
      BY <1>1, <2>3, <3>1 DEF ReplaceTags, AdRow
    <3>4. QED BY <2>3, <3>2, <3>3, GotoType DEF ReplaceTags, env, Stmts, TypeInv, TypeOK
  <2>4. CASE CloseActiveAd(r)
    <3>1. ads' \in [Ads -> AdRow]
      BY <1>1, <2>4 DEF CloseActiveAd, Closed, AdRow, AdStatus
    <3>2. told' \in SUBSET Ads
      BY <2>4 DEF CloseActiveAd, Active, TypeInv, TypeOK
    <3>3. CASE Refuse(r, "NO_ACTIVE_AD")
      BY <2>4, <3>1, <3>2, <3>3, AnswerType DEF CloseActiveAd, Outs
    <3>4. CASE \E a \in Ads : req' = [req EXCEPT ![r] =
                                         Answered([req[r] EXCEPT !.ad = a], "OK")]
      <4>1. PICK a \in Ads : req' = [req EXCEPT ![r] =
                                         Answered([req[r] EXCEPT !.ad = a], "OK")]
        BY <3>4
      <4> DEFINE q == [req[r] EXCEPT !.ad = a]
      <4>2. q \in Request
        BY <1>1 DEF Request
      <4>3. req' = [req EXCEPT ![r] = Answered(q, "OK")]
        BY <4>1
      <4> HIDE DEF q
      <4>4. Answered(q, "OK") \in Request /\ Form(Answered(q, "OK"))
        BY <4>2, AnsweredType DEF Outs
      <4>5. QED BY <2>4, <3>1, <3>2, <4>3, <4>4, OneSlot DEF CloseActiveAd
    <3>5. \/ Refuse(r, "NO_ACTIVE_AD")
          \/ \E a \in Ads : req' = [req EXCEPT ![r] =
                                       Answered([req[r] EXCEPT !.ad = a], "OK")]
      BY <2>4 DEF CloseActiveAd, Active
    <3>6. QED BY <3>3, <3>4, <3>5
  <2>5. QED BY <2>1, <2>2, <2>3, <2>4
<1>4. QED BY <1>3 DEF TypeInv, TypeOK

LEMMA LikeWritesType ==
    ASSUME TypeInv, NEW r \in Requests,
           \/ WithTags(r) \/ LikeAdByID(r) \/ CreateCandidate(r)
           \/ OpenChat(r) \/ RejectCandidate(r)
    PROVE  TypeInv'
<1> USE DEF At
<1>1. req[r] \in Request /\ Form(req[r])
  BY DEF TypeInv, TypeOK
<1>2. req[r].pc \in StmtsOf[req[r].op] /\ req[r].op \in AdOps \cup LikeOps
  BY <1>1 DEF Form, Request, WithTags, LikeAdByID, CreateCandidate, OpenChat,
              RejectCandidate
<1>3. CASE WithTags(r)
  <2>1. (IF req[r].op = "GetByID" THEN req[r].out ELSE "OK") \in Outs
    BY <1>1 DEF Request, Outs
  <2>2. req' \in [Requests -> Request] /\ \A s \in Requests : Form(req'[s])
    BY <1>3, <2>1, AnswerType DEF WithTags
  <2>3. told' \in SUBSET Ads
    BY <1>1, <1>3 DEF WithTags, Form, TypeInv, TypeOK
  <2>4. QED BY <1>3, <2>2, <2>3 DEF WithTags, db, TypeInv, TypeOK
<1>4. CASE LikeAdByID(r)
  <2>1. req[r].op = "Like" /\ req[r].ad \in Ads
    BY <1>1, <1>4 DEF LikeAdByID, Form
  <2>2. Form([req[r] EXCEPT !.pc = "createCandidate"])
    BY <1>1, <1>4, <2>1 DEF LikeAdByID, Form, Request, StmtsOf
  <2>3. req' \in [Requests -> Request] /\ \A s \in Requests : Form(req'[s])
    BY <1>4, <2>2, GotoType, AnswerType DEF LikeAdByID, Stmts, Outs
  <2>4. told' \in SUBSET Ads
    BY <1>4, <2>1 DEF LikeAdByID, TypeInv, TypeOK
  <2>5. QED BY <1>4, <2>3, <2>4 DEF LikeAdByID, db, TypeInv, TypeOK
<1>5. CASE CreateCandidate(r)
  <2>1. req' \in [Requests -> Request] /\ \A s \in Requests : Form(req'[s])
    BY <1>5, AnswerType DEF CreateCandidate, Outs
  <2>2. cands' \in [Pairs -> CandStatus]
    BY <1>5 DEF CreateCandidate, CandStatus, TypeInv, TypeOK
  <2>3. QED BY <1>5, <2>1, <2>2 DEF CreateCandidate, env, TypeInv, TypeOK
<1>6. CASE OpenChat(r)
  <2>1. req' \in [Requests -> Request] /\ \A s \in Requests : Form(req'[s])
    BY <1>6, AnswerType DEF OpenChat, Outs
  <2>2. Candidate(r) \in Pairs
    <3>1. req[r].op = "Accept"
      BY <1>2, <1>6 DEF OpenChat, StmtsOf, AdOps, LikeOps
    <3>2. QED BY <1>1, <1>6, <3>1 DEF OpenChat, Form, Candidate, Pairs
  <2>3. cands' \in [Pairs -> CandStatus] /\ chats' \in [Pairs -> Nat]
    BY <1>6, <2>2 DEF OpenChat, CandStatus, TypeInv, TypeOK
  <2>4. QED BY <1>6, <2>1, <2>3 DEF OpenChat, env, TypeInv, TypeOK
<1>7. CASE RejectCandidate(r)
  <2>1. req' \in [Requests -> Request] /\ \A s \in Requests : Form(req'[s])
    BY <1>7, AnswerType DEF RejectCandidate, Outs
  <2>2. cands' \in [Pairs -> CandStatus]
    BY <1>7 DEF RejectCandidate, CandStatus, TypeInv, TypeOK
  <2>3. QED BY <1>7, <2>1, <2>2 DEF RejectCandidate, env, TypeInv, TypeOK
<1>8. QED BY <1>3, <1>4, <1>5, <1>6, <1>7

(* Together: types and forms are an invariant.                             *)
LEMMA StepType == TypeInv /\ [Next]_vars => TypeInv'
<1> SUFFICES ASSUME TypeInv, [Next]_vars PROVE TypeInv'
  OBVIOUS
<1>1. CASE UNCHANGED vars
  BY <1>1 DEF vars, TypeInv, TypeOK
<1>2. CASE Tick
  BY <1>2 DEF Tick, TypeInv, TypeOK
<1>3. ASSUME NEW p \in Profiles, Onboard(p) PROVE TypeInv'
  BY <1>3 DEF Onboard, TypeInv, TypeOK, Stages
<1>4. ASSUME NEW r \in Requests, Start(r) \/ Fail(r) \/ Statement(r) PROVE TypeInv'
  <2>1. CASE Start(r)
    BY <2>1, StartType
  <2>2. CASE Fail(r)
    BY <2>2, ReadsType DEF Fail
  <2>3. CASE Statement(r)
    BY <2>3, ReadsType, FindsType, AdWritesType, LikeWritesType
       DEF Statement, At, ProfileForUser, NoActiveAd, CountTags, InsertConflict,
           PendingLikesForAd, CandidateForAuthor, MarkAccepted
  <2>4. QED BY <1>4, <2>1, <2>2, <2>3
<1>5. QED BY <1>1, <1>2, <1>3, <1>4 DEF Next

(* Every reachable state of Meeting is well typed, for any number of       *)
(* concurrent requests.                                                    *)
THEOREM TypeCorrect == Spec => []TypeOK
<1>1. Init => TypeInv
  BY InitType
<1>2. TypeInv /\ [Next]_vars => TypeInv'
  BY StepType
<1>3. TypeInv => TypeOK
  BY DEF TypeInv
<1>4. QED BY <1>1, <1>2, <1>3, PTL DEF Spec
-----------------------------------------------------------------------------
(* What a request holds between two statements.                            *)

(* Inserts of ads in flight are for different authors, none of whom has an *)
(* active ad, and for identifiers no other row or insert has.              *)
InsertsApart ==
    \A r \in Requests : At(r, "insertAdTags") =>
        /\ Active(req[r].who) = {}
        /\ ads[req[r].ad] = Unborn
        /\ \A s \in Requests \ {r} : At(s, "insertAdTags") =>
               req[s].who # req[r].who /\ req[s].ad # req[r].ad

(* The ad an edit has locked stays the active ad of the editor.            *)
EditsHoldAd ==
    \A r \in Requests : At(r, "replaceTags") => req[r].ad \in Active(req[r].who)

(* The like an Accept has locked stays PENDING, and is locked once.        *)
AcceptsHoldLike ==
    \A r \in Requests : At(r, "openChat") =>
        /\ cands[Candidate(r)] = "PENDING"
        /\ \A s \in Requests \ {r} : At(s, "openChat") => Candidate(s) # Candidate(r)

(* A like about to be inserted is on a published ad of somebody else.      *)
LikesOfOthers ==
    \A r \in Requests : At(r, "createCandidate") =>
        ads[req[r].ad].status # "NONE" /\ ads[req[r].ad].author # req[r].who

(* An identifier without a row carries nothing.                            *)
UnbornBlank == \A a \in Ads : ads[a].status = "NONE" => ads[a] = Unborn

Held == InsertsApart /\ EditsHoldAd /\ AcceptsHoldLike /\ LikesOfOthers
Tables == OneActiveAd /\ ChatIffAccepted /\ NoLikeOnOwnAd /\ UnbornBlank
Inv == TypeInv /\ Held /\ Tables

Holding == {"insertAdTags", "replaceTags", "openChat", "createCandidate"}

LEMMA InitInv == Init => Inv
<1> SUFFICES ASSUME Init PROVE Inv
  OBVIOUS
<1>1. TypeInv
  BY InitType
<1>2. Held
  BY DEF Init, Held, InsertsApart, EditsHoldAd, AcceptsHoldLike, LikesOfOthers,
         At, NoRequest
<1>3. Tables
  BY DEF Init, Tables, OneActiveAd, ChatIffAccepted, NoLikeOnOwnAd, UnbornBlank,
         Unborn, Pairs
<1>4. QED BY <1>1, <1>2, <1>3 DEF Inv

(* A step that leaves the tables alone and takes no lock.                  *)
LEMMA Calm ==
    ASSUME Inv, TypeInv', NEW r \in Requests, UNCHANGED db,
           \A s \in Requests \ {r} : req'[s] = req[s],
           req'[r].pc \notin Holding
    PROVE  Inv'
<1>1. Tables'
  BY DEF db, Inv, Tables, OneActiveAd, ChatIffAccepted, NoLikeOnOwnAd, UnbornBlank
<1>2. InsertsApart'
  BY DEF db, Inv, Held, InsertsApart, At, Active, Holding
<1>3. EditsHoldAd'
  BY DEF db, Inv, Held, EditsHoldAd, At, Active, Holding
<1>4. AcceptsHoldLike'
  BY DEF db, Inv, Held, AcceptsHoldLike, At, Candidate, Holding
<1>5. LikesOfOthers'
  BY DEF db, Inv, Held, LikesOfOthers, At, Holding
<1>6. QED BY <1>1, <1>2, <1>3, <1>4, <1>5 DEF Inv, Held

(* Only the slot of r changes, and r takes no lock.                        *)
Settles(r) ==
    /\ \A s \in Requests \ {r} : req'[s] = req[s]
    /\ req'[r].pc \notin Holding

(* Replies take no lock, nor does going on to another statement.           *)
LEMMA Replies ==
    ASSUME req \in [Requests -> Request], NEW r \in Requests, NEW out,
           Answer(r, out) \/ Refuse(r, out)
    PROVE  Settles(r)
<1>1. CASE Answer(r, out)
  <2>1. req' = [req EXCEPT ![r] = Answered(req[r], out)]
    BY <1>1 DEF Answer
  <2>2. Answered(req[r], out).pc = "done"
    BY DEF Answered, Request
  <2>3. QED BY <2>1, <2>2 DEF Holding, Settles
<1>2. CASE Refuse(r, out)
  BY <1>2 DEF Settles, Refuse, NoRequest, Holding
<1>3. QED BY <1>1, <1>2

LEMMA Moves ==
    ASSUME req \in [Requests -> Request], NEW r \in Requests, NEW stmt,
           Goto(r, stmt), stmt \notin Holding
    PROVE  Settles(r)
<1>1. req' = [req EXCEPT ![r] = [req[r] EXCEPT !.pc = stmt]]
  BY DEF Goto
<1>2. [req[r] EXCEPT !.pc = stmt].pc = stmt
  BY DEF Request
<1>3. QED BY <1>1, <1>2 DEF Settles

(* Such are the steps below.                                               *)
LEMMA CalmSteps ==
    ASSUME Inv, TypeInv', NEW r \in Requests,
           \/ Start(r) \/ Fail(r) \/ ProfileForUser(r) \/ ActiveAdFound(r)
           \/ NoActiveAd(r) \/ CountTags(r) \/ CreateAd(r) \/ InsertConflict(r)
           \/ GetAdByID(r) \/ WithTags(r) \/ PendingLikesForAd(r)
           \/ CandidateForAuthor(r)
    PROVE  Inv'
<1>1. req \in [Requests -> Request] /\ req[r] \in Request /\ Form(req[r])
  BY DEF Inv, TypeInv, TypeOK
<1>2. UNCHANGED db
  BY DEF Start, Fail, ProfileForUser, ActiveAdFound, NoActiveAd, CountTags, CreateAd,
         InsertConflict, GetAdByID, WithTags, PendingLikesForAd, CandidateForAuthor, db
<1>3. Settles(r)
  <2>1. CASE Start(r)
    <3>1. PICK op, who, ad, liker, text :
              req' = [req EXCEPT ![r] = Issue(op, who, ad, liker, text)]
      BY <2>1 DEF Start
    <3>2. QED BY <1>1, <3>1 DEF Issue, Holding, Settles
  <2>2. CASE Fail(r) \/ InsertConflict(r) \/ PendingLikesForAd(r) \/ WithTags(r)
    <3>1. \E out : Answer(r, out) \/ Refuse(r, out)
      BY <2>2 DEF Fail, InsertConflict, PendingLikesForAd, WithTags
    <3>2. QED BY <1>1, <3>1, Replies
  <2>3. CASE ProfileForUser(r)
    <3>1. CASE Admitted(r)
      <4>1. /\ req[r].op \in (AdOps \cup LikeOps) \ {"GetByID"}
            /\ Goto(r, AfterProfile[req[r].op])
        BY <1>1, <2>3, <3>1 DEF ProfileForUser, Form, StmtsOf, At, Request
      <4>2. AfterProfile[req[r].op] \notin Holding
        BY <4>1 DEF AfterProfile, Holding, AdOps, LikeOps
      <4>3. QED BY <1>1, <4>1, <4>2, Moves
    <3>2. CASE ~Admitted(r)
      BY <1>1, <2>3, <3>2, Replies DEF ProfileForUser
    <3>3. QED BY <3>1, <3>2
  <2>4. CASE ActiveAdFound(r)
    <3>1. PICK a : req' = [req EXCEPT ![r] =
              CASE req[r].op = "Create" -> Answered([req[r] EXCEPT !.ad = a], "ACTIVE_AD_EXISTS")
                [] req[r].op = "GetMine" -> [[req[r] EXCEPT !.ad = a] EXCEPT !.pc = "withTags"]
                [] OTHER -> [[req[r] EXCEPT !.ad = a] EXCEPT !.pc = "pendingLikesForAd"]]
      BY <2>4 DEF ActiveAdFound
    <3>2. \A s \in Requests \ {r} : req'[s] = req[s]
      BY <1>1, <3>1
    <3>3. CASE req[r].op = "Create"
      <4>1. req'[r] = Answered([req[r] EXCEPT !.ad = a], "ACTIVE_AD_EXISTS")
        BY <1>1, <3>1, <3>3
      <4>2. QED BY <1>1, <3>2, <4>1 DEF Answered, Request, Holding, Settles
    <3>4. CASE req[r].op = "GetMine"
      <4>1. req'[r] = [[req[r] EXCEPT !.ad = a] EXCEPT !.pc = "withTags"]
        BY <1>1, <3>1, <3>4
      <4>2. QED BY <1>1, <3>2, <4>1 DEF Request, Holding, Settles
    <3>5. CASE req[r].op \notin {"Create", "GetMine"}
      <4>1. req'[r] = [[req[r] EXCEPT !.ad = a] EXCEPT !.pc = "pendingLikesForAd"]
        BY <1>1, <3>1, <3>5
      <4>2. QED BY <1>1, <3>2, <4>1 DEF Request, Holding, Settles
    <3>6. QED BY <3>3, <3>4, <3>5
  <2>5. CASE NoActiveAd(r) \/ CountTags(r) \/ CandidateForAuthor(r)
    <3>1. \/ \E out : Answer(r, out) \/ Refuse(r, out)
          \/ \E stmt \in {"countTags", "createAd", "updateAdRow", "rejectCandidate",
                          "markAccepted"} : Goto(r, stmt)
      BY <2>5 DEF NoActiveAd, CountTags, CandidateForAuthor
    <3>2. QED BY <1>1, <3>1, Replies, Moves DEF Holding
  <2>6. CASE CreateAd(r)
    BY <1>1, <2>6 DEF CreateAd, Holding, Request, Settles
  <2>7. CASE GetAdByID(r)
    <3>1. CASE Refuse(r, "AD_NOT_FOUND")
      BY <1>1, <3>1, Replies
    <3>2. CASE \E out : req' = [req EXCEPT ![r] = [@ EXCEPT !.pc = "withTags", !.out = out]]
      BY <1>1, <3>2 DEF Holding, Request, Settles
    <3>3. QED BY <2>7, <3>1, <3>2 DEF GetAdByID
  <2>8. QED BY <2>1, <2>2, <2>3, <2>4, <2>5, <2>6, <2>7
<1>4. QED BY <1>2, <1>3, Calm DEF Settles
-----------------------------------------------------------------------------
(* Steps that take a lock, or rely on what a stale read promised.          *)

LEMMA InsertAdInv ==
    ASSUME Inv, TypeInv', NEW r \in Requests, InsertAd(r)
    PROVE  Inv'
<1>1. PICK a \in Fresh : req' = [req EXCEPT ![r] = [@ EXCEPT !.pc = "insertAdTags", !.ad = a]]
  BY DEF InsertAd
<1>2. req \in [Requests -> Request] /\ UNCHANGED <<ads, cands, chats>>
  BY DEF Inv, TypeInv, TypeOK, InsertAd, db
<1>3. /\ req'[r].pc = "insertAdTags" /\ req'[r].ad = a /\ req'[r].who = req[r].who
      /\ \A s \in Requests \ {r} : req'[s] = req[s]
  BY <1>1, <1>2 DEF Request
<1>4. /\ Active(req[r].who) = {} /\ ads[a] = Unborn /\ a \in Ads
      /\ \A s \in Requests : At(s, "insertAdTags") =>
             req[s].who # req[r].who /\ req[s].ad # a
  BY DEF InsertAd, IndexFree, IndexEntries, Inserting, Fresh, Inv, Tables, UnbornBlank
<1>5. InsertsApart'
  BY <1>2, <1>3, <1>4 DEF Inv, Held, InsertsApart, At, Active
<1>6. Tables'
  BY <1>2 DEF Inv, Tables, OneActiveAd, ChatIffAccepted, NoLikeOnOwnAd, UnbornBlank
<1>7. EditsHoldAd' /\ LikesOfOthers'
  BY <1>2, <1>3 DEF Inv, Held, EditsHoldAd, LikesOfOthers, At, Active
<1>8. AcceptsHoldLike'
  BY <1>2, <1>3 DEF Inv, Held, AcceptsHoldLike, At, Candidate
<1>9. QED BY <1>5, <1>6, <1>7, <1>8 DEF Inv, Held

LEMMA UpdateAdRowInv ==
    ASSUME Inv, TypeInv', NEW r \in Requests, UpdateAdRow(r)
    PROVE  Inv'
<1>1. req \in [Requests -> Request] /\ UNCHANGED <<ads, cands, chats>>
  BY DEF Inv, TypeInv, TypeOK, UpdateAdRow, db
<1>2. CASE Refuse(r, "NO_ACTIVE_AD")
  BY <1>1, <1>2, Replies, Calm DEF Settles, db
<1>3. CASE \E a \in Active(req[r].who) :
               req' = [req EXCEPT ![r] = [@ EXCEPT !.pc = "replaceTags", !.ad = a]]
  <2>1. PICK a \in Active(req[r].who) :
            req' = [req EXCEPT ![r] = [@ EXCEPT !.pc = "replaceTags", !.ad = a]]
    BY <1>3
  <2>2. /\ req'[r].pc = "replaceTags" /\ req'[r].ad = a /\ req'[r].who = req[r].who
        /\ \A s \in Requests \ {r} : req'[s] = req[s]
    BY <1>1, <2>1 DEF Request
  <2>3. EditsHoldAd'
    BY <1>1, <2>1, <2>2 DEF Inv, Held, EditsHoldAd, At, Active
  <2>4. Tables'
    BY <1>1 DEF Inv, Tables, OneActiveAd, ChatIffAccepted, NoLikeOnOwnAd, UnbornBlank
  <2>5. InsertsApart' /\ LikesOfOthers'
    BY <1>1, <2>2 DEF Inv, Held, InsertsApart, LikesOfOthers, At, Active
  <2>6. AcceptsHoldLike'
    BY <1>1, <2>2 DEF Inv, Held, AcceptsHoldLike, At, Candidate
  <2>7. QED BY <2>3, <2>4, <2>5, <2>6 DEF Inv, Held
<1>4. QED BY <1>2, <1>3 DEF UpdateAdRow

LEMMA MarkAcceptedInv ==
    ASSUME Inv, TypeInv', NEW r \in Requests, MarkAccepted(r)
    PROVE  Inv'
<1>1. req \in [Requests -> Request] /\ UNCHANGED <<ads, cands, chats>>
  BY DEF Inv, TypeInv, TypeOK, MarkAccepted, db
<1>2. CASE cands[Candidate(r)] = "PENDING"
  <2>1. req' = [req EXCEPT ![r].pc = "openChat"]
    BY <1>2 DEF MarkAccepted, Goto, StillPending
  <2>2. /\ req'[r].pc = "openChat" /\ req'[r].ad = req[r].ad
        /\ req'[r].liker = req[r].liker
        /\ \A s \in Requests \ {r} : req'[s] = req[s]
    BY <1>1, <2>1 DEF Request
  <2>3. \A s \in Requests : At(s, "openChat") => Candidate(s) # Candidate(r)
    BY DEF MarkAccepted, CandLocked
  <2>4. AcceptsHoldLike'
    BY <1>1, <1>2, <2>2, <2>3 DEF Inv, Held, AcceptsHoldLike, At, Candidate
  <2>5. Tables'
    BY <1>1 DEF Inv, Tables, OneActiveAd, ChatIffAccepted, NoLikeOnOwnAd, UnbornBlank
  <2>6. InsertsApart' /\ EditsHoldAd' /\ LikesOfOthers'
    BY <1>1, <2>2 DEF Inv, Held, InsertsApart, EditsHoldAd, LikesOfOthers, At, Active
  <2>7. QED BY <2>4, <2>5, <2>6 DEF Inv, Held
<1>3. CASE cands[Candidate(r)] # "PENDING"
  BY <1>1, <1>3, Replies, Calm DEF MarkAccepted, StillPending, Settles, db
<1>4. QED BY <1>2, <1>3

LEMMA LikeAdByIDInv ==
    ASSUME Inv, TypeInv', NEW r \in Requests, LikeAdByID(r)
    PROVE  Inv'
<1>1. req \in [Requests -> Request] /\ UNCHANGED <<ads, cands, chats>>
  BY DEF Inv, TypeInv, TypeOK, LikeAdByID, db
<1>2. CASE \E out : Refuse(r, out)
  BY <1>1, <1>2, Replies, Calm DEF Settles, db
<1>3. CASE Goto(r, "createCandidate") /\ ~\E out : Refuse(r, out)
  <2>1. /\ req'[r].pc = "createCandidate" /\ req'[r].ad = req[r].ad
        /\ req'[r].who = req[r].who
        /\ \A s \in Requests \ {r} : req'[s] = req[s]
    BY <1>1, <1>3 DEF Goto, Request
  <2>2. ads[req[r].ad].status # "NONE" /\ ads[req[r].ad].author # req[r].who
    BY <1>3 DEF LikeAdByID, Own
  <2>3. LikesOfOthers'
    BY <1>1, <2>1, <2>2 DEF Inv, Held, LikesOfOthers, At
  <2>4. Tables'
    BY <1>1 DEF Inv, Tables, OneActiveAd, ChatIffAccepted, NoLikeOnOwnAd, UnbornBlank
  <2>5. InsertsApart' /\ EditsHoldAd'
    BY <1>1, <2>1 DEF Inv, Held, InsertsApart, EditsHoldAd, At, Active
  <2>6. AcceptsHoldLike'
    BY <1>1, <2>1 DEF Inv, Held, AcceptsHoldLike, At, Candidate
  <2>7. QED BY <2>3, <2>4, <2>5, <2>6 DEF Inv, Held
<1>4. QED BY <1>2, <1>3 DEF LikeAdByID
-----------------------------------------------------------------------------
(* Steps that write the tables.                                            *)

(* Ads that no edit has locked leave the active state.                     *)
LEMMA Retire ==
    ASSUME Inv, TypeInv', NEW r \in Requests, Settles(r),
           NEW mine \in SUBSET Ads, NEW st \in {"EXPIRED", "CLOSED"},
           \A a \in mine : ads[a].status = "ACTIVE" /\ ~AdLocked(a),
           ads' = [a \in Ads |-> IF a \in mine THEN [ads[a] EXCEPT !.status = st]
                                 ELSE ads[a]],
           UNCHANGED <<cands, chats>>
    PROVE  Inv'
<1>1. ads \in [Ads -> AdRow]
  BY DEF Inv, TypeInv, TypeOK
<1>2. \A a \in Ads : /\ ads'[a].author = ads[a].author
                     /\ ads'[a].status = IF a \in mine THEN st ELSE ads[a].status
                     /\ a \notin mine => ads'[a] = ads[a]
  BY <1>1 DEF AdRow
<1>3. \A p : Active(p)' = Active(p) \ mine
  BY <1>2 DEF Active
<1>4. OneActiveAd'
  BY <1>2 DEF Inv, Tables, OneActiveAd
<1>5. ChatIffAccepted' /\ NoLikeOnOwnAd'
  BY <1>2 DEF Inv, Tables, ChatIffAccepted, NoLikeOnOwnAd
<1>6. UnbornBlank'
  BY <1>2 DEF Inv, Tables, UnbornBlank
<1>7. InsertsApart'
  <2>1. ASSUME NEW s \in Requests, At(s, "insertAdTags")
        PROVE  ads'[req[s].ad] = ads[req[s].ad]
    <3>1. req[s].ad \in Ads
      BY <2>1 DEF Inv, TypeInv, TypeOK, Form, At
    <3>2. ads[req[s].ad].status = "NONE"
      BY <2>1 DEF Inv, Held, InsertsApart, Unborn
    <3>3. QED BY <1>2, <3>1, <3>2
  <2>2. ASSUME NEW s \in Requests, At(s, "insertAdTags")'
        PROVE  At(s, "insertAdTags") /\ req'[s] = req[s]
    BY <2>2 DEF At, Settles, Holding
  <2>3. ASSUME NEW s \in Requests, At(s, "insertAdTags")'
        PROVE  Active(req[s].who)' = {} /\ ads'[req'[s].ad] = Unborn
    <3>1. At(s, "insertAdTags") /\ req'[s] = req[s]
      BY <2>2, <2>3
    <3>2. Active(req[s].who) = {} /\ ads[req[s].ad] = Unborn
      BY <3>1 DEF Inv, Held, InsertsApart
    <3>3. Active(req[s].who)' = {}
      BY <1>2, <3>1, <3>2 DEF Active
    <3>4. QED BY <2>1, <3>1, <3>2, <3>3
  <2>4. QED BY <2>2, <2>3 DEF Inv, Held, InsertsApart
<1>8. EditsHoldAd'
  <2>1. ASSUME NEW s \in Requests, At(s, "replaceTags")
        PROVE  req[s].ad \in Active(req[s].who) \ mine
    BY <2>1 DEF Inv, Held, EditsHoldAd, AdLocked
  <2>2. QED BY <1>3, <2>1 DEF EditsHoldAd, At, Settles, Holding
<1>9. AcceptsHoldLike'
  BY DEF Inv, Held, AcceptsHoldLike, At, Candidate, Settles, Holding
<1>10. LikesOfOthers'
  <2>1. ASSUME NEW s \in Requests, At(s, "createCandidate")
        PROVE  req[s].ad \in Ads
    BY <2>1 DEF Inv, TypeInv, TypeOK, Form, At
  <2>2. QED BY <1>2, <2>1 DEF Inv, Held, LikesOfOthers, At, Settles, Holding
<1>11. QED BY <1>4, <1>5, <1>6, <1>7, <1>8, <1>9, <1>10 DEF Inv, Held, Tables

LEMMA RetireSteps ==
    ASSUME Inv, TypeInv', NEW r \in Requests, ExpireStale(r) \/ CloseActiveAd(r)
    PROVE  Inv'
<1>1. req \in [Requests -> Request]
  BY DEF Inv, TypeInv, TypeOK
<1>2. CASE ExpireStale(r)
  <2>1. Overdue(req[r].who) \in SUBSET Ads
    BY DEF Overdue, Active
  <2>2. \A a \in Overdue(req[r].who) : ads[a].status = "ACTIVE" /\ ~AdLocked(a)
    BY <1>2 DEF ExpireStale, Overdue, Active
  <2>3. Settles(r)
    BY <1>1, <1>2, Moves DEF ExpireStale, Holding
  <2>4. QED BY <1>2, <2>1, <2>2, <2>3, Retire DEF ExpireStale
<1>3. CASE CloseActiveAd(r)
  <2>1. Active(req[r].who) \in SUBSET Ads
    BY DEF Active
  <2>2. \A a \in Active(req[r].who) : ads[a].status = "ACTIVE" /\ ~AdLocked(a)
    BY <1>3 DEF CloseActiveAd, Active
  <2>3. Settles(r)
    <3>1. CASE Refuse(r, "NO_ACTIVE_AD")
      BY <1>1, <3>1, Replies
    <3>2. CASE \E a : req' = [req EXCEPT ![r] = Answered([req[r] EXCEPT !.ad = a], "OK")]
      <4>1. PICK a : req' = [req EXCEPT ![r] = Answered([req[r] EXCEPT !.ad = a], "OK")]
        BY <3>2
      <4>2. Answered([req[r] EXCEPT !.ad = a], "OK").pc = "done"
        BY <1>1 DEF Answered, Request
      <4>3. QED BY <1>1, <4>1, <4>2 DEF Settles, Holding
    <3>3. QED BY <1>3, <3>1, <3>2 DEF CloseActiveAd
  <2>4. ads' = [a \in Ads |-> IF a \in Active(req[r].who)
                              THEN [ads[a] EXCEPT !.status = "CLOSED"] ELSE ads[a]]
    BY <1>3 DEF CloseActiveAd, Closed
  <2>5. UNCHANGED <<cands, chats>>
    BY <1>3 DEF CloseActiveAd
  <2>6. QED BY <2>1, <2>2, <2>3, <2>4, <2>5, Retire
<1>4. QED BY <1>2, <1>3

LEMMA InsertAdTagsInv ==
    ASSUME Inv, TypeInv', NEW r \in Requests, InsertAdTags(r)
    PROVE  Inv'
<1> DEFINE a == req[r].ad
           p == req[r].who
<1>1. /\ req \in [Requests -> Request] /\ ads \in [Ads -> AdRow]
      /\ a \in Ads /\ p \in Profiles /\ At(r, "insertAdTags")
  BY DEF Inv, TypeInv, TypeOK, InsertAdTags, Form, At
<1>2. Settles(r)
  BY <1>1, Moves DEF InsertAdTags, Holding
<1>3. /\ Active(p) = {} /\ ads[a] = Unborn
      /\ \A s \in Requests \ {r} : At(s, "insertAdTags") => req[s].who # p /\ req[s].ad # a
  BY <1>1 DEF Inv, Held, InsertsApart
<1>4. /\ ads'[a].author = p /\ ads'[a].status = "ACTIVE"
      /\ \A b \in Ads \ {a} : ads'[b] = ads[b]
      /\ UNCHANGED <<cands, chats>>
  BY <1>1 DEF InsertAdTags
<1> HIDE DEF a, p
<1>5. \A q : Active(q)' = IF q = p THEN Active(q) \cup {a} ELSE Active(q)
  <2>1. \A q : a \notin Active(q)
    BY <1>3 DEF Active, Unborn
  <2>2. QED BY <1>1, <1>4, <2>1 DEF Active
<1>6. OneActiveAd'
  BY <1>3, <1>4 DEF Inv, Tables, OneActiveAd, Active
<1>7. ChatIffAccepted' /\ NoLikeOnOwnAd' /\ UnbornBlank'
  BY <1>3, <1>4 DEF Inv, Tables, ChatIffAccepted, NoLikeOnOwnAd, UnbornBlank, Unborn
<1>8. InsertsApart'
  <2>1. ASSUME NEW s \in Requests, At(s, "insertAdTags"), s # r
        PROVE  req[s].ad \in Ads \ {a} /\ req[s].who # p
    BY <1>3, <2>1 DEF Inv, TypeInv, TypeOK, Form, At
  <2>2. QED BY <1>2, <1>4, <1>5, <2>1 DEF Inv, Held, InsertsApart, At, Settles, Holding
<1>9. EditsHoldAd'
  BY <1>2, <1>5 DEF Inv, Held, EditsHoldAd, At, Settles, Holding
<1>10. AcceptsHoldLike'
  BY <1>2, <1>4 DEF Inv, Held, AcceptsHoldLike, At, Candidate, Settles, Holding
<1>11. LikesOfOthers'
  <2>1. ASSUME NEW s \in Requests, At(s, "createCandidate")
        PROVE  req[s].ad \in Ads \ {a}
    <3>1. req[s].ad \in Ads
      BY <2>1 DEF Inv, TypeInv, TypeOK, Form, At
    <3>2. QED BY <1>3, <2>1, <3>1 DEF Inv, Held, LikesOfOthers, Unborn
  <2>2. QED BY <1>2, <1>4, <2>1 DEF Inv, Held, LikesOfOthers, At, Settles, Holding
<1>12. QED BY <1>6, <1>7, <1>8, <1>9, <1>10, <1>11 DEF Inv, Held, Tables
LEMMA ReplaceTagsInv ==
    ASSUME Inv, TypeInv', NEW r \in Requests, ReplaceTags(r)
    PROVE  Inv'
<1>1. /\ req \in [Requests -> Request] /\ ads \in [Ads -> AdRow]
      /\ At(r, "replaceTags") /\ req[r].ad \in Active(req[r].who)
  BY DEF Inv, TypeInv, TypeOK, ReplaceTags, Held, EditsHoldAd
<1>2. Settles(r)
  BY <1>1, Moves DEF ReplaceTags, Holding
<1>3. /\ ads[req[r].ad].status = "ACTIVE" /\ UNCHANGED <<cands, chats>>
      /\ \A b \in Ads : /\ ads'[b].author = ads[b].author /\ ads'[b].status = ads[b].status
                        /\ b # req[r].ad => ads'[b] = ads[b]
  BY <1>1 DEF ReplaceTags, AdRow, Active
<1>4. \A q : Active(q)' = Active(q)
  BY <1>3 DEF Active
<1>5. Tables'
  BY <1>3 DEF Inv, Tables, OneActiveAd, ChatIffAccepted, NoLikeOnOwnAd, UnbornBlank
<1>6. InsertsApart'
  <2>1. ASSUME NEW s \in Requests, At(s, "insertAdTags")
        PROVE  ads'[req[s].ad] = Unborn
    BY <1>3, <2>1 DEF Inv, TypeInv, TypeOK, Form, At, Held, InsertsApart, Unborn
  <2>2. QED BY <1>2, <1>4, <2>1 DEF Inv, Held, InsertsApart, At, Settles, Holding
<1>7. EditsHoldAd'
  BY <1>2, <1>4 DEF Inv, Held, EditsHoldAd, At, Settles, Holding
<1>8. AcceptsHoldLike'
  BY <1>2, <1>3 DEF Inv, Held, AcceptsHoldLike, At, Candidate, Settles, Holding
<1>9. LikesOfOthers'
  BY <1>2, <1>3 DEF Inv, TypeInv, TypeOK, Form, Held, LikesOfOthers, At, Settles, Holding
<1>10. QED BY <1>5, <1>6, <1>7, <1>8, <1>9 DEF Inv, Held

(* A like that no Accept has locked changes, and so does no chat.          *)
LEMMA LikeChange ==
    ASSUME Inv, TypeInv', NEW r \in Requests, Settles(r), NEW c \in Pairs,
           NEW st \in {"PENDING", "REJECTED"},
           cands' = [cands EXCEPT ![c] = st], cands[c] # "ACCEPTED",
           \A s \in Requests \ {r} : At(s, "openChat") => Candidate(s) # c,
           c[1] \in Ads /\ ads[c[1]].status # "NONE" /\ ads[c[1]].author # c[2],
           UNCHANGED <<ads, chats>>
    PROVE  Inv'
<1>1. cands \in [Pairs -> CandStatus]
  BY DEF Inv, TypeInv, TypeOK
<1>2. ChatIffAccepted'
  BY <1>1 DEF Inv, Tables, ChatIffAccepted
<1>3. NoLikeOnOwnAd'
  BY <1>1 DEF Inv, Tables, NoLikeOnOwnAd, Pairs
<1>4. OneActiveAd' /\ UnbornBlank'
  BY DEF Inv, Tables, OneActiveAd, UnbornBlank
<1>5. InsertsApart' /\ EditsHoldAd' /\ LikesOfOthers'
  BY DEF Inv, Held, InsertsApart, EditsHoldAd, LikesOfOthers, At, Active, Settles, Holding
<1>6. AcceptsHoldLike'
  BY <1>1 DEF Inv, Held, AcceptsHoldLike, At, Candidate, Settles, Holding
<1>7. QED BY <1>2, <1>3, <1>4, <1>5, <1>6 DEF Inv, Held, Tables

LEMMA LikeSteps ==
    ASSUME Inv, TypeInv', NEW r \in Requests, CreateCandidate(r) \/ RejectCandidate(r)
    PROVE  Inv'
<1>1. /\ req \in [Requests -> Request] /\ cands \in [Pairs -> CandStatus]
      /\ Form(req[r]) /\ req[r] \in Request
  BY DEF Inv, TypeInv, TypeOK
<1>2. CASE CreateCandidate(r)
  <2> DEFINE c == <<req[r].ad, req[r].who>>
  <2>1. /\ c \in Pairs /\ c[1] = req[r].ad /\ c[2] = req[r].who /\ c[1] \in Ads
        /\ ads[c[1]].status # "NONE" /\ ads[c[1]].author # c[2]
    BY <1>1, <1>2 DEF CreateCandidate, Form, At, Pairs, Inv, Held, LikesOfOthers
  <2>2. Settles(r) /\ UNCHANGED <<ads, chats>>
    BY <1>1, <1>2, Replies DEF CreateCandidate
  <2>3. CASE cands[c] = "NONE"
    <3>1. \A s \in Requests : At(s, "openChat") => Candidate(s) # c
      BY <2>3 DEF Inv, Held, AcceptsHoldLike
    <3>2. cands' = [cands EXCEPT ![c] = "PENDING"]
      BY <1>2, <2>3 DEF CreateCandidate
    <3>3. QED BY <2>1, <2>2, <2>3, <3>1, <3>2, LikeChange
  <2>4. CASE cands[c] # "NONE"
    BY <1>2, <2>2, <2>4, Calm DEF CreateCandidate, Settles, db
  <2>5. QED BY <2>3, <2>4
<1>3. CASE RejectCandidate(r)
  <2> DEFINE c == Candidate(r)
  <2>1. c \in Pairs /\ c[1] = req[r].ad /\ c[2] = req[r].liker
    <3>1. req[r].op = "Reject"
      BY <1>1, <1>3 DEF RejectCandidate, Form, At, StmtsOf, Request, AdOps, LikeOps
    <3>2. QED BY <1>1, <1>3, <3>1 DEF RejectCandidate, Form, At, Candidate, Pairs
  <2>2. Settles(r) /\ UNCHANGED <<ads, chats>>
    BY <1>1, <1>3, Replies DEF RejectCandidate
  <2>3. CASE cands[c] = "PENDING"
    <3>1. \A s \in Requests : At(s, "openChat") => Candidate(s) # c
      BY <1>3 DEF RejectCandidate, CandLocked
    <3>2. cands' = [cands EXCEPT ![c] = "REJECTED"]
      BY <1>3, <2>3 DEF RejectCandidate, StillPending
    <3>3. c[1] \in Ads /\ ads[c[1]].status # "NONE" /\ ads[c[1]].author # c[2]
      BY <2>1, <2>3 DEF Inv, Tables, NoLikeOnOwnAd, Pairs
    <3>4. QED BY <2>1, <2>2, <2>3, <3>1, <3>2, <3>3, LikeChange
  <2>4. CASE cands[c] # "PENDING"
    BY <1>3, <2>2, <2>4, Calm DEF RejectCandidate, StillPending, Settles, db
  <2>5. QED BY <2>3, <2>4
<1>4. QED BY <1>2, <1>3

LEMMA OpenChatInv ==
    ASSUME Inv, TypeInv', NEW r \in Requests, OpenChat(r)
    PROVE  Inv'
<1> DEFINE c == Candidate(r)
<1>1. /\ req \in [Requests -> Request] /\ cands \in [Pairs -> CandStatus]
      /\ chats \in [Pairs -> Nat] /\ At(r, "openChat")
      /\ Form(req[r]) /\ req[r] \in Request
  BY DEF Inv, TypeInv, TypeOK, OpenChat
<1>2. c \in Pairs
  <2>1. req[r].op = "Accept"
    BY <1>1 DEF Form, At, StmtsOf, Request, AdOps, LikeOps
  <2>2. QED BY <1>1, <2>1 DEF Form, At, Candidate, Pairs
<1>3. Settles(r) /\ UNCHANGED ads
  BY <1>1, Replies DEF OpenChat
<1>4. /\ cands[c] = "PENDING"
      /\ \A s \in Requests \ {r} : At(s, "openChat") => Candidate(s) # c
  BY <1>1 DEF Inv, Held, AcceptsHoldLike
<1>5. cands' = [cands EXCEPT ![c] = "ACCEPTED"] /\ chats' = [chats EXCEPT ![c] = @ + 1]
  BY DEF OpenChat
<1> HIDE DEF c
<1>6. ChatIffAccepted'
  BY <1>1, <1>2, <1>4, <1>5 DEF Inv, Tables, ChatIffAccepted
<1>7. NoLikeOnOwnAd'
  BY <1>1, <1>2, <1>3, <1>4, <1>5 DEF Inv, Tables, NoLikeOnOwnAd, Pairs
<1>8. OneActiveAd' /\ UnbornBlank'
  BY <1>3 DEF Inv, Tables, OneActiveAd, UnbornBlank
<1>9. InsertsApart' /\ EditsHoldAd' /\ LikesOfOthers'
  BY <1>3 DEF Inv, Held, InsertsApart, EditsHoldAd, LikesOfOthers, At, Active,
              Settles, Holding
<1>10. AcceptsHoldLike'
  BY <1>1, <1>3, <1>4, <1>5
     DEF Inv, Held, AcceptsHoldLike, At, Candidate, Settles, Holding
<1>11. QED BY <1>6, <1>7, <1>8, <1>9, <1>10 DEF Inv, Held, Tables

LEMMA StepInv == Inv /\ [Next]_vars => Inv'
<1> SUFFICES ASSUME Inv, [Next]_vars PROVE Inv'
  OBVIOUS
<1>1. TypeInv'
  BY StepType DEF Inv
<1>2. CASE UNCHANGED <<ads, cands, chats, req>>
  <2>1. Tables'
    BY <1>2 DEF Inv, Tables, OneActiveAd, ChatIffAccepted, NoLikeOnOwnAd, UnbornBlank
  <2>2. Held'
    BY <1>2 DEF Inv, Held, InsertsApart, EditsHoldAd, AcceptsHoldLike, LikesOfOthers,
                At, Active, Candidate
  <2>3. QED BY <1>1, <2>1, <2>2 DEF Inv
<1>3. CASE UNCHANGED vars \/ Tick \/ \E p \in Profiles : Onboard(p)
  BY <1>2, <1>3 DEF vars, Tick, Onboard
<1>4. ASSUME NEW r \in Requests, Start(r) \/ Fail(r) \/ Statement(r) PROVE Inv'
  BY <1>1, <1>4, CalmSteps, InsertAdInv, UpdateAdRowInv, MarkAcceptedInv, LikeAdByIDInv,
     RetireSteps, InsertAdTagsInv, ReplaceTagsInv, LikeSteps, OpenChatInv
     DEF Statement
<1>5. QED BY <1>3, <1>4 DEF Next

LEMMA InvCorrect == Spec => []Inv
<1>1. Init => Inv
  BY InitInv
<1>2. Inv /\ [Next]_vars => Inv'
  BY StepInv
<1>3. QED BY <1>1, <1>2, PTL DEF Spec

(* No author ever has two active ads, however many of her requests race.   *)
THEOREM OneActiveAdPerAuthor == Spec => []OneActiveAd
<1>1. Inv => OneActiveAd
  BY DEF Inv, Tables
<1>2. QED BY <1>1, InvCorrect, PTL

(* Accepted likes and chats are always in step.                            *)
THEOREM ChatsFollowAcceptance == Spec => []ChatIffAccepted
<1>1. Inv => ChatIffAccepted
  BY DEF Inv, Tables
<1>2. QED BY <1>1, InvCorrect, PTL

(* Nobody ever has a like on her own ad.                                   *)
THEOREM LikersAreGuests == Spec => []NoLikeOnOwnAd
<1>1. Inv => NoLikeOnOwnAd
  BY DEF Inv, Tables
<1>2. QED BY <1>1, InvCorrect, PTL
-----------------------------------------------------------------------------
(* Meeting implements MeetingBoard.                                        *)

(* The expiry a Create carries was at most TTL ahead when it was computed. *)
ExpiryAhead == \A r \in Requests : req[r].expires =< now + TTL

(* What a step does to the expiry a request carries.                       *)
Carries(r) ==
    /\ now' = now
    /\ \A s \in Requests \ {r} : req'[s] = req[s]
    /\ req'[r].expires \in {req[r].expires, 0, now + TTL}

LEMMA CarriesSmall ==
    ASSUME req \in [Requests -> Request], NEW r \in Requests, now' = now,
           \/ \E out : Answer(r, out) \/ Refuse(r, out)
           \/ \E stmt : Goto(r, stmt)
    PROVE  Carries(r)
<1>1. CASE \E out : Answer(r, out)
  <2>1. PICK out : req' = [req EXCEPT ![r] = Answered(req[r], out)]
    BY <1>1 DEF Answer
  <2>2. Answered(req[r], out).expires = 0
    BY DEF Answered, Request
  <2>3. QED BY <2>1, <2>2 DEF Carries
<1>2. CASE \E out : Refuse(r, out)
  BY <1>2 DEF Refuse, NoRequest, Carries
<1>3. CASE \E stmt : Goto(r, stmt)
  BY <1>3 DEF Goto, Request, Carries
<1>4. QED BY <1>1, <1>2, <1>3

LEMMA CarriesStep ==
    ASSUME TypeInv, NEW r \in Requests, Start(r) \/ Fail(r) \/ Statement(r)
    PROVE  Carries(r)
<1>1. req \in [Requests -> Request] /\ req[r] \in Request
  BY DEF TypeInv, TypeOK
<1>2. now' = now
  BY DEF Start, Fail, Statement, ProfileForUser, ExpireStale, ActiveAdFound, NoActiveAd,
         CountTags, CreateAd, InsertAd, InsertConflict, InsertAdTags, UpdateAdRow,
         ReplaceTags, CloseActiveAd, GetAdByID, WithTags, LikeAdByID, CreateCandidate,
         PendingLikesForAd, CandidateForAuthor, MarkAccepted, OpenChat,
         RejectCandidate, env
<1>3. CASE Start(r)
  <2>1. PICK op, who, ad, liker, text :
            req' = [req EXCEPT ![r] = Issue(op, who, ad, liker, text)]
    BY <1>3 DEF Start
  <2>2. QED BY <1>1, <1>2, <2>1 DEF Issue, Carries
<1>4. CASE \/ Fail(r) \/ ProfileForUser(r) \/ ExpireStale(r) \/ NoActiveAd(r)
           \/ CountTags(r) \/ InsertConflict(r) \/ InsertAdTags(r) \/ ReplaceTags(r)
           \/ WithTags(r) \/ LikeAdByID(r) \/ CreateCandidate(r)
           \/ PendingLikesForAd(r) \/ CandidateForAuthor(r) \/ MarkAccepted(r)
           \/ OpenChat(r) \/ RejectCandidate(r)
  <2>1. \/ \E out : Answer(r, out) \/ Refuse(r, out)
        \/ \E stmt : Goto(r, stmt)
    BY <1>4 DEF Fail, ProfileForUser, ExpireStale, NoActiveAd, CountTags, InsertConflict,
                InsertAdTags, ReplaceTags, WithTags, LikeAdByID, CreateCandidate,
                PendingLikesForAd, CandidateForAuthor, MarkAccepted, OpenChat,
                RejectCandidate
  <2>2. QED BY <1>1, <1>2, <2>1, CarriesSmall
<1>5. CASE CreateAd(r)
  BY <1>1, <1>2, <1>5 DEF CreateAd, Request, Carries
<1>6. CASE InsertAd(r)
  BY <1>1, <1>2, <1>6 DEF InsertAd, Request, Carries
<1>7. CASE UpdateAdRow(r)
  <2>1. CASE Refuse(r, "NO_ACTIVE_AD")
    BY <1>1, <1>2, <2>1, CarriesSmall
  <2>2. CASE \E a : req' = [req EXCEPT ![r] = [@ EXCEPT !.pc = "replaceTags", !.ad = a]]
    BY <1>1, <1>2, <2>2 DEF Request, Carries
  <2>3. QED BY <1>7, <2>1, <2>2 DEF UpdateAdRow
<1>8. CASE CloseActiveAd(r)
  <2>1. CASE Refuse(r, "NO_ACTIVE_AD")
    BY <1>1, <1>2, <2>1, CarriesSmall
  <2>2. CASE \E a : req' = [req EXCEPT ![r] = Answered([req[r] EXCEPT !.ad = a], "OK")]
    <3>1. PICK a : req' = [req EXCEPT ![r] = Answered([req[r] EXCEPT !.ad = a], "OK")]
      BY <2>2
    <3>2. Answered([req[r] EXCEPT !.ad = a], "OK").expires = 0
      BY <1>1 DEF Answered, Request
    <3>3. QED BY <1>1, <1>2, <3>1, <3>2 DEF Carries
  <2>3. QED BY <1>8, <2>1, <2>2 DEF CloseActiveAd
<1>9. CASE GetAdByID(r)
  <2>1. CASE Refuse(r, "AD_NOT_FOUND")
    BY <1>1, <1>2, <2>1, CarriesSmall
  <2>2. CASE \E out : req' = [req EXCEPT ![r] = [@ EXCEPT !.pc = "withTags", !.out = out]]
    BY <1>1, <1>2, <2>2 DEF Request, Carries
  <2>3. QED BY <1>9, <2>1, <2>2 DEF GetAdByID
<1>10. CASE ActiveAdFound(r)
  <2>1. PICK a : req' = [req EXCEPT ![r] =
            CASE req[r].op = "Create" -> Answered([req[r] EXCEPT !.ad = a], "ACTIVE_AD_EXISTS")
              [] req[r].op = "GetMine" -> [[req[r] EXCEPT !.ad = a] EXCEPT !.pc = "withTags"]
              [] OTHER -> [[req[r] EXCEPT !.ad = a] EXCEPT !.pc = "pendingLikesForAd"]]
    BY <1>10 DEF ActiveAdFound
  <2>2. /\ Answered([req[r] EXCEPT !.ad = a], "ACTIVE_AD_EXISTS").expires = 0
        /\ [[req[r] EXCEPT !.ad = a] EXCEPT !.pc = "withTags"].expires = req[r].expires
        /\ [[req[r] EXCEPT !.ad = a] EXCEPT !.pc = "pendingLikesForAd"].expires
             = req[r].expires
    BY <1>1 DEF Answered, Request
  <2>3. CASE req[r].op = "Create"
    BY <1>1, <1>2, <2>1, <2>2, <2>3 DEF Carries
  <2>4. CASE req[r].op = "GetMine"
    BY <1>1, <1>2, <2>1, <2>2, <2>4 DEF Carries
  <2>5. CASE req[r].op \notin {"Create", "GetMine"}
    BY <1>1, <1>2, <2>1, <2>2, <2>5 DEF Carries
  <2>6. QED BY <2>3, <2>4, <2>5
<1>11. QED BY <1>3, <1>4, <1>5, <1>6, <1>7, <1>8, <1>9, <1>10 DEF Statement

LEMMA ExpiryAheadStep == TypeInv /\ ExpiryAhead /\ [Next]_vars => ExpiryAhead'
<1> SUFFICES ASSUME TypeInv, ExpiryAhead, [Next]_vars PROVE ExpiryAhead'
  OBVIOUS
<1> USE MeetingAssumption DEF ExpiryAhead
<1>1. now \in Nat /\ \A r \in Requests : req[r].expires \in Nat
  BY DEF TypeInv, TypeOK, Request
<1>2. CASE UNCHANGED vars \/ Tick \/ \E p \in Profiles : Onboard(p)
  BY <1>1, <1>2 DEF vars, Tick, Onboard
<1>3. ASSUME NEW r \in Requests, Start(r) \/ Fail(r) \/ Statement(r) PROVE ExpiryAhead'
  <2>1. Carries(r)
    BY <1>3, CarriesStep
  <2>2. QED BY <1>1, <2>1 DEF Carries
<1>4. QED BY <1>2, <1>3 DEF Next
(* The variables of the board.                                             *)
boardVars == <<now, ads, cands, chats>>

LEMMA BoardInit == Init => Board!Init
BY DEF Init, Board!Init, Unborn, Board!Unborn, Pairs, Board!Pairs

(* Most statements show nothing on the board.                              *)
LEMMA Silent ==
    ASSUME NEW r \in Requests,
           \/ Start(r) \/ Fail(r) \/ ProfileForUser(r) \/ ActiveAdFound(r)
           \/ NoActiveAd(r) \/ CountTags(r) \/ CreateAd(r) \/ InsertAd(r)
           \/ InsertConflict(r) \/ UpdateAdRow(r) \/ GetAdByID(r) \/ WithTags(r)
           \/ LikeAdByID(r) \/ PendingLikesForAd(r) \/ CandidateForAuthor(r)
           \/ MarkAccepted(r)
    PROVE  UNCHANGED boardVars
BY DEF Start, Fail, ProfileForUser, ActiveAdFound, NoActiveAd, CountTags, CreateAd,
       InsertAd, InsertConflict, UpdateAdRow, GetAdByID, WithTags, LikeAdByID,
       PendingLikesForAd, CandidateForAuthor, MarkAccepted, db, env, boardVars

(* An UPDATE of the author's ACTIVE ads retires at most one of them.       *)
LEMMA RetiresOne ==
    ASSUME Inv, NEW p \in Profiles, NEW mine \in SUBSET Active(p),
           NEW st \in {"EXPIRED", "CLOSED"},
           ads' = [a \in Ads |-> IF a \in mine THEN [ads[a] EXCEPT !.status = st]
                                 ELSE ads[a]]
    PROVE  \/ ads' = ads
           \/ \E a \in mine : ads' = [ads EXCEPT ![a].status = st]
<1>1. ads \in [Ads -> AdRow]
  BY DEF Inv, TypeInv, TypeOK
<1>2. CASE mine = {}
  BY <1>1, <1>2
<1>3. ASSUME NEW a \in mine PROVE ads' = [ads EXCEPT ![a].status = st]
  <2>1. \A b \in mine : b = a
    BY <1>3 DEF Inv, Tables, OneActiveAd, Active
  <2>2. a \in Ads
    BY DEF Active
  <2>3. QED BY <1>1, <1>3, <2>1, <2>2
<1>4. QED BY <1>2, <1>3

LEMMA BoardAdStep ==
    ASSUME Inv, ExpiryAhead, NEW r \in Requests,
           \/ ExpireStale(r) \/ CloseActiveAd(r) \/ InsertAdTags(r) \/ ReplaceTags(r)
    PROVE  Board!Next \/ UNCHANGED boardVars
<1>1. /\ ads \in [Ads -> AdRow] /\ req[r] \in Request /\ Form(req[r]) /\ now \in Nat
      /\ UNCHANGED <<now, cands, chats>>
  BY DEF Inv, TypeInv, TypeOK, ExpireStale, CloseActiveAd, InsertAdTags, ReplaceTags, env
<1>2. req[r].who \in Profiles
  BY <1>1 DEF Form, At, ExpireStale, CloseActiveAd, InsertAdTags, ReplaceTags
<1>3. CASE ExpireStale(r)
  <2> DEFINE mine == Overdue(req[r].who)
  <2>1. mine \in SUBSET Active(req[r].who)
    BY DEF Overdue
  <2>2. ads' = ads \/ \E a \in mine : ads' = [ads EXCEPT ![a].status = "EXPIRED"]
    BY <1>2, <1>3, <2>1, RetiresOne DEF ExpireStale
  <2>3. ASSUME NEW a \in mine, ads' = [ads EXCEPT ![a].status = "EXPIRED"]
        PROVE  a \in Ads /\ Board!Expire(a)
    BY <1>1, <2>3 DEF Overdue, Active, Board!Expire
  <2>4. QED BY <1>1, <2>2, <2>3 DEF Board!Next, boardVars
<1>4. CASE CloseActiveAd(r)
  <2> DEFINE mine == Active(req[r].who)
  <2>1. ads' = [a \in Ads |-> IF a \in mine THEN [ads[a] EXCEPT !.status = "CLOSED"]
                              ELSE ads[a]]
    BY <1>4 DEF CloseActiveAd, Closed
  <2>2. ads' = ads \/ \E a \in mine : ads' = [ads EXCEPT ![a].status = "CLOSED"]
    BY <1>2, <2>1, RetiresOne
  <2>3. ASSUME NEW a \in mine, ads' = [ads EXCEPT ![a].status = "CLOSED"]
        PROVE  a \in Ads /\ Board!Close(a)
    BY <1>1, <2>3 DEF Active, Board!Close
  <2>4. QED BY <1>1, <2>2, <2>3 DEF Board!Next, boardVars
<1>5. CASE InsertAdTags(r)
  <2> DEFINE p == req[r].who  a == req[r].ad  t == req[r].text  e == req[r].expires
  <2>1. a \in Ads /\ t \in Texts
    <3>1. req[r].op = "Create"
      BY <1>1, <1>5 DEF InsertAdTags, Form, At, StmtsOf, Request, AdOps, LikeOps
    <3>2. QED BY <1>1, <1>5, <3>1 DEF InsertAdTags, Form, At
  <2>2. Active(p) = {} /\ ads[a] = Unborn
    BY <1>5 DEF InsertAdTags, Inv, Held, InsertsApart
  <2>3. e \in 0 .. now + TTL
    BY <1>1, MeetingAssumption DEF ExpiryAhead, Request
  <2>4. ads' = [ads EXCEPT ![a] = [author |-> p, status |-> "ACTIVE", expires |-> e,
                                   desc |-> t, tags |-> t]]
    BY <1>5 DEF InsertAdTags
  <2> HIDE DEF p, a, t, e
  <2>5. Board!Publish(p, a, t)
    BY <1>1, <2>2, <2>3, <2>4
       DEF Board!Publish, Board!Unborn, Unborn, Board!Active, Active
  <2>6. p \in Profiles
    BY <1>2 DEF p
  <2>7. QED BY <2>1, <2>5, <2>6 DEF Board!Next
<1>6. CASE ReplaceTags(r)
  <2>1. req[r].ad \in Ads /\ req[r].text \in Texts
    <3>1. req[r].op = "Update"
      BY <1>1, <1>6 DEF ReplaceTags, Form, At, StmtsOf, Request, AdOps, LikeOps
    <3>2. QED BY <1>1, <1>6, <3>1 DEF ReplaceTags, Form, At
  <2>2. ads[req[r].ad].status = "ACTIVE"
    BY <1>6 DEF ReplaceTags, Inv, Held, EditsHoldAd, Active
  <2>3. Board!Edit(req[r].ad, req[r].text)
    BY <1>1, <1>6, <2>2 DEF ReplaceTags, Board!Edit
  <2>4. QED BY <2>1, <2>3 DEF Board!Next
<1>7. QED BY <1>3, <1>4, <1>5, <1>6

LEMMA BoardLikeStep ==
    ASSUME Inv, NEW r \in Requests,
           CreateCandidate(r) \/ OpenChat(r) \/ RejectCandidate(r)
    PROVE  Board!Next \/ UNCHANGED boardVars
<1>1. /\ cands \in [Pairs -> CandStatus] /\ chats \in [Pairs -> Nat]
      /\ req[r] \in Request /\ Form(req[r])
  BY DEF Inv, TypeInv, TypeOK
<1>2. CASE CreateCandidate(r)
  <2> DEFINE a == req[r].ad  p == req[r].who
  <2>1. a \in Ads /\ p \in Profiles /\ ads[a].status # "NONE" /\ ads[a].author # p
    BY <1>1, <1>2 DEF CreateCandidate, Form, At, Inv, Held, LikesOfOthers
  <2>2. CASE cands[<<a, p>>] = "NONE"
    <3>1. Board!Respond(a, p)
      BY <1>2, <2>1, <2>2 DEF CreateCandidate, Board!Respond, env
    <3>2. QED BY <2>1, <3>1 DEF Board!Next
  <2>3. CASE cands[<<a, p>>] # "NONE"
    BY <1>2, <2>3 DEF CreateCandidate, boardVars, env
  <2>4. QED BY <2>2, <2>3
<1>3. CASE OpenChat(r)
  <2>1. Candidate(r) \in Board!Pairs
    <3>1. req[r].op = "Accept"
      BY <1>1, <1>3 DEF OpenChat, Form, At, StmtsOf, Request, AdOps, LikeOps
    <3>2. QED BY <1>1, <1>3, <3>1 DEF OpenChat, Form, At, Candidate, Board!Pairs
  <2>2. cands[Candidate(r)] = "PENDING"
    BY <1>3 DEF OpenChat, Inv, Held, AcceptsHoldLike
  <2>3. Board!Accept(Candidate(r))
    BY <1>3, <2>2 DEF OpenChat, Board!Accept, env
  <2>4. QED BY <2>1, <2>3 DEF Board!Next
<1>4. CASE RejectCandidate(r)
  <2>1. Candidate(r) \in Board!Pairs
    <3>1. req[r].op = "Reject"
      BY <1>1, <1>4 DEF RejectCandidate, Form, At, StmtsOf, Request, AdOps, LikeOps
    <3>2. QED BY <1>1, <1>4, <3>1 DEF RejectCandidate, Form, At, Candidate, Board!Pairs
  <2>2. CASE cands[Candidate(r)] = "PENDING"
    <3>1. Board!Reject(Candidate(r))
      BY <1>4, <2>2 DEF RejectCandidate, StillPending, Board!Reject, env
    <3>2. QED BY <2>1, <3>1 DEF Board!Next
  <2>3. CASE cands[Candidate(r)] # "PENDING"
    BY <1>4, <2>3 DEF RejectCandidate, StillPending, boardVars, env
  <2>4. QED BY <2>2, <2>3
<1>5. QED BY <1>2, <1>3, <1>4

LEMMA BoardStep == Inv /\ ExpiryAhead /\ [Next]_vars => [Board!Next]_boardVars
<1> SUFFICES ASSUME Inv, ExpiryAhead, [Next]_vars
             PROVE  Board!Next \/ UNCHANGED boardVars
  OBVIOUS
<1>1. CASE UNCHANGED vars \/ \E p \in Profiles : Onboard(p)
  BY <1>1 DEF vars, Onboard, boardVars
<1>2. CASE Tick
  BY <1>2 DEF Tick, Board!Next, Board!Pass
<1>3. ASSUME NEW r \in Requests, Start(r) \/ Fail(r) \/ Statement(r)
      PROVE  Board!Next \/ UNCHANGED boardVars
  BY <1>3, Silent, BoardAdStep, BoardLikeStep DEF Statement
<1>4. QED BY <1>1, <1>2, <1>3 DEF Next

(* The interleaved statements implement the atomic board.                  *)
THEOREM MeetingImplementsBoard == Spec => BoardSpec
<1>1. Init => TypeInv /\ ExpiryAhead
  <2>1. Init => ExpiryAhead
    <3>1. NoRequest.expires = 0
      BY DEF NoRequest
    <3>2. Init => now = 0 /\ \A r \in Requests : req[r].expires = 0
      BY <3>1 DEF Init
    <3>3. QED BY <3>2, MeetingAssumption DEF ExpiryAhead
  <2>2. QED BY <2>1, InitType
<1>2. TypeInv /\ ExpiryAhead /\ [Next]_vars => (TypeInv /\ ExpiryAhead)'
  BY StepType, ExpiryAheadStep
<1>3. Spec => []ExpiryAhead
  BY <1>1, <1>2, PTL DEF Spec
<1>4. Init => Board!Init
  BY BoardInit
<1>5. Inv /\ ExpiryAhead /\ [Next]_vars => [Board!Next]_boardVars
  BY BoardStep
<1>6. QED BY <1>3, <1>4, <1>5, InvCorrect, PTL DEF Spec, BoardSpec, Board!Spec, boardVars
=============================================================================
