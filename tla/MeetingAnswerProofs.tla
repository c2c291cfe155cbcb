------------------------- MODULE MeetingAnswerProofs -------------------------
(***************************************************************************)
(* Proofs about what the replies of Meeting say: that it is true when it   *)
(* is said and stays true, however requests interleave.  They rest on Inv  *)
(* of MeetingProofs.  What a request is about to say is a predicate of its *)
(* slot and of the tables; a step of another request keeps it because the  *)
(* tables only ever change in one direction.                               *)
(***************************************************************************)
EXTENDS MeetingProofs

(* A step of one request.                                                  *)
Step(r) == Start(r) \/ Fail(r) \/ Statement(r)

-----------------------------------------------------------------------------
(* Contents.                                                               *)

LEMMA ContentStep == TypeInv /\ ContentWhole /\ [Next]_vars => ContentWhole'
<1> SUFFICES ASSUME TypeInv, ContentWhole, [Next]_vars PROVE ContentWhole'
  OBVIOUS
<1> USE DEF ContentWhole
<1>1. ads \in [Ads -> AdRow]
  BY DEF TypeInv, TypeOK
<1>2. CASE UNCHANGED ads
  BY <1>2
<1>3. ASSUME NEW r \in Requests, ExpireStale(r) \/ CloseActiveAd(r) PROVE ContentWhole'
  BY <1>1, <1>3 DEF ExpireStale, CloseActiveAd, Closed, AdRow
<1>4. ASSUME NEW r \in Requests, InsertAdTags(r) \/ ReplaceTags(r) PROVE ContentWhole'
  <2>1. CASE InsertAdTags(r)
    BY <1>1, <2>1 DEF InsertAdTags
  <2>2. CASE ReplaceTags(r)
    <3>1. \A a \in Ads : ads'[a] = IF a = req[r].ad
            THEN [ads[a] EXCEPT !.desc = req[r].text, !.tags = req[r].text] ELSE ads[a]
      BY <1>1, <2>2 DEF ReplaceTags
    <3>2. ASSUME NEW a \in Ads PROVE ads'[a].desc = ads'[a].tags
      <4>1. ads[a] \in AdRow
        BY <1>1
      <4>2. CASE a = req[r].ad
        BY <3>1, <4>1, <4>2 DEF AdRow
      <4>3. CASE a # req[r].ad
        BY <3>1, <4>3
      <4>4. QED BY <4>2, <4>3
    <3>3. QED BY <3>2
  <2>3. QED BY <1>4, <2>1, <2>2
<1>5. CASE UNCHANGED vars \/ Tick \/ \E p \in Profiles : Onboard(p)
  BY <1>2, <1>5 DEF vars, Tick, Onboard
<1>6. ASSUME NEW r \in Requests, Step(r) PROVE ContentWhole'
  <2>1. CASE \/ ExpireStale(r) \/ CloseActiveAd(r) \/ InsertAdTags(r) \/ ReplaceTags(r)
    BY <1>3, <1>4, <2>1
  <2>2. CASE ~(\/ ExpireStale(r) \/ CloseActiveAd(r) \/ InsertAdTags(r) \/ ReplaceTags(r))
    <3>1. UNCHANGED boardVars \/ CreateCandidate(r) \/ OpenChat(r) \/ RejectCandidate(r)
      BY <1>6, <2>2, Silent DEF Step, Statement
    <3>2. UNCHANGED ads
      BY <3>1 DEF boardVars, CreateCandidate, OpenChat, RejectCandidate
    <3>3. QED BY <1>2, <3>2
  <2>3. QED BY <2>1, <2>2
<1>7. QED BY <1>5, <1>6 DEF Next, Step

(* Description and tags of an ad always come from one request.             *)
THEOREM ContentStaysWhole == Spec => []ContentWhole
<1>1. Init => TypeInv /\ ContentWhole
  BY InitType DEF Init, ContentWhole, Unborn
<1>2. TypeInv /\ ContentWhole /\ [Next]_vars => (TypeInv /\ ContentWhole)'
  BY StepType, ContentStep
<1>3. QED BY <1>1, <1>2, PTL DEF Spec
-----------------------------------------------------------------------------
(* Decisions.                                                              *)

Decided == {"ACCEPTED", "REJECTED"}

(* What a request knows about its like, before and after it is answered,   *)
(* cs being the table of likes.                                            *)
Said(q, cs) ==
    LET c == <<q.ad, q.liker>> IN
    /\ q.pc # "done" => q.out # "LIKE_NOT_PENDING"
    /\ q.pc \in {"markAccepted", "rejectCandidate"} => c \in Pairs /\ cs[c] # "NONE"
    /\ q.pc = "done" /\ q.op = "Accept" /\ q.out = "OK" =>
           c \in Pairs /\ cs[c] = "ACCEPTED"
    /\ q.pc = "done" /\ q.op = "Reject" /\ q.out = "OK" =>
           c \in Pairs /\ cs[c] = "REJECTED"
    /\ q.out = "LIKE_NOT_PENDING" => c \in Pairs /\ cs[c] \in Decided

SaidInv == Inv /\ \A r \in Requests : Said(req[r], cands)

(* A like that is there stays, and one that is decided stays as it is.     *)
LikesOnward(old, new) ==
    \A c \in Pairs : /\ old[c] # "NONE" => new[c] # "NONE"
                     /\ old[c] \in Decided => new[c] = old[c]

LEMMA SaidKept ==
    ASSUME NEW q, NEW old, NEW new, LikesOnward(old, new), Said(q, old)
    PROVE  Said(q, new)
BY DEF Said, LikesOnward, Decided

(* An endpoint of the author is about a like that can be there.            *)
LEMMA ItsLike ==
    ASSUME TypeInv, NEW r \in Requests,
           \/ CandidateForAuthor(r) \/ MarkAccepted(r) \/ OpenChat(r) \/ RejectCandidate(r)
    PROVE  /\ req[r] \in Request /\ Candidate(r) \in Pairs
           /\ OpenChat(r) \/ MarkAccepted(r) => req[r].op = "Accept"
           /\ RejectCandidate(r) => req[r].op = "Reject"
<1>1. req[r] \in Request /\ Form(req[r])
  BY DEF TypeInv, TypeOK
<1>2. req[r].pc \in {"candidateForAuthor", "markAccepted", "openChat", "rejectCandidate"}
  BY DEF CandidateForAuthor, MarkAccepted, OpenChat, RejectCandidate, At
<1>3. /\ req[r].op \in {"Accept", "Reject"}
      /\ req[r].pc \in {"markAccepted", "openChat"} => req[r].op = "Accept"
      /\ req[r].pc = "rejectCandidate" => req[r].op = "Reject"
  BY <1>1, <1>2 DEF Form, StmtsOf, Request, AdOps, LikeOps
<1>4. req[r].ad \in Ads /\ req[r].liker \in Profiles
  BY <1>1, <1>2, <1>3 DEF Form
<1>5. QED BY <1>1, <1>3, <1>4
         DEF Candidate, Pairs, MarkAccepted, OpenChat, RejectCandidate, At

LEMMA StepLikes ==
    ASSUME Inv, NEW r \in Requests, Step(r)
    PROVE  LikesOnward(cands, cands')
<1>1. cands \in [Pairs -> CandStatus] /\ TypeInv
  BY DEF Inv, TypeInv, TypeOK
<1>2. CASE cands' = cands
  BY <1>2 DEF LikesOnward
<1>3. CASE CreateCandidate(r)
  BY <1>1, <1>3 DEF CreateCandidate, LikesOnward, Decided
<1>4. CASE OpenChat(r)
  <2>1. cands[Candidate(r)] = "PENDING"
    BY <1>4 DEF OpenChat, Inv, Held, AcceptsHoldLike
  <2>2. QED BY <1>1, <1>4, <2>1 DEF OpenChat, LikesOnward, Decided
<1>5. CASE RejectCandidate(r)
  BY <1>1, <1>5 DEF RejectCandidate, StillPending, LikesOnward, Decided
<1>6. CASE \/ ExpireStale(r) \/ CloseActiveAd(r) \/ InsertAdTags(r) \/ ReplaceTags(r)
  BY <1>2, <1>6 DEF ExpireStale, CloseActiveAd, InsertAdTags, ReplaceTags
<1>7. CASE UNCHANGED boardVars
  BY <1>2, <1>7 DEF boardVars
<1>8. QED BY <1>3, <1>4, <1>5, <1>6, <1>7, Silent DEF Step, Statement

(* The replies, and the moves to another statement, that promise nothing.  *)
LEMMA SaidQuiet ==
    ASSUME NEW r \in Requests, req \in [Requests -> Request], Said(req[r], cands),
           ~At(r, "done"), NEW out, out # "LIKE_NOT_PENDING",
           \/ Refuse(r, out)
           \/ Answer(r, out) /\ req[r].op \notin {"Accept", "Reject"}
           \/ Answer(r, out) /\ out # "OK"
    PROVE  Said(req'[r], cands')
<1>1. CASE Refuse(r, out)
  <2>1. req'[r].pc = "done" /\ req'[r].op = "GetMine" /\ req'[r].out = out
    BY <1>1 DEF Refuse, NoRequest
  <2>2. QED BY <2>1 DEF Said
<1>2. CASE ~Refuse(r, out)
  <2>1. req'[r] = Answered(req[r], out)
    BY <1>2 DEF Answer
  <2>2. req'[r].pc = "done" /\ req'[r].op = req[r].op /\ req'[r].out = out
    BY <2>1 DEF Answered, Request
  <2>3. QED BY <1>2, <2>2 DEF Said
<1>3. QED BY <1>1, <1>2

LEMMA SaidMoves ==
    ASSUME NEW r \in Requests, Said(req[r], cands),
           req'[r].pc \notin {"done", "markAccepted", "rejectCandidate"},
           req'[r].out # "LIKE_NOT_PENDING"
    PROVE  Said(req'[r], cands')
BY DEF Said

LEMMA SaidStep ==
    ASSUME SaidInv, NEW r \in Requests, Step(r)
    PROVE  Said(req'[r], cands')
<1>1. /\ TypeInv /\ req \in [Requests -> Request] /\ req[r] \in Request
      /\ Form(req[r]) /\ Said(req[r], cands)
  BY DEF SaidInv, Inv, TypeInv, TypeOK
<1>2. CASE Start(r)
  <2>1. PICK op, who, ad, liker, text :
            req' = [req EXCEPT ![r] = Issue(op, who, ad, liker, text)]
    BY <1>2 DEF Start
  <2>2. req'[r].pc \in {"adByID", "profileForUser"} /\ req'[r].out = ""
    BY <1>1, <2>1 DEF Issue
  <2>3. QED BY <1>1, <2>2, SaidMoves
<1>3. CASE Fail(r)
  BY <1>1, <1>3, SaidQuiet DEF Fail
<1> DEFINE q == req[r]
<1>4. CASE Statement(r)
  <2>1. q.pc # "done" /\ q.out # "LIKE_NOT_PENDING" /\ ~At(r, "done")
    <3>1. q.pc # "done"
      BY <1>4 DEF Statement, At, ProfileForUser, ExpireStale, ActiveAdFound, NoActiveAd,
                  CountTags, CreateAd, InsertAd, InsertConflict, InsertAdTags, UpdateAdRow,
                  ReplaceTags, CloseActiveAd, GetAdByID, WithTags, LikeAdByID,
                  CreateCandidate, PendingLikesForAd, CandidateForAuthor, MarkAccepted,
                  OpenChat, RejectCandidate
    <3>2. QED BY <1>1, <3>1 DEF Said, At
  <2>2. q.pc \in StmtsOf[q.op] /\ q.op \in AdOps \cup LikeOps
    BY <1>1, <2>1 DEF Form, Request
  <2>3. ASSUME NEW stmt, Goto(r, stmt) PROVE req'[r] = [q EXCEPT !.pc = stmt]
    BY <1>1, <2>3 DEF Goto
  <2>4. ASSUME NEW stmt, Goto(r, stmt),
               stmt \notin {"done", "markAccepted", "rejectCandidate"}
        PROVE  Said(req'[r], cands')
    <3>1. req'[r] = [q EXCEPT !.pc = stmt]
      BY <2>3, <2>4
    <3>2. req'[r].pc = stmt /\ req'[r].out = q.out
      BY <1>1, <3>1 DEF Request
    <3>3. QED BY <1>1, <2>1, <2>4, <3>2, SaidMoves
  <2>5. CASE ProfileForUser(r)
    <3>1. q.op \in (AdOps \cup LikeOps) \ {"GetByID"}
      BY <2>2, <2>5 DEF ProfileForUser, At, StmtsOf
    <3>2. /\ AfterProfile[q.op] \notin {"done", "markAccepted", "rejectCandidate"}
          /\ NoProfile[q.op] # "LIKE_NOT_PENDING"
      BY <3>1 DEF AfterProfile, NoProfile, AdOps, LikeOps
    <3>3. QED BY <1>1, <2>1, <2>4, <2>5, <3>2, SaidQuiet DEF ProfileForUser
  <2>6. CASE ExpireStale(r)
    BY <2>4, <2>6 DEF ExpireStale
  <2>7. CASE NoActiveAd(r)
    <3>1. q.op \notin {"Accept", "Reject"}
      BY <2>2, <2>7 DEF NoActiveAd, At, StmtsOf
    <3>2. QED BY <1>1, <2>1, <2>4, <2>7, <3>1, SaidQuiet DEF NoActiveAd
  <2>8. CASE CountTags(r) \/ InsertConflict(r) \/ InsertAdTags(r) \/ ReplaceTags(r)
    BY <1>1, <2>1, <2>4, <2>8, SaidQuiet DEF CountTags, InsertConflict, InsertAdTags, ReplaceTags
  <2>9. CASE CreateAd(r) \/ InsertAd(r)
    <3>1. req'[r].pc \in {"insertAd", "insertAdTags"} /\ req'[r].out = q.out
      BY <1>1, <2>9 DEF CreateAd, InsertAd, Request
    <3>2. QED BY <1>1, <2>1, <3>1, SaidMoves
  <2>10. CASE UpdateAdRow(r)
    <3>1. CASE Refuse(r, "NO_ACTIVE_AD")
      BY <1>1, <2>1, <3>1, SaidQuiet
    <3>2. CASE \E a : req' = [req EXCEPT ![r] = [@ EXCEPT !.pc = "replaceTags", !.ad = a]]
      <4>1. req'[r].pc = "replaceTags" /\ req'[r].out = q.out
        BY <1>1, <3>2 DEF Request
      <4>2. QED BY <1>1, <2>1, <4>1, SaidMoves
    <3>3. QED BY <2>10, <3>1, <3>2 DEF UpdateAdRow
  <2>11. CASE CloseActiveAd(r)
    <3>1. CASE Refuse(r, "NO_ACTIVE_AD")
      BY <1>1, <2>1, <3>1, SaidQuiet
    <3>2. CASE \E a : req' = [req EXCEPT ![r] = Answered([q EXCEPT !.ad = a], "OK")]
      <4>1. PICK a : req' = [req EXCEPT ![r] = Answered([q EXCEPT !.ad = a], "OK")]
        BY <3>2
      <4>2. req'[r].op = q.op /\ req'[r].out = "OK"
        BY <1>1, <4>1 DEF Answered, Request
      <4>3. q.op \notin {"Accept", "Reject"}
        BY <2>2, <2>11 DEF CloseActiveAd, At, StmtsOf
      <4>4. req'[r].pc = "done"
        BY <1>1, <4>1 DEF Answered, Request
      <4>5. QED BY <4>2, <4>3, <4>4 DEF Said
    <3>3. QED BY <2>11, <3>1, <3>2 DEF CloseActiveAd
  <2>12. CASE GetAdByID(r)
    <3>1. CASE Refuse(r, "AD_NOT_FOUND")
      BY <1>1, <2>1, <3>1, SaidQuiet
    <3>2. CASE \E out \in {"EXPIRED", ads[q.ad].status} :
                 req' = [req EXCEPT ![r] = [@ EXCEPT !.pc = "withTags", !.out = out]]
      <4>1. ads[q.ad].status \in AdStatus
        BY <1>1, <2>12 DEF GetAdByID, At, Form, TypeInv, TypeOK, AdRow
      <4>2. req'[r].pc = "withTags" /\ req'[r].out # "LIKE_NOT_PENDING"
        BY <1>1, <3>2, <4>1 DEF Request, AdStatus
      <4>3. QED BY <1>1, <4>2, SaidMoves
    <3>3. QED BY <2>12, <3>1, <3>2 DEF GetAdByID
  <2>13. CASE ActiveAdFound(r)
    <3>1. PICK a : req' = [req EXCEPT ![r] =
              CASE q.op = "Create" -> Answered([q EXCEPT !.ad = a], "ACTIVE_AD_EXISTS")
                [] q.op = "GetMine" -> [[q EXCEPT !.ad = a] EXCEPT !.pc = "withTags"]
                [] OTHER -> [[q EXCEPT !.ad = a] EXCEPT !.pc = "pendingLikesForAd"]]
      BY <2>13 DEF ActiveAdFound
    <3>2. CASE q.op = "Create"
      <4>1. req'[r] = Answered([q EXCEPT !.ad = a], "ACTIVE_AD_EXISTS")
        BY <1>1, <3>1, <3>2
      <4>2. req'[r].op = "Create" /\ req'[r].out = "ACTIVE_AD_EXISTS" /\ req'[r].pc = "done"
        BY <1>1, <3>2, <4>1 DEF Answered, Request
      <4>3. QED BY <4>2 DEF Said
    <3>3. CASE q.op # "Create"
      <4>1. req'[r] \in {[[q EXCEPT !.ad = a] EXCEPT !.pc = "withTags"],
                         [[q EXCEPT !.ad = a] EXCEPT !.pc = "pendingLikesForAd"]}
        BY <1>1, <3>1, <3>3
      <4>2. req'[r].pc \in {"withTags", "pendingLikesForAd"} /\ req'[r].out = q.out
        BY <1>1, <4>1 DEF Request
      <4>3. QED BY <1>1, <2>1, <4>2, SaidMoves
    <3>4. QED BY <3>2, <3>3
  <2>14. CASE WithTags(r) \/ PendingLikesForAd(r) \/ CreateCandidate(r)
    <3>1. q.op \notin {"Accept", "Reject"}
      BY <2>2, <2>14 DEF WithTags, PendingLikesForAd, CreateCandidate, At, StmtsOf
    <3>2. QED BY <1>1, <2>1, <2>14, <3>1, SaidQuiet
              DEF WithTags, PendingLikesForAd, CreateCandidate
  <2>15. CASE LikeAdByID(r)
    BY <1>1, <2>1, <2>4, <2>15, SaidQuiet DEF LikeAdByID
  <2>16. CASE CandidateForAuthor(r)
    <3>1. Candidate(r) = <<q.ad, q.liker>> /\ Candidate(r) \in Pairs /\ UNCHANGED cands
      BY <1>1, <2>16, ItsLike DEF Candidate, CandidateForAuthor, db
    <3>2. CASE Refuse(r, "LIKE_NOT_FOUND")
      BY <1>1, <2>1, <3>2, SaidQuiet
    <3>3. CASE /\ cands[Candidate(r)] # "NONE"
               /\ Goto(r, "rejectCandidate") \/ Goto(r, "markAccepted")
      <4>1. PICK stmt \in {"rejectCandidate", "markAccepted"} :
                req'[r] = [q EXCEPT !.pc = stmt]
        BY <2>3, <3>3
      <4>2. /\ req'[r].pc = stmt /\ req'[r].out = q.out
            /\ req'[r].ad = q.ad /\ req'[r].liker = q.liker
        BY <1>1, <4>1 DEF Request
      <4>3. QED BY <2>1, <3>1, <3>3, <4>2 DEF Said
    <3>4. CASE cands[Candidate(r)] \notin {"NONE", "PENDING"} /\ Answer(r, "LIKE_NOT_PENDING")
      <4>1. cands[Candidate(r)] \in Decided
        BY <1>1, <3>1, <3>4 DEF TypeInv, TypeOK, CandStatus, Decided
      <4>2. /\ req'[r].pc = "done" /\ req'[r].out = "LIKE_NOT_PENDING"
            /\ req'[r].ad = q.ad /\ req'[r].liker = q.liker
        BY <1>1, <3>4 DEF Answer, Answered, Request
      <4>3. QED BY <3>1, <4>1, <4>2 DEF Said
    <3>5. QED BY <2>16, <3>2, <3>3, <3>4 DEF CandidateForAuthor
  <2>17. CASE MarkAccepted(r) \/ RejectCandidate(r)
    <3>1. /\ Candidate(r) = <<q.ad, q.liker>> /\ Candidate(r) \in Pairs
          /\ cands[Candidate(r)] \in CandStatus
          /\ RejectCandidate(r) => q.op = "Reject"
      BY <1>1, <2>17, ItsLike DEF Candidate, TypeInv, TypeOK
    <3>2. CASE StillPending(Candidate(r)) /\ MarkAccepted(r)
      BY <2>4, <3>2 DEF MarkAccepted
    <3>3. CASE StillPending(Candidate(r)) /\ RejectCandidate(r)
      <4>1. cands'[Candidate(r)] = "REJECTED"
        BY <1>1, <3>1, <3>3 DEF RejectCandidate, TypeInv, TypeOK
      <4>2. req'[r] = Answered(q, "OK")
        BY <1>1, <3>3 DEF RejectCandidate, Answer
      <4>3. /\ req'[r].pc = "done" /\ req'[r].out = "OK" /\ req'[r].op = "Reject"
            /\ req'[r].ad = q.ad /\ req'[r].liker = q.liker
        BY <1>1, <3>1, <3>3, <4>2 DEF Answered, Request
      <4>4. QED BY <3>1, <4>1, <4>3 DEF Said
    <3>4. CASE ~StillPending(Candidate(r))
      <4>1. UNCHANGED cands /\ Answer(r, "LIKE_NOT_PENDING")
        BY <2>17, <3>4 DEF MarkAccepted, RejectCandidate, db
      <4>2. cands[Candidate(r)] # "NONE"
        BY <1>1, <2>17, <3>1 DEF Said, MarkAccepted, RejectCandidate, At
      <4>3. cands[Candidate(r)] \in Decided
        BY <3>1, <3>4, <4>2 DEF StillPending, CandStatus, Decided
      <4>4. /\ req'[r].pc = "done" /\ req'[r].out = "LIKE_NOT_PENDING"
            /\ req'[r].ad = q.ad /\ req'[r].liker = q.liker
        BY <1>1, <4>1 DEF Answer, Answered, Request
      <4>5. QED BY <3>1, <4>1, <4>3, <4>4 DEF Said
    <3>5. QED BY <2>17, <3>2, <3>3, <3>4
  <2>18. CASE OpenChat(r)
    <3>1. /\ Candidate(r) = <<q.ad, q.liker>> /\ Candidate(r) \in Pairs
          /\ q.op = "Accept"
      BY <1>1, <2>18, ItsLike DEF Candidate
    <3>2. cands'[Candidate(r)] = "ACCEPTED"
      BY <1>1, <2>18, <3>1 DEF OpenChat, TypeInv, TypeOK
    <3>3. /\ req'[r].pc = "done" /\ req'[r].out = "OK" /\ req'[r].op = "Accept"
          /\ req'[r].ad = q.ad /\ req'[r].liker = q.liker
      BY <1>1, <2>18, <3>1 DEF OpenChat, Answer, Answered, Request
    <3>4. QED BY <3>1, <3>2, <3>3 DEF Said
  <2>19. QED BY <1>4, <2>5, <2>6, <2>7, <2>8, <2>9, <2>10, <2>11, <2>12, <2>13, <2>14,
                <2>15, <2>16, <2>17, <2>18 DEF Statement
<1>5. QED BY <1>2, <1>3, <1>4 DEF Step

LEMMA NextSaid == SaidInv /\ [Next]_vars => SaidInv'
<1> SUFFICES ASSUME SaidInv, [Next]_vars PROVE SaidInv'
  OBVIOUS
<1>1. Inv'
  BY StepInv DEF SaidInv
<1>2. CASE UNCHANGED vars \/ Tick \/ \E p \in Profiles : Onboard(p)
  BY <1>1, <1>2 DEF SaidInv, vars, Tick, Onboard
<1>3. ASSUME NEW r \in Requests, Step(r) PROVE SaidInv'
  <2>1. Said(req'[r], cands')
    BY <1>3, SaidStep
  <2>2. LikesOnward(cands, cands')
    BY <1>3, StepLikes DEF SaidInv
  <2>3. \A s \in Requests \ {r} : req'[s] = req[s]
    BY <1>3, CarriesStep DEF SaidInv, Inv, Step, Carries
  <2>4. ASSUME NEW s \in Requests, s # r PROVE Said(req'[s], cands')
    <3>1. Said(req[s], cands)
      BY DEF SaidInv
    <3>2. QED BY <2>2, <2>3, <2>4, <3>1, SaidKept
  <2>5. QED BY <1>1, <2>1, <2>4 DEF SaidInv
<1>4. QED BY <1>2, <1>3 DEF Next, Step

(* What an author is told about a like stays true, whoever else decides.   *)
THEOREM DecisionsStand == Spec => []DecisionStands
<1>1. Init => SaidInv
  <2>1. Init => \A r \in Requests : req[r] = NoRequest
    BY DEF Init
  <2>2. Said(NoRequest, cands)
    BY DEF Said, NoRequest
  <2>3. QED BY <2>1, <2>2, InitInv DEF SaidInv
<1>2. SaidInv => DecisionStands
  BY DEF SaidInv, Said, DecisionStands, Inv, Tables, ChatIffAccepted, Candidate, At, Decided
<1>3. QED BY <1>1, <1>2, NextSaid, PTL DEF Spec
-----------------------------------------------------------------------------
(* Ads that are taken for active.                                          *)

(* The table tab, seen at time t: a is out for good, or overdue.            *)
Spent(a, t, tab) ==
    /\ a \in Ads /\ tab[a].status # "NONE"
    /\ tab[a].status # "ACTIVE" \/ tab[a].expires < t

(* The request is on its way to take its ad for active, or has done so.    *)
Uses(q) ==
    \/ q.pc \in {"pendingLikesForAd", "replaceTags", "createCandidate"}
    \/ q.pc = "withTags" /\ (q.op \in {"GetMine", "Update"} \/ q.out = "ACTIVE")
    \/ /\ q.pc = "done" /\ q.ad # None
       /\ \/ q.op \in {"GetMine", "Update", "Delete", "ListLikes", "Like"} /\ q.out = "OK"
          \/ q.out \in {"ACTIVE", "ACTIVE_AD_EXISTS"}

(* The fields of a request on its way.                                     *)
Verdicts == {"ACTIVE", "EXPIRED", "CLOSED", "ACTIVE_AD_EXISTS"}
OnItsWay(q) ==
    /\ q.pc # "done" /\ q.out \in Verdicts
           => q.op = "GetByID" /\ q.pc = "withTags" /\ q.out # "ACTIVE_AD_EXISTS"
    /\ q.op = "ListLikes" /\ q.pc \in {"profileForUser", "expireStale", "activeAdByProfile"}
           => q.ad = None
    /\ q.pc \in {"insertAd", "insertAdTags"} => q.expires >= q.start + TTL

(* After expireStale the author has no active ad that was overdue when the *)
(* request began.                                                          *)
Cleared(q, tab) ==
    \A a \in Ads : tab[a].author = q.who /\ tab[a].status = "ACTIVE"
                      => tab[a].expires > q.start

(* The ad of the request was in time when it began, and was not among      *)
(* those that some reply had called expired or closed.                     *)
InTimeAd(q, tab) ==
    /\ q.ad \in Ads /\ tab[q.ad].status # "NONE"
    /\ IF q.op \in {"Like", "GetByID"} THEN q.start =< tab[q.ad].expires + Skew
                                      ELSE q.start < tab[q.ad].expires
    /\ Skew = 0 => q.ad \notin q.known

Remembers(q, n, tab) ==
    Skew = 0 =>
        /\ \A a \in q.known : Spent(a, q.start, tab)
        /\ q.pc = "withTags" /\ q.out \in {"EXPIRED", "CLOSED"} => Spent(q.ad, n, tab)

ClearedAt == {"activeAdByProfile", "countTags", "updateAdRow", "closeActiveAd"}

Fair(q, n, tab) ==
    /\ q.start =< n
    /\ OnItsWay(q)
    /\ q.pc \in ClearedAt => Cleared(q, tab)
    /\ Uses(q) => InTimeAd(q, tab)
    /\ Remembers(q, n, tab)

TruthTold == Skew = 0 => \A a \in told : Spent(a, now, ads)
FairInv == Inv /\ TruthTold /\ \A r \in Requests : Fair(req[r], now, ads)

(* From one table to the next an ad keeps its author and its expiry, never *)
(* becomes active again, and is published with an expiry to come.          *)
AdsOnward(old, new, n) ==
    \A a \in Ads :
        IF old[a].status = "NONE"
        THEN new[a].status # "NONE" => new[a].expires > n
        ELSE /\ new[a].status # "NONE" /\ new[a].author = old[a].author
             /\ new[a].expires = old[a].expires
             /\ new[a].status = "ACTIVE" => old[a].status = "ACTIVE"

LEMMA SpentStays ==
    ASSUME NEW old \in [Ads -> AdRow], NEW new \in [Ads -> AdRow], NEW n \in Nat,
           AdsOnward(old, new, n), NEW a, NEW t \in Nat, NEW u \in Nat, t =< u,
           Spent(a, t, old)
    PROVE  Spent(a, u, new)
BY DEF Spent, AdsOnward, AdRow

LEMMA FairKept ==
    ASSUME NEW q \in Request, NEW n \in Nat, NEW m \in Nat, n =< m,
           NEW old \in [Ads -> AdRow], NEW new \in [Ads -> AdRow],
           AdsOnward(old, new, n), Fair(q, n, old)
    PROVE  Fair(q, m, new)
<1>1. q.start \in Nat /\ q.start =< n
  BY DEF Request, Fair
<1>2. q.start =< m
  BY <1>1
<1>3. q.pc \in ClearedAt => Cleared(q, new)
  <2>1. SUFFICES ASSUME q.pc \in ClearedAt, NEW a \in Ads,
                        new[a].author = q.who, new[a].status = "ACTIVE"
                 PROVE  new[a].expires > q.start
    BY DEF Cleared
  <2>2. CASE old[a].status = "NONE"
    <3>1. new[a].expires > n /\ new[a].expires \in Nat
      BY <2>1, <2>2 DEF AdsOnward, AdRow
    <3>2. QED BY <1>1, <3>1
  <2>3. CASE old[a].status # "NONE"
    BY <2>1, <2>3 DEF AdsOnward, Fair, Cleared
  <2>4. QED BY <2>2, <2>3
<1>4. Uses(q) => InTimeAd(q, new)
  BY DEF Fair, InTimeAd, AdsOnward
<1>5. Remembers(q, m, new)
  BY <1>1, SpentStays DEF Fair, Remembers
<1>6. QED BY <1>2, <1>3, <1>4, <1>5 DEF Fair
-----------------------------------------------------------------------------
(* What the statements do to the ads.                                      *)

LEMMA StepAds ==
    ASSUME FairInv, NEW r \in Requests, Step(r)
    PROVE  AdsOnward(ads, ads', now)
<1>1. /\ TypeInv /\ ads \in [Ads -> AdRow] /\ now \in Nat /\ req[r] \in Request
      /\ Form(req[r]) /\ Fair(req[r], now, ads)
  BY DEF FairInv, Inv, TypeInv, TypeOK
<1>2. CASE ads' = ads
  BY <1>2 DEF AdsOnward
<1>3. CASE ExpireStale(r)
  BY <1>1, <1>3 DEF ExpireStale, AdsOnward, AdRow, Overdue, Active
<1>4. CASE CloseActiveAd(r)
  BY <1>1, <1>4 DEF CloseActiveAd, Closed, AdsOnward, AdRow, Active
<1>5. CASE InsertAdTags(r) /\ InTime(r)
  <2> DEFINE b == req[r].ad
  <2>1. b \in Ads /\ ads[b].status = "NONE"
    BY <1>1, <1>5 DEF InsertAdTags, At, Form, FairInv, Inv, Held, InsertsApart, Unborn
  <2>2. req[r].expires > now
    <3>1. req[r].expires >= req[r].start + TTL
      BY <1>1, <1>5 DEF InsertAdTags, At, Fair, OnItsWay
    <3>2. now =< req[r].start + Deadline /\ req[r].start \in Nat /\ req[r].expires \in Nat
      BY <1>1, <1>5 DEF InTime, Request
    <3>3. QED BY <1>1, <3>1, <3>2, MeetingAssumption
  <2>3. \A a \in Ads : IF a = b THEN ads'[a].expires = req[r].expires
                                ELSE ads'[a] = ads[a]
    BY <1>1, <1>5, <2>1 DEF InsertAdTags
  <2>4. QED BY <2>1, <2>2, <2>3 DEF AdsOnward
<1>6. CASE ReplaceTags(r)
  <2>1. \A a \in Ads : /\ ads'[a].author = ads[a].author /\ ads'[a].status = ads[a].status
                       /\ ads'[a].expires = ads[a].expires
    <3>1. SUFFICES ASSUME NEW a \in Ads
                   PROVE  /\ ads'[a].author = ads[a].author
                          /\ ads'[a].status = ads[a].status
                          /\ ads'[a].expires = ads[a].expires
      OBVIOUS
    <3>2. ads[a] \in AdRow
      BY <1>1
    <3>3. ads'[a] = IF a = req[r].ad
            THEN [ads[a] EXCEPT !.desc = req[r].text, !.tags = req[r].text] ELSE ads[a]
      BY <1>1, <1>6 DEF ReplaceTags
    <3>4. QED BY <3>2, <3>3 DEF AdRow
  <2>2. QED BY <2>1 DEF AdsOnward
<1>7. CASE CreateCandidate(r) \/ OpenChat(r) \/ RejectCandidate(r)
  BY <1>2, <1>7 DEF CreateCandidate, OpenChat, RejectCandidate
<1>8. CASE UNCHANGED boardVars
  BY <1>2, <1>8 DEF boardVars
<1>9. QED BY <1>3, <1>4, <1>5, <1>6, <1>7, <1>8, Silent DEF Step, Statement
-----------------------------------------------------------------------------
(* What the statements do to the request that issues them.                 *)

LEMMA FairIdle ==
    ASSUME NEW n \in Nat, NEW tab, NEW q,
           q.pc = "done", q.ad = None, q.start = 0, q.known = {}, q.op = "GetMine"
    PROVE  Fair(q, n, tab)
<1>1. q.start =< n /\ OnItsWay(q)
  BY DEF OnItsWay
<1>2. ~Uses(q) /\ q.pc \notin ClearedAt
  BY DEF Uses, ClearedAt
<1>3. Remembers(q, n, tab)
  BY DEF Remembers
<1>4. QED BY <1>1, <1>2, <1>3 DEF Fair

LEMMA FairRefused ==
    ASSUME NEW n \in Nat, NEW tab, NEW out
    PROVE  Fair([NoRequest EXCEPT !.out = out], n, tab)
BY FairIdle DEF NoRequest

(* The slot after a reply.                                                 *)
LEMMA FairDone ==
    ASSUME NEW n, NEW tab, NEW q, Fair(q, n, tab), NEW p, p.pc = "done",
           p.start = q.start, p.known \subseteq q.known,
           Uses(p) => InTimeAd(p, tab)
    PROVE  Fair(p, n, tab)
<1>1. p.start =< n /\ OnItsWay(p)
  BY DEF Fair, OnItsWay
<1>2. p.pc \notin ClearedAt
  BY DEF ClearedAt
<1>3. Remembers(p, n, tab)
  BY DEF Fair, Remembers
<1>4. QED BY <1>1, <1>2, <1>3 DEF Fair

(* The slot before the next statement.                                     *)
LEMMA FairGoto ==
    ASSUME NEW n, NEW tab, NEW q, Fair(q, n, tab), NEW p,
           p.op = q.op, p.who = q.who, p.start = q.start, p.known = q.known,
           p.out \notin Verdicts, p.pc \notin {"insertAd", "insertAdTags"},
           p.op = "ListLikes" => p.pc = "pendingLikesForAd" \/ p.ad = None,
           p.pc \in ClearedAt => Cleared(q, tab),
           Uses(p) => InTimeAd(p, tab)
    PROVE  Fair(p, n, tab)
<1>1. p.start =< n /\ OnItsWay(p)
  BY DEF Fair, OnItsWay
<1>2. p.pc \in ClearedAt => Cleared(p, tab)
  BY DEF Cleared
<1>3. Remembers(p, n, tab)
  BY DEF Fair, Remembers, Verdicts
<1>4. QED BY <1>1, <1>2, <1>3 DEF Fair

(* An active ad that was in time is none the request knows to be over.     *)
LEMMA NotKnown ==
    ASSUME NEW tab \in [Ads -> AdRow], NEW n \in Nat, NEW q \in Request,
           Remembers(q, n, tab), NEW a \in Ads, tab[a].status = "ACTIVE",
           q.start =< tab[a].expires
    PROVE  Skew = 0 => a \notin q.known
<1>1. tab[a].expires \in Nat /\ q.start \in Nat
  BY DEF AdRow, Request
<1>2. ~(tab[a].expires < q.start)
  BY <1>1
<1>3. ~Spent(a, q.start, tab)
  BY <1>2 DEF Spent
<1>4. QED BY <1>3 DEF Remembers

(* A request that is about to find the active ad of its author.            *)
LEMMA FairFound ==
    ASSUME NEW tab \in [Ads -> AdRow], NEW n \in Nat, NEW q \in Request,
           Fair(q, n, tab), q.pc \in ClearedAt,
           q.op \in {"Create", "GetMine", "ListLikes", "Update", "Delete"},
           NEW a \in Ads, tab[a].author = q.who, tab[a].status = "ACTIVE"
    PROVE  InTimeAd([q EXCEPT !.ad = a], tab)
<1> DEFINE p == [q EXCEPT !.ad = a]
<1>1. /\ p.op = q.op /\ p.ad = a /\ p.start = q.start /\ p.known = q.known
  BY DEF Request
<1>2. tab[a].expires \in Nat /\ q.start \in Nat
  BY DEF AdRow, Request
<1>3. q.start < tab[a].expires
  BY <1>2 DEF Fair, Cleared
<1>4. Skew = 0 => a \notin q.known
  <2>1. q.start =< tab[a].expires
    BY <1>2, <1>3
  <2>2. QED BY <2>1, NotKnown DEF Fair
<1> HIDE DEF p
<1>5. InTimeAd(p, tab)
  BY <1>1, <1>3, <1>4 DEF InTimeAd
<1>6. QED BY <1>5 DEF p

(* What is known of the request that takes a step.                         *)
LEMMA FairBase ==
    ASSUME FairInv, NEW r \in Requests, Step(r)
    PROVE  /\ TypeInv /\ TypeInv' /\ now \in Nat /\ req \in [Requests -> Request]
           /\ req[r] \in Request /\ Form(req[r]) /\ Fair(req[r], now, ads')
           /\ ads \in [Ads -> AdRow] /\ ads' \in [Ads -> AdRow]
           /\ Statement(r) => /\ req[r].pc # "done"
                              /\ req[r].pc # "withTags" => req[r].out \notin Verdicts
<1>1. /\ TypeInv /\ now \in Nat /\ req \in [Requests -> Request] /\ req[r] \in Request
      /\ Form(req[r]) /\ Fair(req[r], now, ads) /\ ads \in [Ads -> AdRow]
  BY DEF FairInv, Inv, TypeInv, TypeOK
<1>2. TypeInv'
  BY <1>1, StepType DEF Next, Step
<1>3. ads' \in [Ads -> AdRow]
  BY <1>2 DEF TypeInv, TypeOK
<1>4. now =< now
  BY <1>1
<1>5. Fair(req[r], now, ads')
  BY <1>1, <1>3, <1>4, StepAds, FairKept
<1>6. Statement(r) => req[r].pc # "done"
  BY DEF Statement, At, ProfileForUser, ExpireStale, ActiveAdFound, NoActiveAd,
         CountTags, CreateAd, InsertAd, InsertConflict, InsertAdTags, UpdateAdRow,
         ReplaceTags, CloseActiveAd, GetAdByID, WithTags, LikeAdByID,
         CreateCandidate, PendingLikesForAd, CandidateForAuthor, MarkAccepted,
         OpenChat, RejectCandidate
<1>7. QED BY <1>1, <1>2, <1>3, <1>5, <1>6 DEF Fair, OnItsWay

LEMMA FairReplies ==
    ASSUME FairInv, NEW r \in Requests, Step(r), NEW out
    PROVE  /\ Refuse(r, out) => Fair(req'[r], now, ads')
           /\ Answer(r, out) =>
                 /\ req'[r].pc = "done" /\ req'[r].op = req[r].op /\ req'[r].ad = req[r].ad
                 /\ req'[r].out = out
                 /\ (Uses(req'[r]) => Uses(req[r])) => Fair(req'[r], now, ads')
<1>1. /\ now \in Nat /\ req \in [Requests -> Request] /\ req[r] \in Request
      /\ Fair(req[r], now, ads')
  BY FairBase
<1>2. ASSUME Refuse(r, out) PROVE Fair(req'[r], now, ads')
  BY <1>1, <1>2, FairRefused DEF Refuse
<1> DEFINE q == req[r]
           p == req'[r]
<1>3. ASSUME Answer(r, out)
      PROVE  /\ p.pc = "done" /\ p.op = q.op /\ p.ad = q.ad /\ p.start = q.start
             /\ p.known \subseteq q.known /\ p.out = out
  <2>1. p = Answered(q, out)
    BY <1>1, <1>3 DEF Answer
  <2>2. QED BY <1>1, <2>1 DEF Answered, Request
<1>4. ASSUME Answer(r, out), Uses(p) => Uses(q) PROVE Fair(p, now, ads')
  <2>1. Uses(p) => InTimeAd(q, ads')
    BY <1>1, <1>4 DEF Fair
  <2>2. Uses(p) => InTimeAd(p, ads')
    BY <1>3, <1>4, <2>1 DEF InTimeAd
  <2> HIDE DEF p, q
  <2>3. QED BY <1>1, <1>3, <1>4, <2>2, FairDone DEF q
<1>5. QED BY <1>2, <1>3, <1>4

LEMMA FairMoves ==
    ASSUME FairInv, NEW r \in Requests, Statement(r), req[r].pc # "withTags",
           NEW stmt \in Stmts \ {"done", "insertAd", "insertAdTags"}, Goto(r, stmt),
           req[r].op = "ListLikes" => req[r].pc \in {"profileForUser", "expireStale",
                                                     "activeAdByProfile"},
           stmt \in ClearedAt => Cleared(req[r], ads'),
           stmt \in {"withTags", "pendingLikesForAd", "replaceTags", "createCandidate"}
              => InTimeAd(req[r], ads') \/ (stmt = "withTags" /\ req[r].op = "Create")
    PROVE  Fair(req'[r], now, ads')
<1> DEFINE q == req[r]
           p == req'[r]
<1>1. /\ req \in [Requests -> Request] /\ q \in Request /\ Fair(q, now, ads')
      /\ q.out \notin Verdicts
  BY FairBase DEF Step
<1>2. /\ p.op = q.op /\ p.who = q.who /\ p.start = q.start /\ p.known = q.known
      /\ p.out = q.out /\ p.pc = stmt /\ p.ad = q.ad
  <2>1. p = [q EXCEPT !.pc = stmt]
    BY <1>1 DEF Goto
  <2>2. QED BY <1>1, <2>1 DEF Request
<1>3. p.op = "ListLikes" => p.ad = None
  BY <1>1, <1>2 DEF Fair, OnItsWay
<1>4. Uses(p) => InTimeAd(p, ads')
  BY <1>1, <1>2 DEF Uses, InTimeAd, Verdicts
<1> HIDE DEF p
<1>5. QED BY <1>1, <1>2, <1>3, <1>4, FairGoto DEF p

(* profileForUser, expireStale, and the search for the active ad.          *)
LEMMA FairOwner ==
    ASSUME FairInv, NEW r \in Requests, Statement(r),
           ProfileForUser(r) \/ ExpireStale(r) \/ ActiveAdFound(r) \/ NoActiveAd(r)
           \/ CountTags(r)
    PROVE  Fair(req'[r], now, ads')
<1> DEFINE q == req[r]
           p == req'[r]
<1>1. /\ req \in [Requests -> Request] /\ q \in Request /\ Fair(q, now, ads')
      /\ ads' \in [Ads -> AdRow] /\ ads \in [Ads -> AdRow] /\ now \in Nat
      /\ q.op \in AdOps \cup LikeOps /\ Form(q) /\ q.pc # "done"
  BY FairBase DEF Step, Request
<1>2. q.pc \in StmtsOf[q.op]
  BY <1>1 DEF Form
<1>3. CASE ProfileForUser(r)
  <2>1. q.pc = "profileForUser" /\ q.op # "GetByID"
    BY <1>2, <1>3 DEF ProfileForUser, At, StmtsOf
  <2>2. AfterProfile[q.op] \in {"expireStale", "adByID", "candidateForAuthor"}
    BY <1>1, <2>1 DEF AfterProfile, AdOps, LikeOps
  <2>3. CASE Goto(r, AfterProfile[q.op])
    BY <2>1, <2>2, <2>3, FairMoves DEF Stmts, ClearedAt
  <2>4. QED BY <1>3, <2>3, FairReplies DEF ProfileForUser, Step
<1>4. CASE ExpireStale(r)
  <2>1. q.pc = "expireStale" /\ q.op \in {"Create", "GetMine", "Update", "Delete", "ListLikes"}
    BY <1>1, <1>2, <1>4 DEF ExpireStale, At, StmtsOf, AdOps, LikeOps
  <2>2. Cleared(q, ads')
    <3>1. SUFFICES ASSUME NEW a \in Ads, ads'[a].author = q.who, ads'[a].status = "ACTIVE"
                   PROVE  ads'[a].expires > q.start
      BY DEF Cleared
    <3>2. a \notin Overdue(q.who) /\ ads'[a] = ads[a]
      BY <1>1, <1>4, <3>1 DEF ExpireStale, AdRow
    <3>3. ~(ads[a].expires =< now)
      BY <3>1, <3>2 DEF Overdue, Active
    <3>4. ads[a].expires \in Nat /\ q.start \in Nat /\ q.start =< now
      BY <1>1 DEF AdRow, Request, Fair
    <3>5. QED BY <1>1, <3>2, <3>3, <3>4
  <2>3. PICK stmt \in {"countTags", "closeActiveAd", "activeAdByProfile"} : Goto(r, stmt)
    BY <1>4 DEF ExpireStale
  <2>4. QED BY <2>1, <2>2, <2>3, FairMoves DEF Stmts
<1>5. CASE ActiveAdFound(r)
  <2>1. q.pc = "activeAdByProfile" /\ q.op \in {"Create", "GetMine", "ListLikes"}
        /\ ads' = ads
    <3>1. At(r, "activeAdByProfile") /\ UNCHANGED db
      BY <1>5 DEF ActiveAdFound
    <3>2. QED BY <1>1, <1>2, <3>1 DEF At, StmtsOf, AdOps, LikeOps, db
  <2>2. PICK a \in Active(q.who) : req' = [req EXCEPT ![r] =
           CASE q.op = "Create" -> Answered([q EXCEPT !.ad = a], "ACTIVE_AD_EXISTS")
             [] q.op = "GetMine" -> [[q EXCEPT !.ad = a] EXCEPT !.pc = "withTags"]
             [] OTHER -> [[q EXCEPT !.ad = a] EXCEPT !.pc = "pendingLikesForAd"]]
    BY <1>5 DEF ActiveAdFound
  <2> DEFINE f == [q EXCEPT !.ad = a]
  <2>3. InTimeAd(f, ads')
    BY <1>1, <2>1, FairFound DEF Active, ClearedAt
  <2>4. /\ f.op = q.op /\ f.ad = a /\ f.start = q.start /\ f.known = q.known
        /\ f.who = q.who /\ f.out = q.out
    BY <1>1 DEF Request
  <2>5. CASE q.op = "Create"
    <3>1. p = Answered(f, "ACTIVE_AD_EXISTS")
      BY <1>1, <2>2, <2>5
    <3>2. /\ p.pc = "done" /\ p.op = q.op /\ p.start = q.start /\ p.ad = a
          /\ p.known \subseteq q.known
      BY <1>1, <3>1 DEF Answered, Request
    <3>3. InTimeAd(p, ads')
      BY <2>3, <2>4, <3>2 DEF InTimeAd
    <3> HIDE DEF p
    <3>4. QED BY <1>1, <3>2, <3>3, FairDone DEF p
  <2>6. CASE q.op # "Create"
    <3>1. \/ q.op = "GetMine" /\ p = [f EXCEPT !.pc = "withTags"]
          \/ q.op = "ListLikes" /\ p = [f EXCEPT !.pc = "pendingLikesForAd"]
      BY <1>1, <2>1, <2>2, <2>6
    <3>2. /\ p.pc \in {"withTags", "pendingLikesForAd"} /\ p.op = q.op /\ p.ad = a
          /\ p.start = q.start /\ p.known = q.known /\ p.who = q.who /\ p.out = q.out
          /\ p.op = "ListLikes" => p.pc = "pendingLikesForAd"
      BY <1>1, <3>1 DEF Request
    <3>3. InTimeAd(p, ads')
      BY <2>3, <2>4, <3>2 DEF InTimeAd
    <3>4. p.out \notin Verdicts /\ p.pc \notin ClearedAt
      BY <2>1, <3>2, FairBase DEF ClearedAt, Step
    <3> HIDE DEF p
    <3>5. QED BY <1>1, <3>2, <3>3, <3>4, FairGoto DEF p
  <2>7. QED BY <2>5, <2>6
<1>6. CASE NoActiveAd(r)
  <2>1. q.pc = "activeAdByProfile" /\ q.op \in {"Create", "GetMine", "ListLikes"}
    BY <1>1, <1>2, <1>6 DEF NoActiveAd, At, StmtsOf, AdOps, LikeOps
  <2>2. CASE q.op = "Create"
    <3>1. Goto(r, "countTags")
      BY <1>6, <2>2 DEF NoActiveAd
    <3>2. Cleared(q, ads')
      BY <1>1, <2>1 DEF Fair, ClearedAt
    <3>3. QED BY <2>1, <2>2, <3>1, <3>2, FairMoves DEF Stmts
  <2>3. CASE q.op = "GetMine"
    BY <1>6, <2>3, FairReplies DEF NoActiveAd, Step
  <2>4. CASE q.op = "ListLikes"
    <3>1. Answer(r, "OK")
      BY <1>6, <2>4 DEF NoActiveAd
    <3>2. q.ad = None
      BY <1>1, <2>1, <2>4 DEF Fair, OnItsWay
    <3>3. p.pc = "done" /\ p.ad = None
      BY <3>1, <3>2, FairReplies DEF Step
    <3>4. ~Uses(p)
      BY <3>3 DEF Uses
    <3>5. QED BY <3>1, <3>4, FairReplies DEF Step
  <2>5. QED BY <2>1, <2>2, <2>3, <2>4
<1>7. CASE CountTags(r)
  <2>1. q.pc = "countTags" /\ q.op \in {"Create", "Update"}
    BY <1>1, <1>2, <1>7 DEF CountTags, At, StmtsOf, AdOps, LikeOps
  <2>2. Cleared(q, ads')
    BY <1>1, <2>1 DEF Fair, ClearedAt
  <2>3. CASE \E stmt \in {"createAd", "updateAdRow"} : Goto(r, stmt)
    BY <2>1, <2>2, <2>3, FairMoves DEF Stmts
  <2>4. QED BY <1>7, <2>3, FairReplies DEF CountTags, Step
<1>8. QED BY <1>3, <1>4, <1>5, <1>6, <1>7

(* The statements that write ads.                                          *)
LEMMA FairWrites ==
    ASSUME FairInv, NEW r \in Requests, Statement(r),
           CreateAd(r) \/ InsertAd(r) \/ InsertConflict(r) \/ InsertAdTags(r)
           \/ UpdateAdRow(r) \/ ReplaceTags(r) \/ CloseActiveAd(r)
    PROVE  Fair(req'[r], now, ads')
<1> DEFINE q == req[r]
           p == req'[r]
<1>1. /\ req \in [Requests -> Request] /\ q \in Request /\ Fair(q, now, ads')
      /\ ads' \in [Ads -> AdRow] /\ ads \in [Ads -> AdRow] /\ now \in Nat
      /\ q.op \in AdOps \cup LikeOps /\ Form(q) /\ q.pc # "done"
  BY FairBase DEF Step, Request
<1>2. q.pc \in StmtsOf[q.op]
  BY <1>1 DEF Form
<1>3. CASE CreateAd(r) \/ InsertAd(r)
  <2>1. q.pc \in {"createAd", "insertAd"} /\ q.op = "Create"
    <3>1. At(r, "createAd") \/ At(r, "insertAd")
      BY <1>3 DEF CreateAd, InsertAd
    <3>2. QED BY <1>1, <1>2, <3>1 DEF At, StmtsOf, AdOps, LikeOps
  <2>2. /\ p.pc \in {"insertAd", "insertAdTags"} /\ p.op = q.op /\ p.start = q.start
        /\ p.known = q.known /\ p.out = q.out
        /\ p.expires = now + TTL \/ (q.pc = "insertAd" /\ p.expires = q.expires)
    <3>1. CASE CreateAd(r)
      <4>1. p = [q EXCEPT !.pc = "insertAd", !.expires = now + TTL]
        BY <1>1, <3>1 DEF CreateAd
      <4>2. p.expires = now + TTL
        BY <1>1, <4>1, MeetingAssumption DEF Request
      <4>3. /\ p.pc = "insertAd" /\ p.op = q.op /\ p.start = q.start
            /\ p.known = q.known /\ p.out = q.out
        BY <1>1, <4>1 DEF Request
      <4>4. QED BY <4>2, <4>3
    <3>2. CASE InsertAd(r)
      <4>1. PICK a : p = [q EXCEPT !.pc = "insertAdTags", !.ad = a]
        BY <1>1, <3>2 DEF InsertAd
      <4>2. q.pc = "insertAd"
        BY <3>2 DEF InsertAd, At
      <4>3. QED BY <1>1, <4>1, <4>2 DEF Request
    <3>3. QED BY <1>3, <3>1, <3>2
  <2>3. p.expires >= p.start + TTL
    <3>1. q.start \in Nat /\ q.start =< now /\ TTL \in Nat
      BY <1>1, MeetingAssumption DEF Fair, Request
    <3>2. CASE p.expires = now + TTL
      BY <1>1, <2>2, <3>1, <3>2
    <3>3. CASE q.pc = "insertAd" /\ p.expires = q.expires
      BY <1>1, <2>2, <3>3 DEF Fair, OnItsWay
    <3>4. QED BY <2>2, <3>2, <3>3
  <2>4. q.out \notin Verdicts
    BY <2>1, FairBase DEF Step
  <2> HIDE DEF p
  <2>5. OnItsWay(p)
    BY <2>1, <2>2, <2>3, <2>4 DEF OnItsWay
  <2>6. ~Uses(p) /\ p.pc \notin ClearedAt
    BY <2>2 DEF Uses, ClearedAt
  <2>7. Remembers(p, now, ads')
    BY <1>1, <2>2 DEF Fair, Remembers
  <2>8. p.start =< now
    BY <1>1, <2>2 DEF Fair
  <2>9. QED BY <2>5, <2>6, <2>7, <2>8 DEF Fair, p
<1>4. CASE InsertConflict(r)
  BY <1>4, FairReplies DEF InsertConflict, Step
<1>5. CASE InsertAdTags(r)
  <2>1. q.pc = "insertAdTags" /\ q.op = "Create"
    BY <1>1, <1>2, <1>5 DEF InsertAdTags, At, StmtsOf, AdOps, LikeOps
  <2>2. Goto(r, "withTags")
    BY <1>5 DEF InsertAdTags
  <2>3. QED BY <2>1, <2>2, FairMoves DEF Stmts, ClearedAt
<1>6. CASE UpdateAdRow(r)
  <2>1. q.pc = "updateAdRow" /\ q.op = "Update" /\ ads' = ads
    <3>1. At(r, "updateAdRow") /\ UNCHANGED db
      BY <1>6 DEF UpdateAdRow
    <3>2. QED BY <1>1, <1>2, <3>1 DEF At, StmtsOf, AdOps, LikeOps, db
  <2>2. ASSUME NEW a \in Active(q.who),
               req' = [req EXCEPT ![r] = [@ EXCEPT !.pc = "replaceTags", !.ad = a]]
        PROVE  Fair(p, now, ads')
    <3>1. InTimeAd([q EXCEPT !.ad = a], ads')
      BY <1>1, <2>1, FairFound DEF Active, ClearedAt
    <3>2. p = [q EXCEPT !.pc = "replaceTags", !.ad = a]
      BY <1>1, <2>2
    <3>3. /\ p.pc = "replaceTags" /\ p.op = "Update" /\ p.ad = a /\ p.who = q.who
          /\ p.start = q.start /\ p.known = q.known /\ p.out = q.out
      BY <1>1, <2>1, <3>2 DEF Request
    <3>4. InTimeAd(p, ads')
      <4>1. [q EXCEPT !.ad = a].op = q.op /\ [q EXCEPT !.ad = a].ad = a
            /\ [q EXCEPT !.ad = a].start = q.start /\ [q EXCEPT !.ad = a].known = q.known
        BY <1>1 DEF Request
      <4>2. QED BY <2>1, <3>1, <3>3, <4>1 DEF InTimeAd
    <3>5. p.out \notin Verdicts /\ p.pc \notin ClearedAt
      BY <2>1, <3>3, FairBase DEF ClearedAt, Step
    <3> HIDE DEF p
    <3>6. QED BY <1>1, <2>1, <3>3, <3>4, <3>5, FairGoto DEF p
  <2>3. QED BY <1>6, <2>2, FairReplies DEF UpdateAdRow, Step
<1>7. CASE ReplaceTags(r)
  <2>1. q.pc = "replaceTags" /\ q.op = "Update"
    BY <1>1, <1>2, <1>7 DEF ReplaceTags, At, StmtsOf, AdOps, LikeOps
  <2>2. Goto(r, "withTags")
    BY <1>7 DEF ReplaceTags
  <2>3. InTimeAd(q, ads')
    BY <1>1, <2>1 DEF Fair, Uses
  <2>4. "withTags" \in Stmts \ {"done", "insertAd", "insertAdTags"}
        /\ "withTags" \notin ClearedAt
    BY DEF Stmts, ClearedAt
  <2>5. QED BY <2>1, <2>2, <2>3, <2>4, FairMoves
<1>8. CASE CloseActiveAd(r)
  <2>1. q.pc = "closeActiveAd" /\ q.op = "Delete"
    <3>1. At(r, "closeActiveAd")
      BY <1>8 DEF CloseActiveAd
    <3>2. QED BY <1>1, <1>2, <3>1 DEF At, StmtsOf, AdOps, LikeOps
  <2>2. ASSUME NEW a \in Active(q.who),
               req' = [req EXCEPT ![r] = Answered([q EXCEPT !.ad = a], "OK")]
        PROVE  Fair(p, now, ads')
    <3>1. InTimeAd([q EXCEPT !.ad = a], ads)
      BY <1>1, <2>1, FairFound DEF Active, ClearedAt, FairInv
    <3>2. ads'[a].expires = ads[a].expires /\ ads'[a].status # "NONE"
      BY <1>1, <1>8, <2>2 DEF CloseActiveAd, Closed, Active, AdRow
    <3>3. p = Answered([q EXCEPT !.ad = a], "OK")
      BY <1>1, <2>2
    <3>4. /\ p.pc = "done" /\ p.op = "Delete" /\ p.ad = a
          /\ p.start = q.start /\ p.known \subseteq q.known
      BY <1>1, <2>1, <3>3 DEF Answered, Request
    <3>5. [q EXCEPT !.ad = a].op = q.op /\ [q EXCEPT !.ad = a].ad = a
          /\ [q EXCEPT !.ad = a].start = q.start /\ [q EXCEPT !.ad = a].known = q.known
      BY <1>1 DEF Request
    <3> HIDE DEF p
    <3>6. InTimeAd(p, ads')
      BY <2>1, <2>2, <3>1, <3>2, <3>4, <3>5 DEF InTimeAd, Active
    <3>7. QED BY <1>1, <3>4, <3>6, FairDone DEF p
  <2>3. QED BY <1>8, <2>2, FairReplies DEF CloseActiveAd, Step
<1>9. QED BY <1>3, <1>4, <1>5, <1>6, <1>7, <1>8

(* What the server's own clock says of an ad.                              *)
LEMMA SeenActive ==
    ASSUME FairInv, NEW r \in Requests, req[r].op \in {"Like", "GetByID"},
           req[r].ad \in Ads, ads[req[r].ad].status = "ACTIVE",
           NEW t \in AppTimes, ~(t > ads[req[r].ad].expires)
    PROVE  InTimeAd(req[r], ads)
<1> DEFINE q == req[r]
<1>1. /\ now \in Nat /\ q \in Request /\ Fair(q, now, ads) /\ ads \in [Ads -> AdRow]
  BY DEF FairInv, Inv, TypeInv, TypeOK
<1>2. /\ ads[q.ad].expires \in Nat /\ q.start \in Nat /\ q.start =< now
      /\ Skew \in Nat /\ t \in Nat /\ now =< t + Skew
  BY <1>1, MeetingAssumption DEF AdRow, Request, AppTimes, Fair
<1>3. q.start =< ads[q.ad].expires + Skew
  BY <1>1, <1>2
<1>4. Skew = 0 => q.ad \notin q.known
  <2>1. Skew = 0 => q.start =< ads[q.ad].expires
    BY <1>2, <1>3
  <2>2. QED BY <1>1, <2>1, NotKnown DEF Fair
<1>5. QED BY <1>3, <1>4 DEF InTimeAd

LEMMA SeenDead ==
    ASSUME TypeInv, NEW a \in Ads, ads[a].status # "NONE", NEW t \in AppTimes,
           Dead(ads[a], t), Skew = 0
    PROVE  Spent(a, now, ads)
<1>1. ads[a].expires \in Nat /\ now \in Nat /\ t \in Nat /\ t = now
  BY DEF TypeInv, TypeOK, AdRow, AppTimes
<1>2. t > ads[a].expires => ads[a].expires < now
  BY <1>1
<1>3. QED BY <1>2 DEF Spent, Dead

(* The statements that read an ad by its id, and those about likes.        *)
LEMMA FairReads ==
    ASSUME FairInv, NEW r \in Requests, Statement(r),
           GetAdByID(r) \/ WithTags(r) \/ LikeAdByID(r)
    PROVE  Fair(req'[r], now, ads')
<1> DEFINE q == req[r]
           p == req'[r]
<1>1. /\ TypeInv /\ req \in [Requests -> Request] /\ q \in Request /\ Fair(q, now, ads')
      /\ ads \in [Ads -> AdRow] /\ now \in Nat
      /\ q.op \in AdOps \cup LikeOps /\ Form(q) /\ q.pc # "done"
  BY FairBase DEF Step, Request
<1>2. q.pc \in StmtsOf[q.op] /\ ads' = ads
  BY <1>1 DEF Form, GetAdByID, WithTags, LikeAdByID, db
<1>3. CASE GetAdByID(r)
  <2>1. q.op = "GetByID" /\ q.pc = "adByID" /\ q.ad \in Ads
    BY <1>1, <1>3 DEF GetAdByID, At, Form
  <2> DEFINE ad == ads[q.ad]
  <2>2. ASSUME NEW t \in AppTimes, ad.status # "NONE",
               req' = [req EXCEPT ![r] = [@ EXCEPT !.pc = "withTags",
                         !.out = IF ad.status = "ACTIVE" /\ t > ad.expires
                                 THEN "EXPIRED" ELSE ad.status]]
        PROVE  Fair(p, now, ads')
    <3> DEFINE out == IF ad.status = "ACTIVE" /\ t > ad.expires
                      THEN "EXPIRED" ELSE ad.status
    <3>1. p = [q EXCEPT !.pc = "withTags", !.out = out]
      BY <1>1, <2>2
    <3>2. ad.status \in {"ACTIVE", "EXPIRED", "CLOSED"}
      BY <1>1, <2>1, <2>2 DEF AdRow, AdStatus
    <3>3. /\ out = "ACTIVE" => ad.status = "ACTIVE" /\ ~(t > ad.expires)
          /\ out \in {"EXPIRED", "CLOSED"} => Dead(ad, t)
          /\ out # "ACTIVE_AD_EXISTS"
      BY <3>2 DEF Dead
    <3> HIDE DEF out
    <3>4. /\ p.pc = "withTags" /\ p.out = out /\ p.op = "GetByID" /\ p.ad = q.ad
          /\ p.start = q.start /\ p.known = q.known
      BY <1>1, <2>1, <3>1 DEF Request
    <3> HIDE DEF p
    <3>5. p.start =< now /\ OnItsWay(p)
      BY <1>1, <3>3, <3>4 DEF Fair, OnItsWay
    <3>6. p.pc \notin ClearedAt
      BY <3>4 DEF ClearedAt
    <3>7. Uses(p) => InTimeAd(p, ads')
      <4>1. SUFFICES ASSUME Uses(p) PROVE InTimeAd(p, ads')
        OBVIOUS
      <4>2. out = "ACTIVE"
        BY <3>4, <4>1 DEF Uses
      <4>3. InTimeAd(q, ads')
        BY <1>2, <2>1, <3>3, <4>2, SeenActive
      <4>4. QED BY <2>1, <3>4, <4>3 DEF InTimeAd
    <3>8. Remembers(p, now, ads')
      <4>1. Skew = 0 /\ out \in {"EXPIRED", "CLOSED"} => Spent(q.ad, now, ads')
        BY <1>1, <1>2, <2>1, <2>2, <3>3, SeenDead
      <4>2. QED BY <1>1, <3>4, <4>1 DEF Fair, Remembers
    <3>9. QED BY <3>5, <3>6, <3>7, <3>8 DEF Fair, p
  <2>3. QED BY <1>3, <2>2, FairReplies DEF GetAdByID, Step
<1>4. CASE WithTags(r)
  <2>1. q.pc = "withTags" /\ q.op \in {"Create", "GetMine", "GetByID", "Update"}
    BY <1>1, <1>2, <1>4 DEF WithTags, At, StmtsOf, AdOps, LikeOps
  <2>2. CASE q.op = "GetByID"
    <3>1. Answer(r, q.out)
      BY <1>4, <2>2 DEF WithTags
    <3>2. q.out # "ACTIVE_AD_EXISTS"
      BY <1>1 DEF Fair, OnItsWay, Verdicts
    <3>3. p.pc = "done" /\ p.op = "GetByID" /\ p.out = q.out
      BY <2>2, <3>1, FairReplies DEF Step
    <3>4. Uses(p) => Uses(q)
      BY <2>1, <3>2, <3>3 DEF Uses
    <3>5. QED BY <3>1, <3>4, FairReplies DEF Step
  <2>3. CASE q.op # "GetByID"
    <3>1. Answer(r, "OK")
      BY <1>4, <2>3 DEF WithTags
    <3>2. p.pc = "done" /\ p.op = q.op /\ p.out = "OK"
      BY <3>1, FairReplies DEF Step
    <3>3. Uses(p) => Uses(q)
      BY <2>1, <2>3, <3>2 DEF Uses
    <3>4. QED BY <3>1, <3>3, FairReplies DEF Step
  <2>4. QED BY <2>2, <2>3
<1>5. CASE LikeAdByID(r)
  <2>1. q.op = "Like" /\ q.pc = "adByID" /\ q.ad \in Ads
    BY <1>1, <1>5 DEF LikeAdByID, At, Form
  <2>2. CASE Goto(r, "createCandidate") /\ \E t \in AppTimes : ~Dead(ads[q.ad], t)
    <3>1. InTimeAd(q, ads')
      BY <1>2, <2>1, <2>2, SeenActive DEF Dead
    <3>2. QED BY <2>1, <2>2, <3>1, FairMoves DEF Stmts, ClearedAt
  <2>3. \/ Goto(r, "createCandidate") /\ \E t \in AppTimes : ~Dead(ads[q.ad], t)
        \/ \E out : Refuse(r, out)
    BY <1>5 DEF LikeAdByID
  <2>4. QED BY <2>2, <2>3, FairReplies DEF Step
<1>6. QED BY <1>3, <1>4, <1>5

LEMMA FairLikes ==
    ASSUME FairInv, NEW r \in Requests, Statement(r),
           CreateCandidate(r) \/ PendingLikesForAd(r) \/ CandidateForAuthor(r)
           \/ MarkAccepted(r) \/ OpenChat(r) \/ RejectCandidate(r)
    PROVE  Fair(req'[r], now, ads')
<1> DEFINE q == req[r]
           p == req'[r]
<1>1. /\ req \in [Requests -> Request] /\ q \in Request /\ Fair(q, now, ads')
      /\ q.op \in AdOps \cup LikeOps /\ Form(q) /\ q.pc # "done" /\ TypeInv
  BY FairBase DEF Step, Request
<1>2. CASE CreateCandidate(r) \/ PendingLikesForAd(r)
  <2>1. Uses(q)
    BY <1>2 DEF CreateCandidate, PendingLikesForAd, At, Uses
  <2>2. QED BY <1>2, <2>1, FairReplies DEF CreateCandidate, PendingLikesForAd, Step
<1>3. CASE CandidateForAuthor(r) \/ MarkAccepted(r) \/ OpenChat(r) \/ RejectCandidate(r)
  <2>1. /\ q.op \in {"Accept", "Reject"}
        /\ q.pc \in {"candidateForAuthor", "markAccepted", "openChat", "rejectCandidate"}
    <3>1. q.pc \in {"candidateForAuthor", "markAccepted", "openChat", "rejectCandidate"}
      BY <1>3 DEF CandidateForAuthor, MarkAccepted, OpenChat, RejectCandidate, At
    <3>2. QED BY <1>1, <3>1 DEF Form, StmtsOf, AdOps, LikeOps
  <2>2. ASSUME NEW out \in {"OK", "LIKE_NOT_PENDING"}, Answer(r, out) PROVE Fair(p, now, ads')
    <3>1. p.pc = "done" /\ p.op = q.op /\ p.out = out
      BY <2>2, FairReplies DEF Step
    <3>2. ~Uses(p)
      BY <2>1, <2>2, <3>1 DEF Uses
    <3>3. QED BY <2>2, <3>2, FairReplies DEF Step
  <2>3. ASSUME NEW stmt \in {"rejectCandidate", "markAccepted", "openChat"}, Goto(r, stmt)
        PROVE  Fair(p, now, ads')
    BY <2>1, <2>3, FairMoves DEF Stmts, ClearedAt
  <2>4. \/ \E stmt \in {"rejectCandidate", "markAccepted", "openChat"} : Goto(r, stmt)
        \/ \E out \in {"OK", "LIKE_NOT_PENDING"} : Answer(r, out)
        \/ \E out : Refuse(r, out)
    BY <1>3 DEF CandidateForAuthor, MarkAccepted, OpenChat, RejectCandidate
  <2>5. QED BY <2>2, <2>3, <2>4, FairReplies DEF Step
<1>4. QED BY <1>2, <1>3

LEMMA Issued ==
    ASSUME NEW op, NEW who, NEW ad, NEW liker, NEW text, NEW q,
           q = Issue(op, who, ad, liker, text)
    PROVE  /\ q.pc \in {"adByID", "profileForUser"} /\ q.op = op /\ q.ad = ad
           /\ q.out \notin Verdicts /\ q.start = now /\ q.known = told
<1>1. q.op = op
  BY DEF Issue
<1>2. q.ad = ad
  BY DEF Issue
<1>3. q.pc \in {"adByID", "profileForUser"}
  BY DEF Issue
<1>4. q.out \notin Verdicts
  BY DEF Issue, Verdicts
<1>5. q.start = now /\ q.known = told
  BY DEF Issue
<1>6. QED BY <1>1, <1>2, <1>3, <1>4, <1>5

LEMMA FairStart ==
    ASSUME FairInv, NEW r \in Requests, Start(r)
    PROVE  Fair(req'[r], now, ads')
<1> DEFINE p == req'[r]
<1>1. now \in Nat /\ req \in [Requests -> Request] /\ ads' = ads
  BY DEF FairInv, Inv, TypeInv, TypeOK, Start, db
<1>2. PICK op \in Ops, who \in Profiles :
        \E ad \in IF op \in {"GetByID", "Like", "Accept", "Reject"}
                 THEN Ads ELSE {None} : \E liker, text :
            req' = [req EXCEPT ![r] = Issue(op, who, ad, liker, text)]
  BY DEF Start
<1>3. PICK ad \in IF op \in {"GetByID", "Like", "Accept", "Reject"}
                 THEN Ads ELSE {None} :
        \E liker, text :
            req' = [req EXCEPT ![r] = Issue(op, who, ad, liker, text)]
  BY <1>2
<1>4. /\ p.pc \in {"adByID", "profileForUser"} /\ p.op = op /\ p.ad = ad
      /\ p.out \notin Verdicts /\ p.start = now /\ p.known = told
  <2>1. PICK liker, text : p = Issue(op, who, ad, liker, text)
    BY <1>1, <1>3
  <2>2. QED BY <2>1, Issued
<1> HIDE DEF p
<1>5. p.start =< now /\ OnItsWay(p)
  BY <1>1, <1>3, <1>4 DEF OnItsWay
<1>6. ~Uses(p) /\ p.pc \notin ClearedAt
  BY <1>4 DEF Uses, ClearedAt
<1>7. Remembers(p, now, ads')
  BY <1>1, <1>4 DEF Remembers, FairInv, TruthTold
<1>8. QED BY <1>5, <1>6, <1>7 DEF Fair, p

LEMMA FairStep ==
    ASSUME FairInv, NEW r \in Requests, Step(r)
    PROVE  Fair(req'[r], now, ads')
<1>1. CASE Fail(r)
  BY <1>1, FairReplies DEF Fail
<1>2. CASE Statement(r)
  BY <1>2, FairOwner, FairWrites, FairReads, FairLikes DEF Statement
<1>3. QED BY <1>1, <1>2, FairStart DEF Step

(* An ad some reply has called expired or closed is out for good.          *)
LEMMA ToldStep ==
    ASSUME FairInv, NEW r \in Requests, Step(r)
    PROVE  TruthTold'
<1> DEFINE q == req[r]
<1>1. /\ TypeInv /\ now \in Nat /\ q \in Request /\ Form(q) /\ now' = now
      /\ ads \in [Ads -> AdRow] /\ ads' \in [Ads -> AdRow] /\ told \in SUBSET Ads
  <2>1. now' = now
    BY DEF Step, Start, Fail, Statement, env, ProfileForUser, ExpireStale, ActiveAdFound,
           NoActiveAd, CountTags, CreateAd, InsertAd, InsertConflict, InsertAdTags, UpdateAdRow,
           ReplaceTags, CloseActiveAd, GetAdByID, WithTags, LikeAdByID, CreateCandidate,
           PendingLikesForAd, CandidateForAuthor, MarkAccepted, OpenChat, RejectCandidate
  <2>2. QED BY <2>1, FairBase DEF TypeInv, TypeOK
<1>2. SUFFICES ASSUME Skew = 0, NEW a \in told' PROVE Spent(a, now, ads')
  BY <1>1 DEF TruthTold
<1>3. now =< now /\ AdsOnward(ads, ads', now)
  BY <1>1, StepAds
<1>4. ASSUME Spent(a, now, ads) PROVE Spent(a, now, ads')
  BY <1>1, <1>3, <1>4, SpentStays
<1>5. CASE a \in told
  BY <1>2, <1>4, <1>5 DEF FairInv, TruthTold
<1>6. CASE WithTags(r) /\ a \notin told
  <2>1. q.pc = "withTags" /\ q.out \in {"EXPIRED", "CLOSED"} /\ a = q.ad
    BY <1>2, <1>6 DEF WithTags, At
  <2>2. QED BY <1>2, <1>4, <2>1 DEF FairInv, Fair, Remembers
<1>7. CASE LikeAdByID(r) /\ a \notin told
  <2>1. q.ad \in Ads
    BY <1>1, <1>7 DEF LikeAdByID, At, Form
  <2>2. PICK t \in AppTimes : ads[q.ad].status # "NONE" /\ Dead(ads[q.ad], t) /\ a = q.ad
    BY <1>2, <1>7 DEF LikeAdByID
  <2>3. QED BY <1>1, <1>2, <1>4, <2>1, <2>2, SeenDead
<1>8. CASE CloseActiveAd(r) /\ a \notin told
  <2>1. a \in Active(q.who)
    BY <1>2, <1>8 DEF CloseActiveAd
  <2>2. a \in Ads /\ ads'[a].status = "CLOSED"
    BY <1>1, <1>8, <2>1 DEF CloseActiveAd, Closed, Active, AdRow
  <2>3. QED BY <2>2 DEF Spent
<1>9. a \in told \/ WithTags(r) \/ LikeAdByID(r) \/ CloseActiveAd(r)
  BY <1>2 DEF Step, Start, Fail, Statement, env, ProfileForUser, ExpireStale, ActiveAdFound,
         NoActiveAd, CountTags, CreateAd, InsertAd, InsertConflict, InsertAdTags, UpdateAdRow,
         ReplaceTags, GetAdByID, CreateCandidate,
         PendingLikesForAd, CandidateForAuthor, MarkAccepted, OpenChat, RejectCandidate
<1>10. QED BY <1>5, <1>6, <1>7, <1>8, <1>9

LEMMA NextFair == FairInv /\ [Next]_vars => FairInv'
<1> SUFFICES ASSUME FairInv, [Next]_vars PROVE FairInv'
  OBVIOUS
<1>1. Inv'
  BY StepInv DEF FairInv
<1>2. /\ now \in Nat /\ req \in [Requests -> Request] /\ ads \in [Ads -> AdRow]
      /\ now' \in Nat /\ ads' \in [Ads -> AdRow] /\ told \in SUBSET Ads
  BY <1>1 DEF FairInv, Inv, TypeInv, TypeOK
<1>3. CASE UNCHANGED vars \/ Tick \/ \E p \in Profiles : Onboard(p)
  <2>1. UNCHANGED <<ads, req, told>> /\ now =< now'
    BY <1>2, <1>3 DEF vars, Tick, Onboard
  <2>2. AdsOnward(ads, ads', now)
    BY <2>1 DEF AdsOnward
  <2>3. ASSUME NEW s \in Requests PROVE Fair(req'[s], now', ads')
    <3>1. req[s] \in Request /\ Fair(req[s], now, ads)
      BY <1>2 DEF FairInv
    <3>2. Fair(req[s], now', ads')
      BY <1>2, <2>1, <2>2, <3>1, FairKept
    <3>3. QED BY <2>1, <3>2
  <2>4. TruthTold'
    BY <1>2, <2>1, <2>2, SpentStays DEF FairInv, TruthTold
  <2>5. QED BY <1>1, <2>3, <2>4 DEF FairInv
<1>4. ASSUME NEW r \in Requests, Step(r) PROVE FairInv'
  <2>1. Fair(req'[r], now, ads') /\ AdsOnward(ads, ads', now) /\ TruthTold'
    BY <1>4, FairStep, StepAds, ToldStep
  <2>2. \A s \in Requests \ {r} : req'[s] = req[s]
    BY <1>4, CarriesStep DEF FairInv, Inv, Step, Carries
  <2>3. now' = now
    BY <1>4 DEF Step, Start, Fail, Statement, env, ProfileForUser, ExpireStale, ActiveAdFound,
           NoActiveAd, CountTags, CreateAd, InsertAd, InsertConflict, InsertAdTags, UpdateAdRow,
           ReplaceTags, CloseActiveAd, GetAdByID, WithTags, LikeAdByID, CreateCandidate,
           PendingLikesForAd, CandidateForAuthor, MarkAccepted, OpenChat, RejectCandidate
  <2>4. ASSUME NEW s \in Requests, s # r PROVE Fair(req'[s], now, ads')
    <3>1. req[s] \in Request /\ Fair(req[s], now, ads) /\ now =< now
      BY <1>2 DEF FairInv
    <3>2. Fair(req[s], now, ads')
      BY <1>2, <2>1, <3>1, FairKept
    <3>3. QED BY <2>2, <2>4, <3>2
  <2>5. QED BY <1>1, <2>1, <2>3, <2>4 DEF FairInv
<1>5. QED BY <1>3, <1>4 DEF Next, Step

LEMMA FairAlways == Spec => []FairInv
<1>1. Init => FairInv
  <2> SUFFICES ASSUME Init PROVE FairInv
    OBVIOUS
  <2>1. Inv /\ TruthTold /\ now \in Nat /\ \A r \in Requests : req[r] = NoRequest
    BY InitInv DEF Init, TruthTold
  <2>2. Fair(NoRequest, now, ads)
    BY <2>1, FairIdle DEF NoRequest
  <2>3. QED BY <2>1, <2>2 DEF FairInv
<1>2. QED BY <1>1, NextFair, PTL DEF Spec

LEMMA TakesUses == \A r \in Requests : TookForActive(r) => Uses(req[r])
BY DEF TookForActive, Uses, At

(* No request takes for active an ad that was overdue when it began.       *)
THEOREM LiveWhenTaken == Spec => []LiveAtStart
<1>1. FairInv => LiveAtStart
  BY TakesUses DEF FairInv, Fair, InTimeAd, LiveAtStart
<1>2. QED BY <1>1, FairAlways, PTL

(* With the clocks in step, an ad a reply has called expired or closed is  *)
(* taken for active by no later request.                                   *)
THEOREM SpentForGood == Skew = 0 => (Spec => []NoResurrection)
<1> SUFFICES ASSUME Skew = 0 PROVE Spec => []NoResurrection
  OBVIOUS
<1>1. FairInv => NoResurrection
  BY TakesUses DEF FairInv, Fair, InTimeAd, NoResurrection
<1>2. QED BY <1>1, FairAlways, PTL
=============================================================================
