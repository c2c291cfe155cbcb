------------------------------- MODULE Meeting -------------------------------
(***************************************************************************)
(* Ads, likes and chats of the meeting component (internal/meeting).       *)
(*                                                                         *)
(* A request is a goroutine that runs SQL statements one after another.    *)
(* The statements of different requests interleave freely: the server has  *)
(* no lock of its own, and the database runs at READ COMMITTED.  Each      *)
(* action below is one statement (or one reply), named for the repository  *)
(* method that issues it; req[r].pc is the statement request r issues      *)
(* next.  The writes of an open transaction live in its request until the  *)
(* statement that commits them, and the row locks it holds are read off    *)
(* the pc of the request, so ending the request in any way releases them.  *)
(***************************************************************************)
EXTENDS Naturals, FiniteSets

CONSTANTS
    Profiles,   \* rows of table profiles (or their users, before that)
    Ads,        \* identifiers gen_random_uuid() may give to ads
    Texts,      \* contents of an ad: a description together with its tags
    None,       \* no profile, no ad, no text
    Requests,   \* slots for requests in flight
    Ops,        \* the endpoints an instance exercises
    TTL,        \* adTTL
    Deadline,   \* the context of a request is cancelled after this long
    Skew,       \* how far the clocks of server and database are apart
    MaxTime     \* bound: the clock stops here

AdOps == {"Create", "GetMine", "GetByID", "Update", "Delete"}
LikeOps == {"Like", "ListLikes", "Accept", "Reject"}

ASSUME MeetingAssumption ==
    /\ None \notin Profiles \cup Ads \cup Texts
    /\ Ops \subseteq AdOps \cup LikeOps
    /\ TTL \in Nat \ {0}
    /\ Deadline \in Nat /\ Deadline < TTL   \* 30 seconds against 24 hours
    /\ Skew \in Nat
    /\ MaxTime \in Nat

VARIABLES
    now,        \* the clock of the database
    stage,      \* onboarding of each profile, moved by the profile component
    ads,        \* table meeting_ads with meeting_ad_tags, by id
    cands,      \* status of the like of each (ad, profile); "NONE": no row
    chats,      \* number of rows of table chats for each (ad, profile)
    req,        \* the request in each slot, or the last one it answered
    told        \* history: ads some reply has called expired or closed

vars == <<now, stage, ads, cands, chats, req, told>>
db == <<ads, cands, chats>>
env == <<now, stage, told>>

-----------------------------------------------------------------------------
(* The tables.                                                             *)

Pairs == Ads \X Profiles
Stages == {"none", "draft", "done"}
AdStatus == {"NONE", "ACTIVE", "EXPIRED", "CLOSED"}
CandStatus == {"NONE", "PENDING", "ACCEPTED", "REJECTED"}

AdRow == [author : Profiles \cup {None}, status : AdStatus, expires : Nat,
          desc : Texts \cup {None}, tags : Texts \cup {None}]

Unborn == [author |-> None, status |-> "NONE", expires |-> 0,
           desc |-> None, tags |-> None]

Active(p) == {a \in Ads : ads[a].author = p /\ ads[a].status = "ACTIVE"}

(* Faulty variants, with names that begin with Mut, stand before the       *)
(* definition they are a mistake in; the specification never uses them.    *)
MutOverdueStrict(p) == {a \in Active(p) : ads[a].expires < now}
Overdue(p) == {a \in Active(p) : ads[a].expires =< now}

-----------------------------------------------------------------------------
(* The requests.                                                           *)

Stmts == {"done", "profileForUser", "expireStale", "activeAdByProfile",
          "countTags", "createAd", "insertAd", "insertAdTags",
          "updateAdRow", "replaceTags", "closeActiveAd", "adByID", "withTags",
          "createCandidate", "pendingLikesForAd", "candidateForAuthor",
          "markAccepted", "openChat", "rejectCandidate"}

Outs == {"", "OK", "FAILED", "UNIQUE_VIOLATION", "PROFILE_REQUIRED",
         "ACTIVE_AD_EXISTS", "NO_ACTIVE_AD", "UNKNOWN_TAG", "AD_NOT_FOUND",
         "AD_NOT_ACTIVE", "CANNOT_LIKE_OWN_AD", "ALREADY_RESPONDED",
         "LIKE_NOT_FOUND", "LIKE_NOT_PENDING", "ACTIVE", "EXPIRED", "CLOSED"}

Request == [op : AdOps \cup LikeOps, who : Profiles \cup {None},
            ad : Ads \cup {None}, liker : Profiles \cup {None},
            text : Texts \cup {None}, pc : Stmts, expires : Nat, out : Outs,
            start : Nat, known : SUBSET Ads]

(* A slot before its first request.                                        *)
NoRequest == [op |-> "GetMine", who |-> None, ad |-> None, liker |-> None,
              text |-> None, pc |-> "done", expires |-> 0, out |-> "",
              start |-> 0, known |-> {}]

At(r, stmt) == req[r].pc = stmt
Goto(r, stmt) == req' = [req EXCEPT ![r].pc = stmt]

(* A successful reply is kept in the slot, with what the properties ask of *)
(* it; of a refused request only the code of the refusal is.               *)
Answered(q, out) == [q EXCEPT !.pc = "done", !.out = out, !.text = None,
                              !.expires = 0, !.known = @ \cap {q.ad}]
Answer(r, out) == req' = [req EXCEPT ![r] = Answered(@, out)]
Refuse(r, out) == req' = [req EXCEPT ![r] = [NoRequest EXCEPT !.out = out]]
Candidate(r) == <<req[r].ad, req[r].liker>>

(* Row locks.  insertAdTags holds the entry of its author in the partial   *)
(* unique index, replaceTags the row of its ad, openChat its candidate.    *)
Inserting(p) == {r \in Requests : At(r, "insertAdTags") /\ req[r].who = p}
AdLocked(a) == \E r \in Requests : At(r, "replaceTags") /\ req[r].ad = a
CandLocked(c) == \E r \in Requests : At(r, "openChat") /\ Candidate(r) = c

-----------------------------------------------------------------------------

Init ==
    /\ now = 0
    /\ stage \in [Profiles -> Stages]
    /\ ads = [a \in Ads |-> Unborn]
    /\ cands = [c \in Pairs |-> "NONE"]
    /\ chats = [c \in Pairs |-> 0]
    /\ req = [r \in Requests |-> NoRequest]
    /\ told = {}

Tick ==
    /\ now < MaxTime
    /\ now' = now + 1
    /\ UNCHANGED <<stage, ads, cands, chats, req, told>>

(* The profile component: SaveBasics creates the row, Complete sets        *)
(* is_created_profile; nothing takes either back.                          *)
Onboard(p) ==
    /\ \/ stage[p] = "none" /\ stage' = [stage EXCEPT ![p] = "draft"]
       \/ stage[p] = "draft" /\ stage' = [stage EXCEPT ![p] = "done"]
    /\ UNCHANGED <<now, ads, cands, chats, req, told>>

(* Bound: a Create starts only while there is an identifier left for it.   *)
Room == Cardinality({a \in Ads : ads[a].status = "NONE"}) >
        Cardinality({r \in Requests : req[r].op = "Create" /\ ~At(r, "done")})

Issue(op, who, ad, liker, text) ==
    [op |-> op, who |-> who, ad |-> ad, liker |-> liker, text |-> text,
     pc |-> IF op = "GetByID" THEN "adByID" ELSE "profileForUser",
     expires |-> 0, out |-> "", start |-> now, known |-> told]

Start(r) ==
    /\ At(r, "done")
    /\ \E op \in Ops, who \in Profiles :
       \E ad \in IF op \in {"GetByID", "Like", "Accept", "Reject"}
                 THEN Ads ELSE {None},
          liker \in IF op \in {"Accept", "Reject"} THEN Profiles ELSE {None},
          text \in IF op \in {"Create", "Update"} THEN Texts ELSE {None} :
         /\ op = "Create" => Room
         /\ req' = [req EXCEPT ![r] = Issue(op, who, ad, liker, text)]
    /\ UNCHANGED <<db, env>>

InTime(r) == now =< req[r].start + Deadline

(* A statement errors, the deadline or a disconnect cancels the context,   *)
(* or the process dies: an open transaction rolls back, the rest of the    *)
(* request never runs.                                                     *)
Fail(r) ==
    /\ ~At(r, "done")
    /\ Refuse(r, "FAILED")
    /\ UNCHANGED <<db, env>>

(* profileForUser, and what each handler makes of its result.              *)
MutReadsSkipExpiry ==
    [Create |-> "expireStale", GetMine |-> "activeAdByProfile",
     Update |-> "expireStale", Delete |-> "expireStale",
     ListLikes |-> "activeAdByProfile", Like |-> "adByID",
     Accept |-> "candidateForAuthor", Reject |-> "candidateForAuthor"]
AfterProfile ==
    [Create |-> "expireStale", GetMine |-> "expireStale",
     Update |-> "expireStale", Delete |-> "expireStale",
     ListLikes |-> "expireStale", Like |-> "adByID",
     Accept |-> "candidateForAuthor", Reject |-> "candidateForAuthor"]

NoProfile ==
    [Create |-> "PROFILE_REQUIRED", Like |-> "PROFILE_REQUIRED",
     GetMine |-> "NO_ACTIVE_AD", Update |-> "NO_ACTIVE_AD",
     Delete |-> "NO_ACTIVE_AD", ListLikes |-> "OK",
     Accept |-> "LIKE_NOT_FOUND", Reject |-> "LIKE_NOT_FOUND"]

Admitted(r) ==
    \/ stage[req[r].who] = "done"
    \/ stage[req[r].who] = "draft" /\ req[r].op \notin {"Create", "Like"}

ProfileForUser(r) ==
    /\ At(r, "profileForUser")
    /\ IF Admitted(r) THEN Goto(r, AfterProfile[req[r].op])
                      ELSE Refuse(r, NoProfile[req[r].op])
    /\ UNCHANGED <<db, env>>

-----------------------------------------------------------------------------
(* The author's ad.                                                        *)

(* Lazy expiry.  The UPDATE waits for a row of its WHERE clause that an    *)
(* open transaction has changed.                                           *)
ExpireStale(r) ==
    LET mine == Overdue(req[r].who) IN
    /\ At(r, "expireStale")
    /\ \A a \in mine : ~AdLocked(a)
    /\ ads' = [a \in Ads |-> IF a \in mine
                             THEN [ads[a] EXCEPT !.status = "EXPIRED"] ELSE ads[a]]
    /\ Goto(r, CASE req[r].op = "Update" -> "countTags"
                 [] req[r].op = "Delete" -> "closeActiveAd"
                 [] OTHER -> "activeAdByProfile")
    /\ UNCHANGED <<cands, chats, env>>

(* Create, GetMine and ListLikes go on from the ad they find, or from the  *)
(* absence of one.                                                         *)
ActiveAdFound(r) ==
    /\ At(r, "activeAdByProfile")
    /\ \E a \in Active(req[r].who) :
          LET found == [req[r] EXCEPT !.ad = a] IN
          req' = [req EXCEPT ![r] =
                     CASE req[r].op = "Create" -> Answered(found, "ACTIVE_AD_EXISTS")
                       [] req[r].op = "GetMine" -> [found EXCEPT !.pc = "withTags"]
                       [] OTHER -> [found EXCEPT !.pc = "pendingLikesForAd"]]
    /\ UNCHANGED <<db, env>>

NoActiveAd(r) ==
    /\ At(r, "activeAdByProfile")
    /\ Active(req[r].who) = {}
    /\ CASE req[r].op = "Create" -> Goto(r, "countTags")
         [] req[r].op = "GetMine" -> Refuse(r, "NO_ACTIVE_AD")
         [] OTHER -> Answer(r, "OK")
    /\ UNCHANGED <<db, env>>

(* The tags of the body exist, or the request ends: meeting_tags is        *)
(* reference data, which of the two is up to the caller.                   *)
CountTags(r) ==
    /\ At(r, "countTags")
    /\ \/ Goto(r, IF req[r].op = "Create" THEN "createAd" ELSE "updateAdRow")
       \/ Refuse(r, "UNKNOWN_TAG")
    /\ UNCHANGED <<db, env>>

(* BEGIN: now() of the transaction, from which expires_at is computed.     *)
CreateAd(r) ==
    /\ At(r, "createAd")
    /\ req' = [req EXCEPT ![r] = [@ EXCEPT !.pc = "insertAd", !.expires = now + TTL]]
    /\ UNCHANGED <<db, env>>

(* The INSERT meets the unique index of active ads: it waits while another *)
(* transaction has inserted or changed the entry of the same author.       *)
IndexFree(p) == Inserting(p) = {} /\ \A a \in Active(p) : ~AdLocked(a)
Fresh == {a \in Ads : /\ ads[a].status = "NONE"
                      /\ \A r \in Requests : At(r, "insertAdTags") => req[r].ad # a}

MutNoIndex(p) == {}
IndexEntries(p) == Active(p)

InsertAd(r) ==
    /\ At(r, "insertAd")
    /\ IndexFree(req[r].who)
    /\ IndexEntries(req[r].who) = {}
    /\ \E a \in Fresh :
          req' = [req EXCEPT ![r] = [@ EXCEPT !.pc = "insertAdTags", !.ad = a]]
    /\ UNCHANGED <<db, env>>

MutRetryForever(r) ==
    /\ At(r, "insertAd")
    /\ IndexFree(req[r].who)
    /\ IndexEntries(req[r].who) # {}
    /\ Goto(r, "createAd")
    /\ UNCHANGED <<db, env>>
InsertConflict(r) ==
    /\ At(r, "insertAd")
    /\ IndexFree(req[r].who)
    /\ IndexEntries(req[r].who) # {}
    /\ Refuse(r, "UNIQUE_VIOLATION")
    /\ UNCHANGED <<db, env>>

(* The tags are inserted and COMMIT makes the ad visible.                  *)
InsertAdTags(r) ==
    /\ At(r, "insertAdTags")
    /\ ads' = [ads EXCEPT ![req[r].ad] =
                  [author |-> req[r].who, status |-> "ACTIVE",
                   expires |-> req[r].expires,
                   desc |-> req[r].text, tags |-> req[r].text]]
    /\ Goto(r, "withTags")
    /\ UNCHANGED <<cands, chats, env>>

(* updateActiveAd opens with the UPDATE of the description, which takes    *)
(* the row lock; expires_at is not looked at again.                        *)
MutUpdateWithoutTx(r) ==
    /\ At(r, "updateAdRow")
    /\ \E a \in Active(req[r].who) :
          /\ req' = [req EXCEPT ![r] = [@ EXCEPT !.pc = "replaceTags", !.ad = a]]
          /\ ads' = [ads EXCEPT ![a].desc = req[r].text]
    /\ UNCHANGED <<cands, chats, env>>
UpdateAdRow(r) ==
    /\ At(r, "updateAdRow")
    /\ \A a \in Active(req[r].who) : ~AdLocked(a)
    /\ \/ \E a \in Active(req[r].who) :
             req' = [req EXCEPT ![r] = [@ EXCEPT !.pc = "replaceTags", !.ad = a]]
       \/ Active(req[r].who) = {} /\ Refuse(r, "NO_ACTIVE_AD")
    /\ UNCHANGED <<db, env>>

(* The tags are deleted and inserted anew, and COMMIT shows both changes.  *)
MutEditRenews(r) ==
    /\ At(r, "replaceTags")
    /\ ads' = [ads EXCEPT ![req[r].ad] =
                  [@ EXCEPT !.desc = req[r].text, !.tags = req[r].text,
                            !.expires = now + TTL]]
    /\ Goto(r, "withTags")
    /\ UNCHANGED <<cands, chats, env>>
ReplaceTags(r) ==
    /\ At(r, "replaceTags")
    /\ ads' = [ads EXCEPT ![req[r].ad] = [@ EXCEPT !.desc = req[r].text, !.tags = req[r].text]]
    /\ Goto(r, "withTags")
    /\ UNCHANGED <<cands, chats, env>>

MutDeleted(ad) == [ad EXCEPT !.status = "DELETED"]
Closed(ad) == [ad EXCEPT !.status = "CLOSED"]

CloseActiveAd(r) ==
    LET mine == Active(req[r].who) IN
    /\ At(r, "closeActiveAd")
    /\ \A a \in mine : ~AdLocked(a)
    /\ ads' = [a \in Ads |-> IF a \in mine THEN Closed(ads[a]) ELSE ads[a]]
    /\ \/ \E a \in mine :
             req' = [req EXCEPT ![r] = Answered([@ EXCEPT !.ad = a], "OK")]
       \/ mine = {} /\ Refuse(r, "NO_ACTIVE_AD")
    /\ told' = told \cup mine
    /\ UNCHANGED <<now, stage, cands, chats>>

(* The server reads its own clock, time.Now().                             *)
AppTimes == {t \in 0 .. now + Skew : now =< t + Skew}

GetAdByID(r) ==
    LET ad == ads[req[r].ad] IN
    /\ At(r, "adByID")
    /\ req[r].op = "GetByID"
    /\ \/ ad.status = "NONE" /\ Refuse(r, "AD_NOT_FOUND")
       \/ \E t \in AppTimes :
             /\ ad.status # "NONE"
             /\ req' = [req EXCEPT ![r] = [@ EXCEPT !.pc = "withTags",
                           !.out = IF ad.status = "ACTIVE" /\ t > ad.expires
                                   THEN "EXPIRED" ELSE ad.status]]
    /\ UNCHANGED <<db, env>>

(* The tags are read by a statement of their own, then the reply is sent.  *)
WithTags(r) ==
    /\ At(r, "withTags")
    /\ Answer(r, IF req[r].op = "GetByID" THEN req[r].out ELSE "OK")
    /\ told' = IF req[r].out \in {"EXPIRED", "CLOSED"}
               THEN told \cup {req[r].ad} ELSE told
    /\ UNCHANGED <<db, now, stage>>

-----------------------------------------------------------------------------
(* Likes and chats.                                                        *)

(* Like checks the ad it has read ...                                      *)
MutDeadByStatus(ad, t) == ad.status # "ACTIVE"
Dead(ad, t) == ad.status # "ACTIVE" \/ t > ad.expires

Own(ad, p) == ad.author = p

LikeAdByID(r) ==
    LET ad == ads[req[r].ad] IN
    /\ At(r, "adByID")
    /\ req[r].op = "Like"
    /\ \E t \in AppTimes :
         /\ IF ad.status = "NONE" THEN Refuse(r, "AD_NOT_FOUND")
            ELSE IF Dead(ad, t) THEN Refuse(r, "AD_NOT_ACTIVE")
            ELSE IF Own(ad, req[r].who) THEN Refuse(r, "CANNOT_LIKE_OWN_AD")
            ELSE Goto(r, "createCandidate")
         /\ told' = IF ad.status # "NONE" /\ Dead(ad, t)
                    THEN told \cup {req[r].ad} ELSE told
    /\ UNCHANGED <<db, now, stage>>

(* ... and inserts the like in a later statement, which checks only the    *)
(* uniqueness of (ad, profile).                                            *)
CreateCandidate(r) ==
    LET c == <<req[r].ad, req[r].who>> IN
    /\ At(r, "createCandidate")
    /\ IF cands[c] = "NONE"
       THEN Answer(r, "OK") /\ cands' = [cands EXCEPT ![c] = "PENDING"]
       ELSE Refuse(r, "ALREADY_RESPONDED") /\ UNCHANGED cands
    /\ UNCHANGED <<ads, chats, env>>

PendingLikesForAd(r) ==
    /\ At(r, "pendingLikesForAd")
    /\ Answer(r, "OK")
    /\ UNCHANGED <<db, env>>

(* requireOwnCandidate, and Accept's check of the status it has read.      *)
CandidateForAuthor(r) ==
    LET c == Candidate(r) IN
    /\ At(r, "candidateForAuthor")
    /\ IF cands[c] = "NONE" \/ ads[req[r].ad].author # req[r].who
       THEN Refuse(r, "LIKE_NOT_FOUND")
       ELSE IF req[r].op = "Reject" THEN Goto(r, "rejectCandidate")
       ELSE IF cands[c] # "PENDING" THEN Answer(r, "LIKE_NOT_PENDING")
       ELSE Goto(r, "markAccepted")
    /\ UNCHANGED <<db, env>>

(* The WHERE clause of both decisions.                                     *)
MutAnyStatus(c) == TRUE
StillPending(c) == cands[c] = "PENDING"

(* acceptCandidate: the conditional UPDATE takes the row lock ...          *)
MutAcceptWithoutTx(r) ==
    /\ At(r, "markAccepted")
    /\ IF StillPending(Candidate(r))
       THEN /\ Goto(r, "openChat")
            /\ cands' = [cands EXCEPT ![Candidate(r)] = "ACCEPTED"]
       ELSE Answer(r, "LIKE_NOT_PENDING") /\ UNCHANGED cands
    /\ UNCHANGED <<ads, chats, env>>
MarkAccepted(r) ==
    /\ At(r, "markAccepted")
    /\ ~CandLocked(Candidate(r))
    /\ IF StillPending(Candidate(r)) THEN Goto(r, "openChat")
                                          ELSE Answer(r, "LIKE_NOT_PENDING")
    /\ UNCHANGED <<db, env>>

(* ... the INSERT of the chat follows in the same transaction.             *)
OpenChat(r) ==
    /\ At(r, "openChat")
    /\ cands' = [cands EXCEPT ![Candidate(r)] = "ACCEPTED"]
    /\ chats' = [chats EXCEPT ![Candidate(r)] = @ + 1]
    /\ Answer(r, "OK")
    /\ UNCHANGED <<ads, env>>

RejectCandidate(r) ==
    LET c == Candidate(r) IN
    /\ At(r, "rejectCandidate")
    /\ ~CandLocked(c)
    /\ IF StillPending(c)
       THEN Answer(r, "OK") /\ cands' = [cands EXCEPT ![c] = "REJECTED"]
       ELSE Answer(r, "LIKE_NOT_PENDING") /\ UNCHANGED cands
    /\ UNCHANGED <<ads, chats, env>>

-----------------------------------------------------------------------------

Statement(r) ==
    /\ InTime(r)
    /\ \/ ProfileForUser(r) \/ ExpireStale(r) \/ ActiveAdFound(r) \/ NoActiveAd(r)
       \/ CountTags(r) \/ CreateAd(r) \/ InsertAd(r) \/ InsertConflict(r)
       \/ InsertAdTags(r) \/ UpdateAdRow(r) \/ ReplaceTags(r) \/ CloseActiveAd(r)
       \/ GetAdByID(r) \/ WithTags(r) \/ LikeAdByID(r) \/ CreateCandidate(r)
       \/ PendingLikesForAd(r) \/ CandidateForAuthor(r) \/ MarkAccepted(r)
       \/ OpenChat(r) \/ RejectCandidate(r)

Next ==
    \/ Tick
    \/ \E p \in Profiles : Onboard(p)
    \/ \E r \in Requests : Start(r) \/ Fail(r) \/ Statement(r)

Spec == Init /\ [][Next]_vars

(* The scheduler runs every goroutine, and PostgreSQL serves the waiters   *)
(* of a lock in the order they came: a statement that becomes possible     *)
(* again and again is carried out.  A request past its deadline is ended.  *)
FairSpec ==
    /\ Spec
    /\ \A r \in Requests : SF_vars(Statement(r))
    /\ \A r \in Requests : WF_vars(~InTime(r) /\ Fail(r))

-----------------------------------------------------------------------------
(* Properties.                                                             *)

(* Every table and every request holds values of its type.                 *)
TypeOK ==
    /\ now \in Nat
    /\ stage \in [Profiles -> Stages]
    /\ ads \in [Ads -> AdRow]
    /\ cands \in [Pairs -> CandStatus]
    /\ chats \in [Pairs -> Nat]
    /\ req \in [Requests -> Request]
    /\ told \in SUBSET Ads

(* A profile never has two ACTIVE ads, although Create looks for the       *)
(* active ad several statements before it inserts one, and requests of the *)
(* same author race.                                                       *)
OneActiveAd ==
    \A a, b \in Ads :
        ads[a].status = "ACTIVE" /\ ads[b].status = "ACTIVE"
        /\ ads[a].author = ads[b].author => a = b

(* A like has a chat exactly when it is ACCEPTED, and then exactly one:    *)
(* acceptCandidate neither loses the chat when it dies between its two     *)
(* statements nor opens a second one when two requests accept at once.     *)
ChatIffAccepted ==
    \A c \in Pairs : chats[c] = IF cands[c] = "ACCEPTED" THEN 1 ELSE 0

(* What the author was told about a like stays true: after a successful    *)
(* Accept it is accepted and has a chat, after a successful Reject it is   *)
(* rejected, whichever other decisions raced; LIKE_NOT_PENDING is only     *)
(* answered about a like somebody has decided.                             *)
DecisionStands ==
    \A r \in Requests :
        LET c == Candidate(r)
            answered(op, out) == At(r, "done") /\ req[r].op = op /\ req[r].out = out
        IN /\ answered("Accept", "OK") => cands[c] = "ACCEPTED" /\ chats[c] = 1
           /\ answered("Reject", "OK") => cands[c] = "REJECTED"
           /\ req[r].out = "LIKE_NOT_PENDING" => cands[c] \in {"ACCEPTED", "REJECTED"}

(* Nobody has a like on her own ad: Like compares the profiles before it   *)
(* inserts, and the author of an ad cannot change in between.              *)
NoLikeOnOwnAd ==
    \A a \in Ads, p \in Profiles : cands[<<a, p>>] # "NONE" =>
        ads[a].status # "NONE" /\ ads[a].author # p

(* Description and tags of an ad always come from one request, also when   *)
(* edits race or die half way.                                             *)
ContentWhole == \A a \in Ads : ads[a].desc = ads[a].tags

(* The request has shown or used an ad as an active one.                   *)
TookForActive(r) ==
    /\ At(r, "done")
    /\ req[r].ad # None
    /\ \/ req[r].op \in {"GetMine", "Update", "Delete", "ListLikes", "Like"}
          /\ req[r].out = "OK"
       \/ req[r].out \in {"ACTIVE", "ACTIVE_AD_EXISTS"}

(* No request takes for active an ad that was overdue when the request     *)
(* began, although the row may still say ACTIVE: an overdue ad is not      *)
(* shown, edited, closed or liked, and does not block the next one.  Where *)
(* the server's own clock decides, up to the clocks' difference.           *)
LiveAtStart ==
    \A r \in Requests : TookForActive(r) =>
        LET expires == ads[req[r].ad].expires
        IN IF req[r].op \in {"Like", "GetByID"} THEN req[r].start =< expires + Skew
                                                ELSE req[r].start < expires

(* Once a reply has called an ad expired or closed, no request begun after *)
(* that reply takes the ad for active (clocks in step, Skew = 0): the lazy *)
(* expiry on read and the one on write never contradict each other.        *)
NoResurrection ==
    \A r \in Requests : TookForActive(r) => req[r].ad \notin req[r].known

(* Every request is answered: no set of statements wait for one another.   *)
EveryRequestAnswered ==
    \A r \in Requests : ~At(r, "done") ~> At(r, "done")

(* The statements of concurrent requests together only ever do what the    *)
(* atomic actions of MeetingBoard allow.                                   *)
Board == INSTANCE MeetingBoard
BoardSpec == Board!Spec
=============================================================================
