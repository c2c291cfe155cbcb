--------------------------- MODULE AuthRulesProofs ---------------------------
(* Proofs about Auth: the limits on sends, the bound on guesses, and whose *)
(* account a code leads to.                                                *)
EXTENDS AuthProofs, FiniteSetTheorems, SequenceTheorems, WellFoundedInduction

(* A step of a request is a step of one slot.                              *)
LEMMA OneMoves ==
    ASSUME TypeInv, NEW r \in Requests, Start(r) \/ Fail(r) \/ Statement(r)
    PROVE  now' = now /\ \A s \in Requests : s # r => req'[s] = req[s]
<1>0. req \in [Requests -> Request]
      BY DEF TypeInv, TypeOK
<1>1. CASE Start(r) \/ Fail(r)
      BY <1>0, <1>1
      DEF Start, Fail, RussianEmailRequired, StartSendCode, StartCheckCode, StartRefresh,
          StartLogout, Begin, Forget, Refuse
<1>2. CASE \/ LastSendAt(r) \/ CountByEmail(r) \/ CountByIP(r) \/ UpsertOTP(r)
           \/ SendOTP(r) \/ InsertSendEvent(r)
      BY <1>0, <1>2
      DEF LastSendAt, CountByEmail, CountByIP, UpsertOTP, SendOTP, InsertSendEvent, Goto,
          Forget, Refuse
<1>3. CASE \/ OtpByEmail(r) \/ ExpireOTP(r) \/ IncrementOTPAttempts(r) \/ LockOut(r)
           \/ ConsumeOTP(r) \/ UserByCanonicalEmail(r) \/ CreateUser(r)
      BY <1>0, <1>3
      DEF OtpByEmail, ExpireOTP, IncrementOTPAttempts, LockOut, ConsumeOTP,
          UserByCanonicalEmail, CreateUser, Goto, Refuse
<1>4. CASE \/ RevokeSessions(r) \/ LockSessions(r) \/ SessionByHash(r) \/ UserByID(r)
           \/ RevokeOld(r) \/ InsertSession(r) \/ Reply(r)
      BY <1>0, <1>4
      DEF RevokeSessions, LockSessions, SessionByHash, UserByID, RevokeOld, InsertSession,
          Reply, Goto, Refuse
<1> QED
    BY <1>1, <1>2, <1>3, <1>4 DEF Statement

(* What a refusal or an end leaves in the slot.                            *)
LEMMA RefusedSlot ==
    ASSUME TypeInv, NEW r \in Requests, NEW out, Refuse(r, out) \/ Forget(r)
    PROVE  req'[r].pc = "done" /\ req'[r].user = None
<1> DEFINE q == [NoRequest EXCEPT !.out = "UNIQUE_VIOLATION", !.known = req[r].known]
<1>0. req \in [Requests -> Request]
      BY DEF TypeInv, TypeOK
<1>1. req'[r] = NoRequest \/ req'[r] = q
      BY <1>0 DEF Refuse, Forget
<1>2. q.pc = "done" /\ q.user = None /\ NoRequest.pc = "done" /\ NoRequest.user = None
      BY DEF NoRequest
<1> QED
    BY <1>1, <1>2

(* Where no send is checked and no try is counted: failures, the start of  *)
(* any request that does not send, accounts and sessions.                  *)
Counting == SendStmts \cup {"incrementOTPAttempts", "lockOut"}

LEMMA OutOfTheWay ==
    ASSUME TypeInv, NEW r \in Requests,
           \/ Fail(r) \/ (Start(r) /\ ~StartSendCode(r))
           \/ UserByCanonicalEmail(r) \/ CreateUser(r)
           \/ RevokeSessions(r) \/ LockSessions(r) \/ SessionByHash(r) \/ UserByID(r)
           \/ RevokeOld(r) \/ InsertSession(r) \/ Reply(r)
    PROVE  /\ events' = events /\ otp' = otp /\ wrong' = wrong
           /\ req'[r].pc \notin Counting /\ (~Fail(r) => kept' = kept)
<1>0. req \in [Requests -> Request] /\ req[r] \in Request
      BY DEF TypeInv, TypeOK
<1>a. ASSUME NEW out, Refuse(r, out) \/ Forget(r) PROVE req'[r].pc \notin Counting
      BY <1>a, RefusedSlot DEF Counting, SendStmts
<1>b. ASSUME NEW stmt, Goto(r, stmt), stmt \notin Counting PROVE req'[r].pc \notin Counting
      BY <1>0, <1>b DEF Goto, Request
<1>1. CASE Fail(r) \/ (Start(r) /\ ~StartSendCode(r))
  <2>1. CASE Fail(r) \/ RussianEmailRequired(r)
        BY <1>a, <2>1 DEF Fail, RussianEmailRequired, tables, history
  <2>2. CASE StartCheckCode(r)
    <3>1. PICK e \in Emails, code \in Codes \cup {None} :
             Begin(r, [NoRequest EXCEPT !.op = "CheckCode", !.email = e, !.code = code,
               !.start = now, !.pc = "otpByEmail", !.first = otp[e].code,
               !.known = users[e] # None,
               !.live = code # None /\ otp[e].code = code /\ now =< otp[e].expires,
               !.prior = UNION {ActiveSessions(u) : u \in AccountOf(Canon[e])}])
          BY <2>2 DEF StartCheckCode, TypeInv, TypeOK
    <3> DEFINE live == code # None /\ otp[e].code = code /\ now =< otp[e].expires
               prior == UNION {ActiveSessions(u) : u \in AccountOf(Canon[e])}
               known == users[e] # None
               q == [NoRequest EXCEPT !.op = "CheckCode", !.email = e, !.code = code,
                       !.start = now, !.pc = "otpByEmail", !.first = otp[e].code,
                       !.known = known, !.live = live, !.prior = prior]
    <3>2. req' = [req EXCEPT ![r] = q] /\ UNCHANGED <<events, otp, history>>
          BY <3>1 DEF Begin, tables, history
    <3> HIDE DEF live, prior, known
    <3>3. q.pc = "otpByEmail"
          BY DEF NoRequest
    <3> QED
        BY <1>0, <3>2, <3>3 DEF Counting, SendStmts, history
  <2>3. CASE StartRefresh(r)
    <3>1. PICK token, live :
             Begin(r, [NoRequest EXCEPT !.op = "Refresh", !.token = token, !.start = now,
                         !.pc = "sessionByHash", !.live = live, !.prior = {token}])
          BY <2>3 DEF StartRefresh
    <3> QED
        BY <1>0, <3>1 DEF Begin, NoRequest, Counting, SendStmts, tables, history
  <2>4. CASE StartLogout(r)
    <3>1. PICK user, prior :
             Begin(r, [NoRequest EXCEPT !.op = "Logout", !.user = user, !.start = now,
                         !.pc = "revokeSessions", !.prior = prior])
          BY <2>4 DEF StartLogout
    <3> QED
        BY <1>0, <3>1 DEF Begin, NoRequest, Counting, SendStmts, tables, history
  <2> QED
      BY <1>1, <2>1, <2>2, <2>3, <2>4 DEF Start
<1>2. CASE UserByCanonicalEmail(r) \/ CreateUser(r)
  <2>1. ASSUME NEW u, req' = [req EXCEPT ![r] = [@ EXCEPT !.pc = "revokeSessions", !.user = u]]
        PROVE  req'[r].pc \notin Counting
        BY <1>0, <2>1 DEF Request, Counting, SendStmts
  <2>2. "createUser" \notin Counting
        BY DEF Counting, SendStmts
  <2> QED
      BY <1>2, <1>a, <1>b, <2>1, <2>2 DEF UserByCanonicalEmail, CreateUser, tables, history
<1>3. CASE \/ RevokeSessions(r) \/ LockSessions(r) \/ SessionByHash(r) \/ UserByID(r)
           \/ RevokeOld(r) \/ InsertSession(r) \/ Reply(r)
  <2>0. ASSUME NEW pc, NEW u, NEW ts, pc \notin Counting,
               \/ req' = [req EXCEPT ![r] = [@ EXCEPT !.pc = pc, !.targets = ts]]
               \/ req' = [req EXCEPT ![r] = [@ EXCEPT !.pc = pc, !.user = u]]
        PROVE  req'[r].pc \notin Counting
    <3>1. \/ req'[r] = [req[r] EXCEPT !.pc = pc, !.targets = ts]
          \/ req'[r] = [req[r] EXCEPT !.pc = pc, !.user = u]
          BY <1>0, <2>0
    <3>2. req'[r].pc = pc
          BY <1>0, <3>1 DEF Request
    <3> QED
        BY <2>0, <3>2
  <2>n. {"lockSessions", "revokeOld", "insertSession", "reply"} \cap Counting = {}
        BY DEF Counting, SendStmts
  <2>1. CASE RevokeSessions(r) \/ UserByID(r) \/ RevokeOld(r)
        BY <2>0, <2>1, <2>n DEF RevokeSessions, UserByID, RevokeOld, tables, history
  <2>2. CASE LockSessions(r)
        BY <2>0, <2>2, <2>n DEF LockSessions, history
  <2>4. CASE InsertSession(r)
    <3>1. PICK t : req' = [req EXCEPT ![r] = [@ EXCEPT !.pc = "reply", !.targets = {},
                                                       !.own = t]]
          BY <2>4 DEF InsertSession
    <3> QED
        BY <1>0, <2>4, <3>1 DEF InsertSession, Request, Counting, SendStmts, history
  <2>5. CASE Reply(r)
    <3> DEFINE q == [NoRequest EXCEPT !.out = "OK", !.op = req[r].op,
                                      !.live = req[r].live, !.prior = req[r].prior]
    <3>1. req'[r] = q
          BY <1>0, <2>5 DEF Reply
    <3>2. q.pc = "done"
          BY DEF NoRequest
    <3> QED
        BY <2>5, <3>1, <3>2 DEF Reply, Counting, SendStmts, tables, history
  <2>3. CASE SessionByHash(r)
    <3>1. "userByID" \notin Counting
          BY DEF Counting, SendStmts
    <3> QED
        BY <1>a, <1>b, <2>3, <3>1 DEF SessionByHash, tables, history
  <2> QED
      BY <1>3, <2>1, <2>2, <2>3, <2>4, <2>5
<1> QED
    BY <1>1, <1>2, <1>3

LEMMA NotSending ==
    ASSUME TypeInv, NEW r \in Requests,
           \/ OtpByEmail(r) \/ ExpireOTP(r) \/ IncrementOTPAttempts(r) \/ LockOut(r)
           \/ ConsumeOTP(r)
    PROVE  events' = events /\ req'[r].pc \notin SendStmts
<1>0. req \in [Requests -> Request] /\ req[r] \in Request
      BY DEF TypeInv, TypeOK
<1>a. ASSUME NEW out, Refuse(r, out) PROVE req'[r].pc \notin SendStmts
      BY <1>a, RefusedSlot DEF SendStmts
<1>b. ASSUME NEW stmt, Goto(r, stmt), stmt \notin SendStmts PROVE req'[r].pc \notin SendStmts
      BY <1>0, <1>b DEF Goto, Request
<1> DEFINE q == [req[r] EXCEPT !.pc = "incrementOTPAttempts",
                               !.code = otp[req[r].email].code]
<1>1. q.pc \notin SendStmts
      BY <1>0 DEF Request, SendStmts
<1>2. req' = [req EXCEPT ![r] = q] => req'[r].pc \notin SendStmts
      BY <1>0, <1>1
<1>3. {"expireOTP", "consumeOTP", "lockOut", "userByCanonicalEmail"} \cap SendStmts = {}
      BY DEF SendStmts
<1> QED
    BY <1>a, <1>b, <1>2, <1>3
    DEF OtpByEmail, ExpireOTP, IncrementOTPAttempts, LockOut, ConsumeOTP, tables

-----------------------------------------------------------------------------
(* The limits.                                                             *)

(* The sends recorded before t: no statement at t or later adds to them.   *)
Past(t) == {u \in events : u.at < t}

CoolBefore(past, e, t) == Recent({u \in past : u.email = e}, ResendAfter, t) = {}
FewMails(past, e, t) ==
    Cardinality(Recent({u \in past : u.email = e}, EmailWindow, t)) < MaxPerEmail
FewFromNet(past, ip, t) ==
    Cardinality(Recent({u \in past : u.ip = ip}, IPWindow, t)) < MaxPerIP

(* What the checks that a send has behind it have found.                   *)
Cooled == SendStmts \ {"lastSendAt"}
MailsCounted == Cooled \ {"countByEmail"}
NetCounted == MailsCounted \ {"countByIP"}
Cleared(q, past) ==
    /\ q.pc \in Cooled => CoolBefore(past, q.email, q.start)
    /\ q.pc \in MailsCounted => FewMails(past, q.email, q.start)
    /\ q.pc \in NetCounted => FewFromNet(past, q.ip, q.start)

Within(q) == q.pc \in SendStmts => q.start =< now /\ Cleared(q, Past(q.start))

Recorded(v) ==
    /\ v.at =< now /\ v.start =< now
    /\ CoolBefore(Past(v.start), v.email, v.start)
    /\ FewMails(Past(v.start), v.email, v.start)
    /\ FewFromNet(Past(v.start), v.ip, v.start)

LimitRest ==
    /\ IsFiniteSet(events)
    /\ \A r \in Requests : Within(req[r])
    /\ \A v \in events : Recorded(v)
LimitInv == TypeInv /\ LimitRest

(* The past stays as it is.                                                *)
LEMMA PastStays ==
    ASSUME LimitInv, NEW t \in Nat, t =< now,
           events' = events \/ \E v : v.at = now /\ events' = events \cup {v}
    PROVE  Past(t)' = Past(t)
<1>0. now \in Nat
      BY DEF LimitInv, TypeInv, TypeOK
<1>1. ASSUME NEW v, v.at = now, events' = events \cup {v}
      PROVE  {u \in events' : u.at < t} = {u \in events : u.at < t}
      BY <1>0, <1>1
<1> QED
    BY <1>1 DEF Past

LEMMA RecordedStays ==
    ASSUME LimitInv, NEW v \in events, now' \in Nat, now =< now',
           events' = events \/ \E u : u.at = now /\ events' = events \cup {u}
    PROVE  Recorded(v)'
<1>0. v.start \in Nat /\ v.at \in Nat /\ now \in Nat /\ Recorded(v)
      BY DEF LimitInv, LimitRest, TypeInv, TypeOK, Event
<1>1. v.at =< now /\ v.start =< now
      BY <1>0 DEF Recorded
<1>2. Past(v.start)' = Past(v.start)
      BY <1>0, <1>1, PastStays
<1>3. v.at =< now' /\ v.start =< now'
      BY <1>0, <1>1
<1> QED
    BY <1>0, <1>2, <1>3 DEF Recorded, CoolBefore, FewMails, FewFromNet, Recent

LEMMA WithinStays ==
    ASSUME LimitInv, NEW r \in Requests, req'[r] = req[r], now' \in Nat, now =< now',
           events' = events \/ \E u : u.at = now /\ events' = events \cup {u}
    PROVE  Within(req[r])'
<1>0. req[r].start \in Nat /\ now \in Nat /\ Within(req[r])
      BY SlotType DEF LimitInv, LimitRest, TypeInv, TypeOK, Request
<1>1. CASE req[r].pc \notin SendStmts
      BY <1>1 DEF Within
<1>2. CASE req[r].pc \in SendStmts
  <2>1. req[r].start =< now
        BY <1>0, <1>2 DEF Within
  <2>2. Past(req[r].start)' = Past(req[r].start)
    <3>1. \A t \in Nat : t =< now => {u \in events' : u.at < t} = {u \in events : u.at < t}
          BY PastStays DEF Past
    <3> QED
        BY <1>0, <2>1, <3>1 DEF Past
  <2>3. req'[r].start =< now'
        BY <1>0, <2>1
  <2> QED
      BY <1>0, <1>2, <2>2, <2>3
      DEF Within, Cleared, CoolBefore, FewMails, FewFromNet, Recent
<1> QED
    BY <1>1, <1>2

(* A statement that records nothing and whose own request is still within. *)
LEMMA LimitSlot ==
    ASSUME LimitInv, NEW r \in Requests, Start(r) \/ Fail(r) \/ Statement(r),
           events' = events, Within(req[r])'
    PROVE  LimitRest'
<1>0. now' = now /\ now \in Nat /\ \A s \in Requests : s # r => req'[s] = req[s]
      BY OneMoves DEF LimitInv, TypeInv, TypeOK
<1>1. \A s \in Requests : Within(req[s])'
      BY <1>0, WithinStays
<1>2. \A v \in events' : Recorded(v)'
      BY <1>0, RecordedStays
<1> QED
    BY <1>1, <1>2 DEF LimitInv, LimitRest

(* What each check has counted is what was there when the send began.      *)
LEMMA LimitCheck ==
    ASSUME LimitInv, NEW r \in Requests,
           LastSendAt(r) \/ CountByEmail(r) \/ CountByIP(r)
    PROVE  events' = events /\ Within(req[r])'
<1>0. /\ req \in [Requests -> Request] /\ req[r] \in Request /\ Within(req[r])
      /\ IsFiniteSet(events) /\ now' = now /\ events' = events
      BY DEF LimitInv, LimitRest, TypeInv, TypeOK, LastSendAt, CountByEmail, CountByIP, tables
<1>1. CASE \E out : Refuse(r, out)
  <2>1. req'[r].pc = "done"
        BY <1>1, RefusedSlot DEF LimitInv
  <2> QED
      BY <1>0, <2>1 DEF Within, SendStmts
<1> DEFINE e == req[r].email
           ip == req[r].ip
           t == req[r].start
           past == Past(t)
<1>2. ASSUME NEW stmt, Goto(r, stmt)
      PROVE  /\ req'[r].pc = stmt /\ req'[r].email = e /\ req'[r].ip = ip /\ req'[r].start = t
             /\ Past(req'[r].start) = past /\ Past(req[r].start)' = past
  <2>1. req'[r] = [req[r] EXCEPT !.pc = stmt]
        BY <1>0, <1>2 DEF Goto
  <2>2. req'[r].pc = stmt /\ req'[r].email = e /\ req'[r].ip = ip /\ req'[r].start = t
        BY <1>0, <2>1 DEF Request
  <2> QED
      BY <1>0, <2>2 DEF Past
<1>3. req[r].pc \in SendStmts /\ t =< now /\ Cleared(req[r], past)
      BY <1>0 DEF LastSendAt, CountByEmail, CountByIP, At, SendStmts, Within
<1>4. CASE LastSendAt(r) /\ Goto(r, "countByEmail")
  <2>1. ~CoolingDown(r)
    <3>1. CASE CoolingDown(r)
      <4>1. req'[r].pc = "done"
            BY <1>4, <3>1, RefusedSlot DEF LastSendAt, LimitInv
      <4> QED
          BY <1>2, <1>4, <4>1
    <3> QED
        BY <3>1
  <2>2. CoolBefore(past, e, t)
    <3>1. \A v \in events : v.email = e => ~(t < v.at + ResendAfter)
          BY <2>1 DEF CoolingDown, SentTo
    <3>2. t \in Nat /\ ResendAfter \in Nat /\ \A v \in events : v.at \in Nat
          BY <1>0, AuthAssumption DEF Request, LimitInv, TypeInv, TypeOK, Event
    <3> QED
        BY <3>1, <3>2 DEF CoolBefore, Recent, Past
  <2> QED
      BY <1>0, <1>2, <1>3, <1>4, <2>2
      DEF Within, Cleared, Cooled, MailsCounted, NetCounted, SendStmts
<1>5. CASE CountByEmail(r) /\ Goto(r, "countByIP")
  <2> DEFINE all == Recent(SentTo(e), EmailWindow, t)
             some == Recent({u \in past : u.email = e}, EmailWindow, t)
  <2>1. ~(Cardinality(all) >= MaxPerEmail)
    <3>1. CASE Cardinality(all) >= MaxPerEmail
      <4>1. req'[r].pc = "done"
            BY <1>5, <3>1, RefusedSlot DEF CountByEmail, LimitInv
      <4> QED
          BY <1>2, <1>5, <4>1
    <3> QED
        BY <3>1
  <2>2. some \subseteq all /\ all \subseteq events
        BY DEF Recent, SentTo, Past
  <2>3. /\ Cardinality(some) \in Nat /\ Cardinality(all) \in Nat
        /\ Cardinality(some) =< Cardinality(all)
        BY <1>0, <2>2, FS_Subset, FS_CardinalityType
  <2>4. FewMails(past, e, t)
        BY <2>1, <2>3, AuthAssumption DEF FewMails
  <2> QED
      BY <1>0, <1>2, <1>3, <1>5, <2>4
      DEF Within, Cleared, Cooled, MailsCounted, NetCounted, SendStmts, CountByEmail, At
<1>6. CASE CountByIP(r) /\ Goto(r, "upsertOTP")
  <2> DEFINE all == Recent(SentFrom(ip), IPWindow, t)
             some == Recent({u \in past : u.ip = ip}, IPWindow, t)
  <2>1. ~(Cardinality(all) >= MaxPerIP)
    <3>1. CASE Cardinality(all) >= MaxPerIP
      <4>1. req'[r].pc = "done"
            BY <1>6, <3>1, RefusedSlot DEF CountByIP, LimitInv
      <4> QED
          BY <1>2, <1>6, <4>1
    <3> QED
        BY <3>1
  <2>2. some \subseteq all /\ all \subseteq events
        BY DEF Recent, SentFrom, Past
  <2>3. /\ Cardinality(some) \in Nat /\ Cardinality(all) \in Nat
        /\ Cardinality(some) =< Cardinality(all)
        BY <1>0, <2>2, FS_Subset, FS_CardinalityType
  <2>4. FewFromNet(past, ip, t)
        BY <2>1, <2>3, AuthAssumption DEF FewFromNet
  <2> QED
      BY <1>0, <1>2, <1>3, <1>6, <2>4
      DEF Within, Cleared, Cooled, MailsCounted, NetCounted, SendStmts, CountByIP, At
<1> QED
    BY <1>0, <1>1, <1>4, <1>5, <1>6 DEF LastSendAt, CountByEmail, CountByIP

LEMMA LimitSend ==
    ASSUME LimitInv, NEW r \in Requests, UpsertOTP(r) \/ SendOTP(r)
    PROVE  events' = events /\ Within(req[r])'
<1>0. /\ req \in [Requests -> Request] /\ req[r] \in Request /\ Within(req[r])
      /\ now' = now /\ events' = events
      BY DEF LimitInv, LimitRest, TypeInv, TypeOK, UpsertOTP, SendOTP, tables
<1>1. /\ req'[r].pc \in NetCounted /\ req'[r].email = req[r].email /\ req'[r].ip = req[r].ip
      /\ req'[r].start = req[r].start
  <2>1. CASE UpsertOTP(r)
    <3>1. PICK c \in Codes : req' = [req EXCEPT ![r] = [@ EXCEPT !.pc = "sendOTP", !.code = c]]
          BY <2>1 DEF UpsertOTP
    <3> DEFINE q == [req[r] EXCEPT !.pc = "sendOTP", !.code = c]
    <3>2. req'[r] = q
          BY <1>0, <3>1
    <3>3. /\ q.pc = "sendOTP" /\ q.email = req[r].email /\ q.ip = req[r].ip
          /\ q.start = req[r].start
          BY <1>0 DEF Request
    <3> QED
        BY <3>2, <3>3 DEF NetCounted, MailsCounted, Cooled, SendStmts
  <2>2. CASE SendOTP(r)
    <3> DEFINE q == [req[r] EXCEPT !.pc = "insertSendEvent"]
    <3>2. req'[r] = q
          BY <1>0, <2>2 DEF SendOTP, Goto
    <3>3. /\ q.pc = "insertSendEvent" /\ q.email = req[r].email /\ q.ip = req[r].ip
          /\ q.start = req[r].start
          BY <1>0 DEF Request
    <3> QED
        BY <3>2, <3>3 DEF NetCounted, MailsCounted, Cooled, SendStmts
  <2> QED
      BY <2>1, <2>2
<1>2. req[r].pc \in NetCounted
      BY DEF UpsertOTP, SendOTP, At, NetCounted, MailsCounted, Cooled, SendStmts
<1>3. Past(req[r].start)' = Past(req[r].start) /\ Past(req'[r].start) = Past(req[r].start)
      BY <1>0, <1>1 DEF Past
<1> QED
    BY <1>0, <1>1, <1>2, <1>3 DEF Within, Cleared, NetCounted, MailsCounted, Cooled

LEMMA LimitRecord ==
    ASSUME LimitInv, NEW r \in Requests, InsertSendEvent(r)
    PROVE  LimitRest'
<1>v. PICK v : v = [email |-> req[r].email, ip |-> req[r].ip, at |-> now,
                    code |-> req[r].code, start |-> req[r].start]
      OBVIOUS
<1>0. /\ req[r] \in Request /\ Within(req[r]) /\ IsFiniteSet(events) /\ now' = now
      /\ now \in Nat /\ events' = events \cup {v} /\ Forget(r)
      BY <1>v, SlotType DEF LimitInv, LimitRest, TypeInv, TypeOK, InsertSendEvent
<1>1. v.at = now /\ v.start = req[r].start /\ v.email = req[r].email /\ v.ip = req[r].ip
      BY <1>v
<1>a. /\ now =< now' /\ now' \in Nat
      /\ events' = events \/ \E u : u.at = now /\ events' = events \cup {u}
      BY <1>0, <1>1
<1>2. Within(req[r])'
  <2>1. req'[r].pc = "done"
        BY <1>0, RefusedSlot DEF LimitInv
  <2> QED
      BY <2>1 DEF Within, SendStmts
<1>3. \A s \in Requests : Within(req[s])'
  <2>1. \A s \in Requests : s # r => req'[s] = req[s]
        BY OneMoves DEF Statement, LimitInv, InsertSendEvent, Forget, TypeInv, TypeOK
  <2> QED
      BY <1>2, <1>a, <2>1, WithinStays
<1>4. Recorded(v)'
  <2>1. req[r].pc \in NetCounted
        BY DEF InsertSendEvent, At, NetCounted, MailsCounted, Cooled, SendStmts
  <2>2. req[r].start =< now /\ Cleared(req[r], Past(req[r].start)) /\ req[r].start \in Nat
        BY <1>0, <2>1 DEF Within, NetCounted, MailsCounted, Cooled, Request
  <2>4. \A t \in Nat : t =< now => {u \in events' : u.at < t} = {u \in events : u.at < t}
        BY <1>a, PastStays DEF Past
  <2>5. Past(v.start)' = Past(v.start)
        BY <1>1, <2>2, <2>4 DEF Past
  <2> QED
      BY <1>0, <1>1, <2>1, <2>2, <2>5
      DEF Recorded, Cleared, CoolBefore, FewMails, FewFromNet, Recent, NetCounted,
          MailsCounted, Cooled
<1>5. IsFiniteSet(events')
      BY <1>0, FS_AddElement
<1>6. \A u \in events : Recorded(u)'
      BY <1>a, RecordedStays
<1> QED
    BY <1>0, <1>3, <1>4, <1>5, <1>6 DEF LimitRest

LEMMA LimitInit == Init => LimitInv
<1> SUFFICES ASSUME Init PROVE LimitRest
    BY InitType DEF LimitInv
<1>1. PICK ip \in IPs :
         events = {[email |-> e, ip |-> ip, at |-> 0, code |-> Sent[e], start |-> 0] :
                      e \in {e \in Emails : Sent[e] # None}}
      BY DEF Init
<1>2. IsFiniteSet(events)
  <2> DEFINE Sends == {e \in Emails : Sent[e] # None}
             sent == [e \in Sends |-> [email |-> e, ip |-> ip, at |-> 0, code |-> Sent[e],
                                       start |-> 0]]
  <2>1. IsFiniteSet(Sends)
        BY AuthAssumption, FS_Subset
  <2>2. sent \in Surjection(Sends, events)
        BY <1>1 DEF Surjection
  <2> QED
      BY <2>1, <2>2, FS_Surjection
<1>3. \A v \in events : v.at = 0 /\ v.start = 0
      BY <1>1
<1>4. Past(0) = {} /\ now = 0
      BY <1>3 DEF Past, Init
<1>5. \A v \in events : Recorded(v)
  <2>1. \A e : Recent({u \in Past(0) : u.email = e}, ResendAfter, 0) = {}
        BY <1>4 DEF Recent
  <2>2. \A e : Recent({u \in Past(0) : u.email = e}, EmailWindow, 0) = {}
        BY <1>4 DEF Recent
  <2>3. \A i : Recent({u \in Past(0) : u.ip = i}, IPWindow, 0) = {}
        BY <1>4 DEF Recent
  <2>4. Cardinality({}) = 0 /\ 0 < MaxPerEmail /\ 0 < MaxPerIP
        BY AuthAssumption, FS_EmptySet
  <2>5. \A e : CoolBefore(Past(0), e, 0) /\ FewMails(Past(0), e, 0)
        BY <2>1, <2>2, <2>4 DEF CoolBefore, FewMails
  <2>6. \A i : FewFromNet(Past(0), i, 0)
        BY <2>3, <2>4 DEF FewFromNet
  <2>7. 0 =< 0
        OBVIOUS
  <2> QED
      BY <1>3, <1>4, <2>5, <2>6, <2>7, Zenon DEF Recorded
<1>6. \A r \in Requests : Within(req[r])
      BY DEF Init, Within, NoRequest, SendStmts
<1> QED
    BY <1>2, <1>5, <1>6 DEF LimitRest

LEMMA NextLimit == LimitInv /\ [Next]_vars => LimitInv'
<1> SUFFICES ASSUME LimitInv, [Next]_vars PROVE LimitRest'
    BY NextType DEF LimitInv
<1>0. now \in Nat
      BY DEF LimitInv, TypeInv, TypeOK
<1>1. CASE Tick \/ UNCHANGED vars
  <2>1. events' = events /\ req' = req /\ now =< now' /\ now' \in Nat
        BY <1>0, <1>1 DEF Tick, vars, tables
  <2> QED
      BY <2>1, WithinStays, RecordedStays DEF LimitInv, LimitRest
<1>2. ASSUME NEW r \in Requests, StartSendCode(r) PROVE LimitRest'
  <2>1. PICK e \in Emails, ip \in IPs :
          Begin(r, [NoRequest EXCEPT !.op = "SendCode", !.email = e, !.ip = ip,
                                     !.start = now, !.pc = "lastSendAt"])
        BY <1>2 DEF StartSendCode
  <2>2. req'[r].pc = "lastSendAt" /\ req'[r].start = now /\ events' = events /\ now' = now
        BY <2>1 DEF Begin, NoRequest, tables, LimitInv, TypeInv, TypeOK
  <2>3. Within(req[r])'
        BY <1>0, <2>2 DEF Within, Cleared, Cooled, MailsCounted, NetCounted
  <2> QED
      BY <1>2, <2>2, <2>3, LimitSlot DEF Start
<1>3. ASSUME NEW r \in Requests, Start(r) \/ Fail(r) \/ Statement(r), ~StartSendCode(r)
      PROVE  LimitRest'
  <2>1. CASE LastSendAt(r) \/ CountByEmail(r) \/ CountByIP(r)
        BY <1>3, <2>1, LimitCheck, LimitSlot
  <2>2. CASE UpsertOTP(r) \/ SendOTP(r)
        BY <1>3, <2>2, LimitSend, LimitSlot
  <2>3. CASE InsertSendEvent(r)
        BY <2>3, LimitRecord
  <2>4. CASE \/ Fail(r) \/ (Start(r) /\ ~StartSendCode(r))
             \/ OtpByEmail(r) \/ ExpireOTP(r) \/ IncrementOTPAttempts(r) \/ LockOut(r)
             \/ ConsumeOTP(r) \/ UserByCanonicalEmail(r) \/ CreateUser(r)
             \/ RevokeSessions(r) \/ LockSessions(r) \/ SessionByHash(r) \/ UserByID(r)
             \/ RevokeOld(r) \/ InsertSession(r) \/ Reply(r)
    <3>1. events' = events /\ req'[r].pc \notin SendStmts
          BY <2>4, NotSending, OutOfTheWay DEF LimitInv, Counting
    <3>2. Within(req[r])'
          BY <3>1 DEF Within
    <3> QED
        BY <1>3, <3>1, <3>2, LimitSlot
  <2> QED
      BY <1>3, <2>1, <2>2, <2>3, <2>4 DEF Statement
<1> QED
    BY <1>1, <1>2, <1>3 DEF Next

(* What is sent keeps to the limits: however many sends are under way, of  *)
(* those recorded before a send began none is within its cooldown, and     *)
(* fewer than the maximum are within each window.                          *)
THEOREM SendsAreLimited == Spec => []LimitsKept
<1>1. LimitInv => LimitsKept
  <2> SUFFICES ASSUME LimitInv, NEW v \in events
               PROVE  /\ CoolBefore(Past(v.start), v.email, v.start)
                      /\ FewMails(Past(v.start), v.email, v.start)
                      /\ FewFromNet(Past(v.start), v.ip, v.start)
      BY DEF LimitsKept, CoolBefore, FewMails, FewFromNet, Past
  <2> QED
      BY DEF LimitInv, LimitRest, Recorded
<1> QED
    BY <1>1, LimitInit, NextLimit, PTL DEF Spec

-----------------------------------------------------------------------------
(* The guesses.                                                            *)

(* Requests that have counted too many wrong tries at the row of e and are *)
(* to delete it, and requests that are to count one at c.                  *)
LockersOf(q, e) == {r \in Requests : q[r].pc = "lockOut" /\ q[r].email = e}
PendingOf(q, c) == {r \in Requests : q[r].pc = "incrementOTPAttempts" /\ q[r].code = c}

(* A code is stored once, and who is to count a wrong try at a stored code *)
(* has compared it in the row it is stored in.                             *)
Homed(o, q) ==
    /\ \A d, e \in Emails : o[d].code = o[e].code /\ o[d].code # None => d = e
    /\ \A r \in Requests, e \in Emails :
          q[r].pc = "incrementOTPAttempts" /\ o[e].code = q[r].code => q[r].email = e

(* A stored code has no more tries against it than its row has counted,    *)
(* and from MaxAttempts on each was counted by a request that is to delete *)
(* the row.                                                                *)
RowCounts(o, w, q, e) ==
    /\ w[o[e].code] =< o[e].attempts
    /\ o[e].attempts + 1 =< MaxAttempts + Cardinality(LockersOf(q, e))
Counted(o, w, k, q) ==
    \A e \in Emails : o[e].code \in Codes \ k => RowCounts(o, w, q, e)

TriesBounded(w, q, c) ==
    w[c] + Cardinality(PendingOf(q, c)) + 1 =< MaxAttempts + Cardinality(Requests)

GuessRest ==
    /\ Homed(otp, req)
    /\ Counted(otp, wrong, kept, req)
    /\ \A c \in Codes \ kept : TriesBounded(wrong, req, c)
GuessInv == TypeInv /\ GuessRest

LEMMA FewRequests ==
    ASSUME NEW S \in SUBSET Requests
    PROVE  /\ IsFiniteSet(S) /\ Cardinality(S) \in Nat
           /\ Cardinality(S) =< Cardinality(Requests) /\ Cardinality(Requests) \in Nat
BY AuthAssumption, FS_Subset, FS_CardinalityType

(* Who is to delete the row does not count: together they are no more than *)
(* there are requests.                                                     *)
LEMMA StoredBounded ==
    ASSUME NEW q, NEW w \in [Codes -> Nat], NEW o \in [Emails -> OtpRow], NEW e \in Emails,
           o[e].code \in Codes, RowCounts(o, w, q, e)
    PROVE  TriesBounded(w, q, o[e].code)
<1> DEFINE L == LockersOf(q, e)
           P == PendingOf(q, o[e].code)
<1>1. L \subseteq Requests /\ P \subseteq Requests /\ L \cap P = {}
      BY DEF LockersOf, PendingOf
<1>2. Cardinality(L) \in Nat /\ Cardinality(P) \in Nat /\ IsFiniteSet(L) /\ IsFiniteSet(P)
      BY <1>1, FewRequests
<1>3. Cardinality(L \cup P) = Cardinality(L) + Cardinality(P)
      BY <1>1, <1>2, FS_Union, FS_EmptySet
<1>4. Cardinality(L \cup P) =< Cardinality(Requests) /\ Cardinality(Requests) \in Nat
      BY <1>1, FewRequests
<1>5. o[e].attempts \in Nat /\ w[o[e].code] \in Nat /\ MaxAttempts \in Nat
      BY AuthAssumption DEF OtpRow
<1>6. /\ w[o[e].code] =< o[e].attempts
      /\ o[e].attempts + 1 =< MaxAttempts + Cardinality(L)
      BY DEF RowCounts
<1> DEFINE l == Cardinality(L)
           p == Cardinality(P)
           n == Cardinality(Requests)
           a == o[e].attempts
           b == w[o[e].code]
<1>7. l \in Nat /\ p \in Nat /\ n \in Nat /\ l + p =< n /\ a \in Nat /\ b \in Nat /\ b =< a
      /\ a + 1 =< MaxAttempts + l
      BY <1>2, <1>3, <1>4, <1>5, <1>6
<1> HIDE DEF l, p, n, a, b
<1>8. b + p + 1 =< MaxAttempts + n
      BY <1>5, <1>7
<1> QED
    BY <1>8 DEF TriesBounded, b, p, n

(* What the slot of a step does to those sets.                             *)
LEMMA OthersStay ==
    ASSUME NEW r \in Requests, \A s \in Requests : s # r => req'[s] = req[s]
    PROVE  /\ \A e : req'[r].pc # "lockOut" => LockersOf(req, e)' = LockersOf(req, e) \ {r}
           /\ \A e : req'[r].pc = "lockOut" /\ req'[r].email = e
                        => LockersOf(req, e)' = LockersOf(req, e) \cup {r}
           /\ \A c : req'[r].pc # "incrementOTPAttempts"
                        => PendingOf(req, c)' = PendingOf(req, c) \ {r}
           /\ \A c : req'[r].pc = "incrementOTPAttempts" /\ req'[r].code # c
                        => PendingOf(req, c)' = PendingOf(req, c) \ {r}
BY DEF LockersOf, PendingOf

(* Where no code is stored, the bound is kept as long as nothing is added. *)
LEMMA BoundStays ==
    ASSUME GuessInv, TypeInv', NEW r \in Requests,
           \A s \in Requests : s # r => req'[s] = req[s],
           kept \subseteq kept',
           NEW c \in Codes \ kept',
           \/ wrong'[c] = wrong[c]
           \/ wrong'[c] = wrong[c] + 1 /\ r \in PendingOf(req, c),
           req'[r].pc = "incrementOTPAttempts" => req'[r].code # c,
           req[r].pc = "incrementOTPAttempts" => req'[r].pc # "incrementOTPAttempts"
    PROVE  TriesBounded(wrong', req', c)
<1> DEFINE P == PendingOf(req, c)
           Q == PendingOf(req', c)
<1>1. Q = P \ {r}
      BY OthersStay
<1>2. IsFiniteSet(P) /\ Cardinality(P) \in Nat /\ Cardinality(Requests) \in Nat
  <2>1. P \in SUBSET Requests
        BY DEF PendingOf
  <2> QED
      BY <2>1, FewRequests
<1>3. Cardinality(Q) = IF r \in P THEN Cardinality(P) - 1 ELSE Cardinality(P)
      BY <1>1, <1>2, FS_RemoveElement
<1>4. wrong[c] \in Nat /\ MaxAttempts \in Nat
      BY AuthAssumption DEF GuessInv, TypeInv, TypeOK
<1>5. wrong[c] + Cardinality(P) + 1 =< MaxAttempts + Cardinality(Requests)
      BY DEF GuessInv, GuessRest, TriesBounded
<1>6. wrong'[c] + Cardinality(Q) =< wrong[c] + Cardinality(P)
      BY <1>2, <1>3, <1>4
<1>7. Cardinality(Q) \in Nat /\ wrong'[c] \in Nat
      BY <1>4, FewRequests DEF PendingOf
<1> QED
    BY <1>2, <1>4, <1>5, <1>6, <1>7 DEF TriesBounded

(* A step that counts nothing and leaves the codes alone.                  *)
LEMMA GuessQuiet ==
    ASSUME GuessInv, TypeInv', NEW r \in Requests,
           \A s \in Requests : s # r => req'[s] = req[s],
           otp' = otp, wrong' = wrong, kept \subseteq kept',
           req'[r].pc \notin {"incrementOTPAttempts", "lockOut"},
           req[r].pc = "lockOut" => otp[req[r].email].code \in kept' \cup {None}
    PROVE  GuessRest'
<1>1. Homed(otp', req')
      BY DEF GuessInv, GuessRest, Homed
<1>2. ASSUME NEW e \in Emails, otp[e].code \in Codes \ kept' PROVE RowCounts(otp', wrong', req', e)
  <2>1. r \notin LockersOf(req, e)
        BY <1>2, AuthAssumption DEF LockersOf
  <2>2. LockersOf(req', e) = LockersOf(req, e)
        BY <2>1, OthersStay
  <2> QED
      BY <1>2, <2>2 DEF GuessInv, GuessRest, Counted, RowCounts
<1>3. \A c \in Codes \ kept' : TriesBounded(wrong', req', c)
      BY BoundStays
<1> QED
    BY <1>1, <1>2, <1>3 DEF GuessRest, Counted

(* A code is compared and was wrong: the row it was compared with is the   *)
(* one that stores it.                                                     *)
LEMMA GuessCompare ==
    ASSUME GuessInv, TypeInv', NEW r \in Requests,
           \A s \in Requests : s # r => req'[s] = req[s],
           UNCHANGED <<otp, wrong, kept>>, req[r].pc = "otpByEmail", req[r].email \in Emails,
           otp[req[r].email].code # None,
           req'[r].pc = "incrementOTPAttempts", req'[r].email = req[r].email,
           req'[r].code = otp[req[r].email].code
    PROVE  GuessRest'
<1> DEFINE e == req[r].email
<1>1. Homed(otp', req')
      BY DEF GuessInv, GuessRest, Homed
<1>2. ASSUME NEW f \in Emails, otp[f].code \in Codes \ kept PROVE RowCounts(otp', wrong', req', f)
  <2>1. LockersOf(req', f) = LockersOf(req, f)
        BY OthersStay DEF LockersOf
  <2> QED
      BY <1>2, <2>1 DEF GuessInv, GuessRest, Counted, RowCounts
<1>3. ASSUME NEW c \in Codes \ kept PROVE TriesBounded(wrong', req', c)
  <2>1. CASE c = otp[e].code
    <3>1. RowCounts(otp', wrong', req', e)
          BY <1>2, <1>3, <2>1
    <3>2. wrong' \in [Codes -> Nat] /\ otp' \in [Emails -> OtpRow]
          BY DEF TypeInv, TypeOK
    <3> QED
        BY <1>3, <2>1, <3>1, <3>2, StoredBounded
  <2>2. CASE c # otp[e].code
        BY <1>3, <2>2, BoundStays
  <2> QED
      BY <2>1, <2>2
<1> QED
    BY <1>1, <1>2, <1>3 DEF GuessRest, Counted

(* The row goes.                                                           *)
LEMMA GuessRemove ==
    ASSUME GuessInv, TypeInv', NEW r \in Requests,
           \A s \in Requests : s # r => req'[s] = req[s],
           req[r].email \in Emails, otp' = WithoutOtp(req[r].email), UNCHANGED <<wrong, kept>>,
           req'[r].pc \notin {"incrementOTPAttempts", "lockOut"}
    PROVE  GuessRest'
<1> DEFINE e == req[r].email
<1>0. \A f \in Emails : otp'[f] = IF f = e THEN NoOtp ELSE otp[f]
      BY DEF WithoutOtp, GuessInv, TypeInv, TypeOK
<1>1. Homed(otp', req')
  <2>1. \A s \in Requests : req'[s].pc = "incrementOTPAttempts" => req'[s].code # None
        BY AuthAssumption DEF TypeInv, Form
  <2> QED
      BY <1>0, <2>1 DEF GuessInv, GuessRest, Homed, NoOtp
<1>2. ASSUME NEW f \in Emails, otp'[f].code \in Codes \ kept
      PROVE  RowCounts(otp', wrong', req', f)
  <2>1. f # e /\ otp'[f] = otp[f]
        BY <1>0, <1>2, AuthAssumption DEF NoOtp
  <2>2. LockersOf(req', f) = LockersOf(req, f)
        BY <2>1, OthersStay DEF LockersOf
  <2> QED
      BY <1>2, <2>1, <2>2 DEF GuessInv, GuessRest, Counted, RowCounts
<1>3. \A c \in Codes \ kept' : TriesBounded(wrong', req', c)
      BY BoundStays
<1> QED
    BY <1>1, <1>2, <1>3 DEF GuessRest, Counted

(* A new code replaces the one before: nobody has tried it yet.            *)
LEMMA GuessSend ==
    ASSUME GuessInv, TypeInv', NEW r \in Requests,
           \A s \in Requests : s # r => req'[s] = req[s],
           req[r].email \in Emails, req[r].pc = "upsertOTP", req'[r].pc = "sendOTP",
           UNCHANGED <<wrong, kept>>, NEW c \in Codes \ Minted, NEW t,
           otp' = [otp EXCEPT ![req[r].email] = [code |-> c, expires |-> t, attempts |-> 0]]
    PROVE  GuessRest'
<1> DEFINE e == req[r].email
<1>0. /\ \A f \in Emails : f # e => otp'[f] = otp[f]
      /\ otp'[e].code = c /\ otp'[e].attempts = 0
      BY DEF GuessInv, TypeInv, TypeOK
<1>f. /\ \A f \in Emails : otp[f].code # c
      /\ \A s \in Requests : req[s].code # c
      /\ ~(wrong[c] > 0)
      BY DEF Minted
<1>1. Homed(otp', req')
      BY <1>0, <1>f DEF GuessInv, GuessRest, Homed
<1>2. ASSUME NEW f \in Emails, otp'[f].code \in Codes \ kept
      PROVE  RowCounts(otp', wrong', req', f)
  <2>1. LockersOf(req', f) = LockersOf(req, f)
        BY OthersStay DEF LockersOf
  <2>2. CASE f # e
        BY <1>0, <1>2, <2>1, <2>2 DEF GuessInv, GuessRest, Counted, RowCounts
  <2>3. CASE f = e
    <3>1. wrong[c] = 0
          BY <1>f DEF GuessInv, TypeInv, TypeOK
    <3>2. Cardinality(LockersOf(req', e)) \in Nat
          BY FewRequests DEF LockersOf
    <3>3. 0 + 1 =< MaxAttempts + Cardinality(LockersOf(req', e))
          BY <3>2, AuthAssumption
    <3> QED
        BY <1>0, <2>3, <3>1, <3>3 DEF RowCounts
  <2> QED
      BY <2>2, <2>3
<1>3. \A d \in Codes \ kept' : TriesBounded(wrong', req', d)
      BY BoundStays
<1> QED
    BY <1>1, <1>2, <1>3 DEF GuessRest, Counted

(* A wrong try is counted, against the code that was compared and in the   *)
(* row that is there: unless they are the same the code is not stored.     *)
LEMMA GuessCount ==
    ASSUME GuessInv, TypeInv', NEW r \in Requests,
           \A s \in Requests : s # r => req'[s] = req[s],
           req[r].email \in Emails, req[r].code \in Codes,
           req[r].pc = "incrementOTPAttempts", kept' = kept,
           otp' = [otp EXCEPT ![req[r].email].attempts = @ + 1],
           wrong' = [wrong EXCEPT ![req[r].code] = @ + 1],
           IF TooMany(otp[req[r].email].attempts + 1)
           THEN req'[r].pc = "lockOut" /\ req'[r].email = req[r].email
           ELSE req'[r].pc = "done"
    PROVE  GuessRest'
<1> DEFINE e == req[r].email
           c == req[r].code
<1>t. wrong \in [Codes -> Nat] /\ otp \in [Emails -> OtpRow] /\ MaxAttempts \in Nat
      BY AuthAssumption DEF GuessInv, TypeInv, TypeOK
<1>0. /\ \A f \in Emails : otp'[f].code = otp[f].code
      /\ \A f \in Emails : otp'[f].attempts = IF f = e THEN otp[f].attempts + 1
                                              ELSE otp[f].attempts
      /\ \A d \in Codes : wrong'[d] = IF d = c THEN wrong[d] + 1 ELSE wrong[d]
      BY <1>t DEF OtpRow
<1>1. Homed(otp', req')
      BY <1>0 DEF GuessInv, GuessRest, Homed
<1>2. ASSUME NEW f \in Emails, otp'[f].code \in Codes \ kept
      PROVE  RowCounts(otp', wrong', req', f)
  <2>0. /\ wrong[otp[f].code] =< otp[f].attempts
        /\ otp[f].attempts + 1 =< MaxAttempts + Cardinality(LockersOf(req, f))
        BY <1>0, <1>2 DEF GuessInv, GuessRest, Counted, RowCounts
  <2>a. otp[f].attempts \in Nat /\ wrong[otp[f].code] \in Nat
        BY <1>t, <1>0, <1>2 DEF OtpRow
  <2>b. /\ Cardinality(LockersOf(req, f)) \in Nat /\ IsFiniteSet(LockersOf(req, f))
        /\ r \notin LockersOf(req, f)
        BY FewRequests DEF LockersOf
  <2>1. CASE f # e
    <3>1. otp[f].code # c
          BY <2>1 DEF GuessInv, GuessRest, Homed
    <3>2. LockersOf(req', f) = LockersOf(req, f)
          BY <2>1 DEF LockersOf
    <3> QED
        BY <1>0, <1>2, <2>0, <2>1, <3>1, <3>2 DEF RowCounts
  <2>2. CASE f = e
    <3>1. wrong'[otp'[f].code] =< otp'[f].attempts
          BY <1>0, <1>2, <2>0, <2>2, <2>a
    <3>2. otp'[f].attempts = otp[f].attempts + 1
          BY <1>0, <2>2
    <3>3. CASE TooMany(otp[e].attempts + 1)
      <4>1. LockersOf(req', f) = LockersOf(req, f) \cup {r}
            BY <2>2, <3>3, OthersStay
      <4>2. Cardinality(LockersOf(req', f)) = Cardinality(LockersOf(req, f)) + 1
            BY <2>b, <4>1, FS_AddElement
      <4>3. otp'[f].attempts + 1 =< MaxAttempts + Cardinality(LockersOf(req', f))
            BY <1>t, <2>0, <2>a, <2>b, <3>2, <4>2
      <4> QED
          BY <3>1, <4>3 DEF RowCounts
    <3>4. CASE ~TooMany(otp[e].attempts + 1)
      <4>1. otp[f].attempts + 1 < MaxAttempts
            BY <1>t, <2>2, <2>a, <3>4 DEF TooMany
      <4>2. Cardinality(LockersOf(req', f)) \in Nat
            BY FewRequests DEF LockersOf
      <4>3. otp'[f].attempts + 1 =< MaxAttempts + Cardinality(LockersOf(req', f))
            BY <1>t, <2>a, <3>2, <4>1, <4>2
      <4> QED
          BY <3>1, <4>3 DEF RowCounts
    <3> QED
        BY <3>3, <3>4
  <2> QED
      BY <2>1, <2>2
<1>3. ASSUME NEW d \in Codes \ kept PROVE TriesBounded(wrong', req', d)
  <2>1. req'[r].pc # "incrementOTPAttempts"
        OBVIOUS
  <2>2. r \in PendingOf(req, c)
        BY DEF PendingOf
  <2>3. \/ wrong'[d] = wrong[d]
        \/ wrong'[d] = wrong[d] + 1 /\ r \in PendingOf(req, d)
        BY <1>0, <2>2
  <2>4. d \in Codes \ kept' /\ kept \subseteq kept'
        OBVIOUS
  <2> HIDE DEF c, e
  <2> QED
      BY <2>1, <2>3, <2>4, BoundStays
<1> QED
    BY <1>1, <1>2, <1>3 DEF GuessRest, Counted

LEMMA GuessInit == Init => GuessInv
<1> SUFFICES ASSUME Init PROVE GuessRest
    BY InitType DEF GuessInv
<1>1. \A r \in Requests : req[r].pc = "done"
      BY DEF Init, NoRequest
<1>2. \A e \in Emails : otp[e].code = Sent[e] /\ otp[e].attempts = 0
      BY DEF Init, NoOtp
<1>3. \A x : LockersOf(req, x) = {} /\ PendingOf(req, x) = {}
      BY <1>1 DEF LockersOf, PendingOf
<1>4. /\ Cardinality({}) = 0 /\ MaxAttempts \in Nat /\ MaxAttempts >= 1
      /\ Cardinality(Requests) \in Nat
      BY AuthAssumption, FS_EmptySet, FS_CardinalityType
<1>5. Homed(otp, req)
      BY <1>1, <1>2, AuthAssumption DEF Homed
<1>6. \A c \in Codes : wrong[c] = 0
      BY DEF Init
<1>7. Counted(otp, wrong, kept, req)
  <2>1. \A x : Cardinality(LockersOf(req, x)) = 0
        BY <1>3, <1>4
  <2>2. 0 + 1 =< MaxAttempts + 0
        BY <1>4
  <2> QED
      BY <1>2, <1>6, <2>1, <2>2 DEF Counted, RowCounts
<1>8. \A c \in Codes : TriesBounded(wrong, req, c)
      BY <1>3, <1>4, <1>6 DEF TriesBounded
<1> QED
    BY <1>5, <1>7, <1>8 DEF GuessRest

LEMMA GuessCode ==
    ASSUME GuessInv, TypeInv', NEW r \in Requests,
           \A s \in Requests : s # r => req'[s] = req[s],
           \/ OtpByEmail(r) \/ ExpireOTP(r) \/ IncrementOTPAttempts(r) \/ LockOut(r)
           \/ ConsumeOTP(r)
    PROVE  GuessRest'
<1>0. /\ req \in [Requests -> Request] /\ req[r] \in Request
      /\ \A s \in Requests : s # r => req'[s] = req[s]
      BY DEF GuessInv, TypeInv, TypeOK
<1>e. req[r].email \in Emails
      BY SlotType
      DEF GuessInv, OtpByEmail, ExpireOTP, IncrementOTPAttempts, LockOut, ConsumeOTP, At, Form,
          CheckStmts
<1>a. ASSUME NEW out, Refuse(r, out) PROVE req'[r].pc = "done"
      BY <1>a, RefusedSlot DEF GuessInv
<1>b. ASSUME NEW stmt, Goto(r, stmt) PROVE req'[r].pc = stmt /\ req'[r].email = req[r].email
      BY <1>0, <1>b DEF Goto, Request
<1>1. CASE OtpByEmail(r)
  <2> DEFINE row == otp[req[r].email]
             q == [req[r] EXCEPT !.pc = "incrementOTPAttempts", !.code = row.code]
  <2>0. req[r].pc = "otpByEmail" /\ UNCHANGED <<otp, wrong, kept>>
        BY <1>1 DEF OtpByEmail, At, tables, history
  <2>1. CASE (\E out : Refuse(r, out)) \/ Goto(r, "expireOTP") \/ Goto(r, "consumeOTP")
    <3>1. req'[r].pc \in {"done", "expireOTP", "consumeOTP"}
          BY <1>a, <1>b, <2>1
    <3> QED
        BY <1>0, <2>0, <3>1, GuessQuiet
  <2>2. CASE row.code # None /\ req' = [req EXCEPT ![r] = q]
    <3>1. /\ q.pc = "incrementOTPAttempts" /\ q.code = row.code /\ q.email = req[r].email
          BY <1>0 DEF Request
    <3>2. req'[r] = q
          BY <1>0, <2>2
    <3> QED
        BY <1>0, <1>e, <2>0, <2>2, <3>1, <3>2, GuessCompare
  <2> QED
      BY <1>1, <2>1, <2>2 DEF OtpByEmail
<1>2. CASE ExpireOTP(r) \/ ConsumeOTP(r)
  <2>1. /\ req'[r].pc \in {"done", "userByCanonicalEmail"} /\ UNCHANGED <<wrong, kept>>
        /\ req[r].pc \in {"expireOTP", "consumeOTP"}
        /\ otp' \in {WithoutOtp(req[r].email), otp}
        BY <1>2, <1>a, <1>b DEF ExpireOTP, ConsumeOTP, At, history
  <2>2. CASE otp' = otp
        BY <1>0, <2>1, <2>2, GuessQuiet
  <2>3. CASE otp' = WithoutOtp(req[r].email)
        BY <1>0, <1>e, <2>1, <2>3, GuessRemove
  <2> QED
      BY <2>1, <2>2, <2>3
<1>3. CASE LockOut(r)
  <2>1. req'[r].pc = "done" /\ wrong' = wrong /\ req[r].pc = "lockOut"
        BY <1>3, <1>a DEF LockOut, At
  <2>2. CASE otp' = WithoutOtp(req[r].email) /\ kept' = kept
        BY <1>0, <1>e, <2>1, <2>2, GuessRemove
  <2>3. CASE otp' = otp /\ kept' = kept \cup ({otp[req[r].email].code} \ {None})
        BY <1>0, <2>1, <2>3, GuessQuiet
  <2> QED
      BY <1>3, <2>2, <2>3 DEF LockOut
<1>4. CASE IncrementOTPAttempts(r)
  <2>0. req[r].pc = "incrementOTPAttempts" /\ kept' = kept /\ req[r].code \in Codes
        BY <1>4, SlotType DEF IncrementOTPAttempts, At, Form, GuessInv
  <2>1. CASE otp[req[r].email].code = None
    <3>1. req'[r].pc = "done" /\ UNCHANGED <<otp, wrong>>
          BY <1>4, <1>a, <2>1 DEF IncrementOTPAttempts
    <3> QED
        BY <1>0, <2>0, <3>1, GuessQuiet
  <2>2. CASE otp[req[r].email].code # None
    <3>1. /\ otp' = [otp EXCEPT ![req[r].email].attempts = @ + 1]
          /\ wrong' = [wrong EXCEPT ![req[r].code] = @ + 1]
          /\ IF TooMany(otp[req[r].email].attempts + 1) THEN Goto(r, "lockOut")
                                                       ELSE Refuse(r, "OTP_INVALID")
          BY <1>4, <2>2 DEF IncrementOTPAttempts
    <3>2. IF TooMany(otp[req[r].email].attempts + 1)
          THEN req'[r].pc = "lockOut" /\ req'[r].email = req[r].email
          ELSE req'[r].pc = "done"
          BY <1>a, <1>b, <3>1
    <3> QED
        BY <1>0, <1>e, <2>0, <3>1, <3>2, GuessCount
  <2> QED
      BY <2>1, <2>2
<1> QED
    BY <1>1, <1>2, <1>3, <1>4

LEMMA NextGuess == GuessInv /\ [Next]_vars => GuessInv'
<1> SUFFICES ASSUME GuessInv, [Next]_vars PROVE GuessRest'
    BY NextType DEF GuessInv
<1>t. TypeInv /\ TypeInv' /\ req \in [Requests -> Request]
      BY NextType DEF GuessInv, TypeInv, TypeOK
<1>1. CASE Tick \/ UNCHANGED vars
  <2>1. UNCHANGED <<otp, req, wrong, kept>>
        BY <1>1 DEF Tick, vars, tables, history
  <2> QED
      BY <2>1 DEF GuessInv, GuessRest
<1>2. ASSUME NEW r \in Requests, Start(r) \/ Fail(r) \/ Statement(r)
      PROVE  GuessRest'
  <2>0. /\ \A s \in Requests : s # r => req'[s] = req[s] /\ req[r] \in Request /\ Form(req[r])
        /\ Form(req[r])
        BY <1>2, <1>t, OneMoves, SlotType
  <2>a. ASSUME NEW out, Refuse(r, out) \/ Forget(r) PROVE req'[r].pc = "done"
        BY <2>a, <1>t, RefusedSlot
  <2>b. ASSUME NEW stmt, Goto(r, stmt) PROVE req'[r].pc = stmt
        BY <1>t, <2>b DEF Goto, Request
  <2>1. CASE \/ OtpByEmail(r) \/ ExpireOTP(r) \/ IncrementOTPAttempts(r) \/ LockOut(r)
             \/ ConsumeOTP(r)
        BY <1>t, <2>0, <2>1, GuessCode
  <2>2. CASE Fail(r)
    <3>1. req'[r].pc = "done" /\ UNCHANGED <<otp, wrong>> /\ kept \subseteq kept'
          BY <2>2, <2>a DEF Fail, tables
    <3>2. req[r].pc = "lockOut" => otp[req[r].email].code \in kept' \cup {None}
          BY <2>2 DEF Fail, At
    <3> QED
        BY <1>t, <2>0, <3>1, <3>2, GuessQuiet
  <2>3. CASE UpsertOTP(r)
    <3>1. PICK c \in Codes \ Minted :
            /\ otp' = [otp EXCEPT ![req[r].email] =
                         [code |-> c, expires |-> req[r].start + OtpTTL, attempts |-> 0]]
            /\ req' = [req EXCEPT ![r] = [@ EXCEPT !.pc = "sendOTP", !.code = c]]
          BY <2>3 DEF UpsertOTP
    <3>2. req'[r].pc = "sendOTP"
      <4>1. req'[r] = [req[r] EXCEPT !.pc = "sendOTP", !.code = c]
            BY <1>t, <3>1
      <4> QED
          BY <1>t, <4>1 DEF Request
    <3>3. req[r].email \in Emails /\ req[r].pc = "upsertOTP" /\ UNCHANGED <<wrong, kept>>
          BY <2>0, <2>3 DEF UpsertOTP, At, Form, SendStmts, history
    <3> QED
        BY <1>t, <2>0, <3>1, <3>2, <3>3, GuessSend
  <2>4. CASE \/ LastSendAt(r) \/ CountByEmail(r) \/ CountByIP(r) \/ SendOTP(r)
             \/ InsertSendEvent(r) \/ StartSendCode(r)
    <3>1. /\ req'[r].pc \in {"done", "countByEmail", "countByIP", "upsertOTP",
                             "insertSendEvent", "lastSendAt"}
          /\ UNCHANGED <<otp, wrong, kept>> /\ req[r].pc # "lockOut"
      <4>1. CASE StartSendCode(r)
            BY <1>t, <4>1
            DEF StartSendCode, Begin, NoRequest, tables, history, At
      <4>2. CASE LastSendAt(r) \/ CountByEmail(r) \/ CountByIP(r)
            BY <4>2, <2>a, <2>b
            DEF LastSendAt, CountByEmail, CountByIP, At, tables, history
      <4>3. CASE SendOTP(r) \/ InsertSendEvent(r)
            BY <4>3, <2>a, <2>b DEF SendOTP, InsertSendEvent, At, tables, history
      <4> QED
          BY <2>4, <4>1, <4>2, <4>3
    <3> QED
        BY <1>t, <2>0, <3>1, GuessQuiet
  <2>5. CASE \/ (Start(r) /\ ~StartSendCode(r)) \/ UserByCanonicalEmail(r) \/ CreateUser(r)
             \/ RevokeSessions(r) \/ LockSessions(r) \/ SessionByHash(r) \/ UserByID(r)
             \/ RevokeOld(r) \/ InsertSession(r) \/ Reply(r)
    <3>1. /\ otp' = otp /\ wrong' = wrong /\ req'[r].pc \notin Counting
          /\ ~Fail(r) => kept' = kept
          BY <1>t, <2>5, OutOfTheWay
    <3>2. req[r].pc # "lockOut"
          BY <2>5
          DEF Start, StartCheckCode, StartRefresh, StartLogout, RussianEmailRequired, Begin,
              UserByCanonicalEmail, CreateUser, RevokeSessions, LockSessions, SessionByHash,
              UserByID, RevokeOld, InsertSession, Reply, At
    <3> QED
        BY <1>t, <2>0, <2>2, <3>1, <3>2, GuessQuiet DEF Counting
  <2> QED
      BY <1>2, <2>1, <2>2, <2>3, <2>4, <2>5 DEF Statement
<1> QED
    BY <1>1, <1>2 DEF Next

(* A code that no lockout has failed to delete is refuted by at most       *)
(* MaxAttempts wrong tries and one for every other request at work,        *)
(* although the row is compared as it was read and the tries are counted   *)
(* in the row that is there by then.                                       *)
THEOREM GuessesAreBounded == Spec => []GuessesBounded
<1>1. GuessInv => GuessesBounded
  <2> SUFFICES ASSUME GuessInv, NEW c \in Codes \ kept
               PROVE  wrong[c] =< MaxAttempts + Cardinality(Requests) - 1
      BY DEF GuessesBounded
  <2>1. Cardinality(PendingOf(req, c)) \in Nat /\ Cardinality(Requests) \in Nat
        BY FewRequests DEF PendingOf
  <2>2. wrong[c] \in Nat /\ MaxAttempts \in Nat
        BY AuthAssumption DEF GuessInv, TypeInv, TypeOK
  <2> QED
      BY <2>1, <2>2 DEF GuessInv, GuessRest, TriesBounded
<1> QED
    BY <1>1, GuessInit, NextGuess, PTL DEF Spec

-----------------------------------------------------------------------------
(* The inboxes.                                                            *)

(* Induction, for a set.                                                   *)
LEMMA NatSetInduction ==
    ASSUME NEW C, 0 \in C, \A n \in Nat : n \in C => n + 1 \in C
    PROVE  Nat \subseteq C
<1> DEFINE R == OpToRel(<, Nat)
<1>1. IsWellFoundedOn(R, Nat)
      BY NatLessThanWellFounded
<1>2. \A m, n \in Nat : m < n => <<m, n>> \in R
      BY DEF OpToRel
<1> SUFFICES ASSUME Nat \ C # {} PROVE FALSE
    OBVIOUS
<1> HIDE DEF R
<1>3. PICK n \in Nat \ C : \A m \in Nat \ C : ~(<<m, n>> \in R)
      BY <1>1, WFMin
<1>4. n # 0 /\ n - 1 \in Nat /\ n - 1 < n /\ (n - 1) + 1 = n
      BY <1>3
<1>5. n - 1 \in C
      BY <1>2, <1>3, <1>4
<1> QED
    BY <1>3, <1>4, <1>5

(* A set of numbers that is not empty has a least one.                     *)
LEMMA LeastOf ==
    ASSUME NEW P, P \subseteq Nat, P # {}
    PROVE  \E i \in P : \A j \in P : i =< j
<1> DEFINE R == OpToRel(<, Nat)
<1>1. IsWellFoundedOn(R, Nat)
      BY NatLessThanWellFounded
<1>2. \A m, n \in Nat : m < n => <<m, n>> \in R
      BY DEF OpToRel
<1> HIDE DEF R
<1>3. PICK n \in P : \A m \in P : ~(<<m, n>> \in R)
      BY <1>1, WFMin
<1>4. \A m \in P : m \in Nat /\ n \in Nat /\ ~(m < n)
      BY <1>2, <1>3
<1> QED
    BY <1>4

(* What a loop of N rounds computes, whose round is the function G.        *)
LoopOf(N, S, x, G) ==
    \E g \in [0 .. N -> S] : g[0] = x /\ \A n \in 1 .. N : g[n] = G[n][g[n - 1]]

LEMMA LoopExists ==
    ASSUME NEW N \in Nat, NEW S, NEW x \in S, NEW G,
           \A n \in 1 .. N : \A t \in S : G[n][t] \in S
    PROVE  LoopOf(N, S, x, G)
<1> DEFINE Good(g, m) == g[0] = x /\ \A n \in 1 .. m : g[n] = G[n][g[n - 1]]
           C == {m \in Nat : m =< N => \E g \in [0 .. m -> S] : Good(g, m)}
<1>1. 0 \in C
  <2>1. [k \in 0 .. 0 |-> x] \in [0 .. 0 -> S] /\ Good([k \in 0 .. 0 |-> x], 0)
        OBVIOUS
  <2> QED
      BY <2>1
<1>2. ASSUME NEW m \in Nat, m \in C PROVE m + 1 \in C
  <2> SUFFICES ASSUME m + 1 =< N PROVE \E g \in [0 .. m + 1 -> S] : Good(g, m + 1)
      OBVIOUS
  <2>1. PICK g \in [0 .. m -> S] : Good(g, m)
        BY <1>2
  <2>2. G[m + 1][g[m]] \in S
    <3>1. m + 1 \in 1 .. N /\ g[m] \in S
          OBVIOUS
    <3> QED
        BY <3>1
  <2> DEFINE h == [k \in 0 .. m + 1 |-> IF k =< m THEN g[k] ELSE G[m + 1][g[m]]]
  <2>3. h \in [0 .. m + 1 -> S]
        BY <2>2
  <2>4. h[0] = x
        BY <2>1
  <2>5. ASSUME NEW n \in 1 .. m + 1 PROVE h[n] = G[n][h[n - 1]]
    <3>1. CASE n =< m
          BY <2>1, <3>1
    <3>2. CASE n = m + 1
          BY <3>2
    <3> QED
        BY <3>1, <3>2
  <2> HIDE DEF h
  <2> QED
      BY <2>3, <2>4, <2>5
<1>3. Nat \subseteq C
  <2> HIDE DEF C
  <2> QED
      BY <1>1, <1>2, NatSetInduction
<1> QED
    BY <1>3 DEF LoopOf

(* The dots: what WithoutDots holds after n characters.                    *)
UpTo(s) == CHOOSE f : f = [n \in 0 .. Len(s) |->
                IF n = 0 THEN <<>>
                ELSE IF s[n] = "." THEN f[n - 1] ELSE Append(f[n - 1], s[n])]

LEMMA DotsLoop ==
    ASSUME NEW s \in Seq(STRING)
    PROVE  /\ Len(s) \in Nat /\ WithoutDots(s) = UpTo(s)[Len(s)]
           /\ UpTo(s) \in [0 .. Len(s) -> Seq(STRING)] /\ UpTo(s)[0] = <<>>
           /\ \A n \in 1 .. Len(s) : UpTo(s)[n] =
                 IF s[n] = "." THEN UpTo(s)[n - 1] ELSE Append(UpTo(s)[n - 1], s[n])
<1> DEFINE N == Len(s)
           S == Seq(STRING)
           G == [n \in 1 .. N |-> [t \in S |-> IF s[n] = "." THEN t ELSE Append(t, s[n])]]
           Body(f) == [n \in 0 .. N |-> IF n = 0 THEN <<>>
                        ELSE IF s[n] = "." THEN f[n - 1] ELSE Append(f[n - 1], s[n])]
<1>1. N \in Nat /\ \A n \in 1 .. N : s[n] \in STRING
      OBVIOUS
<1>2. \A n \in 1 .. N, t \in S : G[n][t] = (IF s[n] = "." THEN t ELSE Append(t, s[n]))
      OBVIOUS
<1>3. G \in [1 .. N -> [S -> S]] /\ <<>> \in S
  <2>1. \A n \in 1 .. N, t \in S : Append(t, s[n]) \in S
        BY <1>1, AppendProperties
  <2>2. \A n \in 1 .. N : [t \in S |-> IF s[n] = "." THEN t ELSE Append(t, s[n])] \in [S -> S]
        BY <2>1
  <2>3. <<>> \in S
        BY EmptySeq
  <2> HIDE DEF S, N
  <2> QED
      BY <2>2, <2>3
<1> HIDE DEF G, S, N
<1>4. PICK g \in [0 .. N -> S] : g[0] = <<>> /\ \A n \in 1 .. N : g[n] = G[n][g[n - 1]]
  <2> DEFINE x == <<>>
  <2>1. N \in Nat /\ x \in S /\ \A n \in 1 .. N : \A t \in S : G[n][t] \in S
        BY <1>1, <1>3
  <2> HIDE DEF x
  <2>2. LoopOf(N, S, x, G)
        BY <2>1, LoopExists
  <2> QED
      BY <2>2 DEF x, LoopOf
<1>5. \A n \in 1 .. N : g[n] = (IF s[n] = "." THEN g[n - 1] ELSE Append(g[n - 1], s[n]))
      BY <1>1, <1>2, <1>4
<1>6. g = Body(g)
  <2>1. ASSUME NEW n \in 0 .. N PROVE g[n] = Body(g)[n]
    <3>1. n = 0 \/ n \in 1 .. N
          BY <1>1
    <3> QED
        BY <1>4, <1>5, <3>1
  <2>2. g = [n \in 0 .. N |-> g[n]]
        BY <1>4
  <2> QED
      BY <2>1, <2>2
<1>7. UpTo(s) = Body(UpTo(s))
      BY <1>6 DEF UpTo, N
<1>8. ASSUME NEW f, f = Body(f)
      PROVE  /\ f[0] = <<>>
             /\ \A n \in 1 .. N : f[n] = IF s[n] = "." THEN f[n - 1] ELSE Append(f[n - 1], s[n])
  <2>1. f[0] = <<>>
        BY <1>1, <1>8
  <2>2. ASSUME NEW n \in 1 .. N
        PROVE  f[n] = IF s[n] = "." THEN f[n - 1] ELSE Append(f[n - 1], s[n])
    <3>1. n \in 0 .. N /\ n # 0
          BY <1>1
    <3> QED
        BY <1>8, <3>1
  <2> QED
      BY <2>1, <2>2
<1>9. UpTo(s) = g
  <2> DEFINE f == UpTo(s)
             C == {n \in Nat : n =< N => f[n] = g[n]}
  <2>1. f = Body(f)
        BY <1>7
  <2> HIDE DEF f
  <2>2. 0 \in C
        BY <1>4, <1>8, <2>1
  <2>3. ASSUME NEW n \in Nat, n \in C PROVE n + 1 \in C
    <3> SUFFICES ASSUME n + 1 =< N PROVE f[n + 1] = g[n + 1]
        OBVIOUS
    <3>1. n + 1 \in 1 .. N /\ (n + 1) - 1 = n /\ f[n] = g[n]
          BY <1>1, <2>3
    <3>2. f[n + 1] = IF s[n + 1] = "." THEN f[n] ELSE Append(f[n], s[n + 1])
          BY <1>8, <2>1, <3>1
    <3>3. g[n + 1] = IF s[n + 1] = "." THEN g[n] ELSE Append(g[n], s[n + 1])
          BY <1>5, <3>1
    <3> QED
        BY <3>1, <3>2, <3>3
  <2>4. Nat \subseteq C
    <3> HIDE DEF C
    <3> QED
        BY <2>2, <2>3, NatSetInduction
  <2>5. f = [n \in 0 .. N |-> f[n]]
        BY <2>1
  <2>6. g = [n \in 0 .. N |-> g[n]]
        BY <1>4
  <2>7. \A n \in 0 .. N : f[n] = g[n]
        BY <1>1, <2>4
  <2> QED
      BY <2>5, <2>6, <2>7 DEF f
<1>10. WithoutDots(s) = UpTo(s)[N]
      BY DEF WithoutDots, UpTo, N
<1> QED
    BY <1>1, <1>4, <1>5, <1>9, <1>10 DEF N, S

(* A local part without its i-th character.                                *)
Drop(s, i) == SubSeq(s, 1, i - 1) \o SubSeq(s, i + 1, Len(s))

LEMMA DropProperties ==
    ASSUME NEW s \in Seq(STRING), NEW i \in 1 .. Len(s)
    PROVE  /\ Drop(s, i) \in Seq(STRING) /\ Len(Drop(s, i)) = Len(s) - 1
           /\ \A k \in 1 .. Len(s) - 1 : Drop(s, i)[k] = IF k < i THEN s[k] ELSE s[k + 1]
<1> DEFINE u == SubSeq(s, 1, i - 1)
           v == SubSeq(s, i + 1, Len(s))
           n == Len(s)
<1>1. n \in Nat /\ i \in Nat /\ i =< n /\ i >= 1 /\ i - 1 \in Int /\ i + 1 \in Int /\ 1 \in Int /\ n \in Int
      OBVIOUS
<1>2. \A k \in 1 .. n : s[k] \in STRING
      OBVIOUS
<1>3. \A k \in 1 .. i - 1 : s[k] \in STRING
      BY <1>1, <1>2
<1>4. \A k \in i + 1 .. n : s[k] \in STRING
      BY <1>1, <1>2
<1>5. /\ u \in Seq(STRING) /\ Len(u) = IF 1 =< i - 1 THEN i - 1 - 1 + 1 ELSE 0
      /\ \A k \in 1 .. i - 1 - 1 + 1 : u[k] = s[1 + k - 1]
      BY <1>1, <1>3, SubSeqProperties
<1>6. /\ v \in Seq(STRING) /\ Len(v) = IF i + 1 =< n THEN n - (i + 1) + 1 ELSE 0
      /\ \A k \in 1 .. n - (i + 1) + 1 : v[k] = s[i + 1 + k - 1]
      BY <1>1, <1>4, SubSeqProperties
<1> HIDE DEF u, v, n
<1>7. Len(u) = i - 1 /\ Len(v) = n - i
      BY <1>1, <1>5, <1>6
<1>8. /\ u \o v \in Seq(STRING) /\ Len(u \o v) = Len(u) + Len(v)
      /\ \A k \in 1 .. Len(u) + Len(v) : (u \o v)[k] = IF k =< Len(u) THEN u[k] ELSE v[k - Len(u)]
      BY <1>5, <1>6, ConcatProperties
<1>9. ASSUME NEW k \in 1 .. n - 1 PROVE (u \o v)[k] = IF k < i THEN s[k] ELSE s[k + 1]
  <2>1. CASE k < i
    <3>1. k \in 1 .. Len(u) + Len(v) /\ k =< Len(u) /\ k \in 1 .. i - 1 - 1 + 1 /\ 1 + k - 1 = k
          BY <1>1, <1>7, <2>1
    <3>2. (u \o v)[k] = u[k]
          BY <1>8, <3>1
    <3>3. u[k] = s[k]
          BY <1>5, <3>1
    <3> QED
        BY <2>1, <3>2, <3>3
  <2>2. CASE ~(k < i)
    <3>1. /\ k \in 1 .. Len(u) + Len(v) /\ ~(k =< Len(u)) /\ k - Len(u) \in 1 .. n - (i + 1) + 1
          /\ i + 1 + (k - Len(u)) - 1 = k + 1
          BY <1>1, <1>7, <2>2
    <3>2. (u \o v)[k] = v[k - Len(u)]
          BY <1>8, <3>1
    <3>3. v[k - Len(u)] = s[k + 1]
          BY <1>6, <3>1
    <3> QED
        BY <2>2, <3>2, <3>3
  <2> QED
      BY <2>1, <2>2
<1>10. Len(u \o v) = n - 1
      BY <1>1, <1>7, <1>8
<1> QED
    BY <1>8, <1>9, <1>10 DEF u, v, n, Drop

(* The dots are taken out from left to right: what stands further right    *)
(* makes no difference.                                                    *)
LEMMA DotsOfPrefix ==
    ASSUME NEW s \in Seq(STRING), NEW t \in Seq(STRING), NEW m \in Nat,
           m =< Len(s), m =< Len(t), \A k \in 1 .. m : t[k] = s[k]
    PROVE  \A n \in 0 .. m : UpTo(t)[n] = UpTo(s)[n]
<1> DEFINE C == {n \in Nat : n =< m => UpTo(t)[n] = UpTo(s)[n]}
<1>1. 0 \in C
      BY DotsLoop
<1>2. ASSUME NEW n \in Nat, n \in C PROVE n + 1 \in C
  <2> SUFFICES ASSUME n + 1 =< m PROVE UpTo(t)[n + 1] = UpTo(s)[n + 1]
      OBVIOUS
  <2>1. UpTo(t)[n] = UpTo(s)[n] /\ t[n + 1] = s[n + 1]
        BY <1>2
  <2>2. n + 1 \in 1 .. Len(s) /\ n + 1 \in 1 .. Len(t) /\ (n + 1) - 1 = n
        OBVIOUS
  <2> QED
      BY <2>1, <2>2, DotsLoop
<1>3. Nat \subseteq C
  <2> HIDE DEF C
  <2> QED
      BY <1>1, <1>2, NatSetInduction
<1> QED
    BY <1>3

LEMMA DotDropped ==
    ASSUME NEW s \in Seq(STRING), NEW i \in 1 .. Len(s), s[i] = "."
    PROVE  WithoutDots(Drop(s, i)) = WithoutDots(s)
<1> DEFINE t == Drop(s, i)
           N == Len(s)
           C == {n \in Nat : i - 1 =< n /\ n =< N - 1 => UpTo(t)[n] = UpTo(s)[n + 1]}
<1>1. /\ t \in Seq(STRING) /\ Len(t) = N - 1 /\ N \in Nat /\ i \in Nat /\ i =< N /\ 1 =< i
      /\ \A k \in 1 .. N - 1 : t[k] = IF k < i THEN s[k] ELSE s[k + 1]
      BY DropProperties
<1> HIDE DEF t, N
<1>2. \A n \in 1 .. N : UpTo(s)[n] =
         IF s[n] = "." THEN UpTo(s)[n - 1] ELSE Append(UpTo(s)[n - 1], s[n])
      BY DotsLoop DEF N
<1>3. \A n \in 1 .. N - 1 : UpTo(t)[n] =
         IF t[n] = "." THEN UpTo(t)[n - 1] ELSE Append(UpTo(t)[n - 1], t[n])
      BY DotsLoop, <1>1
<1>4. UpTo(t)[i - 1] = UpTo(s)[i]
  <2>1. i - 1 \in Nat /\ i - 1 =< Len(s) /\ i - 1 =< Len(t) /\ \A k \in 1 .. i - 1 : t[k] = s[k]
        BY <1>1 DEF N
  <2>2. \A n \in 0 .. i - 1 : UpTo(t)[n] = UpTo(s)[n]
        BY <1>1, <2>1, DotsOfPrefix
  <2>3. UpTo(s)[i] = UpTo(s)[i - 1]
        BY <1>1, <1>2
  <2> QED
      BY <1>1, <2>2, <2>3
<1>5. 0 \in C
      BY <1>1, <1>4
<1>6. ASSUME NEW n \in Nat, n \in C PROVE n + 1 \in C
  <2> SUFFICES ASSUME i - 1 =< n + 1, n + 1 =< N - 1
               PROVE  UpTo(t)[n + 1] = UpTo(s)[(n + 1) + 1]
      OBVIOUS
  <2>1. CASE i - 1 = n + 1
        BY <1>1, <1>4, <2>1
  <2>2. CASE i - 1 # n + 1
    <3>1. i - 1 =< n /\ n =< N - 1 /\ n + 1 \in 1 .. N - 1 /\ (n + 1) - 1 = n /\ ~(n + 1 < i)
          BY <1>1, <2>2
    <3>2. UpTo(t)[n] = UpTo(s)[n + 1]
          BY <1>6, <3>1
    <3>3. t[n + 1] = s[(n + 1) + 1]
          BY <1>1, <3>1
    <3>4. (n + 1) + 1 \in 1 .. N /\ ((n + 1) + 1) - 1 = n + 1
          BY <1>1
    <3>5. UpTo(t)[n + 1] = IF t[n + 1] = "." THEN UpTo(t)[n] ELSE Append(UpTo(t)[n], t[n + 1])
          BY <1>3, <3>1
    <3>6. UpTo(s)[(n + 1) + 1] = IF s[(n + 1) + 1] = "." THEN UpTo(s)[n + 1]
                                 ELSE Append(UpTo(s)[n + 1], s[(n + 1) + 1])
          BY <1>2, <3>4
    <3> QED
        BY <3>2, <3>3, <3>5, <3>6
  <2> QED
      BY <2>1, <2>2
<1>7. Nat \subseteq C
  <2> HIDE DEF C
  <2> QED
      BY <1>5, <1>6, NatSetInduction
<1>8. UpTo(t)[N - 1] = UpTo(s)[N]
  <2>1. N - 1 \in Nat /\ i - 1 =< N - 1 /\ (N - 1) + 1 = N
        BY <1>1
  <2> QED
      BY <1>7, <2>1
<1>9. WithoutDots(t) = UpTo(t)[N - 1] /\ WithoutDots(s) = UpTo(s)[N]
      BY <1>1, DotsLoop DEF N
<1> QED
    BY <1>8, <1>9 DEF t

(* Without its last character, the name loses that character or nothing.   *)
LEMMA LastDropped ==
    ASSUME NEW s \in Seq(STRING), Len(s) # 0
    PROVE  LET t == WithoutDots(Drop(s, Len(s))) IN
           /\ t \in Seq(STRING) /\ s[Len(s)] \in STRING
           /\ WithoutDots(s) = IF s[Len(s)] = "." THEN t ELSE Append(t, s[Len(s)])
<1> DEFINE N == Len(s)
           u == Drop(s, N)
<1>1. N \in Nat /\ N \in 1 .. N /\ N - 1 \in 0 .. N
      BY DotsLoop
<1>2. u \in Seq(STRING) /\ Len(u) = N - 1 /\ \A k \in 1 .. N - 1 : u[k] = s[k]
  <2>1. /\ u \in Seq(STRING) /\ Len(u) = Len(s) - 1
        /\ \A k \in 1 .. Len(s) - 1 : u[k] = IF k < N THEN s[k] ELSE s[k + 1]
        BY <1>1, DropProperties
  <2> HIDE DEF u
  <2> QED
      BY <1>1, <2>1
<1> HIDE DEF u, N
<1>3. WithoutDots(u) = UpTo(u)[N - 1] /\ UpTo(u)[N - 1] \in Seq(STRING)
      BY <1>1, <1>2, DotsLoop
<1>4. UpTo(u)[N - 1] = UpTo(s)[N - 1]
  <2>1. N - 1 \in Nat /\ N - 1 =< Len(s) /\ N - 1 =< Len(u)
        BY <1>1, <1>2 DEF N
  <2>2. \A n \in 0 .. N - 1 : UpTo(u)[n] = UpTo(s)[n]
        BY <1>2, <2>1, DotsOfPrefix
  <2> QED
      BY <2>1, <2>2
<1>5. WithoutDots(s) = UpTo(s)[N] /\ s[N] \in STRING
      BY <1>1, DotsLoop DEF N
<1>6. UpTo(s)[N] = IF s[N] = "." THEN UpTo(s)[N - 1] ELSE Append(UpTo(s)[N - 1], s[N])
      BY <1>1, DotsLoop DEF N
<1> QED
    BY <1>3, <1>4, <1>5, <1>6 DEF u, N

LEMMA NoDots ==
    ASSUME NEW s \in Seq(STRING), \A i \in 1 .. Len(s) : s[i] # "."
    PROVE  WithoutDots(s) = s
<1> DEFINE N == Len(s)
           Same(n) == Len(UpTo(s)[n]) = n /\ \A k \in 1 .. n : UpTo(s)[n][k] = s[k]
           C == {n \in Nat : n =< N => Same(n)}
<1>1. N \in Nat
      OBVIOUS
<1>2. 0 \in C
      BY DotsLoop, EmptySeq
<1>3. ASSUME NEW n \in Nat, n \in C PROVE n + 1 \in C
  <2> SUFFICES ASSUME n + 1 =< N PROVE Same(n + 1)
      OBVIOUS
  <2>1. n \in 0 .. N /\ n + 1 \in 1 .. N /\ (n + 1) - 1 = n /\ Same(n)
        BY <1>1, <1>3
  <2> DEFINE t == UpTo(s)[n]
             c == s[n + 1]
  <2>2. t \in Seq(STRING) /\ c \in STRING /\ UpTo(s)[n + 1] = Append(t, c)
    <3>1. c # "." /\ c \in STRING
          BY <2>1
    <3> QED
        BY <2>1, <3>1, DotsLoop
  <2>3. Len(t) = n /\ \A k \in 1 .. n : t[k] = s[k]
        BY <2>1
  <2> HIDE DEF t
  <2>4. /\ Len(Append(t, c)) = n + 1 /\ Append(t, c)[n + 1] = c
        /\ \A k \in 1 .. n : Append(t, c)[k] = t[k]
        BY <2>2, <2>3, AppendProperties
  <2>5. \A k \in 1 .. n + 1 : Append(t, c)[k] = s[k]
        BY <2>3, <2>4
  <2> QED
      BY <2>2, <2>4, <2>5
<1>4. Nat \subseteq C
  <2> HIDE DEF C
  <2> QED
      BY <1>2, <1>3, NatSetInduction
<1>5. UpTo(s)[N] \in Seq(STRING) /\ Same(N) /\ WithoutDots(s) = UpTo(s)[N]
      BY <1>1, <1>4, DotsLoop
<1> HIDE DEF N
<1> QED
    BY <1>5, SeqEqual DEF N

LEMMA DotsShorten ==
    ASSUME NEW s \in Seq(STRING)
    PROVE  /\ WithoutDots(s) \in Seq(STRING) /\ Len(WithoutDots(s)) =< Len(s)
           /\ (\E i \in 1 .. Len(s) : s[i] = ".") => Len(WithoutDots(s)) < Len(s)
<1> DEFINE N == Len(s)
           Short(n) == /\ Len(UpTo(s)[n]) =< n
                       /\ (\E i \in 1 .. n : s[i] = ".") => Len(UpTo(s)[n]) < n
           C == {n \in Nat : n =< N => Short(n)}
<1>1. N \in Nat
      OBVIOUS
<1>2. 0 \in C
      BY DotsLoop, EmptySeq
<1>3. ASSUME NEW n \in Nat, n \in C PROVE n + 1 \in C
  <2> SUFFICES ASSUME n + 1 =< N PROVE Short(n + 1)
      OBVIOUS
  <2>1. n \in 0 .. N /\ n + 1 \in 1 .. N /\ (n + 1) - 1 = n /\ Short(n)
        BY <1>1, <1>3
  <2> DEFINE t == UpTo(s)[n]
             c == s[n + 1]
  <2>2. t \in Seq(STRING) /\ c \in STRING /\ UpTo(s)[n + 1] = IF c = "." THEN t ELSE Append(t, c)
        BY <2>1, DotsLoop
  <2>3. Len(t) \in Nat /\ Len(t) =< n /\ ((\E i \in 1 .. n : s[i] = ".") => Len(t) < n)
        BY <2>1, <2>2
  <2> HIDE DEF t
  <2>4. Len(Append(t, c)) = Len(t) + 1
        BY <2>2, AppendProperties
  <2>5. CASE c = "."
        BY <2>2, <2>3, <2>5
  <2>6. CASE c # "."
    <3>1. (\E i \in 1 .. n + 1 : s[i] = ".") => \E i \in 1 .. n : s[i] = "."
      <4> SUFFICES ASSUME NEW i \in 1 .. n + 1, s[i] = "." PROVE i \in 1 .. n
          OBVIOUS
      <4>1. i # n + 1
            BY <2>6
      <4> QED
          BY <4>1
    <3> QED
        BY <2>2, <2>3, <2>4, <2>6, <3>1
  <2> QED
      BY <2>5, <2>6
<1>4. Nat \subseteq C
  <2> HIDE DEF C
  <2> QED
      BY <1>2, <1>3, NatSetInduction
<1>5. UpTo(s)[N] \in Seq(STRING) /\ Short(N) /\ WithoutDots(s) = UpTo(s)[N]
      BY <1>1, <1>4, DotsLoop
<1> QED
    BY <1>5

HasPlus(s) == \E i \in 1 .. Len(s) : s[i] = "+"

LEMMA PlusStays ==
    ASSUME NEW s \in Seq(STRING), HasPlus(s)
    PROVE  HasPlus(WithoutDots(s))
<1> DEFINE N == Len(s)
           C == {n \in Nat : n =< N /\ (\E i \in 1 .. n : s[i] = "+") => HasPlus(UpTo(s)[n])}
<1>1. N \in Nat
      OBVIOUS
<1>2. 0 \in C
      OBVIOUS
<1>3. ASSUME NEW n \in Nat, n \in C PROVE n + 1 \in C
  <2> SUFFICES ASSUME n + 1 =< N, NEW i \in 1 .. n + 1, s[i] = "+"
               PROVE  HasPlus(UpTo(s)[n + 1])
      OBVIOUS
  <2>1. n \in 0 .. N /\ n + 1 \in 1 .. N /\ (n + 1) - 1 = n
        BY <1>1
  <2> DEFINE t == UpTo(s)[n]
             c == s[n + 1]
  <2>2. t \in Seq(STRING) /\ c \in STRING /\ UpTo(s)[n + 1] = IF c = "." THEN t ELSE Append(t, c)
        BY <2>1, DotsLoop
  <2>3. i # n + 1 => HasPlus(t)
        BY <1>3, <2>1
  <2> HIDE DEF t
  <2>4. /\ Len(t) \in Nat /\ Len(Append(t, c)) = Len(t) + 1 /\ Append(t, c)[Len(t) + 1] = c
        /\ \A k \in 1 .. Len(t) : Append(t, c)[k] = t[k]
        BY <2>2, AppendProperties
  <2>5. CASE i = n + 1
    <3>1. c = "+" /\ UpTo(s)[n + 1] = Append(t, c)
          BY <2>2, <2>5
    <3>2. Len(t) + 1 \in 1 .. Len(Append(t, c))
          BY <2>4
    <3> QED
        BY <2>4, <3>1, <3>2 DEF HasPlus
  <2>6. CASE i # n + 1
    <3>1. PICK k \in 1 .. Len(t) : t[k] = "+"
          BY <2>3, <2>6 DEF HasPlus
    <3>2. k \in 1 .. Len(Append(t, c)) /\ Append(t, c)[k] = "+"
          BY <2>4, <3>1
    <3> QED
        BY <2>2, <3>1, <3>2 DEF HasPlus
  <2> QED
      BY <2>5, <2>6
<1>4. Nat \subseteq C
  <2> HIDE DEF C
  <2> QED
      BY <1>2, <1>3, NatSetInduction
<1>5. \E i \in 1 .. N : s[i] = "+"
      BY DEF HasPlus
<1>6. HasPlus(UpTo(s)[N])
      BY <1>1, <1>4, <1>5
<1> QED
    BY <1>6, DotsLoop

LEMMA UntaggedOf ==
    ASSUME NEW s \in Seq(STRING)
    PROVE  /\ ~HasPlus(s) \/ s[1] = "+" => Untagged(s) = s
           /\ HasPlus(s) /\ s[1] # "+" =>
                \E i \in 2 .. Len(s) :
                   /\ s[i] = "+" /\ \A j \in 1 .. i - 1 : s[j] # "+"
                   /\ Untagged(s) = SubSeq(s, 1, i - 1)
<1> DEFINE plus == {i \in DOMAIN s : s[i] = "+"}
<1>1. Len(s) \in Nat /\ DOMAIN s = 1 .. Len(s)
      OBVIOUS
<1>2. plus = {} <=> ~HasPlus(s)
      BY <1>1 DEF HasPlus
<1>3. 1 \in plus => s[1] = "+"
      OBVIOUS
<1>4. ASSUME s[1] = "+", HasPlus(s) PROVE 1 \in plus
      BY <1>1, <1>4 DEF HasPlus
<1>5. Untagged(s) = IF plus = {} \/ 1 \in plus THEN s ELSE Before(s, plus)
      BY DEF Untagged
<1>6. CASE ~HasPlus(s) \/ s[1] = "+"
      BY <1>2, <1>4, <1>5, <1>6
<1>7. CASE HasPlus(s) /\ s[1] # "+"
  <2>1. plus \subseteq Nat /\ plus # {} /\ 1 \notin plus
        BY <1>1, <1>2, <1>3, <1>7
  <2> DEFINE i == CHOOSE i \in plus : \A j \in plus : i =< j
  <2>2. i \in plus /\ \A j \in plus : i =< j
        BY <2>1, LeastOf
  <2>3. Untagged(s) = SubSeq(s, 1, i - 1)
        BY <1>5, <2>1 DEF Before
  <2> HIDE DEF i
  <2>4. i \in 1 .. Len(s) /\ s[i] = "+" /\ i # 1
        BY <1>1, <2>1, <2>2
  <2>5. ASSUME NEW j \in 1 .. i - 1 PROVE s[j] # "+"
    <3>1. j \in DOMAIN s /\ ~(i =< j)
          BY <1>1, <2>4
    <3> QED
        BY <2>2, <3>1
  <2>6. i \in 2 .. Len(s)
        BY <1>1, <2>4
  <2> QED
      BY <1>7, <2>3, <2>4, <2>5, <2>6
<1> QED
    BY <1>6, <1>7

LEMMA TagLengths ==
    ASSUME NEW s \in Seq(STRING)
    PROVE  /\ Untagged(s) \in Seq(STRING) /\ Len(Untagged(s)) =< Len(s)
           /\ Untagged(s) = s <=> ~HasPlus(s) \/ s[1] = "+"
<1>1. CASE ~HasPlus(s) \/ s[1] = "+"
      BY <1>1, UntaggedOf
<1>2. CASE HasPlus(s) /\ s[1] # "+"
  <2>1. PICK i \in 2 .. Len(s) : Untagged(s) = SubSeq(s, 1, i - 1)
        BY <1>2, UntaggedOf
  <2>2. SubSeq(s, 1, i - 1) \in Seq(STRING) /\ Len(SubSeq(s, 1, i - 1)) = i - 1 /\ i - 1 < Len(s)
        BY SubSeqProperties
  <2> QED
      BY <1>2, <2>1, <2>2
<1> QED
    BY <1>1, <1>2

(* A tag may lose its last character, and so may go altogether.            *)
LEMMA TagDropped ==
    ASSUME NEW s \in Seq(STRING), NEW c \in STRING, HasPlus(Append(s, c)), Append(s, c)[1] # "+"
    PROVE  Untagged(Append(s, c)) = Untagged(s)
<1> DEFINE t == Append(s, c)
           n == Len(s)
<1>1. /\ n \in Nat /\ t \in Seq(STRING) /\ Len(t) = n + 1 /\ t[n + 1] = c
      /\ \A k \in 1 .. n : t[k] = s[k]
      BY AppendProperties
<1> HIDE DEF t, n
<1>2. PICK i \in 2 .. n + 1 : /\ t[i] = "+" /\ \A j \in 1 .. i - 1 : t[j] # "+"
                              /\ Untagged(t) = SubSeq(t, 1, i - 1)
      BY <1>1, UntaggedOf DEF t
<1>3. SubSeq(t, 1, i - 1) = SubSeq(s, 1, i - 1)
  <2>1. /\ SubSeq(t, 1, i - 1) \in Seq(STRING) /\ Len(SubSeq(t, 1, i - 1)) = i - 1
        /\ \A k \in 1 .. i - 1 : SubSeq(t, 1, i - 1)[k] = t[k]
    <3>1. 1 \in Int /\ i - 1 \in Int /\ 1 =< i - 1 /\ \A k \in 1 .. i - 1 : t[k] \in STRING
          BY <1>1
    <3> QED
        BY <3>1, SubSeqProperties
  <2>2. /\ SubSeq(s, 1, i - 1) \in Seq(STRING) /\ Len(SubSeq(s, 1, i - 1)) = i - 1
        /\ \A k \in 1 .. i - 1 : SubSeq(s, 1, i - 1)[k] = s[k]
    <3>1. 1 \in Int /\ i - 1 \in Int /\ 1 =< i - 1 /\ \A k \in 1 .. i - 1 : s[k] \in STRING
          BY <1>1 DEF n
    <3> QED
        BY <3>1, SubSeqProperties
  <2>3. \A k \in 1 .. i - 1 : SubSeq(t, 1, i - 1)[k] = SubSeq(s, 1, i - 1)[k]
        BY <1>1, <2>1, <2>2
  <2> QED
      BY <2>1, <2>2, <2>3, SeqEqual
<1>4. CASE i = n + 1
  <2>1. ~HasPlus(s)
    <3> SUFFICES ASSUME NEW j \in 1 .. n, s[j] = "+" PROVE FALSE
        BY DEF HasPlus, n
    <3> QED
        BY <1>1, <1>2, <1>4
  <2>2. SubSeq(s, 1, n) = s
        BY SubSeqFull DEF n
  <2>3. Untagged(s) = s /\ i - 1 = n
        BY <1>1, <1>4, <2>1, UntaggedOf
  <2> QED
      BY <1>2, <1>3, <2>2, <2>3 DEF t
<1>5. CASE i # n + 1
  <2>1. i \in 1 .. n /\ 1 \in 1 .. n /\ 1 \in 1 .. i - 1 /\ s[i] = "+" /\ s[1] # "+"
        BY <1>1, <1>2, <1>5
  <2>2. HasPlus(s)
        BY <2>1 DEF HasPlus, n
  <2>3. PICK k \in 2 .. n : /\ s[k] = "+" /\ \A j \in 1 .. k - 1 : s[j] # "+"
                             /\ Untagged(s) = SubSeq(s, 1, k - 1)
        BY <2>1, <2>2, UntaggedOf DEF n
  <2>4. k = i
    <3>1. ~(i < k)
          BY <2>1, <2>3
    <3>2. ~(k < i)
      <4> SUFFICES ASSUME k < i PROVE FALSE
          OBVIOUS
      <4>1. k \in 1 .. i - 1 /\ k \in 1 .. n
            BY <1>1
      <4> QED
          BY <1>1, <1>2, <2>3, <4>1
    <3> QED
        BY <3>1, <3>2
  <2>5. Untagged(t) = Untagged(s)
        BY <1>2, <1>3, <2>3, <2>4
  <2> QED
      BY <2>5 DEF t
<1> QED
    BY <1>4, <1>5

LEMMA AddressParts ==
    ASSUME NEW a \in Addresses
    PROVE  /\ a.local \in Seq(STRING) /\ a.domain \in STRING /\ Len(a.local) \in Nat
           /\ DOMAIN a.local = 1 .. Len(a.local)
           /\ a = [local |-> a.local, domain |-> a.domain]
           /\ [a EXCEPT !.domain = "gmail.com"] = [local |-> a.local, domain |-> "gmail.com"]
BY DEF Addresses

LEMMA ShorterParts ==
    ASSUME NEW a \in Addresses, NEW i \in 1 .. Len(a.local)
    PROVE  /\ WithoutDotAt(a, i) \in Addresses /\ WithoutDotAt(a, i) # a
           /\ WithoutDotAt(a, i).local = Drop(a.local, i)
           /\ WithoutDotAt(a, i).domain = a.domain
<1>1. a.local \in Seq(STRING) /\ a.domain \in STRING /\ Len(a.local) \in Nat
      BY AddressParts
<1>2. Drop(a.local, i) \in Seq(STRING) /\ Len(Drop(a.local, i)) = Len(a.local) - 1
      BY <1>1, DropProperties
<1>3. \A x : [a EXCEPT !.local = x] = [local |-> x, domain |-> a.domain]
      BY DEF Addresses
<1>4. WithoutDotAt(a, i) = [local |-> Drop(a.local, i), domain |-> a.domain]
      BY <1>3 DEF WithoutDotAt, Drop
<1>5. Drop(a.local, i) # a.local
      BY <1>1, <1>2
<1>6. \A x \in Seq(STRING) : [local |-> x, domain |-> a.domain] \in Addresses
      BY <1>1 DEF Addresses
<1> QED
    BY <1>2, <1>4, <1>5, <1>6

(* The name a tag follows.                                                 *)
NameAndTag(a) == IF a.domain \in gmailDomains THEN WithoutDots(a.local) ELSE a.local
OwnDomain(a) == IF a.domain \in gmailDomains THEN "gmail.com" ELSE a.domain

LEMMA CanonParts ==
    ASSUME NEW a \in Addresses
    PROVE  /\ canonicalEmail(a) = [local |-> Untagged(NameAndTag(a)), domain |-> OwnDomain(a)]
           /\ NameAndTag(a) \in Seq(STRING)
           /\ Named(a) <=> NameAndTag(a) # <<>> /\ NameAndTag(a)[1] # "+"
           /\ Tagged(a) <=> Named(a) /\ HasPlus(a.local)
           /\ HasPlus(a.local) => HasPlus(NameAndTag(a))
<1>1. a.local \in Seq(STRING) /\ DOMAIN a.local = 1 .. Len(a.local)
      BY AddressParts
<1>2. canonicalEmail(a) = [local |-> Untagged(NameAndTag(a)), domain |-> OwnDomain(a)]
      BY DEF canonicalEmail, NameAndTag, OwnDomain, Addresses
<1>3. NameAndTag(a) \in Seq(STRING)
      BY <1>1, DotsShorten DEF NameAndTag
<1>4. Named(a) <=> NameAndTag(a) # <<>> /\ NameAndTag(a)[1] # "+"
      BY DEF Named, NameAndTag
<1>5. Tagged(a) <=> Named(a) /\ HasPlus(a.local)
      BY <1>1 DEF Tagged, HasPlus
<1>6. HasPlus(a.local) => HasPlus(NameAndTag(a))
      BY <1>1, PlusStays DEF NameAndTag
<1> QED
    BY <1>2, <1>3, <1>4, <1>5, <1>6

(* No single change that keeps the inbox changes the canonical form, and   *)
(* an address that no such change makes plainer is canonical.              *)
LEMMA DotKeepsCanon ==
    ASSUME NEW a \in Addresses, a.domain \in gmailDomains,
           NEW i \in 1 .. Len(a.local), a.local[i] = "."
    PROVE  canonicalEmail(WithoutDotAt(a, i)) = canonicalEmail(a)
<1> DEFINE b == WithoutDotAt(a, i)
<1>1. b \in Addresses /\ b.local = Drop(a.local, i) /\ b.domain = a.domain
      BY ShorterParts
<1> HIDE DEF b
<1>2. WithoutDots(b.local) = WithoutDots(a.local)
      BY <1>1, AddressParts, DotDropped
<1>3. NameAndTag(b) = NameAndTag(a) /\ OwnDomain(b) = OwnDomain(a)
      BY <1>1, <1>2 DEF NameAndTag, OwnDomain
<1>4. canonicalEmail(b) = canonicalEmail(a)
      BY <1>1, <1>3, CanonParts
<1> QED
    BY <1>4 DEF b

LEMMA DomainKeepsCanon ==
    ASSUME NEW a \in Addresses, a.domain \in gmailDomains
    PROVE  LET b == [a EXCEPT !.domain = "gmail.com"] IN
           b \in Addresses /\ canonicalEmail(b) = canonicalEmail(a)
<1> DEFINE b == [local |-> a.local, domain |-> "gmail.com"]
<1>1. [a EXCEPT !.domain = "gmail.com"] = b /\ a.local \in Seq(STRING)
      BY AddressParts
<1>2. b \in Addresses /\ b.local = a.local /\ b.domain = "gmail.com"
  <2>1. "gmail.com" \in STRING
        BY RulesAssumption DEF gmailDomains
  <2> QED
      BY <1>1, <2>1 DEF Addresses
<1> HIDE DEF b
<1>3. NameAndTag(b) = NameAndTag(a) /\ OwnDomain(b) = OwnDomain(a)
      BY <1>2 DEF NameAndTag, OwnDomain, gmailDomains
<1>4. canonicalEmail(b) = canonicalEmail(a)
      BY <1>2, <1>3, CanonParts
<1> QED
    BY <1>1, <1>2, <1>4

LEMMA TagKeepsCanon ==
    ASSUME NEW a \in Addresses, Tagged(a)
    PROVE  LET b == WithoutDotAt(a, Len(a.local)) IN
           /\ Len(a.local) \in 1 .. Len(a.local)
           /\ b \in Addresses /\ canonicalEmail(b) = canonicalEmail(a)
<1> DEFINE s == a.local
           n == Len(s)
           b == WithoutDotAt(a, n)
<1>1. /\ s \in Seq(STRING) /\ n \in Nat /\ HasPlus(s) /\ Named(a)
      /\ NameAndTag(a) # <<>> /\ NameAndTag(a)[1] # "+" /\ HasPlus(NameAndTag(a))
      BY AddressParts, CanonParts
<1>2. n \in 1 .. n /\ n # 0
      BY <1>1 DEF HasPlus
<1>3. b \in Addresses /\ b.local = Drop(s, n) /\ b.domain = a.domain
      BY <1>2, ShorterParts
<1>4. Drop(s, n) \in Seq(STRING) /\ Len(Drop(s, n)) = n - 1 /\ \A k \in 1 .. n - 1 : Drop(s, n)[k] = s[k]
  <2>1. /\ Drop(s, n) \in Seq(STRING) /\ Len(Drop(s, n)) = Len(s) - 1
        /\ \A k \in 1 .. Len(s) - 1 : Drop(s, n)[k] = IF k < n THEN s[k] ELSE s[k + 1]
        BY <1>1, <1>2, DropProperties
  <2> QED
      BY <1>1, <2>1
<1> HIDE DEF s, n, b
<1>5. Untagged(NameAndTag(b)) = Untagged(NameAndTag(a))
  <2>1. CASE a.domain \in gmailDomains
    <3> DEFINE t == WithoutDots(Drop(s, n))
    <3>1. NameAndTag(b) = t /\ NameAndTag(a) = WithoutDots(s)
          BY <1>3, <2>1 DEF NameAndTag, s
    <3>2. /\ t \in Seq(STRING) /\ s[n] \in STRING
          /\ WithoutDots(s) = IF s[n] = "." THEN t ELSE Append(t, s[n])
          BY <1>1, <1>2, LastDropped DEF n
    <3> HIDE DEF t
    <3> QED
        BY <1>1, <3>1, <3>2, TagDropped
  <2>2. CASE a.domain \notin gmailDomains
    <3> DEFINE t == Drop(s, n)
    <3>1. NameAndTag(b) = t /\ NameAndTag(a) = s
          BY <1>3, <2>2 DEF NameAndTag, s
    <3>2. s = Append(t, s[n]) /\ s[n] \in STRING /\ t \in Seq(STRING)
      <4>1. s[n] \in STRING /\ t \in Seq(STRING)
            BY <1>1, <1>2, <1>4 DEF n
      <4> HIDE DEF t
      <4>2. /\ Append(t, s[n]) \in Seq(STRING) /\ Len(Append(t, s[n])) = Len(t) + 1
            /\ Append(t, s[n])[Len(t) + 1] = s[n]
            /\ \A k \in 1 .. Len(t) : Append(t, s[n])[k] = t[k]
            BY <4>1, AppendProperties
      <4>3. Len(t) = n - 1 /\ \A k \in 1 .. n - 1 : t[k] = s[k]
            BY <1>4 DEF t
      <4>4. Len(s) = Len(Append(t, s[n])) /\ \A k \in 1 .. Len(s) : s[k] = Append(t, s[n])[k]
        <5>1. Len(s) = n
              BY DEF n
        <5>2. ASSUME NEW k \in 1 .. n PROVE s[k] = Append(t, s[n])[k]
          <6>1. CASE k = n
                BY <1>1, <4>2, <4>3, <6>1
          <6>2. CASE k # n
            <7>1. k \in 1 .. n - 1 /\ k \in 1 .. Len(t)
                  BY <1>1, <4>3, <6>2
            <7> QED
                BY <4>2, <4>3, <7>1
          <6> QED
              BY <6>1, <6>2
        <5> QED
            BY <1>1, <4>2, <4>3, <5>1, <5>2
      <4> QED
          BY <1>1, <4>1, <4>2, <4>4, SeqEqual
    <3> HIDE DEF t
    <3>3. HasPlus(s) /\ s[1] # "+"
          BY <1>1, <3>1
    <3>4. Untagged(Append(t, s[n])) = Untagged(t)
          BY <3>2, <3>3, TagDropped
    <3> QED
        BY <3>1, <3>2, <3>4
  <2> QED
      BY <2>1, <2>2
<1>6. OwnDomain(b) = OwnDomain(a)
      BY <1>3 DEF OwnDomain
<1>7. canonicalEmail(b) = canonicalEmail(a)
      BY <1>3, <1>5, <1>6, CanonParts
<1> QED
    BY <1>2, <1>3, <1>7 DEF b, n, s

LEMMA PlainerKeepsCanon ==
    ASSUME NEW a \in Addresses, NEW b \in Plainer(a)
    PROVE  b \in Addresses /\ canonicalEmail(b) = canonicalEmail(a)
<1>1. CASE /\ a.domain \in gmailDomains
           /\ \E i \in 1 .. Len(a.local) : a.local[i] = "." /\ b = WithoutDotAt(a, i)
      BY <1>1, ShorterParts, DotKeepsCanon
<1>2. CASE a.domain \in gmailDomains /\ b = [a EXCEPT !.domain = "gmail.com"]
      BY <1>2, DomainKeepsCanon
<1>3. CASE Tagged(a) /\ b = WithoutDotAt(a, Len(a.local))
      BY <1>3, TagKeepsCanon
<1>4. DOMAIN a.local = 1 .. Len(a.local)
      BY AddressParts
<1> QED
    BY <1>1, <1>2, <1>3, <1>4 DEF Plainer

LEMMA PlainestIsCanon ==
    ASSUME NEW a \in Addresses
    PROVE  Plainer(a) \subseteq {a} <=> canonicalEmail(a) = a
<1> DEFINE s == a.local
           gmail == a.domain \in gmailDomains
           dotted == \E i \in 1 .. Len(s) : s[i] = "."
<1>1. /\ s \in Seq(STRING) /\ Len(s) \in Nat /\ DOMAIN s = 1 .. Len(s)
      /\ a = [local |-> s, domain |-> a.domain]
      /\ \A i \in 1 .. Len(s) : WithoutDotAt(a, i) # a
      /\ [a EXCEPT !.domain = "gmail.com"] = [local |-> s, domain |-> "gmail.com"]
      BY AddressParts, ShorterParts
<1>2. Plainer(a) \subseteq {a} <=> /\ gmail => ~dotted /\ a.domain = "gmail.com"
                                   /\ ~Tagged(a)
  <2>1. [a EXCEPT !.domain = "gmail.com"] = a <=> a.domain = "gmail.com"
        BY <1>1
  <2>2. Tagged(a) => Len(s) \in 1 .. Len(s)
        BY TagKeepsCanon
  <2>3. ASSUME ~gmail PROVE Plainer(a) = IF Tagged(a) THEN {WithoutDotAt(a, Len(s))} ELSE {}
        BY <2>3 DEF Plainer
  <2>4. ASSUME gmail
        PROVE  Plainer(a) = {WithoutDotAt(a, i) : i \in {i \in 1 .. Len(s) : s[i] = "."}}
                            \cup {[a EXCEPT !.domain = "gmail.com"]}
                            \cup (IF Tagged(a) THEN {WithoutDotAt(a, Len(s))} ELSE {})
        BY <1>1, <2>4 DEF Plainer
  <2>a. Tagged(a) => WithoutDotAt(a, Len(s)) # a
        BY <1>1, <2>2
  <2>5. CASE ~gmail
    <3>1. Tagged(a) => Plainer(a) = {WithoutDotAt(a, Len(s))}
          BY <2>3, <2>5
    <3>2. ~Tagged(a) => Plainer(a) = {}
          BY <2>3, <2>5
    <3> QED
        BY <2>5, <2>a, <3>1, <3>2
  <2>6. CASE gmail
    <3>1. dotted => ~(Plainer(a) \subseteq {a})
      <4> SUFFICES ASSUME NEW i \in 1 .. Len(s), s[i] = "." PROVE ~(Plainer(a) \subseteq {a})
          OBVIOUS
      <4>1. WithoutDotAt(a, i) \in Plainer(a)
            BY <2>4, <2>6
      <4> QED
          BY <1>1, <4>1
    <3>2. a.domain # "gmail.com" => ~(Plainer(a) \subseteq {a})
          BY <2>1, <2>4, <2>6
    <3>3. Tagged(a) => ~(Plainer(a) \subseteq {a})
          BY <1>1, <2>2, <2>4, <2>6
    <3>4. ~dotted /\ a.domain = "gmail.com" /\ ~Tagged(a) => Plainer(a) \subseteq {a}
          BY <1>1, <2>1, <2>4, <2>6
    <3> QED
        BY <2>6, <3>1, <3>2, <3>3, <3>4
  <2> QED
      BY <2>5, <2>6
<1>3. ~Tagged(a) <=> ~HasPlus(s) \/ NameAndTag(a) = <<>> \/ NameAndTag(a)[1] = "+"
      BY CanonParts
<1>4. canonicalEmail(a) = a <=> Untagged(NameAndTag(a)) = s /\ OwnDomain(a) = a.domain
  <2>1. canonicalEmail(a) = [local |-> Untagged(NameAndTag(a)), domain |-> OwnDomain(a)]
        BY CanonParts
  <2> QED
      BY <1>1, <2>1
<1>5. OwnDomain(a) = a.domain <=> (gmail => a.domain = "gmail.com")
      BY DEF OwnDomain
<1>6. gmail /\ dotted => Untagged(NameAndTag(a)) # s
  <2> SUFFICES ASSUME gmail, dotted PROVE Untagged(NameAndTag(a)) # s
      OBVIOUS
  <2>1. NameAndTag(a) \in Seq(STRING) /\ Len(NameAndTag(a)) < Len(s)
        BY <1>1, DotsShorten DEF NameAndTag
  <2>2. Untagged(NameAndTag(a)) \in Seq(STRING) /\ Len(Untagged(NameAndTag(a))) =< Len(NameAndTag(a))
        BY <2>1, TagLengths
  <2>3. Len(Untagged(NameAndTag(a))) \in Nat /\ Len(NameAndTag(a)) \in Nat
        BY <2>1, <2>2
  <2> QED
      BY <1>1, <2>1, <2>2, <2>3
<1>7. (gmail => ~dotted) => NameAndTag(a) = s
      BY <1>1, NoDots DEF NameAndTag
<1>8. Untagged(s) = s <=> ~HasPlus(s) \/ s[1] = "+"
      BY <1>1, TagLengths
<1>9. s = <<>> => ~HasPlus(s)
      BY <1>1 DEF HasPlus
<1> HIDE DEF s, gmail, dotted
<1>10. CASE gmail /\ dotted
      BY <1>2, <1>4, <1>6, <1>10
<1>11. CASE ~(gmail /\ dotted)
  <2>1. NameAndTag(a) = s
        BY <1>7, <1>11
  <2>2. ~Tagged(a) <=> Untagged(s) = s
        BY <1>3, <1>8, <1>9, <2>1
  <2> QED
      BY <1>2, <1>4, <1>5, <1>11, <2>1, <2>2
<1> QED
    BY <1>10, <1>11

(* canonicalEmail tells exactly the inboxes apart, one change of the       *)
(* spelling at a time, whatever the address.                               *)
THEOREM CanonicalForms == CanonicalIsTheInbox
BY RulesAssumption, PlainerKeepsCanon, PlainestIsCanon DEF CanonicalIsTheInbox

(* The plainer forms that n changes lead to.                               *)
Steps(a) == 2 * Len(a.local) + 1
Further(forms) == forms \cup UNION {Plainer(b) : b \in forms}
Chain(a) == CHOOSE f : f = [n \in 0 .. Steps(a) |-> IF n = 0 THEN {a} ELSE Further(f[n - 1])]

IsChain(g, a, n) == /\ g = [k \in 0 .. n |-> g[k]] /\ g[0] = {a}
                    /\ \A k \in 1 .. n : g[k] = Further(g[k - 1])

LEMMA ChainsExist ==
    ASSUME NEW a, NEW n \in Nat
    PROVE  \E g : IsChain(g, a, n)
<1> DEFINE C == {m \in Nat : \E g : IsChain(g, a, m)}
<1>1. 0 \in C
  <2> DEFINE g == [k \in 0 .. 0 |-> {a}]
  <2>1. IsChain(g, a, 0)
        BY DEF IsChain
  <2> QED
      BY <2>1
<1>2. ASSUME NEW m \in Nat, m \in C PROVE m + 1 \in C
  <2>1. PICK g : IsChain(g, a, m)
        BY <1>2
  <2> DEFINE h == [k \in 0 .. m + 1 |-> IF k =< m THEN g[k] ELSE Further(g[m])]
  <2>2. h[0] = {a}
        BY <2>1 DEF IsChain
  <2>3. ASSUME NEW k \in 1 .. m + 1 PROVE h[k] = Further(h[k - 1])
    <3>1. CASE k =< m
      <4>1. k \in 1 .. m /\ k \in 0 .. m + 1 /\ k - 1 \in 0 .. m + 1 /\ k - 1 =< m
            BY <3>1
      <4>2. g[k] = Further(g[k - 1])
            BY <2>1, <4>1 DEF IsChain
      <4> QED
          BY <3>1, <4>1, <4>2
    <3>2. CASE k = m + 1
          BY <3>2
    <3> QED
        BY <3>1, <3>2
  <2>4. h = [k \in 0 .. m + 1 |-> h[k]]
        OBVIOUS
  <2> HIDE DEF h
  <2>5. IsChain(h, a, m + 1)
        BY <2>2, <2>3, <2>4 DEF IsChain
  <2> QED
      BY <2>5
<1> HIDE DEF C
<1>3. Nat \subseteq C
      BY <1>1, <1>2, NatSetInduction
<1> QED
    BY <1>3 DEF C

LEMMA ChainOfForms ==
    ASSUME NEW a \in Addresses
    PROVE  /\ Steps(a) \in Nat /\ Forms(a) = Chain(a)[Steps(a)] /\ Chain(a)[0] = {a}
           /\ \A k \in 1 .. Steps(a) : Chain(a)[k] = Further(Chain(a)[k - 1])
<1>1. Steps(a) \in Nat
  <2>1. Len(a.local) \in Nat
        BY DEF Addresses
  <2> QED
      BY <2>1 DEF Steps
<1>2. PICK g : IsChain(g, a, Steps(a))
      BY <1>1, ChainsExist
<1>3. g = [n \in 0 .. Steps(a) |-> IF n = 0 THEN {a} ELSE Further(g[n - 1])]
  <2> DEFINE N == Steps(a)
             h == [n \in 0 .. N |-> IF n = 0 THEN {a} ELSE Further(g[n - 1])]
  <2> HIDE DEF N
  <2>1. N \in Nat /\ IsChain(g, a, N)
        BY <1>1, <1>2 DEF N
  <2>2. ASSUME NEW n \in 0 .. N PROVE g[n] = h[n]
    <3>1. n = 0 \/ n \in 1 .. N
          BY <2>1
    <3> QED
        BY <2>1, <3>1 DEF IsChain
  <2>3. g = [n \in 0 .. N |-> g[n]]
        BY <2>1 DEF IsChain
  <2>4. g = h
        BY <2>2, <2>3
  <2> QED
      BY <2>4 DEF N
<1>4. Chain(a) = [n \in 0 .. Steps(a) |-> IF n = 0 THEN {a} ELSE Further(Chain(a)[n - 1])]
      BY <1>3 DEF Chain
<1>5. Forms(a) = Chain(a)[Steps(a)]
      BY DEF Forms, Chain, Further, Steps
<1>6. Chain(a)[0] = {a} /\ \A k \in 1 .. Steps(a) : Chain(a)[k] = Further(Chain(a)[k - 1])
  <2> DEFINE N == Steps(a)
             f == Chain(a)
  <2> HIDE DEF N, f
  <2>1. N \in Nat /\ f = [n \in 0 .. N |-> IF n = 0 THEN {a} ELSE Further(f[n - 1])]
        BY <1>1, <1>4 DEF N, f
  <2>2. f[0] = {a}
        BY <2>1
  <2>3. ASSUME NEW k \in 1 .. N PROVE f[k] = Further(f[k - 1])
    <3>1. k \in 0 .. N /\ k # 0
          BY <2>1
    <3> QED
        BY <2>1, <3>1
  <2> QED
      BY <2>2, <2>3 DEF N, f
<1> QED
    BY <1>1, <1>5, <1>6

(* What is left of an address to be made plainer.                          *)
Effort(a) == 2 * Len(a.local) + (IF a.domain = "gmail.com" THEN 0 ELSE 1)

LEMMA EffortType ==
    ASSUME NEW a \in Addresses
    PROVE  Effort(a) \in Nat /\ Effort(a) =< Steps(a)
<1>1. Len(a.local) \in Nat
      BY DEF Addresses
<1> DEFINE n == Len(a.local)
           x == IF a.domain = "gmail.com" THEN 0 ELSE 1
<1>2. x \in {0, 1} /\ n \in Nat
      BY <1>1
<1> HIDE DEF n, x
<1>3. 2 * n + x \in Nat /\ 2 * n + x =< 2 * n + 1
      BY <1>2
<1> QED
    BY <1>3 DEF n, x, Effort, Steps

LEMMA DotShortens ==
    ASSUME NEW a \in Addresses, NEW i \in 1 .. Len(a.local)
    PROVE  Effort(WithoutDotAt(a, i)) < Effort(a)
<1> DEFINE b == WithoutDotAt(a, i)
           n == Len(a.local)
           x == IF a.domain = "gmail.com" THEN 0 ELSE 1
<1>1. Len(b.local) = n - 1 /\ b.domain = a.domain /\ n \in Nat /\ x \in {0, 1}
      BY AddressParts, ShorterParts, DropProperties
<1>2. Effort(a) = 2 * n + x /\ Effort(b) = 2 * (n - 1) + x
      BY <1>1 DEF Effort
<1> HIDE DEF n, x
<1> QED
    BY <1>1, <1>2

LEMMA PlainerShortens ==
    ASSUME NEW a \in Addresses, NEW b \in Plainer(a), b # a
    PROVE  Effort(b) < Effort(a)
<1>1. Len(a.local) \in Nat /\ DOMAIN a.local = 1 .. Len(a.local)
      BY DEF Addresses
<1>2. CASE \E i \in DOMAIN a.local : b = WithoutDotAt(a, i)
      BY <1>1, <1>2, DotShortens
<1>3. CASE b = [a EXCEPT !.domain = "gmail.com"]
  <2>1. b.local = a.local /\ b.domain = "gmail.com" /\ a.domain # "gmail.com"
        BY <1>3 DEF Addresses
  <2> QED
      BY <1>1, <2>1 DEF Effort
<1>4. CASE b = WithoutDotAt(a, Len(a.local)) /\ Tagged(a)
  <2>1. Len(a.local) \in 1 .. Len(a.local)
        BY <1>1, <1>4 DEF Tagged
  <2> QED
      BY <1>4, <2>1, DotShortens
<1> QED
    BY <1>2, <1>3, <1>4 DEF Plainer

LEMMA ChainKeepsCanon ==
    ASSUME NEW a \in Addresses
    PROVE  \A n \in 0 .. Steps(a) : \A b \in Chain(a)[n] :
              b \in Addresses /\ canonicalEmail(b) = canonicalEmail(a)
<1> DEFINE Kept(n) == \A b \in Chain(a)[n] :
                         b \in Addresses /\ canonicalEmail(b) = canonicalEmail(a)
           C == {n \in Nat : n \in 0 .. Steps(a) => Kept(n)}
<1>0. a \in Addresses /\ Steps(a) \in Nat
      BY ChainOfForms
<1>1. 0 \in C
  <2>1. Kept(0)
        BY <1>0, ChainOfForms
  <2> QED
      BY <2>1
<1>2. ASSUME NEW n \in Nat, n \in C PROVE n + 1 \in C
  <2> SUFFICES ASSUME n + 1 \in 0 .. Steps(a) PROVE Kept(n + 1)
      OBVIOUS
  <2>1. Kept(n)
        BY <1>0, <1>2
  <2>2. Chain(a)[n + 1] = Further(Chain(a)[n])
    <3>1. n + 1 \in 1 .. Steps(a) /\ (n + 1) - 1 = n
          BY <1>0
    <3> QED
        BY <1>0, <3>1, ChainOfForms
  <2>3. ASSUME NEW b \in Chain(a)[n + 1]
        PROVE  b \in Addresses /\ canonicalEmail(b) = canonicalEmail(a)
    <3>1. CASE b \in Chain(a)[n]
          BY <2>1, <3>1
    <3>2. CASE b \notin Chain(a)[n]
      <4>1. PICK c \in Chain(a)[n] : b \in Plainer(c)
            BY <2>2, <3>2 DEF Further
      <4>2. c \in Addresses /\ canonicalEmail(c) = canonicalEmail(a)
            BY <2>1, <4>1
      <4> QED
          BY <4>1, <4>2, PlainerKeepsCanon
    <3> QED
        BY <3>1, <3>2
  <2> QED
      BY <2>3
<1>3. Nat \subseteq C
  <2> HIDE DEF C
  <2> QED
      BY <1>1, <1>2, NatSetInduction
<1> QED
    BY <1>0, <1>3

(* The plainest form is reached, and it is the canonical one.              *)
LEMMA CanonIsAForm ==
    ASSUME NEW a \in Addresses
    PROVE  canonicalEmail(a) \in Forms(a)
<1> DEFINE Near(n) == \E b \in Chain(a)[n] : canonicalEmail(b) = b \/ Effort(b) + n =< Effort(a)
           C == {n \in Nat : n \in 0 .. Steps(a) => Near(n)}
<1>0. a \in Addresses /\ Steps(a) \in Nat /\ Effort(a) \in Nat /\ Effort(a) =< Steps(a)
      BY ChainOfForms, EffortType
<1>a. ASSUME NEW n \in 0 .. Steps(a), NEW b \in Chain(a)[n], canonicalEmail(b) # b
      PROVE  \E c \in Plainer(b) : Effort(c) + 1 =< Effort(b) /\ Effort(c) \in Nat
  <2>1. b \in Addresses
        BY ChainKeepsCanon
  <2>2. PICK c \in Plainer(b) : c # b
        BY <1>a, <2>1, PlainestIsCanon
  <2>3. b \in Addresses /\ c \in Addresses
        BY <2>1, <2>2, PlainerKeepsCanon
  <2>4. Effort(c) < Effort(b) /\ Effort(c) \in Nat /\ Effort(b) \in Nat
        BY <2>2, <2>3, PlainerShortens, EffortType
  <2> QED
      BY <2>4
<1>1. 0 \in C
  <2>1. Near(0)
        BY <1>0, ChainOfForms
  <2> QED
      BY <2>1
<1>2. ASSUME NEW n \in Nat, n \in C PROVE n + 1 \in C
  <2> SUFFICES ASSUME n + 1 \in 0 .. Steps(a) PROVE Near(n + 1)
      OBVIOUS
  <2>0. n \in 0 .. Steps(a)
        BY <1>0
  <2>1. PICK b \in Chain(a)[n] : canonicalEmail(b) = b \/ Effort(b) + n =< Effort(a)
        BY <1>2, <2>0
  <2>2. Chain(a)[n + 1] = Further(Chain(a)[n])
    <3>1. n + 1 \in 1 .. Steps(a) /\ (n + 1) - 1 = n
          BY <1>0
    <3> QED
        BY <1>0, <3>1, ChainOfForms
  <2>3. CASE canonicalEmail(b) = b
        BY <2>1, <2>2, <2>3 DEF Further
  <2>4. CASE canonicalEmail(b) # b
    <3>1. PICK c \in Plainer(b) : Effort(c) + 1 =< Effort(b) /\ Effort(c) \in Nat
          BY <1>a, <2>0, <2>4
    <3>2. c \in Chain(a)[n + 1]
          BY <2>1, <2>2, <3>1 DEF Further
    <3>3. Effort(b) \in Nat
          BY ChainKeepsCanon, EffortType, <2>0
    <3>4. Effort(c) + (n + 1) =< Effort(a)
          BY <1>0, <2>1, <2>4, <3>1, <3>3
    <3> QED
        BY <3>2, <3>4
  <2> QED
      BY <2>3, <2>4
<1>3. Nat \subseteq C
  <2> HIDE DEF C
  <2> QED
      BY <1>1, <1>2, NatSetInduction
<1>4. PICK b \in Chain(a)[Steps(a)] : canonicalEmail(b) = b
  <2>1. Steps(a) \in 0 .. Steps(a)
        BY <1>0
  <2>2. PICK b \in Chain(a)[Steps(a)] : canonicalEmail(b) = b \/ Effort(b) + Steps(a) =< Effort(a)
        BY <1>0, <1>3, <2>1
  <2>3. CASE canonicalEmail(b) # b
    <3>1. PICK c \in Plainer(b) : Effort(c) + 1 =< Effort(b) /\ Effort(c) \in Nat
          BY <1>a, <2>1, <2>3
    <3>2. Effort(b) \in Nat
          BY ChainKeepsCanon, EffortType, <2>1
    <3> QED
        BY <1>0, <2>2, <2>3, <3>1, <3>2
  <2> QED
      BY <2>2, <2>3
<1>5. canonicalEmail(b) = canonicalEmail(a)
      BY <1>0, <1>4, ChainKeepsCanon
<1> QED
    BY <1>0, <1>4, <1>5, ChainOfForms

(* Two spellings of one inbox have one canonical form, and the other way.  *)
LEMMA OneInboxOneCanon ==
    ASSUME NEW a \in Addresses, NEW b \in Addresses
    PROVE  /\ SameInbox(a, b) <=> canonicalEmail(a) = canonicalEmail(b)
           /\ b = canonicalEmail(a) => SameInbox(a, b)
<1>1. ASSUME NEW c \in Addresses, NEW d \in Forms(c)
      PROVE  canonicalEmail(d) = canonicalEmail(c)
  <2>1. Steps(c) \in Nat /\ Forms(c) = Chain(c)[Steps(c)]
        BY ChainOfForms
  <2> QED
      BY <2>1, ChainKeepsCanon
<1>2. canonicalEmail(a) \in Forms(a) /\ canonicalEmail(b) \in Forms(b)
      BY CanonIsAForm
<1>3. b = canonicalEmail(a) => canonicalEmail(b) = canonicalEmail(a)
      BY <1>1, <1>2
<1> QED
    BY <1>1, <1>2, <1>3 DEF SameInbox

-----------------------------------------------------------------------------
(* The accounts.                                                           *)

(* What the columns of users hold and that both are unique, and in what    *)
(* account the login of a request ends.                                    *)
OwnAccount(q) == q.op = "CheckCode" /\ q.user # None => q.user \in Spelt[q.email]
AccountRest ==
    /\ \A e \in Emails : users[e] \in {None, e, Canon[e]}
    /\ \A d, e \in Emails : users[d] = users[e] /\ users[d] # None => d = e
    /\ \A r \in Requests : OwnAccount(req[r])
AccountInv == TypeInv /\ AccountRest

LEMMA SpeltCanon ==
    ASSUME NEW e \in Emails, NEW f \in Emails
    PROVE  /\ f \in Spelt[e] <=> Canon[e] = Canon[f]
           /\ f = Canon[e] => f \in Spelt[e]
BY AuthAssumption, OneInboxOneCanon DEF Spelt, Canon

LEMMA AccountSlot ==
    ASSUME AccountInv, NEW r \in Requests, Start(r) \/ Fail(r) \/ Statement(r),
           users' = users, OwnAccount(req'[r])
    PROVE  AccountRest'
BY OneMoves DEF AccountInv, AccountRest, OwnAccount

(* A login looks the account up or creates it.                             *)
LEMMA AccountLogin ==
    ASSUME AccountInv, NEW r \in Requests, UserByCanonicalEmail(r) \/ CreateUser(r),
           \A s \in Requests : s # r => req'[s] = req[s]
    PROVE  AccountRest'
<1>0. /\ req \in [Requests -> Request] /\ req[r] \in Request /\ req[r].email \in Emails
      /\ OwnAccount(req[r]) /\ None \notin Emails
      BY SlotType, AuthAssumption
      DEF AccountInv, AccountRest, TypeInv, TypeOK, UserByCanonicalEmail, CreateUser, At, Form,
          CheckStmts
<1> DEFINE e == req[r].email
<1>1. ASSUME NEW u \in Spelt[e],
             req' = [req EXCEPT ![r] = [@ EXCEPT !.pc = "revokeSessions", !.user = u]]
      PROVE  \A s \in Requests : OwnAccount(req'[s])
  <2> DEFINE q == [req[r] EXCEPT !.pc = "revokeSessions", !.user = u]
  <2>1. req'[r] = q
        BY <1>0, <1>1
  <2>2. q.user = u /\ q.email = e
        BY <1>0 DEF Request
  <2>3. OwnAccount(req'[r])
        BY <2>1, <2>2 DEF OwnAccount
  <2> QED
      BY <2>3 DEF AccountInv, AccountRest
<1>2. ASSUME NEW out, Refuse(r, out) PROVE \A s \in Requests : OwnAccount(req'[s])
  <2>1. OwnAccount(req'[r])
        BY <1>2, RefusedSlot DEF OwnAccount, AccountInv
  <2> QED
      BY <2>1 DEF AccountInv, AccountRest
<1>3. CASE UserByCanonicalEmail(r)
  <2>1. ASSUME NEW u \in AccountOf(Canon[e])
        PROVE  u \in Spelt[e]
    <3>1. u \in Emails /\ users[u] = Canon[e] /\ users[u] # None
          BY <1>0, <2>1, IdentAssumption DEF AccountOf, Idents
    <3>2. users[u] = u \/ users[u] = Canon[u]
          BY <3>1 DEF AccountInv, AccountRest
    <3> QED
        BY <1>0, <3>1, <3>2, SpeltCanon
  <2>2. CASE Goto(r, "createUser")
    <3> DEFINE q == [req[r] EXCEPT !.pc = "createUser"]
    <3>1. req'[r] = q
          BY <1>0, <2>2 DEF Goto
    <3>2. q.op = req[r].op /\ q.user = req[r].user /\ q.email = e
          BY <1>0 DEF Request
    <3>3. OwnAccount(req'[r])
          BY <1>0, <3>1, <3>2 DEF OwnAccount
    <3> QED
        BY <1>3, <3>3 DEF AccountInv, AccountRest, UserByCanonicalEmail, tables
  <2> QED
      BY <1>1, <1>3, <2>1, <2>2 DEF UserByCanonicalEmail, AccountInv, AccountRest, tables
<1>4. CASE CreateUser(r)
  <2>1. CASE \E out : Refuse(r, out) /\ UNCHANGED users
        BY <1>2, <2>1 DEF AccountInv, AccountRest
  <2>2. CASE /\ users[e] = None /\ AccountOf(Canon[e]) = {}
             /\ users' = [users EXCEPT ![e] = Canon[e]]
             /\ req' = [req EXCEPT ![r] = [@ EXCEPT !.pc = "revokeSessions", !.user = e]]
    <3>1. e \in Spelt[e]
          BY <1>0, SpeltCanon
    <3>2. \A d \in Emails : users'[d] = IF d = e THEN Canon[e] ELSE users[d]
          BY <2>2 DEF AccountInv, TypeInv, TypeOK
    <3>3. \A d \in Emails : users[d] # Canon[e]
          BY <2>2 DEF AccountOf
    <3>4. \A d \in Emails : users'[d] \in {None, d, Canon[d]}
          BY <3>2 DEF AccountInv, AccountRest
    <3>5. \A d, f \in Emails : users'[d] = users'[f] /\ users'[d] # None => d = f
          BY <3>2, <3>3 DEF AccountInv, AccountRest
    <3>6. \A s \in Requests : OwnAccount(req'[s])
          BY <1>1, <2>2, <3>1
    <3> QED
        BY <3>4, <3>5, <3>6 DEF AccountRest
  <2> QED
      BY <1>4, <2>1, <2>2 DEF CreateUser
<1> QED
    BY <1>3, <1>4

(* No other step makes a login one into another account.                   *)
LEMMA AccountStart ==
    ASSUME AccountInv, NEW r \in Requests, Start(r)
    PROVE  users' = users /\ OwnAccount(req'[r])
<1>0. req \in [Requests -> Request]
      BY DEF AccountInv, TypeInv, TypeOK
<1>1. CASE RussianEmailRequired(r)
      BY <1>1, RefusedSlot DEF RussianEmailRequired, OwnAccount, AccountInv, tables
<1>2. CASE StartSendCode(r)
  <2>1. PICK e, ip :
          Begin(r, [NoRequest EXCEPT !.op = "SendCode", !.email = e, !.ip = ip,
                                     !.start = now, !.pc = "lastSendAt"])
        BY <1>2 DEF StartSendCode
  <2> QED
      BY <1>0, <2>1 DEF Begin, NoRequest, OwnAccount, tables
<1>3. CASE StartCheckCode(r)
  <2>1. PICK e \in Emails, code \in Codes \cup {None} :
           Begin(r, [NoRequest EXCEPT !.op = "CheckCode", !.email = e, !.code = code,
             !.start = now, !.pc = "otpByEmail", !.first = otp[e].code,
             !.known = users[e] # None,
             !.live = code # None /\ otp[e].code = code /\ now =< otp[e].expires,
             !.prior = UNION {ActiveSessions(u) : u \in AccountOf(Canon[e])}])
        BY <1>3 DEF StartCheckCode, AccountInv, TypeInv, TypeOK
  <2> DEFINE live == code # None /\ otp[e].code = code /\ now =< otp[e].expires
             prior == UNION {ActiveSessions(u) : u \in AccountOf(Canon[e])}
             known == users[e] # None
             q == [NoRequest EXCEPT !.op = "CheckCode", !.email = e, !.code = code,
                     !.start = now, !.pc = "otpByEmail", !.first = otp[e].code,
                     !.known = known, !.live = live, !.prior = prior]
  <2>2. req' = [req EXCEPT ![r] = q] /\ users' = users
        BY <2>1 DEF Begin, tables
  <2> HIDE DEF live, prior, known
  <2>3. q.user = None
        BY DEF NoRequest
  <2> QED
      BY <1>0, <2>2, <2>3 DEF OwnAccount
<1>4. CASE StartRefresh(r)
  <2>1. PICK token, live :
           Begin(r, [NoRequest EXCEPT !.op = "Refresh", !.token = token, !.start = now,
                       !.pc = "sessionByHash", !.live = live, !.prior = {token}])
        BY <1>4 DEF StartRefresh
  <2> QED
      BY <1>0, <2>1 DEF Begin, NoRequest, OwnAccount, tables
<1>5. CASE StartLogout(r)
  <2>1. PICK user, prior :
           Begin(r, [NoRequest EXCEPT !.op = "Logout", !.user = user, !.start = now,
                       !.pc = "revokeSessions", !.prior = prior])
        BY <1>5 DEF StartLogout
  <2> QED
      BY <1>0, <2>1 DEF Begin, NoRequest, OwnAccount, tables
<1> QED
    BY <1>1, <1>2, <1>3, <1>4, <1>5 DEF Start

(* A statement keeps operation, address and account of its request.        *)
SameOwner(p, q) == q.op = p.op /\ q.user = p.user /\ q.email = p.email

LEMMA AccountKept ==
    ASSUME AccountInv, NEW r \in Requests,
           \/ Fail(r) \/ LastSendAt(r) \/ CountByEmail(r) \/ CountByIP(r) \/ UpsertOTP(r)
           \/ SendOTP(r) \/ InsertSendEvent(r) \/ OtpByEmail(r) \/ ExpireOTP(r)
           \/ IncrementOTPAttempts(r) \/ LockOut(r) \/ ConsumeOTP(r) \/ RevokeSessions(r)
           \/ LockSessions(r) \/ SessionByHash(r) \/ UserByID(r) \/ RevokeOld(r)
           \/ InsertSession(r) \/ Reply(r)
    PROVE  users' = users /\ OwnAccount(req'[r])
<1>0. req \in [Requests -> Request] /\ req[r] \in Request /\ Form(req[r]) /\ OwnAccount(req[r])
      BY SlotType DEF AccountInv, AccountRest, TypeInv, TypeOK
<1>a. ASSUME NEW out, Refuse(r, out) \/ Forget(r) PROVE OwnAccount(req'[r])
      BY <1>a, RefusedSlot DEF OwnAccount, AccountInv
<1>s. ASSUME SameOwner(req[r], req'[r]) PROVE OwnAccount(req'[r])
      BY <1>0, <1>s DEF OwnAccount, SameOwner
<1>b. ASSUME NEW stmt, Goto(r, stmt) PROVE OwnAccount(req'[r])
  <2>1. req'[r] = [req[r] EXCEPT !.pc = stmt]
        BY <1>0, <1>b DEF Goto
  <2>2. SameOwner(req[r], req'[r])
        BY <1>0, <2>1 DEF Request, SameOwner
  <2> QED
      BY <1>s, <2>2
<1>c. ASSUME NEW pc, NEW c, req' = [req EXCEPT ![r] = [@ EXCEPT !.pc = pc, !.code = c]]
      PROVE  OwnAccount(req'[r])
  <2>1. req'[r] = [req[r] EXCEPT !.pc = pc, !.code = c]
        BY <1>0, <1>c
  <2>2. SameOwner(req[r], req'[r])
        BY <1>0, <2>1 DEF Request, SameOwner
  <2> QED
      BY <1>s, <2>2
<1>d. ASSUME NEW pc, NEW ts, req' = [req EXCEPT ![r] = [@ EXCEPT !.pc = pc, !.targets = ts]]
      PROVE  OwnAccount(req'[r])
  <2>1. req'[r] = [req[r] EXCEPT !.pc = pc, !.targets = ts]
        BY <1>0, <1>d
  <2>2. SameOwner(req[r], req'[r])
        BY <1>0, <2>1 DEF Request, SameOwner
  <2> QED
      BY <1>s, <2>2
<1>1. CASE \/ Fail(r) \/ LastSendAt(r) \/ CountByEmail(r) \/ CountByIP(r)
           \/ SendOTP(r) \/ InsertSendEvent(r)
      BY <1>1, <1>a, <1>b
      DEF Fail, LastSendAt, CountByEmail, CountByIP, SendOTP, InsertSendEvent, tables
<1>2. CASE UpsertOTP(r)
      BY <1>2, <1>c DEF UpsertOTP
<1>3. CASE OtpByEmail(r)
      BY <1>3, <1>a, <1>b, <1>c DEF OtpByEmail, tables
<1>4. CASE ExpireOTP(r) \/ IncrementOTPAttempts(r) \/ LockOut(r) \/ ConsumeOTP(r)
      BY <1>4, <1>a, <1>b DEF ExpireOTP, IncrementOTPAttempts, LockOut, ConsumeOTP
<1>5. CASE RevokeSessions(r) \/ LockSessions(r) \/ RevokeOld(r) \/ SessionByHash(r)
      BY <1>5, <1>a, <1>b, <1>d
      DEF RevokeSessions, LockSessions, RevokeOld, SessionByHash, tables
<1>6. CASE UserByID(r)
  <2>1. req[r].op = "Refresh"
        BY <1>0, <1>6 DEF UserByID, At, Form, TokenStmts
  <2> DEFINE u == sessions[req[r].token].user
             q == [req[r] EXCEPT !.pc = "revokeOld", !.user = u]
  <2>2. req'[r] = q /\ users' = users
        BY <1>0, <1>6 DEF UserByID, tables
  <2>3. q.op = "Refresh"
        BY <1>0, <2>1 DEF Request
  <2> QED
      BY <2>2, <2>3 DEF OwnAccount
<1>7. CASE InsertSession(r)
  <2>1. PICK t : req' = [req EXCEPT ![r] = [@ EXCEPT !.pc = "reply", !.targets = {}, !.own = t]]
        BY <1>7 DEF InsertSession
  <2>2. req'[r] = [req[r] EXCEPT !.pc = "reply", !.targets = {}, !.own = t]
        BY <1>0, <2>1
  <2>3. SameOwner(req[r], req'[r])
        BY <1>0, <2>2 DEF Request, SameOwner
  <2> QED
      BY <1>7, <1>s, <2>3 DEF InsertSession
<1>8. CASE Reply(r)
  <2> DEFINE q == [NoRequest EXCEPT !.out = "OK", !.op = req[r].op,
                                    !.live = req[r].live, !.prior = req[r].prior]
  <2>1. req'[r] = q /\ users' = users
        BY <1>0, <1>8 DEF Reply, tables
  <2>2. q.user = None
        BY DEF NoRequest
  <2> QED
      BY <2>1, <2>2 DEF OwnAccount
<1> QED
    BY <1>1, <1>2, <1>3, <1>4, <1>5, <1>6, <1>7, <1>8

LEMMA AccountInit == Init => AccountInv
<1> SUFFICES ASSUME Init PROVE AccountRest
    BY InitType DEF AccountInv
<1>1. \A e \in Emails : users[e] \in {None, e}
      BY DEF Init, Backfill
<1>2. \A r \in Requests : OwnAccount(req[r])
      BY DEF Init, NoRequest, OwnAccount
<1> QED
    BY <1>1, <1>2 DEF AccountRest

LEMMA NextAccount == AccountInv /\ [Next]_vars => AccountInv'
<1> SUFFICES ASSUME AccountInv, [Next]_vars PROVE AccountRest'
    BY NextType DEF AccountInv
<1>1. CASE Tick \/ UNCHANGED vars
  <2>1. UNCHANGED <<users, req>>
        BY <1>1 DEF Tick, vars, tables
  <2> QED
      BY <2>1 DEF AccountInv, AccountRest
<1>2. ASSUME NEW r \in Requests, Start(r) \/ Fail(r) \/ Statement(r)
      PROVE  AccountRest'
  <2>1. CASE UserByCanonicalEmail(r) \/ CreateUser(r)
        BY <1>2, <2>1, OneMoves, AccountLogin DEF AccountInv
  <2>2. CASE ~(UserByCanonicalEmail(r) \/ CreateUser(r))
    <3>1. users' = users /\ OwnAccount(req'[r])
          BY <1>2, <2>2, AccountStart, AccountKept DEF Statement
    <3> QED
        BY <1>2, <3>1, AccountSlot
  <2> QED
      BY <2>1, <2>2
<1> QED
    BY <1>1, <1>2 DEF Next

(* Whatever logins look an account up and create it at once, no two whose  *)
(* canonical_email the code has worked out are of one inbox, and a code    *)
(* leads into an account of the inbox it was sent to.                      *)
THEOREM OneAccountPerInbox == Spec => []AccountPerInbox
<1>1. AccountInv => AccountPerInbox
  <2> SUFFICES ASSUME AccountInv PROVE AccountPerInbox
      OBVIOUS
  <2>1. ASSUME NEW e \in Emails, NEW f \in Emails, e # f, users[e] = Canon[e],
               users[f] = Canon[f]
        PROVE  f \notin Spelt[e]
    <3>1. users[e] # None
          BY <2>1, IdentAssumption DEF Idents
    <3> QED
        BY <2>1, <3>1, SpeltCanon DEF AccountInv, AccountRest
  <2> QED
      BY <2>1, CanonicalForms DEF AccountPerInbox, AccountInv, AccountRest, OwnAccount
<1>2. AccountInv /\ [Next]_vars => AccountInv'
      BY NextAccount
<1> QED
    BY <1>1, <1>2, AccountInit, PTL DEF Spec
=============================================================================
