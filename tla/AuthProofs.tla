------------------------------ MODULE AuthProofs ------------------------------
(* Proofs about Auth: types, what login, refresh and logout end, who gets  *)
(* in, and that they implement SessionStore, for any number of addresses,  *)
(* codes, tokens and requests.                                             *)
EXTENDS Auth, TLAPS

(* What a statement relies on.                                             *)
SendStmts == {"lastSendAt", "countByEmail", "countByIP", "upsertOTP", "sendOTP",
              "insertSendEvent"}
CheckStmts == {"otpByEmail", "expireOTP", "incrementOTPAttempts", "lockOut",
               "consumeOTP", "userByCanonicalEmail", "createUser"}
TokenStmts == {"sessionByHash", "userByID", "revokeOld"}

Form(q) ==
    /\ q.pc \in SendStmts => q.op = "SendCode" /\ q.email \in Emails /\ q.ip \in IPs
    /\ q.pc \in CheckStmts => q.op = "CheckCode" /\ q.email \in Emails
    /\ q.pc \in {"sendOTP", "insertSendEvent", "incrementOTPAttempts"} => q.code \in Codes
    /\ q.pc \in TokenStmts => q.op = "Refresh"
    /\ q.pc \in {"revokeSessions", "lockSessions"} => q.op \in {"CheckCode", "Logout"}
    /\ q.pc = "insertSession" => q.op \in {"CheckCode", "Refresh"}
    /\ q.pc = "reply" => q.op # "SendCode"
    /\ q.pc # "done" /\ q.op = "CheckCode" => q.email \in Emails
    /\ q.pc # "done" /\ q.op = "Refresh" => q.token \in Tokens

TypeInv == TypeOK /\ \A r \in Requests : Form(req[r])

ReqOK == req \in [Requests -> Request] /\ \A r \in Requests : Form(req[r])

LEMMA OneSlot ==
    ASSUME TypeInv, NEW r \in Requests, NEW q \in Request, Form(q),
           req' = [req EXCEPT ![r] = q]
    PROVE  ReqOK'
BY DEF TypeInv, TypeOK, ReqOK

LEMMA SlotType ==
    ASSUME TypeInv, NEW r \in Requests
    PROVE  req[r] \in Request /\ Form(req[r])
BY DEF TypeInv, TypeOK

LEMMA NoRequestType == NoRequest \in Request /\ Form(NoRequest)
BY DEF NoRequest, Request, Form, AuthOps, Stmts, Outs, SendStmts, CheckStmts, TokenStmts

LEMMA RefuseType ==
    ASSUME TypeInv, NEW r \in Requests, NEW out, Refuse(r, out) \/ Forget(r)
    PROVE  ReqOK'
<1> DEFINE q == [NoRequest EXCEPT !.out = "UNIQUE_VIOLATION", !.known = req[r].known]
<1>1. q \in Request /\ Form(q)
  <2>1. req[r].known \in BOOLEAN
        BY SlotType DEF Request
  <2> QED
      BY <2>1 DEF NoRequest, Request, Form, AuthOps, Stmts, Outs, SendStmts, CheckStmts,
                  TokenStmts
<1>2. req' = [req EXCEPT ![r] = NoRequest] \/ req' = [req EXCEPT ![r] = q]
      BY DEF Refuse, Forget
<1> QED
    BY <1>1, <1>2, OneSlot, NoRequestType

LEMMA GotoType ==
    ASSUME TypeInv, NEW r \in Requests, NEW stmt \in Stmts, Goto(r, stmt),
           Form([req[r] EXCEPT !.pc = stmt])
    PROVE  ReqOK'
<1> DEFINE q == [req[r] EXCEPT !.pc = stmt]
<1>1. q \in Request
      BY SlotType DEF Request
<1>2. req' = [req EXCEPT ![r] = q]
      BY DEF Goto
<1> QED
    BY <1>1, <1>2, OneSlot

LEMMA InitType == Init => TypeInv
<1> SUFFICES ASSUME Init PROVE TypeInv
    OBVIOUS
<1>1. users \in [Emails -> Idents \cup {None}]
      BY DEF Init, Idents, Backfill
<1>2. otp \in [Emails -> OtpRow]
      BY AuthAssumption DEF Init, OtpRow, NoOtp
<1>3. events \in SUBSET Event
      BY AuthAssumption DEF Init, Event
<1>4. sessions \in [Tokens -> SessionRow] /\ mailed \in [Emails -> SUBSET Codes]
      BY AuthAssumption DEF Init, SessionRow, Unissued
<1> QED
    BY <1>1, <1>2, <1>3, <1>4, NoRequestType DEF Init, TypeInv, TypeOK

LEMMA StartType ==
    ASSUME TypeInv, NEW r \in Requests, Start(r)
    PROVE  ReqOK'
<1>0. now \in Nat
      BY DEF TypeInv, TypeOK
<1>1. CASE RussianEmailRequired(r)
      BY <1>1, RefuseType DEF RussianEmailRequired
<1>2. CASE StartSendCode(r)
  <2>1. PICK e \in Emails, ip \in IPs :
           req' = [req EXCEPT ![r] = [NoRequest EXCEPT !.op = "SendCode", !.email = e,
                                        !.ip = ip, !.start = now, !.pc = "lastSendAt"]]
        BY <1>2 DEF StartSendCode, Begin
  <2> DEFINE q == [NoRequest EXCEPT !.op = "SendCode", !.email = e, !.ip = ip,
                                    !.start = now, !.pc = "lastSendAt"]
  <2>2. q \in Request /\ Form(q)
        BY <1>0
        DEF NoRequest, Request, Form, AuthOps, Stmts, Outs,
               SendStmts, CheckStmts, TokenStmts
  <2> QED
      BY <2>1, <2>2, OneSlot
<1>3. CASE StartCheckCode(r)
  <2>1. PICK e \in Emails, code \in Codes \cup {None} :
           Begin(r, [NoRequest EXCEPT !.op = "CheckCode", !.email = e, !.code = code,
               !.start = now, !.pc = "otpByEmail", !.first = otp[e].code,
               !.known = users[e] # None,
               !.live = code # None /\ otp[e].code = code /\ now =< otp[e].expires,
               !.prior = UNION {ActiveSessions(u) : u \in AccountOf(Canon[e])}])
        BY <1>3 DEF StartCheckCode, TypeInv, TypeOK
  <2> DEFINE live == code # None /\ otp[e].code = code /\ now =< otp[e].expires
             prior == UNION {ActiveSessions(u) : u \in AccountOf(Canon[e])}
             known == users[e] # None
             q == [NoRequest EXCEPT !.op = "CheckCode", !.email = e, !.code = code,
                     !.start = now, !.pc = "otpByEmail", !.first = otp[e].code,
                     !.known = known, !.live = live, !.prior = prior]
  <2>2. live \in BOOLEAN /\ known \in BOOLEAN
        OBVIOUS
  <2>3. prior \in SUBSET Tokens
        BY DEF ActiveSessions
  <2>4. otp[e].code \in Codes \cup {None}
        BY DEF TypeInv, TypeOK, OtpRow
  <2> HIDE DEF live, prior, known
  <2>5. q \in Request /\ Form(q)
        BY <1>0, <2>2, <2>3, <2>4
        DEF NoRequest, Request, Form, AuthOps, Stmts, Outs,
               SendStmts, CheckStmts, TokenStmts
  <2>6. req' = [req EXCEPT ![r] = q]
        BY <2>1 DEF Begin, live, prior, known
  <2> QED
      BY <2>5, <2>6, OneSlot
<1>4. CASE StartRefresh(r)
  <2>1. PICK token \in held :
           Begin(r, [NoRequest EXCEPT !.op = "Refresh", !.token = token,
               !.start = now, !.pc = "sessionByHash",
               !.live = /\ sessions[token].status = "ACTIVE"
                        /\ now =< sessions[token].expires,
               !.prior = {token}])
        BY <1>4 DEF StartRefresh
  <2> DEFINE live == sessions[token].status = "ACTIVE" /\ now =< sessions[token].expires
             q == [NoRequest EXCEPT !.op = "Refresh", !.token = token, !.start = now,
                     !.pc = "sessionByHash", !.live = live, !.prior = {token}]
  <2>2. live \in BOOLEAN /\ token \in Tokens
        BY DEF TypeInv, TypeOK
  <2> HIDE DEF live
  <2>3. q \in Request /\ Form(q)
        BY <1>0, <2>2
        DEF NoRequest, Request, Form, AuthOps, Stmts, Outs,
               SendStmts, CheckStmts, TokenStmts
  <2>4. req' = [req EXCEPT ![r] = q]
        BY <2>1 DEF Begin, live
  <2> QED
      BY <2>3, <2>4, OneSlot
<1>5. CASE StartLogout(r)
  <2>1. PICK user \in {sessions[t].user : t \in held} :
           Begin(r, [NoRequest EXCEPT !.op = "Logout", !.user = user, !.start = now,
                       !.pc = "revokeSessions", !.prior = ActiveSessions(user)])
        BY <1>5 DEF StartLogout
  <2> DEFINE q == [NoRequest EXCEPT !.op = "Logout", !.user = user, !.start = now,
                     !.pc = "revokeSessions", !.prior = ActiveSessions(user)]
  <2>2. user \in Emails \cup {None} /\ ActiveSessions(user) \in SUBSET Tokens
    <3>1. PICK t \in Tokens : user = sessions[t].user
          BY <2>1 DEF TypeInv, TypeOK
    <3> QED
        BY <3>1 DEF TypeInv, TypeOK, SessionRow, ActiveSessions
  <2>3. q \in Request /\ Form(q)
        BY <1>0, <2>2
        DEF NoRequest, Request, Form, AuthOps, Stmts, Outs,
               SendStmts, CheckStmts, TokenStmts
  <2>4. req' = [req EXCEPT ![r] = q]
        BY <2>1 DEF Begin
  <2> QED
      BY <2>3, <2>4, OneSlot
<1> QED
    BY <1>1, <1>2, <1>3, <1>4, <1>5 DEF Start

(* A request goes on, and has had its fields typed.                        *)
LEMMA GoesOnType ==
    ASSUME TypeInv, NEW r \in Requests
    PROVE  /\ At(r, "lastSendAt") /\ Goto(r, "countByEmail") => ReqOK'
           /\ At(r, "countByEmail") /\ Goto(r, "countByIP") => ReqOK'
           /\ At(r, "countByIP") /\ Goto(r, "upsertOTP") => ReqOK'
           /\ At(r, "sendOTP") /\ Goto(r, "insertSendEvent") => ReqOK'
           /\ At(r, "otpByEmail") /\ Goto(r, "expireOTP") => ReqOK'
           /\ At(r, "otpByEmail") /\ Goto(r, "consumeOTP") => ReqOK'
           /\ At(r, "incrementOTPAttempts") /\ Goto(r, "lockOut") => ReqOK'
           /\ At(r, "consumeOTP") /\ Goto(r, "userByCanonicalEmail") => ReqOK'
           /\ At(r, "userByCanonicalEmail") /\ Goto(r, "createUser") => ReqOK'
           /\ At(r, "sessionByHash") /\ Goto(r, "userByID") => ReqOK'
<1> DEFINE Pairs == {<<"lastSendAt", "countByEmail">>, <<"countByEmail", "countByIP">>,
                     <<"countByIP", "upsertOTP">>, <<"sendOTP", "insertSendEvent">>,
                     <<"otpByEmail", "expireOTP">>, <<"otpByEmail", "consumeOTP">>,
                     <<"incrementOTPAttempts", "lockOut">>,
                     <<"consumeOTP", "userByCanonicalEmail">>,
                     <<"userByCanonicalEmail", "createUser">>,
                     <<"sessionByHash", "userByID">>}
<1>1. ASSUME NEW from, NEW to, <<from, to>> \in Pairs, At(r, from), Goto(r, to)
      PROVE  ReqOK'
  <2>1. to \in Stmts
        BY <1>1 DEF Stmts
  <2>2. Form([req[r] EXCEPT !.pc = to])
        BY <1>1, SlotType DEF Form, Request, At, SendStmts, CheckStmts, TokenStmts
  <2> QED
      BY <1>1, <2>1, <2>2, GotoType
<1> QED
    BY <1>1

LEMMA SendType ==
    ASSUME TypeInv, NEW r \in Requests,
           \/ LastSendAt(r) \/ CountByEmail(r) \/ CountByIP(r) \/ UpsertOTP(r)
           \/ SendOTP(r) \/ InsertSendEvent(r)
    PROVE  TypeInv'
<1>1. CASE LastSendAt(r) \/ CountByEmail(r) \/ CountByIP(r)
  <2>1. ReqOK'
        BY <1>1, GoesOnType, RefuseType DEF LastSendAt, CountByEmail, CountByIP
  <2> QED
      BY <1>1, <2>1
      DEF LastSendAt, CountByEmail, CountByIP, TypeInv, TypeOK, ReqOK, tables, clients, history
<1>2. CASE UpsertOTP(r)
  <2>1. PICK c \in Codes :
          /\ otp' = [otp EXCEPT ![req[r].email] =
                      [code |-> c, expires |-> req[r].start + OtpTTL, attempts |-> 0]]
          /\ req' = [req EXCEPT ![r] = [@ EXCEPT !.pc = "sendOTP", !.code = c]]
        BY <1>2 DEF UpsertOTP
  <2> DEFINE q == [req[r] EXCEPT !.pc = "sendOTP", !.code = c]
  <2>2. req[r].start + OtpTTL \in Nat
        BY SlotType, AuthAssumption DEF Request
  <2>3. otp' \in [Emails -> OtpRow]
        BY <2>1, <2>2 DEF TypeInv, TypeOK, OtpRow
  <2>4. q \in Request
    <3>1. req[r] \in Request
          BY SlotType
    <3> QED
        BY <3>1 DEF Request, Stmts
  <2>5. Form(q)
        BY <1>2, SlotType DEF UpsertOTP, At, Form, Request, SendStmts, CheckStmts, TokenStmts
  <2>6. ReqOK'
        BY <2>1, <2>4, <2>5, OneSlot
  <2> QED
      BY <1>2, <2>3, <2>6 DEF UpsertOTP, TypeInv, TypeOK, ReqOK, clients, history
<1>3. CASE SendOTP(r)
  <2>1. req[r].email \in Emails /\ req[r].code \in Codes
        BY <1>3, SlotType DEF SendOTP, At, Form, SendStmts
  <2>2. mailed' \in [Emails -> SUBSET Codes]
        BY <1>3, <2>1 DEF SendOTP, TypeInv, TypeOK
  <2>3. ReqOK'
        BY <1>3, GoesOnType DEF SendOTP
  <2> QED
      BY <1>3, <2>2, <2>3 DEF SendOTP, TypeInv, TypeOK, ReqOK, tables, history
<1>4. CASE InsertSendEvent(r)
  <2>1. req[r].email \in Emails /\ req[r].code \in Codes /\ req[r].ip \in IPs
        BY <1>4, SlotType DEF InsertSendEvent, At, Form, SendStmts
  <2>2. req[r].start \in Nat /\ now \in Nat
        BY SlotType DEF Request, TypeInv, TypeOK
  <2>3. events' \in SUBSET Event
        BY <1>4, <2>1, <2>2 DEF InsertSendEvent, Event, TypeInv, TypeOK
  <2>4. ReqOK'
        BY <1>4, RefuseType DEF InsertSendEvent
  <2> QED
      BY <1>4, <2>3, <2>4 DEF InsertSendEvent, TypeInv, TypeOK, ReqOK, clients, history
<1> QED
    BY <1>1, <1>2, <1>3, <1>4

LEMMA WithoutOtpType ==
    ASSUME TypeInv, NEW e \in Emails
    PROVE  WithoutOtp(e) \in [Emails -> OtpRow]
BY DEF TypeInv, TypeOK, WithoutOtp, OtpRow, NoOtp

LEMMA CodeType ==
    ASSUME TypeInv, NEW r \in Requests,
           \/ OtpByEmail(r) \/ ExpireOTP(r) \/ IncrementOTPAttempts(r) \/ LockOut(r)
           \/ ConsumeOTP(r)
    PROVE  TypeInv'
<1>0. req[r].email \in Emails /\ req[r].pc \in CheckStmts
      BY SlotType DEF OtpByEmail, ExpireOTP, IncrementOTPAttempts, LockOut, ConsumeOTP, At,
                      Form, CheckStmts
<1>1. CASE OtpByEmail(r)
  <2> DEFINE row == otp[req[r].email]
             q == [req[r] EXCEPT !.pc = "incrementOTPAttempts", !.code = row.code]
  <2>1. \/ Refuse(r, "OTP_INVALID") \/ Goto(r, "expireOTP") \/ Goto(r, "consumeOTP")
        \/ row.code # None /\ req' = [req EXCEPT ![r] = q]
        BY <1>1 DEF OtpByEmail
  <2>2. ASSUME row.code # None, req' = [req EXCEPT ![r] = q] PROVE ReqOK'
    <3>1. row.code \in Codes
          BY <1>0, <2>2 DEF TypeInv, TypeOK, OtpRow
    <3>2. q \in Request
      <4>1. req[r] \in Request
            BY SlotType
      <4> QED
          BY <3>1, <4>1 DEF Request, Stmts
    <3>3. Form(q)
          BY <1>0, <3>1, SlotType DEF Form, Request, SendStmts, CheckStmts, TokenStmts
    <3> QED
        BY <2>2, <3>2, <3>3, OneSlot
  <2>3. ReqOK'
        BY <1>1, <2>1, <2>2, GoesOnType, RefuseType DEF OtpByEmail
  <2> QED
      BY <1>1, <2>3 DEF OtpByEmail, TypeInv, TypeOK, ReqOK, tables, clients, history
<1>2. CASE ExpireOTP(r)
      BY <1>0, <1>2, WithoutOtpType, RefuseType
      DEF ExpireOTP, TypeInv, TypeOK, ReqOK, clients, history
<1>3. CASE IncrementOTPAttempts(r)
  <2>1. req[r].code \in Codes
        BY <1>3, SlotType DEF IncrementOTPAttempts, At, Form
  <2>2. otp' \in [Emails -> OtpRow]
        BY <1>0, <1>3 DEF IncrementOTPAttempts, TypeInv, TypeOK, OtpRow
  <2>3. wrong' \in [Codes -> Nat]
        BY <1>3, <2>1 DEF IncrementOTPAttempts, TypeInv, TypeOK
  <2>4. ReqOK'
        BY <1>3, GoesOnType, RefuseType DEF IncrementOTPAttempts
  <2> QED
      BY <1>3, <2>2, <2>3, <2>4 DEF IncrementOTPAttempts, TypeInv, TypeOK, ReqOK, clients
<1>4. CASE LockOut(r)
  <2>1. otp[req[r].email].code \in Codes \cup {None}
        BY <1>0 DEF TypeInv, TypeOK, OtpRow
  <2>2. kept' \in SUBSET Codes
        BY <1>4, <2>1 DEF LockOut, TypeInv, TypeOK
  <2>3. otp' \in [Emails -> OtpRow]
        BY <1>0, <1>4, WithoutOtpType DEF LockOut, TypeInv, TypeOK
  <2>4. ReqOK'
        BY <1>4, RefuseType DEF LockOut
  <2> QED
      BY <1>4, <2>2, <2>3, <2>4 DEF LockOut, TypeInv, TypeOK, ReqOK, clients
<1>5. CASE ConsumeOTP(r)
      BY <1>0, <1>5, WithoutOtpType, GoesOnType
      DEF ConsumeOTP, TypeInv, TypeOK, ReqOK, clients, history
<1> QED
    BY <1>1, <1>2, <1>3, <1>4, <1>5

LEMMA AccountType ==
    ASSUME TypeInv, NEW r \in Requests, UserByCanonicalEmail(r) \/ CreateUser(r)
    PROVE  TypeInv'
<1> DEFINE q(u) == [req[r] EXCEPT !.pc = "revokeSessions", !.user = u]
<1>0. req[r] \in Request /\ req[r].email \in Emails /\ req[r].op = "CheckCode"
      BY SlotType DEF UserByCanonicalEmail, CreateUser, At, Form, CheckStmts
<1>1. ASSUME NEW u \in Emails, req' = [req EXCEPT ![r] = q(u)] PROVE ReqOK'
  <2>1. q(u) \in Request
        BY <1>0 DEF Request, Stmts
  <2>2. Form(q(u))
        BY <1>0 DEF Form, Request, SendStmts, CheckStmts, TokenStmts
  <2> QED
      BY <1>1, <2>1, <2>2, OneSlot
<1>2. CASE UserByCanonicalEmail(r)
  <2>1. ReqOK'
        BY <1>1, <1>2, GoesOnType DEF UserByCanonicalEmail, AccountOf
  <2> QED
      BY <1>2, <2>1 DEF UserByCanonicalEmail, TypeInv, TypeOK, ReqOK, tables, clients, history
<1>3. CASE CreateUser(r)
  <2>1. ReqOK'
        BY <1>0, <1>1, <1>3, RefuseType DEF CreateUser
  <2>2. Canon[req[r].email] \in Idents
        BY <1>0 DEF Idents
  <2>3. users' \in [Emails -> Idents \cup {None}]
        BY <1>3, <2>2 DEF CreateUser, TypeInv, TypeOK
  <2> QED
      BY <1>3, <2>1, <2>3 DEF CreateUser, TypeInv, TypeOK, ReqOK, clients, history
<1> QED
    BY <1>2, <1>3

LEMMA RevokedType ==
    ASSUME TypeInv, NEW S
    PROVE  Revoked(S) \in [Tokens -> SessionRow]
BY DEF TypeInv, TypeOK, Revoked, SessionRow

LEMMA SessionType ==
    ASSUME TypeInv, NEW r \in Requests,
           \/ RevokeSessions(r) \/ LockSessions(r) \/ SessionByHash(r) \/ UserByID(r)
           \/ RevokeOld(r) \/ InsertSession(r) \/ Reply(r)
    PROVE  TypeInv'
<1>0. req[r] \in Request /\ Form(req[r])
      BY SlotType
<1>1. CASE RevokeSessions(r)
  <2> DEFINE q == [req[r] EXCEPT !.pc = "lockSessions", !.targets = ToRevoke(req[r].user)]
  <2>1. ToRevoke(req[r].user) \in SUBSET Tokens
        BY DEF ToRevoke, ActiveSessions
  <2>2. q \in Request
        BY <1>0, <2>1 DEF Request, Stmts
  <2>3. Form(q)
        BY <1>0, <1>1 DEF RevokeSessions, At, Form, Request, SendStmts, CheckStmts, TokenStmts
  <2>4. ReqOK'
        BY <1>1, <2>2, <2>3, OneSlot DEF RevokeSessions
  <2> QED
      BY <1>1, <2>4 DEF RevokeSessions, TypeInv, TypeOK, ReqOK, tables, clients, history
<1>2. CASE LockSessions(r)
  <2>1. req[r].pc = "lockSessions"
        BY <1>2 DEF LockSessions, At
  <2>2. CASE req[r].op = "CheckCode"
    <3> DEFINE q == [req[r] EXCEPT !.pc = "insertSession", !.targets = StillActive(r)]
    <3>1. StillActive(r) \in SUBSET Tokens
          BY <1>0 DEF StillActive, Request
    <3>2. q \in Request
          BY <1>0, <3>1 DEF Request, Stmts
    <3>3. Form(q)
          BY <1>0, <2>1, <2>2 DEF Form, Request, SendStmts, CheckStmts, TokenStmts
    <3>4. ReqOK'
          BY <1>2, <2>2, <3>2, <3>3, OneSlot DEF LockSessions
    <3> QED
        BY <1>2, <2>2, <3>4 DEF LockSessions, TypeInv, TypeOK, ReqOK, clients, history
  <2>3. CASE req[r].op # "CheckCode"
    <3> DEFINE q == [req[r] EXCEPT !.pc = "reply", !.targets = {}]
    <3>2. q \in Request
          BY <1>0 DEF Request, Stmts
    <3>3. Form(q)
          BY <1>0, <2>1 DEF Form, Request, SendStmts, CheckStmts, TokenStmts
    <3>4. ReqOK'
          BY <1>2, <2>3, <3>2, <3>3, OneSlot DEF LockSessions
    <3>5. sessions' \in [Tokens -> SessionRow]
          BY <1>2, <2>3, RevokedType DEF LockSessions
    <3> QED
        BY <1>2, <2>3, <3>4, <3>5 DEF LockSessions, TypeInv, TypeOK, ReqOK, clients, history
  <2> QED
      BY <2>2, <2>3
<1>3. CASE SessionByHash(r)
  <2>1. ReqOK'
        BY <1>3, GoesOnType, RefuseType DEF SessionByHash
  <2> QED
      BY <1>3, <2>1 DEF SessionByHash, TypeInv, TypeOK, ReqOK, tables, clients, history
<1>4. CASE UserByID(r)
  <2> DEFINE u == sessions[req[r].token].user
             q == [req[r] EXCEPT !.pc = "revokeOld", !.user = u]
  <2>1. req[r].pc = "userByID" /\ req[r].token \in Tokens
        BY <1>0, <1>4 DEF UserByID, At, Form, TokenStmts
  <2>2. u \in Emails \cup {None}
        BY <2>1 DEF TypeInv, TypeOK, SessionRow
  <2>3. q \in Request
        BY <1>0, <2>2 DEF Request, Stmts
  <2>4. Form(q)
        BY <1>0, <2>1 DEF Form, Request, SendStmts, CheckStmts, TokenStmts
  <2>5. ReqOK'
        BY <1>4, <2>3, <2>4, OneSlot DEF UserByID
  <2> QED
      BY <1>4, <2>5 DEF UserByID, TypeInv, TypeOK, ReqOK, tables, clients, history
<1>5. CASE RevokeOld(r)
  <2> DEFINE q == [req[r] EXCEPT !.pc = "insertSession", !.targets = {req[r].token}]
  <2>1. req[r].pc = "revokeOld" /\ req[r].token \in Tokens
        BY <1>0, <1>5 DEF RevokeOld, At, Form, TokenStmts
  <2>3. q \in Request
        BY <1>0, <2>1 DEF Request, Stmts
  <2>4. Form(q)
        BY <1>0, <2>1 DEF Form, Request, SendStmts, CheckStmts, TokenStmts
  <2>5. ReqOK'
        BY <1>5, <2>3, <2>4, OneSlot DEF RevokeOld
  <2> QED
      BY <1>5, <2>5 DEF RevokeOld, TypeInv, TypeOK, ReqOK, tables, clients, history
<1>6. CASE InsertSession(r)
  <2>1. PICK t \in Tokens :
          /\ sessions' = [Revoked(req[r].targets) EXCEPT ![t] =
                           [user |-> req[r].user, status |-> "ACTIVE",
                            expires |-> req[r].start + RefreshTTL]]
          /\ req' = [req EXCEPT ![r] = [@ EXCEPT !.pc = "reply", !.targets = {}, !.own = t]]
        BY <1>6 DEF InsertSession
  <2> DEFINE q == [req[r] EXCEPT !.pc = "reply", !.targets = {}, !.own = t]
  <2>2. q \in Request
        BY <1>0 DEF Request, Stmts
  <2>3. Form(q)
        BY <1>0, <1>6 DEF InsertSession, At, Form, Request, SendStmts, CheckStmts, TokenStmts
  <2>4. ReqOK'
        BY <2>1, <2>2, <2>3, OneSlot
  <2>5. req[r].user \in Emails \cup {None} /\ req[r].start + RefreshTTL \in Nat
        BY <1>0, AuthAssumption DEF Request
  <2>6. sessions' \in [Tokens -> SessionRow]
        BY <2>1, <2>5, RevokedType DEF SessionRow
  <2> QED
      BY <1>6, <2>4, <2>6 DEF InsertSession, TypeInv, TypeOK, ReqOK, clients, history
<1>7. CASE Reply(r)
  <2> DEFINE q == [NoRequest EXCEPT !.out = "OK", !.op = req[r].op,
                                    !.live = req[r].live, !.prior = req[r].prior]
  <2>1. req[r].op \in AuthOps /\ req[r].live \in BOOLEAN /\ req[r].prior \in SUBSET Tokens
        /\ req[r].own \in Tokens \cup {None}
        BY <1>0 DEF Request
  <2>2. q \in Request
        BY <2>1 DEF NoRequest, Request, Stmts, Outs
  <2>3. Form(q)
        BY <2>1 DEF NoRequest, Form, SendStmts, CheckStmts, TokenStmts
  <2>4. ReqOK'
        BY <1>7, <2>2, <2>3, OneSlot DEF Reply
  <2>5. held' \in SUBSET Tokens
        BY <1>7, <2>1 DEF Reply, TypeInv, TypeOK
  <2> QED
      BY <1>7, <2>4, <2>5 DEF Reply, TypeInv, TypeOK, ReqOK, tables, history
<1> QED
    BY <1>1, <1>2, <1>3, <1>4, <1>5, <1>6, <1>7

LEMMA NextType == TypeInv /\ [Next]_vars => TypeInv'
<1> SUFFICES ASSUME TypeInv, [Next]_vars PROVE TypeInv'
    OBVIOUS
<1>1. CASE Tick
      BY <1>1 DEF Tick, TypeInv, TypeOK, tables, clients, history
<1>2. ASSUME NEW r \in Requests, Start(r) PROVE TypeInv'
  <2>1. ReqOK'
        BY <1>2, StartType
  <2>2. UNCHANGED <<now, tables, clients, history>>
        BY <1>2 DEF Start, RussianEmailRequired, StartSendCode, StartCheckCode, StartRefresh,
                    StartLogout, Begin
  <2> QED
      BY <2>1, <2>2 DEF TypeInv, TypeOK, ReqOK, tables, clients, history
<1>3. ASSUME NEW r \in Requests, Fail(r) PROVE TypeInv'
  <2>1. ReqOK'
        BY <1>3, RefuseType DEF Fail
  <2>2. kept' \in SUBSET Codes
    <3>1. CASE ~At(r, "lockOut")
          BY <1>3, <3>1 DEF Fail, TypeInv, TypeOK
    <3>2. CASE At(r, "lockOut")
      <4>1. req[r].email \in Emails
            BY <3>2, SlotType DEF At, Form, CheckStmts
      <4>2. otp[req[r].email].code \in Codes \cup {None}
            BY <4>1 DEF TypeInv, TypeOK, OtpRow
      <4> QED
          BY <1>3, <3>2, <4>2 DEF Fail, TypeInv, TypeOK
    <3> QED
        BY <3>1, <3>2
  <2> QED
      BY <1>3, <2>1, <2>2 DEF Fail, TypeInv, TypeOK, ReqOK, tables, clients
<1>4. ASSUME NEW r \in Requests, Statement(r) PROVE TypeInv'
      BY <1>4, SendType, CodeType, AccountType, SessionType DEF Statement
<1>5. CASE UNCHANGED vars
      BY <1>5 DEF vars, tables, clients, history, TypeInv, TypeOK
<1> QED
    BY <1>1, <1>2, <1>3, <1>4, <1>5 DEF Next

(* Tables, mailboxes and requests are well typed in every reachable state. *)
THEOREM TypeCorrect == Spec => []TypeOK
<1>1. TypeInv => TypeOK
      BY DEF TypeInv
<1> QED
    BY <1>1, InitType, NextType, PTL DEF Spec

-----------------------------------------------------------------------------
(* Sessions and the locks on their rows.                                   *)

Issued == {t \in Tokens : sessions[t].status # "NONE"}

(* What a request relies on of the sessions ss: a login has locked active  *)
(* sessions of its user, a refresh the one of its token.                   *)
Sess(q, ss, n) ==
    /\ q.start =< n
    /\ q.op \in {"CheckCode", "Logout"} /\ q.pc \in {"revokeSessions", "lockSessions", "insertSession"}
          => q.user \in Emails
    /\ q.op = "Refresh" /\ q.pc # "done" => ss[q.token].status # "NONE"
    /\ q.op = "Refresh" /\ q.pc \in {"revokeOld", "insertSession"}
          => q.user = ss[q.token].user
    /\ q.op = "Refresh" /\ q.pc = "insertSession" => q.targets = {q.token}
    /\ q.pc = "lockSessions" => \A t \in q.targets : ss[t].status # "NONE" /\ ss[t].user = q.user
    /\ q.op = "CheckCode" /\ q.pc = "insertSession"
          => \A t \in q.targets : ss[t].status = "ACTIVE" /\ ss[t].user = q.user
    /\ q.pc # "done" => q.own = None \/ ss[q.own].status # "NONE"

SessionsOK == held \subseteq Issued /\ \A t \in Issued : sessions[t].user \in Emails

(* No two transactions hold the lock of one row.                           *)
Exclusive ==
    \A r, s \in Requests :
        r # s /\ At(r, "insertSession") /\ At(s, "insertSession")
           => req[r].targets \cap req[s].targets = {}

SessInv ==
    /\ TypeInv
    /\ SessionsOK
    /\ \A r \in Requests : Sess(req[r], sessions, now)
    /\ Exclusive

SessRest == SessionsOK /\ Exclusive /\ \A r \in Requests : Sess(req[r], sessions, now)

(* A request changes, and no session.                                      *)
LEMMA SessSlot ==
    ASSUME SessInv, NEW r \in Requests, NEW q, Sess(q, sessions, now),
           req' = [req EXCEPT ![r] = q], UNCHANGED <<sessions, held, now>>,
           q.pc = "insertSession" => \A t \in q.targets : ~Locked(t)
    PROVE  SessRest'
<1>1. \A s \in Requests : req'[s] = IF s = r THEN q ELSE req[s]
      BY DEF SessInv, TypeInv, TypeOK
<1>2. \A s \in Requests : Sess(req'[s], sessions', now')
      BY <1>1 DEF SessInv
<1>3. Exclusive'
      BY <1>1 DEF SessInv, Exclusive, Locked, At
<1>4. SessionsOK'
      BY DEF SessInv, SessionsOK, Issued
<1> QED
    BY <1>2, <1>3, <1>4 DEF SessRest

SessStmts == {"revokeSessions", "lockSessions", "insertSession", "revokeOld", "reply"}

LEMMA SessQuiet ==
    ASSUME SessInv, NEW r \in Requests, NEW q, ~At(r, "done"),
           q.op = req[r].op, q.token = req[r].token, q.start = req[r].start, q.own = req[r].own,
           q.pc \notin SessStmts
    PROVE  Sess(q, sessions, now)
BY DEF SessInv, Sess, SessStmts, At

LEMMA SessAnswer ==
    ASSUME SessInv, NEW q, q.start = 0, q.pc = "done"
    PROVE  Sess(q, sessions, now)
BY DEF SessInv, TypeInv, TypeOK, Sess

LEMMA SessRefuse ==
    ASSUME SessInv, NEW r \in Requests, NEW out, Refuse(r, out) \/ Forget(r),
           UNCHANGED <<sessions, held, now>>
    PROVE  SessRest'
<1> DEFINE q == [NoRequest EXCEPT !.out = "UNIQUE_VIOLATION", !.known = req[r].known]
<1>1. req' = [req EXCEPT ![r] = NoRequest] \/ req' = [req EXCEPT ![r] = q]
      BY DEF Refuse, Forget
<1>2. /\ q.start = 0 /\ q.pc = "done"
      /\ NoRequest.start = 0 /\ NoRequest.pc = "done"
      BY DEF NoRequest
<1>3. Sess(q, sessions, now) /\ Sess(NoRequest, sessions, now)
      BY <1>2, SessAnswer
<1> QED
    BY <1>1, <1>2, <1>3, SessSlot

LEMMA SessGoto ==
    ASSUME SessInv, NEW r \in Requests, NEW stmt, Goto(r, stmt), ~At(r, "done"),
           stmt \notin SessStmts, UNCHANGED <<sessions, held, now>>
    PROVE  SessRest'
<1> DEFINE q == [req[r] EXCEPT !.pc = stmt]
<1>1. /\ q.op = req[r].op /\ q.token = req[r].token /\ q.start = req[r].start /\ q.pc = stmt
      /\ q.own = req[r].own
      BY SlotType DEF SessInv, Request
<1>2. Sess(q, sessions, now)
      BY <1>1, SessQuiet
<1> QED
    BY <1>1, <1>2, SessSlot DEF Goto, SessStmts

LEMMA SessInit == Init => SessRest
<1> SUFFICES ASSUME Init PROVE SessRest
    OBVIOUS
<1>1. \A r \in Requests : Sess(req[r], sessions, now)
  <2>1. NoRequest.start = 0 /\ NoRequest.pc = "done" /\ now = 0
        BY DEF Init, NoRequest
  <2>2. Sess(NoRequest, sessions, now)
        BY <2>1 DEF Sess
  <2> QED
      BY <2>2 DEF Init
<1>2. SessionsOK /\ Exclusive
      BY DEF Init, SessionsOK, Issued, Unissued, Exclusive, At, NoRequest
<1> QED
    BY <1>1, <1>2 DEF SessRest

LEMMA SessStart ==
    ASSUME SessInv, NEW r \in Requests, Start(r)
    PROVE  SessRest'
<1>0. UNCHANGED <<sessions, held, now>> /\ now \in Nat
      BY DEF Start, RussianEmailRequired, StartSendCode, StartCheckCode, StartRefresh,
             StartLogout, Begin, tables, clients, SessInv, TypeInv, TypeOK
<1>1. CASE RussianEmailRequired(r)
      BY <1>0, <1>1, SessRefuse DEF RussianEmailRequired
<1>2. CASE StartSendCode(r)
  <2>1. PICK e \in Emails, ip \in IPs :
           req' = [req EXCEPT ![r] = [NoRequest EXCEPT !.op = "SendCode", !.email = e,
                                        !.ip = ip, !.start = now, !.pc = "lastSendAt"]]
        BY <1>2 DEF StartSendCode, Begin
  <2> DEFINE q == [NoRequest EXCEPT !.op = "SendCode", !.email = e, !.ip = ip,
                                    !.start = now, !.pc = "lastSendAt"]
  <2>2. q.start = now /\ q.own = None /\ q.op = "SendCode" /\ q.pc = "lastSendAt"
        BY DEF NoRequest
  <2>3. Sess(q, sessions, now)
        BY <1>0, <2>2 DEF Sess
  <2> QED
      BY <1>0, <2>1, <2>2, <2>3, SessSlot
<1>3. CASE StartCheckCode(r)
  <2>1. PICK e \in Emails, code \in Codes \cup {None} :
           Begin(r, [NoRequest EXCEPT !.op = "CheckCode", !.email = e, !.code = code,
               !.start = now, !.pc = "otpByEmail", !.first = otp[e].code,
               !.known = users[e] # None,
               !.live = code # None /\ otp[e].code = code /\ now =< otp[e].expires,
               !.prior = UNION {ActiveSessions(u) : u \in AccountOf(Canon[e])}])
        BY <1>3 DEF StartCheckCode, SessInv, TypeInv, TypeOK
  <2> DEFINE live == code # None /\ otp[e].code = code /\ now =< otp[e].expires
             prior == UNION {ActiveSessions(u) : u \in AccountOf(Canon[e])}
             known == users[e] # None
             q == [NoRequest EXCEPT !.op = "CheckCode", !.email = e, !.code = code,
                     !.start = now, !.pc = "otpByEmail", !.first = otp[e].code,
                     !.known = known, !.live = live, !.prior = prior]
  <2>2. req' = [req EXCEPT ![r] = q]
        BY <2>1 DEF Begin
  <2> HIDE DEF live, prior, known
  <2>3. q.start = now /\ q.own = None /\ q.op = "CheckCode" /\ q.pc = "otpByEmail"
        BY DEF NoRequest
  <2>4. Sess(q, sessions, now)
        BY <1>0, <2>3 DEF Sess
  <2> HIDE DEF q
  <2> QED
      BY <1>0, <2>2, <2>3, <2>4, SessSlot
<1>4. CASE StartRefresh(r)
  <2>1. PICK token \in held :
           Begin(r, [NoRequest EXCEPT !.op = "Refresh", !.token = token,
               !.start = now, !.pc = "sessionByHash",
               !.live = /\ sessions[token].status = "ACTIVE"
                        /\ now =< sessions[token].expires,
               !.prior = {token}])
        BY <1>4 DEF StartRefresh
  <2> DEFINE live == sessions[token].status = "ACTIVE" /\ now =< sessions[token].expires
             q == [NoRequest EXCEPT !.op = "Refresh", !.token = token, !.start = now,
                     !.pc = "sessionByHash", !.live = live, !.prior = {token}]
  <2>2. req' = [req EXCEPT ![r] = q]
        BY <2>1 DEF Begin
  <2> HIDE DEF live
  <2>3. /\ q.start = now /\ q.own = None /\ q.op = "Refresh" /\ q.pc = "sessionByHash"
        /\ q.token = token
        BY DEF NoRequest
  <2>4. sessions[token].status # "NONE"
        BY DEF SessInv, SessionsOK, Issued
  <2>5. Sess(q, sessions, now)
        BY <1>0, <2>3, <2>4 DEF Sess
  <2> HIDE DEF q
  <2> QED
      BY <1>0, <2>2, <2>3, <2>5, SessSlot
<1>5. CASE StartLogout(r)
  <2>1. PICK user \in {sessions[t].user : t \in held} :
           Begin(r, [NoRequest EXCEPT !.op = "Logout", !.user = user, !.start = now,
                       !.pc = "revokeSessions", !.prior = ActiveSessions(user)])
        BY <1>5 DEF StartLogout
  <2> DEFINE q == [NoRequest EXCEPT !.op = "Logout", !.user = user, !.start = now,
                     !.pc = "revokeSessions", !.prior = ActiveSessions(user)]
  <2>2. req' = [req EXCEPT ![r] = q]
        BY <2>1 DEF Begin
  <2>3. /\ q.start = now /\ q.own = None /\ q.op = "Logout" /\ q.pc = "revokeSessions"
        /\ q.user = user
        BY DEF NoRequest
  <2>4. user \in Emails
        BY DEF SessInv, SessionsOK, Issued
  <2>5. Sess(q, sessions, now)
        BY <1>0, <2>3, <2>4 DEF Sess
  <2> HIDE DEF q
  <2> QED
      BY <1>0, <2>2, <2>3, <2>5, SessSlot
<1> QED
    BY <1>1, <1>2, <1>3, <1>4, <1>5 DEF Start

(* The statements that write no session.                                   *)
LEMMA SessRead ==
    ASSUME SessInv, NEW r \in Requests,
           \/ LastSendAt(r) \/ CountByEmail(r) \/ CountByIP(r) \/ UpsertOTP(r)
           \/ SendOTP(r) \/ InsertSendEvent(r) \/ OtpByEmail(r) \/ ExpireOTP(r)
           \/ IncrementOTPAttempts(r) \/ LockOut(r) \/ ConsumeOTP(r)
           \/ UserByCanonicalEmail(r) \/ CreateUser(r) \/ SessionByHash(r)
    PROVE  SessRest'
<1>0. req[r] \in Request /\ Form(req[r])
      BY SlotType DEF SessInv
<1>1. UNCHANGED <<sessions, held, now>> /\ ~At(r, "done")
      BY DEF LastSendAt, CountByEmail, CountByIP, UpsertOTP, SendOTP, InsertSendEvent,
             OtpByEmail, ExpireOTP, IncrementOTPAttempts, LockOut, ConsumeOTP,
             UserByCanonicalEmail, CreateUser, SessionByHash, tables, clients, At
<1>2. CASE \E out : Refuse(r, out) \/ Forget(r)
      BY <1>1, <1>2, SessRefuse
<1>3. CASE \E stmt : stmt \notin SessStmts /\ Goto(r, stmt)
      BY <1>1, <1>3, SessGoto
<1>4. CASE \E stmt, c : stmt \notin SessStmts
                        /\ req' = [req EXCEPT ![r] = [@ EXCEPT !.pc = stmt, !.code = c]]
  <2>1. PICK stmt, c : /\ stmt \notin SessStmts
                       /\ req' = [req EXCEPT ![r] = [@ EXCEPT !.pc = stmt, !.code = c]]
        BY <1>4
  <2> DEFINE q == [req[r] EXCEPT !.pc = stmt, !.code = c]
  <2>2. /\ q.own = req[r].own /\ q.op = req[r].op /\ q.token = req[r].token /\ q.start = req[r].start /\ q.pc = stmt
      /\ q.own = req[r].own
        BY <1>0 DEF Request
  <2>3. Sess(q, sessions, now)
        BY <1>1, <2>1, <2>2, SessQuiet
  <2> QED
      BY <1>1, <2>1, <2>2, <2>3, SessSlot DEF SessStmts
<1>5. CASE /\ UserByCanonicalEmail(r) \/ CreateUser(r)
           /\ \E u \in Emails :
                req' = [req EXCEPT ![r] = [@ EXCEPT !.pc = "revokeSessions", !.user = u]]
  <2>1. PICK u \in Emails :
           req' = [req EXCEPT ![r] = [@ EXCEPT !.pc = "revokeSessions", !.user = u]]
        BY <1>5
  <2> DEFINE q == [req[r] EXCEPT !.pc = "revokeSessions", !.user = u]
  <2>2. /\ q.own = req[r].own /\ q.op = "CheckCode" /\ q.start = req[r].start /\ q.pc = "revokeSessions" /\ q.user = u
        /\ q.own = req[r].own /\ req[r].pc # "done"
        BY <1>0, <1>5 DEF UserByCanonicalEmail, CreateUser, At, Form, Request, CheckStmts
  <2>3. Sess(q, sessions, now)
        BY <2>2 DEF Sess, SessInv
  <2> QED
      BY <1>1, <2>1, <2>2, <2>3, SessSlot
<1>6. req[r].email \in Emails \/ ~(UserByCanonicalEmail(r) \/ CreateUser(r))
      BY <1>0 DEF UserByCanonicalEmail, CreateUser, At, Form, CheckStmts
<1>7. CASE LastSendAt(r) \/ CountByEmail(r) \/ CountByIP(r) \/ UpsertOTP(r)
           \/ SendOTP(r) \/ InsertSendEvent(r)
      BY <1>2, <1>3, <1>4, <1>7
      DEF LastSendAt, CountByEmail, CountByIP, UpsertOTP, SendOTP, InsertSendEvent, SessStmts
<1>8. CASE OtpByEmail(r) \/ ExpireOTP(r) \/ IncrementOTPAttempts(r) \/ LockOut(r)
           \/ ConsumeOTP(r) \/ SessionByHash(r)
      BY <1>2, <1>3, <1>4, <1>8
      DEF OtpByEmail, ExpireOTP, IncrementOTPAttempts, LockOut, ConsumeOTP, SessionByHash,
          SessStmts
<1>9. CASE UserByCanonicalEmail(r) \/ CreateUser(r)
      BY <1>2, <1>3, <1>5, <1>6, <1>9 DEF UserByCanonicalEmail, CreateUser, AccountOf, SessStmts
<1> QED
    BY <1>7, <1>8, <1>9

(* Sessions are issued once, keep their user and their expiry, and once    *)
(* revoked stay so.                                                        *)
Grows(old, new) ==
    \A t \in Tokens : old[t].status # "NONE" =>
        /\ new[t].status # "NONE"
        /\ new[t].user = old[t].user /\ new[t].expires = old[t].expires
        /\ old[t].status = "REVOKED" => new[t].status = "REVOKED"

(* The rows that logins have locked are as they were.                      *)
Untouched(r) ==
    \A s \in Requests \ {r} : At(s, "insertSession") =>
        \A t \in req[s].targets : sessions[t].status = "ACTIVE" => sessions'[t] = sessions[t]

(* What the requests at work rely on survives a write of another.          *)
LEMMA SessKept ==
    ASSUME SessInv, NEW s \in Requests, Grows(sessions, sessions'),
           At(s, "insertSession") =>
              \A t \in req[s].targets : sessions[t].status = "ACTIVE" => sessions'[t] = sessions[t]
    PROVE  Sess(req[s], sessions', now)
<1> DEFINE q == req[s]
<1>1. Sess(q, sessions, now) /\ q \in Request /\ Form(q)
      BY SlotType DEF SessInv
<1>2. q.targets \subseteq Tokens /\ q.own \in Tokens \cup {None}
      BY <1>1 DEF Request
<1>3. q.op = "Refresh" /\ q.pc # "done" => q.token \in Tokens
      BY <1>1 DEF Form
<1>4. q.op = "Refresh" /\ q.pc # "done" =>
        sessions'[q.token].status # "NONE" /\ sessions'[q.token].user = sessions[q.token].user
      BY <1>1, <1>3 DEF Sess, Grows
<1>5. q.pc = "lockSessions" =>
        \A t \in q.targets : sessions'[t].status # "NONE" /\ sessions'[t].user = q.user
      BY <1>1, <1>2 DEF Sess, Grows
<1>6. q.op = "CheckCode" /\ q.pc = "insertSession" =>
        \A t \in q.targets : sessions'[t].status = "ACTIVE" /\ sessions'[t].user = q.user
      BY <1>1 DEF Sess, At
<1>7. q.pc # "done" => q.own = None \/ sessions'[q.own].status # "NONE"
      BY <1>1, <1>2 DEF Sess, Grows
<1> QED
    BY <1>1, <1>4, <1>5, <1>6, <1>7 DEF Sess

(* A request writes sessions or hands out a token.                         *)
LEMMA SessWrite ==
    ASSUME SessInv, NEW r \in Requests, NEW q, Sess(q, sessions', now),
           req' = [req EXCEPT ![r] = q], now' = now, q.pc # "insertSession",
           Grows(sessions, sessions'), Untouched(r), SessionsOK'
    PROVE  SessRest'
<1>1. \A s \in Requests : req'[s] = IF s = r THEN q ELSE req[s]
      BY DEF SessInv, TypeInv, TypeOK
<1>2. \A s \in Requests : Sess(req'[s], sessions', now')
  <2> TAKE s \in Requests
  <2>1. CASE s = r
        BY <1>1, <2>1
  <2>2. CASE s # r
        BY <1>1, <2>2, SessKept DEF Untouched
  <2> QED
      BY <2>1, <2>2
<1>3. Exclusive'
      BY <1>1 DEF SessInv, Exclusive, At
<1> QED
    BY <1>2, <1>3 DEF SessRest

LEMMA SessLock ==
    ASSUME SessInv, NEW r \in Requests, RevokeSessions(r) \/ UserByID(r) \/ RevokeOld(r)
           \/ (LockSessions(r) /\ req[r].op = "CheckCode")
    PROVE  SessRest'
<1>0. req[r] \in Request /\ Form(req[r]) /\ Sess(req[r], sessions, now)
      BY SlotType DEF SessInv
<1>1. UNCHANGED <<sessions, held, now>>
      BY DEF RevokeSessions, UserByID, RevokeOld, LockSessions, tables, clients
<1>2. CASE RevokeSessions(r)
  <2> DEFINE q == [req[r] EXCEPT !.pc = "lockSessions", !.targets = ToRevoke(req[r].user)]
  <2>1. req' = [req EXCEPT ![r] = q]
        BY <1>2 DEF RevokeSessions
  <2>2. /\ q.own = req[r].own /\ q.op = req[r].op /\ q.start = req[r].start /\ q.pc = "lockSessions"
        /\ q.user = req[r].user /\ q.targets = ActiveSessions(req[r].user)
        /\ req[r].op \in {"CheckCode", "Logout"} /\ req[r].pc = "revokeSessions"
        BY <1>0, <1>2 DEF Request, RevokeSessions, ToRevoke, At, Form
  <2> HIDE DEF q
  <2>3. Sess(q, sessions, now)
        BY <1>0, <2>2 DEF Sess, ActiveSessions
  <2> QED
      BY <1>1, <2>1, <2>2, <2>3, SessSlot
<1>3. CASE LockSessions(r) /\ req[r].op = "CheckCode"
  <2> DEFINE q == [req[r] EXCEPT !.pc = "insertSession", !.targets = StillActive(r)]
  <2>1. req' = [req EXCEPT ![r] = q]
        BY <1>3 DEF LockSessions
  <2>2. /\ q.own = req[r].own /\ q.op = "CheckCode" /\ q.start = req[r].start /\ q.pc = "insertSession"
        /\ q.user = req[r].user /\ q.targets = StillActive(r)
        /\ req[r].pc = "lockSessions"
        BY <1>0, <1>3 DEF Request, LockSessions, At
  <2> HIDE DEF q
  <2>3. Sess(q, sessions, now)
        BY <1>0, <1>3, <2>2 DEF Sess, StillActive
  <2>4. \A t \in q.targets : ~Locked(t)
        BY <1>3, <2>2 DEF LockSessions, StillActive
  <2> QED
      BY <1>1, <2>1, <2>3, <2>4, SessSlot
<1>4. CASE UserByID(r)
  <2> DEFINE u == sessions[req[r].token].user
             q == [req[r] EXCEPT !.pc = "revokeOld", !.user = u]
  <2>1. req' = [req EXCEPT ![r] = q]
        BY <1>4 DEF UserByID
  <2>2. /\ q.own = req[r].own /\ q.op = "Refresh" /\ q.start = req[r].start /\ q.pc = "revokeOld"
        /\ q.user = u /\ q.token = req[r].token /\ req[r].op = "Refresh"
        /\ req[r].pc = "userByID"
        BY <1>0, <1>4 DEF Request, UserByID, At, Form, TokenStmts
  <2> HIDE DEF q
  <2>3. Sess(q, sessions, now)
        BY <1>0, <2>2 DEF Sess
  <2> QED
      BY <1>1, <2>1, <2>2, <2>3, SessSlot
<1>5. CASE RevokeOld(r)
  <2> DEFINE q == [req[r] EXCEPT !.pc = "insertSession", !.targets = {req[r].token}]
  <2>1. req' = [req EXCEPT ![r] = q]
        BY <1>5 DEF RevokeOld
  <2>2. /\ q.own = req[r].own /\ q.op = "Refresh" /\ q.start = req[r].start /\ q.pc = "insertSession"
        /\ q.user = req[r].user /\ q.token = req[r].token /\ req[r].op = "Refresh"
        /\ q.targets = {req[r].token} /\ req[r].pc = "revokeOld"
        BY <1>0, <1>5 DEF Request, RevokeOld, At, Form, TokenStmts
  <2> HIDE DEF q
  <2>3. Sess(q, sessions, now)
        BY <1>0, <2>2 DEF Sess
  <2>4. \A t \in q.targets : ~Locked(t)
        BY <1>5, <2>2 DEF RevokeOld
  <2> QED
      BY <1>1, <2>1, <2>3, <2>4, SessSlot
<1> QED
    BY <1>2, <1>3, <1>4, <1>5

(* A logout commits.                                                       *)
LEMMA SessLogout ==
    ASSUME SessInv, NEW r \in Requests, LockSessions(r), req[r].op # "CheckCode"
    PROVE  Grows(sessions, sessions') /\ SessRest'
<1>0. req[r] \in Request /\ Form(req[r]) /\ Sess(req[r], sessions, now)
      BY SlotType DEF SessInv
<1> DEFINE q == [req[r] EXCEPT !.pc = "reply", !.targets = {}]
<1>1. /\ req' = [req EXCEPT ![r] = q] /\ sessions' = Revoked(StillActive(r))
      /\ now' = now /\ held' = held /\ req[r].pc = "lockSessions"
      BY DEF LockSessions, At, clients
<1>2. /\ q.op = "Logout" /\ q.start = req[r].start /\ q.pc = "reply" /\ q.own = req[r].own
      BY <1>0, <1>1 DEF Request, Form
<1> HIDE DEF q
<1>3. Grows(sessions, sessions')
      BY <1>1 DEF Grows, Revoked, SessInv, TypeInv, TypeOK, SessionRow
<1>4. SessionsOK'
      BY <1>1 DEF SessionsOK, Issued, Revoked, StillActive, SessInv, TypeInv, TypeOK, SessionRow
<1>5. \A t \in StillActive(r) : ~Locked(t)
      BY DEF LockSessions, StillActive
<1>6. Untouched(r)
  <2> SUFFICES ASSUME NEW s \in Requests \ {r}, At(s, "insertSession"), NEW t \in req[s].targets
               PROVE  sessions'[t] = sessions[t]
      BY DEF Untouched
  <2>1. t \in Tokens
        BY SlotType DEF SessInv, Request
  <2>2. t \notin StillActive(r)
        BY <1>5 DEF Locked
  <2> QED
      BY <1>1, <2>1, <2>2 DEF Revoked
<1>7. req[r].own \in Tokens \cup {None}
      BY <1>0 DEF Request
<1>8. Sess(q, sessions', now)
      BY <1>0, <1>1, <1>2, <1>3, <1>7 DEF Sess, Grows
<1> QED
    BY <1>1, <1>2, <1>3, <1>4, <1>6, <1>8, SessWrite

(* A login or a refresh commits, its new session having the token t.       *)
Commits(r, t) ==
    /\ sessions' = [Revoked(req[r].targets) EXCEPT ![t] =
                      [user |-> req[r].user, status |-> "ACTIVE",
                       expires |-> req[r].start + RefreshTTL]]
    /\ req' = [req EXCEPT ![r] = [@ EXCEPT !.pc = "reply", !.targets = {}, !.own = t]]

LEMMA SessCommit ==
    ASSUME SessInv, NEW r \in Requests, InsertSession(r)
    PROVE  \E t \in Tokens \ Issued :
              /\ Commits(r, t)
              /\ req[r].targets \subseteq Issued /\ req[r].user \in Emails
              /\ \A s \in req[r].targets : sessions[s].user = req[r].user
<1>0. req[r] \in Request /\ Form(req[r]) /\ Sess(req[r], sessions, now)
      BY SlotType DEF SessInv
<1>1. PICK t \in Tokens : sessions[t].status = "NONE" /\ Commits(r, t)
      BY DEF InsertSession, Commits
<1>2. t \notin Issued /\ req[r].pc = "insertSession" /\ req[r].op \in {"CheckCode", "Refresh"}
      BY <1>0, <1>1 DEF Issued, InsertSession, At, Form
<1>3. CASE req[r].op = "CheckCode"
  <2>1. req[r].user \in Emails /\ req[r].targets \subseteq Tokens
        BY <1>0, <1>2, <1>3 DEF Sess, Request
  <2>2. \A s \in req[r].targets : sessions[s].status = "ACTIVE" /\ sessions[s].user = req[r].user
        BY <1>0, <1>2, <1>3 DEF Sess
  <2> QED
      BY <1>1, <1>2, <2>1, <2>2 DEF Issued
<1>4. CASE req[r].op = "Refresh"
  <2>1. req[r].token \in Issued
        BY <1>0, <1>2, <1>4 DEF Sess, Form, Issued
  <2>2. req[r].user = sessions[req[r].token].user /\ req[r].targets = {req[r].token}
        BY <1>0, <1>2, <1>4 DEF Sess
  <2>3. req[r].user \in Emails
        BY <2>1, <2>2 DEF SessInv, SessionsOK
  <2> QED
      BY <1>1, <1>2, <2>1, <2>2, <2>3
<1> QED
    BY <1>2, <1>3, <1>4

LEMMA SessInsert ==
    ASSUME SessInv, NEW r \in Requests, InsertSession(r)
    PROVE  Grows(sessions, sessions') /\ SessRest'
<1>0. req[r] \in Request /\ Form(req[r]) /\ Sess(req[r], sessions, now)
      BY SlotType DEF SessInv
<1>1. PICK t \in Tokens \ Issued :
              /\ Commits(r, t)
              /\ req[r].targets \subseteq Issued /\ req[r].user \in Emails
      BY SessCommit
<1> DEFINE q == [req[r] EXCEPT !.pc = "reply", !.targets = {}, !.own = t]
<1>2. req' = [req EXCEPT ![r] = q] /\ now' = now /\ held' = held /\ req[r].pc = "insertSession"
      BY <1>1 DEF Commits, InsertSession, clients, At
<1>3. /\ q.op = req[r].op /\ q.start = req[r].start /\ q.pc = "reply" /\ q.own = t
      /\ q.token = req[r].token
      BY <1>0 DEF Request
<1> HIDE DEF q
<1>4. \A s \in Tokens : sessions'[s] =
        IF s = t THEN [user |-> req[r].user, status |-> "ACTIVE", expires |-> req[r].start + RefreshTTL]
        ELSE IF s \in req[r].targets THEN [sessions[s] EXCEPT !.status = "REVOKED"] ELSE sessions[s]
      BY <1>1 DEF Commits, Revoked
<1>5. /\ sessions'[t].user = req[r].user /\ sessions'[t].status = "ACTIVE"
       /\ sessions'[t].expires = req[r].start + RefreshTTL
       /\ t \in Tokens
      BY <1>1 DEF Commits, Revoked
<1>6. \A s \in Tokens : sessions[s] \in SessionRow
      BY DEF SessInv, TypeInv, TypeOK
<1>7. Grows(sessions, sessions')
      BY <1>4, <1>6 DEF Grows, Issued, SessionRow
<1>8. SessionsOK'
  <2>1. \A s \in Tokens : s \in Issued' => s \in Issued \/ s = t
        BY <1>1, <1>4 DEF Issued
  <2>2. \A s \in Issued : s \in Issued' /\ sessions'[s].user = sessions[s].user
        BY <1>7 DEF Grows, Issued
  <2>3. sessions'[t].user \in Emails
        BY <1>1, <1>5
  <2> QED
      BY <1>2, <2>1, <2>2, <2>3 DEF SessInv, SessionsOK, Issued
<1>9. Untouched(r)
  <2> SUFFICES ASSUME NEW s \in Requests \ {r}, At(s, "insertSession"),
                      NEW u \in req[s].targets, sessions[u].status = "ACTIVE"
               PROVE  sessions'[u] = sessions[u]
      BY DEF Untouched
  <2>1. u \in Tokens /\ u # t
        BY SlotType DEF SessInv, Request, Issued
  <2>2. u \notin req[r].targets
        BY <1>2 DEF SessInv, Exclusive, At
  <2> QED
      BY <1>4, <2>1, <2>2
<1>10. req[r].op = "Refresh" => sessions'[q.token].status # "NONE"
      BY <1>0, <1>2, <1>3, <1>7 DEF Sess, Form, Grows
<1>11. sessions'[t].status # "NONE"
      BY <1>5
<1>12. Sess(q, sessions', now)
      BY <1>0, <1>3, <1>10, <1>11 DEF Sess
<1> QED
    BY <1>2, <1>3, <1>7, <1>8, <1>9, <1>12, SessWrite

LEMMA SessReply ==
    ASSUME SessInv, NEW r \in Requests, Reply(r)
    PROVE  SessRest'
<1>0. req[r] \in Request /\ Sess(req[r], sessions, now) /\ now \in Nat
      BY SlotType DEF SessInv, TypeInv, TypeOK
<1> DEFINE q == [NoRequest EXCEPT !.out = "OK", !.op = req[r].op,
                                  !.live = req[r].live, !.prior = req[r].prior]
<1>1. /\ req' = [req EXCEPT ![r] = q] /\ UNCHANGED <<sessions, now>>
      /\ held' = held \cup ({req[r].own} \ {None}) /\ req[r].pc = "reply"
      BY DEF Reply, At, tables
<1>2. q.pc = "done" /\ q.start = 0
      BY DEF NoRequest
<1> HIDE DEF q
<1>3. Sess(q, sessions', now)
      BY <1>0, <1>1, <1>2 DEF Sess
<1>4. SessionsOK'
      BY <1>0, <1>1 DEF SessInv, SessionsOK, Issued, Sess, Request
<1>5. Grows(sessions, sessions') /\ Untouched(r)
      BY <1>1 DEF Grows, Untouched
<1> QED
    BY <1>1, <1>2, <1>3, <1>4, <1>5, SessWrite

LEMMA NextSess == SessInv /\ [Next]_vars => SessInv'
<1> SUFFICES ASSUME SessInv, [Next]_vars PROVE SessRest'
    BY NextType DEF SessInv, SessRest
<1>1. CASE Tick
  <2>1. UNCHANGED <<sessions, held, req>> /\ now' = now + 1 /\ now \in Nat
        BY <1>1 DEF Tick, tables, clients, SessInv, TypeInv, TypeOK
  <2>2. ASSUME NEW r \in Requests PROVE Sess(req[r], sessions, now + 1)
    <3>1. Sess(req[r], sessions, now) /\ req[r].start \in Nat
          BY SlotType DEF SessInv, Request
    <3> QED
        BY <2>1, <3>1 DEF Sess
  <2> QED
      BY <2>1, <2>2 DEF SessInv, SessRest, SessionsOK, Issued, Exclusive, At
<1>2. ASSUME NEW r \in Requests, Start(r) PROVE SessRest'
      BY <1>2, SessStart
<1>3. ASSUME NEW r \in Requests, Fail(r) PROVE SessRest'
      BY <1>3, SessRefuse DEF Fail, tables, clients
<1>4. ASSUME NEW r \in Requests, Statement(r) PROVE SessRest'
      BY <1>4, SessRead, SessLock, SessLogout, SessInsert, SessReply DEF Statement
<1>5. CASE UNCHANGED vars
      BY <1>5 DEF vars, tables, clients, SessInv, SessRest, SessionsOK, Issued, Exclusive, At
<1> QED
    BY <1>1, <1>2, <1>3, <1>4, <1>5 DEF Next

LEMMA SessAlways == Spec => []SessInv
<1>1. Init => SessInv
      BY InitType, SessInit DEF SessInv, SessRest
<1> QED
    BY <1>1, NextSess, PTL DEF Spec

-----------------------------------------------------------------------------
(* Login, refresh and logout implement SessionStore.                       *)

Asking(q) == q.op = "Logout" /\ q.pc = "lockSessions"

LEMMA LeavingType == SessInv' => Leaving' \subseteq Emails
<1> SUFFICES ASSUME SessInv', NEW r \in Requests, Asking(req'[r]) PROVE req'[r].user \in Emails
    BY DEF Leaving, Asking
<1> QED
    BY DEF SessInv, Sess, Asking

LEMMA LeavingKept ==
    ASSUME SessInv, NEW r \in Requests, NEW q, req' = [req EXCEPT ![r] = q],
           ~Asking(req[r]), ~Asking(q)
    PROVE  Leaving' = Leaving
<1>1. \A s \in Requests : req'[s] = IF s = r THEN q ELSE req[s]
      BY DEF SessInv, TypeInv, TypeOK
<1>2. {s \in Requests : Asking(req'[s])} = {s \in Requests : Asking(req[s])}
      BY <1>1
<1>3. \A s \in Requests : Asking(req[s]) => req'[s].user = req[s].user
      BY <1>1
<1>4. /\ Leaving = {req[s].user : s \in {s \in Requests : Asking(req[s])}}
      /\ Leaving' = {req'[s].user : s \in {s \in Requests : Asking(req'[s])}}
      BY DEF Leaving, Asking
<1> QED
    BY <1>2, <1>3, <1>4

(* A session replaced: the step of SessionStore behind a commit.           *)
LEMMA StoreReplace ==
    ASSUME SessInv, NEW r \in Requests, InsertSession(r)
    PROVE  Store!Replace(req[r].user, req[r].targets)
<1>0. req[r] \in Request /\ Form(req[r]) /\ Sess(req[r], sessions, now) /\ now \in Nat
      BY SlotType DEF SessInv, TypeInv, TypeOK
<1>1. PICK t \in Tokens \ Issued : Commits(r, t)
      BY SessCommit
<1>2. req[r].start + RefreshTTL \in 0 .. now + RefreshTTL
      BY <1>0, AuthAssumption DEF Sess, Request
<1> DEFINE q == [req[r] EXCEPT !.pc = "reply", !.targets = {}, !.own = t]
<1>3. req' = [req EXCEPT ![r] = q] /\ req[r].pc = "insertSession" /\ now' = now
      BY <1>1 DEF Commits, InsertSession, At
<1>4. q.pc = "reply"
      BY <1>0 DEF Request
<1> HIDE DEF q
<1>5. Leaving' = Leaving
      BY <1>3, <1>4, LeavingKept DEF Asking
<1>6. t \in Tokens \ Store!Issued
      BY <1>1 DEF Issued, Store!Issued
<1>7. sessions' = [Store!Ended(req[r].targets) EXCEPT ![t] =
                     [user |-> req[r].user, status |-> "ACTIVE",
                      expires |-> req[r].start + RefreshTTL]]
      BY <1>1 DEF Commits, Revoked, Store!Ended
<1> QED
    BY <1>2, <1>3, <1>5, <1>6, <1>7 DEF Store!Replace

LEMMA StoreCommit ==
    ASSUME SessInv, NEW r \in Requests, InsertSession(r)
    PROVE  Store!Next
<1>0. req[r] \in Request /\ Form(req[r]) /\ Sess(req[r], sessions, now)
      /\ req[r].pc = "insertSession"
      BY SlotType DEF SessInv, InsertSession, At
<1>1. Store!Replace(req[r].user, req[r].targets)
      BY StoreReplace
<1>2. CASE req[r].op = "CheckCode"
  <2>1. req[r].targets \in SUBSET Store!ActiveOf(req[r].user) /\ req[r].user \in Emails
        BY <1>0, <1>2 DEF Sess, Request, Store!ActiveOf
  <2>2. Store!Login(req[r].user)
        BY <1>1, <2>1 DEF Store!Login
  <2> QED
      BY <2>1, <2>2 DEF Store!Next
<1>3. CASE req[r].op = "Refresh"
  <2>1. /\ req[r].token \in Tokens /\ req[r].targets = {req[r].token}
        /\ sessions[req[r].token].status # "NONE"
        /\ req[r].user = sessions[req[r].token].user
        BY <1>0, <1>3 DEF Sess, Form
  <2>2. Store!Refresh(req[r].token)
        BY <1>1, <2>1 DEF Store!Refresh, Store!Issued
  <2> QED
      BY <2>1, <2>2 DEF Store!Next
<1> QED
    BY <1>0, <1>2, <1>3 DEF Form

LEMMA StoreLogout ==
    ASSUME SessInv, NEW r \in Requests, LockSessions(r), req[r].op # "CheckCode"
    PROVE  Store!Next
<1>0. /\ req[r] \in Request /\ Sess(req[r], sessions, now)
      /\ req[r].pc = "lockSessions" /\ req[r].op = "Logout"
      BY SlotType DEF SessInv, LockSessions, At, Form
<1>1. req[r].user \in Leaving /\ req[r].user \in Emails
      BY <1>0 DEF Leaving, Sess
<1>2. StillActive(r) \in SUBSET Store!ActiveOf(req[r].user)
      BY <1>0 DEF StillActive, Sess, Request, Store!ActiveOf
<1>3. sessions' = Store!Ended(StillActive(r)) /\ now' = now
      BY DEF LockSessions, Revoked, Store!Ended
<1>4. Store!Logout(req[r].user)
      BY <1>1, <1>2, <1>3 DEF Store!Logout
<1> QED
    BY <1>1, <1>4 DEF Store!Next

(* Whatever else a request does is asking to leave, or nothing.            *)
LEMMA StoreStep == SessInv /\ [Next]_vars => [Store!Next]_(Store!vars)
<1> SUFFICES ASSUME SessInv, [Next]_vars PROVE [Store!Next]_(Store!vars)
    OBVIOUS
<1>0. Leaving' \subseteq Emails
  <2>1. SessInv'
        BY NextSess
  <2> QED
      BY <2>1, LeavingType
<1>1. CASE UNCHANGED <<sessions, now>>
      BY <1>0, <1>1 DEF Store!Next, Store!Ask
<1>2. CASE Tick
  <2>1. UNCHANGED <<sessions, req>> /\ now' = now + 1
        BY <1>2 DEF Tick, tables
  <2> QED
      BY <2>1 DEF Store!Next, Store!Tick, Leaving
<1>3. ASSUME NEW r \in Requests, Start(r) PROVE UNCHANGED <<sessions, now>>
      BY <1>3 DEF Start, RussianEmailRequired, StartSendCode, StartCheckCode, StartRefresh,
             StartLogout, Begin, tables
<1>4. ASSUME NEW r \in Requests, Fail(r) PROVE UNCHANGED <<sessions, now>>
      BY <1>4 DEF Fail, tables
<1>5. ASSUME NEW r \in Requests, Statement(r)
      PROVE  UNCHANGED <<sessions, now>> \/ Store!Next
  <2>1. CASE InsertSession(r)
        BY <2>1, StoreCommit
  <2>2. CASE LockSessions(r)
        BY <2>2, StoreLogout DEF LockSessions
  <2>3. CASE \/ LastSendAt(r) \/ CountByEmail(r) \/ CountByIP(r) \/ UpsertOTP(r)
             \/ SendOTP(r) \/ InsertSendEvent(r) \/ OtpByEmail(r) \/ ExpireOTP(r)
             \/ IncrementOTPAttempts(r) \/ LockOut(r) \/ ConsumeOTP(r)
             \/ UserByCanonicalEmail(r) \/ CreateUser(r) \/ SessionByHash(r)
             \/ RevokeSessions(r) \/ UserByID(r) \/ RevokeOld(r) \/ Reply(r)
        BY <2>3
        DEF LastSendAt, CountByEmail, CountByIP, UpsertOTP, SendOTP, InsertSendEvent,
            OtpByEmail, ExpireOTP, IncrementOTPAttempts, LockOut, ConsumeOTP,
            UserByCanonicalEmail, CreateUser, SessionByHash, RevokeSessions, UserByID,
            RevokeOld, Reply, tables
  <2> QED
      BY <1>5, <2>1, <2>2, <2>3 DEF Statement
<1>6. CASE UNCHANGED vars
      BY <1>6 DEF vars, Store!vars, Leaving
<1> QED
    BY <1>1, <1>2, <1>3, <1>4, <1>5, <1>6 DEF Next

LEMMA StoreInit == Init => Store!Init
<1> SUFFICES ASSUME Init PROVE Store!Init
    OBVIOUS
<1>1. \A r \in Requests : req[r].pc = "done"
      BY DEF Init, NoRequest
<1>2. Leaving = {}
      BY <1>1 DEF Leaving
<1> QED
    BY <1>2 DEF Init, Unissued, Store!Init

(* The statements of logins, refreshes and logouts, interleaved, cut short *)
(* or lost in any way, make up what SessionStore does in single steps.     *)
THEOREM ImplementsSessionStore == Spec => SessionStoreSpec
<1>1. SessInv /\ [Next]_vars => [Store!Next]_(Store!vars)
      BY StoreStep
<1>2. Spec => Store!Init /\ []SessInv /\ [][Next]_vars
      BY StoreInit, SessAlways, PTL DEF Spec
<1> QED
    BY <1>1, <1>2, PTL DEF SessionStoreSpec, Store!Spec

-----------------------------------------------------------------------------
(* What a login, a refresh and a logout end.                               *)

(* Accounts stay, and no two have one canonical address.                   *)
UsersGrow == \A e \in Emails : users[e] # None => users'[e] = users[e]
UsersOK == \A e, f \in Emails : users[e] = users[f] /\ users[e] # None => e = f

(* The sessions a request set out to end: first they are of the account it *)
(* looks for, then of the one it found, then locked or revoked, and at     *)
(* last revoked.                                                           *)
Prior(q, ss, us) ==
    /\ q.pc # "done" /\ q.op = "Refresh" => q.prior = {q.token}
    /\ q.pc \in CheckStmts
          => \A t \in q.prior : ss[t].status # "NONE" /\ us[ss[t].user] = Canon[q.email]
    /\ q.pc = "revokeSessions"
          => \A t \in q.prior : ss[t].status # "NONE" /\ ss[t].user = q.user
    /\ q.pc \in {"lockSessions", "insertSession"} /\ q.op # "Refresh"
          => \A t \in q.prior : t \in q.targets \/ ss[t].status = "REVOKED"
    /\ q.pc = "reply" \/ (q.pc = "done" /\ q.out = "OK")
          => \A t \in q.prior : ss[t].status = "REVOKED"

PriorRest == UsersOK /\ \A r \in Requests : Prior(req[r], sessions, users)
PriorInv == SessInv /\ PriorRest

LEMMA StepGrows == SessInv /\ [Next]_vars => Grows(sessions, sessions')
<1> SUFFICES ASSUME SessInv, [Next]_vars PROVE Grows(sessions, sessions')
    OBVIOUS
<1>1. CASE sessions' = sessions
      BY <1>1 DEF Grows
<1>2. CASE Tick
      BY <1>1, <1>2 DEF Tick, tables
<1>3. ASSUME NEW r \in Requests, Start(r) PROVE sessions' = sessions
      BY <1>3, SessStart DEF Start, RussianEmailRequired, StartSendCode, StartCheckCode,
             StartRefresh, StartLogout, Begin, tables
<1>4. ASSUME NEW r \in Requests, Fail(r) PROVE sessions' = sessions
      BY <1>4 DEF Fail, tables
<1>5. ASSUME NEW r \in Requests, Statement(r) PROVE Grows(sessions, sessions')
  <2>1. CASE InsertSession(r)
        BY <2>1, SessInsert
  <2>2. CASE LockSessions(r)
        BY <1>1, <2>2, SessLogout DEF LockSessions
  <2>3. CASE \/ LastSendAt(r) \/ CountByEmail(r) \/ CountByIP(r) \/ UpsertOTP(r)
             \/ SendOTP(r) \/ InsertSendEvent(r) \/ OtpByEmail(r) \/ ExpireOTP(r)
             \/ IncrementOTPAttempts(r) \/ LockOut(r) \/ ConsumeOTP(r)
             \/ UserByCanonicalEmail(r) \/ CreateUser(r) \/ SessionByHash(r)
             \/ RevokeSessions(r) \/ UserByID(r) \/ RevokeOld(r) \/ Reply(r)
        BY <1>1, <2>3
        DEF LastSendAt, CountByEmail, CountByIP, UpsertOTP, SendOTP, InsertSendEvent,
            OtpByEmail, ExpireOTP, IncrementOTPAttempts, LockOut, ConsumeOTP,
            UserByCanonicalEmail, CreateUser, SessionByHash, RevokeSessions, UserByID,
            RevokeOld, Reply, tables
  <2> QED
      BY <1>5, <2>1, <2>2, <2>3 DEF Statement
<1>6. CASE UNCHANGED vars
      BY <1>1, <1>6 DEF vars
<1> QED
    BY <1>1, <1>2, <1>3, <1>4, <1>5, <1>6 DEF Next

LEMMA PriorKept ==
    ASSUME PriorInv, NEW s \in Requests, Grows(sessions, sessions'), UsersGrow
    PROVE  Prior(req[s], sessions', users')
<1> DEFINE q == req[s]
<1>1. Prior(q, sessions, users) /\ q.prior \subseteq Tokens
      BY SlotType DEF PriorInv, PriorRest, SessInv, Request
<1>2. \A t \in q.prior :
        /\ sessions[t].status # "NONE" =>
             sessions'[t].status # "NONE" /\ sessions'[t].user = sessions[t].user
        /\ sessions[t].status = "REVOKED" => sessions'[t].status = "REVOKED"
      BY <1>1 DEF Grows
<1>3. q.pc \in CheckStmts => Canon[q.email] # None
      BY SlotType, IdentAssumption DEF PriorInv, SessInv, Form, Idents
<1>4. \A t \in q.prior : sessions[t].status # "NONE" => sessions[t].user \in Emails
      BY <1>1 DEF PriorInv, SessInv, SessionsOK, Issued
<1>5. q.pc \in CheckStmts =>
        \A t \in q.prior : sessions'[t].status # "NONE" /\ users'[sessions'[t].user] = Canon[q.email]
      BY <1>1, <1>2, <1>3, <1>4 DEF Prior, UsersGrow
<1> QED
    BY <1>1, <1>2, <1>5 DEF Prior

LEMMA PriorWrite ==
    ASSUME PriorInv, NEW r \in Requests, NEW q, req' = [req EXCEPT ![r] = q],
           Prior(q, sessions', users'), Grows(sessions, sessions'), UsersGrow, UsersOK'
    PROVE  PriorRest'
<1>1. \A s \in Requests : req'[s] = IF s = r THEN q ELSE req[s]
      BY DEF PriorInv, SessInv, TypeInv, TypeOK
<1>2. \A s \in Requests : Prior(req'[s], sessions', users')
      BY <1>1, PriorKept
<1> QED
    BY <1>2 DEF PriorRest

LEMMA PriorSlot ==
    ASSUME PriorInv, NEW r \in Requests, NEW q, req' = [req EXCEPT ![r] = q],
           Prior(q, sessions, users), UNCHANGED <<sessions, users>>
    PROVE  PriorRest'
<1>1. Grows(sessions, sessions') /\ UsersGrow /\ UsersOK'
      BY DEF Grows, UsersGrow, UsersOK, PriorInv, PriorRest
<1> QED
    BY <1>1, PriorWrite

LEMMA PriorQuiet ==
    ASSUME PriorInv, NEW r \in Requests, NEW q, ~At(r, "done"),
           q.op = req[r].op, q.token = req[r].token, q.email = req[r].email,
           q.prior = req[r].prior,
           q.pc \in CheckStmts => req[r].pc \in CheckStmts,
           q.pc \notin SessStmts \cup {"done"}
    PROVE  Prior(q, sessions, users)
BY DEF PriorInv, PriorRest, Prior, SessStmts, At

LEMMA PriorAnswer ==
    ASSUME NEW q, NEW ss, NEW us, q.pc = "done", q.out # "OK" \/ q.prior = {}
    PROVE  Prior(q, ss, us)
BY DEF Prior, CheckStmts

LEMMA PriorRefuse ==
    ASSUME PriorInv, NEW r \in Requests, NEW out, Refuse(r, out) \/ Forget(r),
           UNCHANGED <<sessions, users>>
    PROVE  PriorRest'
<1> DEFINE q == [NoRequest EXCEPT !.out = "UNIQUE_VIOLATION", !.known = req[r].known]
<1>1. req' = [req EXCEPT ![r] = NoRequest] \/ req' = [req EXCEPT ![r] = q]
      BY DEF Refuse, Forget
<1>2. q.pc = "done" /\ q.prior = {} /\ NoRequest.pc = "done" /\ NoRequest.prior = {}
      BY DEF NoRequest
<1>3. Prior(q, sessions, users) /\ Prior(NoRequest, sessions, users)
      BY <1>2, PriorAnswer
<1> QED
    BY <1>1, <1>3, PriorSlot

LEMMA PriorGoto ==
    ASSUME PriorInv, NEW r \in Requests, NEW stmt, Goto(r, stmt), ~At(r, "done"),
           stmt \notin SessStmts \cup {"done"},
           stmt \in CheckStmts => req[r].pc \in CheckStmts, UNCHANGED <<sessions, users>>
    PROVE  PriorRest'
<1> DEFINE q == [req[r] EXCEPT !.pc = stmt]
<1>1. /\ q.op = req[r].op /\ q.token = req[r].token /\ q.email = req[r].email
      /\ q.prior = req[r].prior /\ q.pc = stmt
      BY SlotType DEF PriorInv, SessInv, Request
<1>2. Prior(q, sessions, users)
      BY <1>1, PriorQuiet
<1> QED
    BY <1>2, PriorSlot DEF Goto

LEMMA PriorInit == Init => PriorRest
<1> SUFFICES ASSUME Init PROVE PriorRest
    OBVIOUS
<1>1. NoRequest.pc = "done" /\ NoRequest.prior = {}
      BY DEF NoRequest
<1>2. Prior(NoRequest, sessions, users)
      BY <1>1, PriorAnswer
<1>3. UsersOK
  <2>1. PICK old \in SUBSET Old : users = [e \in Emails |-> IF e \in old THEN e ELSE None]
        BY DEF Init, Backfill
  <2> QED
      BY <2>1 DEF UsersOK
<1> QED
    BY <1>2, <1>3 DEF Init, PriorRest

LEMMA PriorStart ==
    ASSUME PriorInv, NEW r \in Requests, Start(r)
    PROVE  PriorRest'
<1>0. UNCHANGED <<sessions, users>>
      BY DEF Start, RussianEmailRequired, StartSendCode, StartCheckCode, StartRefresh,
             StartLogout, Begin, tables
<1>1. CASE RussianEmailRequired(r)
      BY <1>0, <1>1, PriorRefuse DEF RussianEmailRequired
<1>2. CASE StartSendCode(r)
  <2>1. PICK e \in Emails, ip \in IPs :
           req' = [req EXCEPT ![r] = [NoRequest EXCEPT !.op = "SendCode", !.email = e,
                                        !.ip = ip, !.start = now, !.pc = "lastSendAt"]]
        BY <1>2 DEF StartSendCode, Begin
  <2> DEFINE q == [NoRequest EXCEPT !.op = "SendCode", !.email = e, !.ip = ip,
                                    !.start = now, !.pc = "lastSendAt"]
  <2>2. q.op = "SendCode" /\ q.pc = "lastSendAt"
        BY DEF NoRequest
  <2>3. Prior(q, sessions, users)
        BY <2>2 DEF Prior, CheckStmts
  <2> QED
      BY <1>0, <2>1, <2>3, PriorSlot
<1>3. CASE StartCheckCode(r)
  <2>1. PICK e \in Emails, code \in Codes \cup {None} :
           Begin(r, [NoRequest EXCEPT !.op = "CheckCode", !.email = e, !.code = code,
               !.start = now, !.pc = "otpByEmail", !.first = otp[e].code,
               !.known = users[e] # None,
               !.live = code # None /\ otp[e].code = code /\ now =< otp[e].expires,
               !.prior = UNION {ActiveSessions(u) : u \in AccountOf(Canon[e])}])
        BY <1>3 DEF StartCheckCode, PriorInv, SessInv, TypeInv, TypeOK
  <2> DEFINE live == code # None /\ otp[e].code = code /\ now =< otp[e].expires
             prior == UNION {ActiveSessions(u) : u \in AccountOf(Canon[e])}
             known == users[e] # None
             q == [NoRequest EXCEPT !.op = "CheckCode", !.email = e, !.code = code,
                     !.start = now, !.pc = "otpByEmail", !.first = otp[e].code,
                     !.known = known, !.live = live, !.prior = prior]
  <2>2. req' = [req EXCEPT ![r] = q]
        BY <2>1 DEF Begin
  <2>3. \A t \in prior : sessions[t].status # "NONE" /\ users[sessions[t].user] = Canon[e]
        BY DEF ActiveSessions, AccountOf
  <2> HIDE DEF live, prior, known
  <2>4. q.op = "CheckCode" /\ q.pc = "otpByEmail" /\ q.email = e /\ q.prior = prior
        BY DEF NoRequest
  <2>5. Prior(q, sessions, users)
        BY <2>3, <2>4 DEF Prior
  <2> HIDE DEF q
  <2> QED
      BY <1>0, <2>2, <2>5, PriorSlot
<1>4. CASE StartRefresh(r)
  <2>1. PICK token \in held :
           Begin(r, [NoRequest EXCEPT !.op = "Refresh", !.token = token,
               !.start = now, !.pc = "sessionByHash",
               !.live = /\ sessions[token].status = "ACTIVE"
                        /\ now =< sessions[token].expires,
               !.prior = {token}])
        BY <1>4 DEF StartRefresh
  <2> DEFINE live == sessions[token].status = "ACTIVE" /\ now =< sessions[token].expires
             q == [NoRequest EXCEPT !.op = "Refresh", !.token = token, !.start = now,
                     !.pc = "sessionByHash", !.live = live, !.prior = {token}]
  <2>2. req' = [req EXCEPT ![r] = q]
        BY <2>1 DEF Begin
  <2> HIDE DEF live
  <2>3. q.pc = "sessionByHash" /\ q.token = token /\ q.prior = {token}
        BY DEF NoRequest
  <2>4. Prior(q, sessions, users)
        BY <2>3 DEF Prior, CheckStmts
  <2> HIDE DEF q
  <2> QED
      BY <1>0, <2>2, <2>4, PriorSlot
<1>5. CASE StartLogout(r)
  <2>1. PICK user \in {sessions[t].user : t \in held} :
           Begin(r, [NoRequest EXCEPT !.op = "Logout", !.user = user, !.start = now,
                       !.pc = "revokeSessions", !.prior = ActiveSessions(user)])
        BY <1>5 DEF StartLogout
  <2> DEFINE q == [NoRequest EXCEPT !.op = "Logout", !.user = user, !.start = now,
                     !.pc = "revokeSessions", !.prior = ActiveSessions(user)]
  <2>2. req' = [req EXCEPT ![r] = q]
        BY <2>1 DEF Begin
  <2>3. /\ q.op = "Logout" /\ q.pc = "revokeSessions" /\ q.user = user
        /\ q.prior = ActiveSessions(user)
        BY DEF NoRequest
  <2> HIDE DEF q
  <2>4. Prior(q, sessions, users)
        BY <2>3 DEF Prior, CheckStmts, ActiveSessions
  <2> QED
      BY <1>0, <2>2, <2>4, PriorSlot
<1> QED
    BY <1>1, <1>2, <1>3, <1>4, <1>5 DEF Start

LEMMA PriorRead ==
    ASSUME PriorInv, NEW r \in Requests,
           \/ LastSendAt(r) \/ CountByEmail(r) \/ CountByIP(r) \/ UpsertOTP(r)
           \/ SendOTP(r) \/ InsertSendEvent(r) \/ OtpByEmail(r) \/ ExpireOTP(r)
           \/ IncrementOTPAttempts(r) \/ LockOut(r) \/ ConsumeOTP(r) \/ SessionByHash(r)
    PROVE  PriorRest'
<1>0. req[r] \in Request
      BY SlotType DEF PriorInv, SessInv
<1>1. UNCHANGED <<sessions, users>> /\ ~At(r, "done")
      BY DEF LastSendAt, CountByEmail, CountByIP, UpsertOTP, SendOTP, InsertSendEvent,
             OtpByEmail, ExpireOTP, IncrementOTPAttempts, LockOut, ConsumeOTP,
             SessionByHash, tables, At
<1>2. CASE \E out : Refuse(r, out) \/ Forget(r)
      BY <1>1, <1>2, PriorRefuse
<1> DEFINE Quiet(stmt) == /\ stmt \notin SessStmts \cup {"done"}
                          /\ stmt \in CheckStmts => req[r].pc \in CheckStmts
<1>3. CASE \E stmt : Quiet(stmt) /\ Goto(r, stmt)
      BY <1>1, <1>3, PriorGoto
<1>4. CASE \E stmt, c : Quiet(stmt)
                        /\ req' = [req EXCEPT ![r] = [@ EXCEPT !.pc = stmt, !.code = c]]
  <2>1. PICK stmt, c : /\ Quiet(stmt)
                       /\ req' = [req EXCEPT ![r] = [@ EXCEPT !.pc = stmt, !.code = c]]
        BY <1>4
  <2> DEFINE q == [req[r] EXCEPT !.pc = stmt, !.code = c]
  <2>2. /\ q.op = req[r].op /\ q.token = req[r].token /\ q.email = req[r].email
        /\ q.prior = req[r].prior /\ q.pc = stmt
        BY <1>0 DEF Request
  <2>3. Prior(q, sessions, users)
        BY <1>1, <2>1, <2>2, PriorQuiet
  <2> QED
      BY <1>1, <2>1, <2>3, PriorSlot
<1>5. CASE LastSendAt(r) \/ CountByEmail(r) \/ CountByIP(r) \/ UpsertOTP(r)
           \/ SendOTP(r) \/ InsertSendEvent(r)
      BY <1>2, <1>3, <1>4, <1>5
      DEF LastSendAt, CountByEmail, CountByIP, UpsertOTP, SendOTP, InsertSendEvent, SessStmts,
          CheckStmts
<1>6. CASE OtpByEmail(r) \/ ExpireOTP(r) \/ IncrementOTPAttempts(r) \/ LockOut(r)
           \/ ConsumeOTP(r) \/ SessionByHash(r)
  <2>1. SessionByHash(r) \/ req[r].pc \in CheckStmts
        BY <1>6 DEF OtpByEmail, ExpireOTP, IncrementOTPAttempts, LockOut, ConsumeOTP, At,
                    CheckStmts
  <2> QED
      BY <1>2, <1>3, <1>4, <1>6, <2>1
      DEF OtpByEmail, ExpireOTP, IncrementOTPAttempts, LockOut, ConsumeOTP, SessionByHash,
          SessStmts, CheckStmts
<1> QED
    BY <1>5, <1>6

(* The account a login has found, or makes, is the one its sessions are of. *)
LEMMA PriorAccount ==
    ASSUME PriorInv, NEW r \in Requests, UserByCanonicalEmail(r) \/ CreateUser(r)
    PROVE  UsersGrow /\ PriorRest'
<1>0. /\ req[r] \in Request /\ Prior(req[r], sessions, users)
      /\ req[r].pc \in CheckStmts /\ req[r].op = "CheckCode" /\ req[r].email \in Emails
      BY SlotType DEF PriorInv, SessInv, PriorRest, UserByCanonicalEmail, CreateUser, At, Form,
             CheckStmts
<1>1. Canon[req[r].email] # None
      BY <1>0, IdentAssumption DEF Idents
<1>2. \A t \in req[r].prior :
        /\ sessions[t].status # "NONE" /\ sessions[t].user \in Emails
        /\ users[sessions[t].user] = Canon[req[r].email]
      BY <1>0 DEF Prior, PriorInv, SessInv, SessionsOK, Issued, Request
<1>3. ASSUME NEW u \in Emails, \A t \in req[r].prior : sessions[t].user = u,
             req' = [req EXCEPT ![r] = [@ EXCEPT !.pc = "revokeSessions", !.user = u]],
             UNCHANGED sessions, UsersGrow, UsersOK'
      PROVE  PriorRest'
  <2> DEFINE q == [req[r] EXCEPT !.pc = "revokeSessions", !.user = u]
  <2>1. q.pc = "revokeSessions" /\ q.user = u /\ q.prior = req[r].prior /\ q.op = "CheckCode"
        BY <1>0 DEF Request
  <2> HIDE DEF q
  <2>2. Prior(q, sessions', users')
        BY <1>2, <1>3, <2>1 DEF Prior, CheckStmts
  <2>3. Grows(sessions, sessions') /\ req' = [req EXCEPT ![r] = q]
        BY <1>3 DEF Grows, q
  <2> QED
      BY <1>3, <2>2, <2>3, PriorWrite
<1>4. CASE UserByCanonicalEmail(r)
  <2>1. UNCHANGED <<sessions, users>> /\ ~At(r, "done")
        BY <1>4 DEF UserByCanonicalEmail, tables, At
  <2>2. UsersGrow /\ UsersOK'
        BY <2>1 DEF UsersGrow, UsersOK, PriorInv, PriorRest
  <2>3. CASE Goto(r, "createUser")
        BY <1>0, <2>1, <2>2, <2>3, PriorGoto DEF SessStmts, CheckStmts
  <2>4. CASE \E u \in AccountOf(Canon[req[r].email]) :
               req' = [req EXCEPT ![r] = [@ EXCEPT !.pc = "revokeSessions", !.user = u]]
    <3>1. PICK u \in Emails :
            /\ users[u] = Canon[req[r].email]
            /\ req' = [req EXCEPT ![r] = [@ EXCEPT !.pc = "revokeSessions", !.user = u]]
          BY <2>4 DEF AccountOf
    <3>2. \A t \in req[r].prior : sessions[t].user = u
          BY <1>1, <1>2, <3>1 DEF PriorInv, PriorRest, UsersOK
    <3> QED
        BY <1>3, <2>1, <2>2, <3>1, <3>2
  <2> QED
      BY <1>4, <2>2, <2>3, <2>4 DEF UserByCanonicalEmail
<1>5. CASE CreateUser(r)
  <2> DEFINE e == req[r].email
  <2>1. UNCHANGED sessions
        BY <1>5 DEF CreateUser
  <2>2. CASE users[e] = None /\ AccountOf(Canon[e]) = {}
    <3>1. /\ users' = [users EXCEPT ![e] = Canon[e]]
          /\ req' = [req EXCEPT ![r] = [@ EXCEPT !.pc = "revokeSessions", !.user = e]]
          BY <1>5, <2>2 DEF CreateUser
    <3>2. UsersGrow /\ UsersOK'
          BY <1>0, <1>1, <2>2, <3>1
          DEF UsersGrow, UsersOK, PriorInv, PriorRest, SessInv, TypeInv, TypeOK, AccountOf
    <3>3. \A t \in req[r].prior : sessions[t].user = e
          BY <1>2, <2>2 DEF AccountOf
    <3> QED
        BY <1>0, <1>3, <2>1, <3>1, <3>2, <3>3
  <2>3. CASE ~(users[e] = None /\ AccountOf(Canon[e]) = {})
    <3>1. Refuse(r, "UNIQUE_VIOLATION") /\ UNCHANGED users
          BY <1>5, <2>3 DEF CreateUser
    <3> QED
        BY <2>1, <3>1, PriorRefuse DEF UsersGrow
  <2> QED
      BY <2>2, <2>3
<1> QED
    BY <1>4, <1>5

LEMMA PriorSession ==
    ASSUME PriorInv, NEW r \in Requests, Grows(sessions, sessions'),
           \/ RevokeSessions(r) \/ LockSessions(r) \/ UserByID(r)
           \/ RevokeOld(r) \/ InsertSession(r) \/ Reply(r)
    PROVE  PriorRest'
<1>0. req[r] \in Request /\ Form(req[r]) /\ Prior(req[r], sessions, users)
      /\ users' = users
      BY SlotType DEF PriorInv, SessInv, PriorRest, RevokeSessions, LockSessions, UserByID,
             RevokeOld, InsertSession, Reply, tables
<1>1. UsersGrow /\ UsersOK'
      BY <1>0 DEF UsersGrow, UsersOK, PriorInv, PriorRest
<1>2. \A t \in Tokens : sessions[t].status \in {"NONE", "ACTIVE", "REVOKED"}
      BY DEF PriorInv, SessInv, TypeInv, TypeOK, SessionRow
<1>3. \A t \in req[r].prior : t \in Tokens
      BY <1>0 DEF Request
<1>4. CASE RevokeSessions(r)
  <2> DEFINE q == [req[r] EXCEPT !.pc = "lockSessions", !.targets = ToRevoke(req[r].user)]
  <2>1. req' = [req EXCEPT ![r] = q] /\ sessions' = sessions
        BY <1>4 DEF RevokeSessions, tables
  <2>2. /\ q.op \in {"CheckCode", "Logout"} /\ q.pc = "lockSessions" /\ q.prior = req[r].prior
        /\ q.targets = ActiveSessions(req[r].user) /\ req[r].pc = "revokeSessions"
        BY <1>0, <1>4 DEF Request, RevokeSessions, ToRevoke, At, Form
  <2> HIDE DEF q
  <2>3. Prior(q, sessions', users')
        BY <1>0, <1>2, <1>3, <2>1, <2>2 DEF Prior, CheckStmts, ActiveSessions
  <2> QED
      BY <1>1, <2>1, <2>3, PriorWrite
<1>5. CASE LockSessions(r) /\ req[r].op = "CheckCode"
  <2> DEFINE q == [req[r] EXCEPT !.pc = "insertSession", !.targets = StillActive(r)]
  <2>1. req' = [req EXCEPT ![r] = q] /\ sessions' = sessions
        BY <1>5 DEF LockSessions
  <2>2. /\ q.op = "CheckCode" /\ q.pc = "insertSession" /\ q.prior = req[r].prior
        /\ q.targets = StillActive(r) /\ req[r].pc = "lockSessions"
        BY <1>0, <1>5 DEF Request, LockSessions, At
  <2> HIDE DEF q
  <2>3. \A t \in req[r].targets : sessions[t].status \in {"ACTIVE", "REVOKED"}
        BY <1>0, <1>2, <2>2 DEF PriorInv, SessInv, Sess, Request
  <2>4. Prior(q, sessions', users')
        BY <1>0, <1>5, <2>1, <2>2, <2>3 DEF Prior, CheckStmts, StillActive
  <2> QED
      BY <1>1, <2>1, <2>4, PriorWrite
<1>6. CASE LockSessions(r) /\ req[r].op # "CheckCode"
  <2> DEFINE q == [req[r] EXCEPT !.pc = "reply", !.targets = {}]
  <2>1. req' = [req EXCEPT ![r] = q] /\ sessions' = Revoked(StillActive(r))
        BY <1>6 DEF LockSessions
  <2>2. /\ q.op = "Logout" /\ q.pc = "reply" /\ q.prior = req[r].prior
        /\ req[r].op = "Logout" /\ req[r].pc = "lockSessions"
        BY <1>0, <1>6 DEF Request, LockSessions, At, Form
  <2> HIDE DEF q
  <2>3. \A t \in req[r].targets : sessions[t].status \in {"ACTIVE", "REVOKED"}
        BY <1>0, <1>2, <2>2 DEF PriorInv, SessInv, Sess, Request
  <2>4. \A t \in req[r].prior : t \in StillActive(r) \/ sessions[t].status = "REVOKED"
        BY <1>0, <2>2, <2>3 DEF Prior, StillActive
  <2>5. \A t \in req[r].prior : sessions'[t].status = "REVOKED"
    <3>1. \A t \in Tokens : sessions[t] \in SessionRow
          BY DEF PriorInv, SessInv, TypeInv, TypeOK
    <3> QED
        BY <1>3, <2>1, <2>4, <3>1 DEF Revoked, SessionRow
  <2>6. Prior(q, sessions', users')
        BY <2>2, <2>5 DEF Prior, CheckStmts
  <2> QED
      BY <1>1, <2>1, <2>6, PriorWrite
<1>7. CASE UserByID(r)
  <2> DEFINE u == sessions[req[r].token].user
             q == [req[r] EXCEPT !.pc = "revokeOld", !.user = u]
  <2>1. req' = [req EXCEPT ![r] = q] /\ sessions' = sessions
        BY <1>7 DEF UserByID, tables
  <2>2. /\ q.op = "Refresh" /\ q.pc = "revokeOld" /\ q.token = req[r].token
        /\ q.prior = req[r].prior /\ req[r].pc = "userByID" /\ req[r].op = "Refresh"
        BY <1>0, <1>7 DEF Request, UserByID, At, Form, TokenStmts
  <2> HIDE DEF q
  <2>3. Prior(q, sessions', users')
        BY <1>0, <2>2 DEF Prior, CheckStmts
  <2> QED
      BY <1>1, <2>1, <2>3, PriorWrite
<1>8. CASE RevokeOld(r)
  <2> DEFINE q == [req[r] EXCEPT !.pc = "insertSession", !.targets = {req[r].token}]
  <2>1. req' = [req EXCEPT ![r] = q]
        BY <1>8 DEF RevokeOld
  <2>2. /\ q.op = "Refresh" /\ q.pc = "insertSession" /\ q.token = req[r].token
        /\ q.prior = req[r].prior /\ req[r].pc = "revokeOld" /\ req[r].op = "Refresh"
        BY <1>0, <1>8 DEF Request, RevokeOld, At, Form, TokenStmts
  <2> HIDE DEF q
  <2>3. Prior(q, sessions', users')
        BY <1>0, <2>2 DEF Prior, CheckStmts
  <2> QED
      BY <1>1, <2>1, <2>3, PriorWrite
<1>9. CASE InsertSession(r)
  <2>1. PICK t \in Tokens \ Issued :
              Commits(r, t) /\ req[r].targets \subseteq Issued
        BY <1>9, SessCommit DEF PriorInv
  <2> DEFINE q == [req[r] EXCEPT !.pc = "reply", !.targets = {}, !.own = t]
  <2>2. req' = [req EXCEPT ![r] = q] /\ req[r].pc = "insertSession"
        BY <1>9, <2>1 DEF Commits, InsertSession, At
  <2>3. q.op = req[r].op /\ q.pc = "reply" /\ q.prior = req[r].prior /\ q.token = req[r].token
        BY <1>0 DEF Request
  <2> HIDE DEF q
  <2>4. \A s \in req[r].prior : s \in req[r].targets \/ sessions[s].status = "REVOKED"
    <3>1. CASE req[r].op = "Refresh"
          BY <1>0, <2>2, <3>1 DEF Prior, PriorInv, SessInv, Sess
    <3>2. CASE req[r].op # "Refresh"
          BY <1>0, <2>2, <3>2 DEF Prior
    <3> QED
        BY <3>1, <3>2
  <2>5. \A s \in req[r].prior : sessions'[s].status = "REVOKED"
    <3>1. \A s \in Tokens : sessions[s] \in SessionRow
          BY DEF PriorInv, SessInv, TypeInv, TypeOK
    <3>2. \A s \in req[r].targets : s # t
          BY <2>1
    <3>3. \A s \in req[r].targets : s \in Tokens => sessions'[s].status = "REVOKED"
          BY <2>1, <3>1, <3>2 DEF Commits, Revoked, SessionRow
    <3> QED
        BY <1>3, <2>4, <3>3 DEF Grows
  <2>6. req[r].op = "Refresh" => req[r].prior = {req[r].token}
        BY <1>0, <2>2 DEF Prior
  <2>7. Prior(q, sessions', users')
        BY <2>3, <2>5, <2>6 DEF Prior, CheckStmts
  <2> QED
      BY <1>1, <2>2, <2>7, PriorWrite
<1>10. CASE Reply(r)
  <2> DEFINE q == [NoRequest EXCEPT !.out = "OK", !.op = req[r].op,
                                    !.live = req[r].live, !.prior = req[r].prior]
  <2>1. req' = [req EXCEPT ![r] = q] /\ req[r].pc = "reply" /\ sessions' = sessions
        BY <1>10 DEF Reply, At, tables
  <2>2. q.pc = "done" /\ q.prior = req[r].prior
        BY DEF NoRequest
  <2> HIDE DEF q
  <2>3. Prior(q, sessions', users')
        BY <1>0, <2>1, <2>2 DEF Prior, CheckStmts
  <2> QED
      BY <1>1, <2>1, <2>3, PriorWrite
<1> QED
    BY <1>4, <1>5, <1>6, <1>7, <1>8, <1>9, <1>10

LEMMA NextPrior == PriorInv /\ [Next]_vars => PriorInv'
<1> SUFFICES ASSUME PriorInv, [Next]_vars PROVE PriorRest'
    BY NextSess DEF PriorInv
<1>0. Grows(sessions, sessions')
      BY StepGrows DEF PriorInv
<1>1. ASSUME UNCHANGED <<sessions, users, req>> PROVE PriorRest'
      BY <1>1 DEF PriorInv, PriorRest, UsersOK
<1>2. CASE Tick \/ UNCHANGED vars
      BY <1>1, <1>2 DEF Tick, vars, tables
<1>3. ASSUME NEW r \in Requests, Start(r) PROVE PriorRest'
      BY <1>3, PriorStart
<1>4. ASSUME NEW r \in Requests, Fail(r) PROVE PriorRest'
      BY <1>4, PriorRefuse DEF Fail, tables
<1>5. ASSUME NEW r \in Requests, Statement(r) PROVE PriorRest'
      BY <1>0, <1>5, PriorRead, PriorAccount, PriorSession DEF Statement
<1> QED
    BY <1>2, <1>3, <1>4, <1>5 DEF Next

(* Whoever is told that a login, a refresh or a logout succeeded can count *)
(* on the sessions it was to end being revoked, from then on.              *)
THEOREM PriorSessionsRevoked == Spec => []PriorRevoked
<1>1. PriorInv => PriorRevoked
      BY DEF PriorInv, PriorRest, Prior, PriorRevoked, Succeeded, At
<1>2. Init => PriorInv
      BY InitType, SessInit, PriorInit DEF PriorInv, SessInv, SessRest
<1> QED
    BY <1>1, <1>2, NextPrior, PTL DEF Spec

-----------------------------------------------------------------------------
(* Who gets in, and what a code is lost for.                               *)

(* The code compared is good if it is still the one stored, and the token  *)
(* if its session is not revoked; past the comparison live stays true.     *)
Live(q, ot, ss) ==
    /\ q.pc = "otpByEmail" /\ q.code # None /\ ot[q.email].code = q.code
          /\ q.start =< ot[q.email].expires => q.live
    /\ q.pc \in {"consumeOTP", "userByCanonicalEmail", "createUser"} => q.live
    /\ q.op = "CheckCode" /\ q.pc \in {"revokeSessions", "lockSessions"} => q.live
    /\ q.pc = "sessionByHash" /\ ss[q.token].status # "REVOKED"
          /\ q.start =< ss[q.token].expires => q.live
    /\ q.pc \in {"userByID", "revokeOld", "insertSession"} => q.live
    /\ q.op \in {"CheckCode", "Refresh"}
          /\ (q.pc = "reply" \/ (q.pc = "done" /\ q.out = "OK")) => q.live

(* A request about to delete the code it began with has a cause to.        *)
Cause(q, ot) ==
    LET row == ot[q.email] IN
    row.code # None /\ q.first = row.code =>
        /\ q.pc = "consumeOTP" => q.code = row.code
        /\ q.pc = "expireOTP" => q.start > row.expires
        /\ q.pc = "lockOut" => row.attempts >= MaxAttempts

Sound(q, ot, ss) == Live(q, ot, ss) /\ Cause(q, ot)
CodeRest == \A r \in Requests : Sound(req[r], otp, sessions)
CodeInv == SessInv /\ CodeRest

(* A row keeps its code and expiry and counts upwards, or is deleted, or   *)
(* holds a code nobody has yet.                                            *)
OtpGrows ==
    \A e \in Emails :
        \/ otp'[e].code = None
        \/ /\ otp'[e].code = otp[e].code /\ otp'[e].expires = otp[e].expires
           /\ otp[e].attempts >= MaxAttempts => otp'[e].attempts >= MaxAttempts
        \/ otp'[e].code \notin Minted

LEMMA OtpSame == SessInv /\ otp' = otp => OtpGrows
BY DEF OtpGrows, SessInv, TypeInv, TypeOK, OtpRow

LEMMA OtpStep ==
    ASSUME SessInv, NEW r \in Requests,
           \/ UpsertOTP(r) \/ ExpireOTP(r) \/ IncrementOTPAttempts(r) \/ LockOut(r)
           \/ ConsumeOTP(r)
    PROVE  OtpGrows
<1>0. req[r].email \in Emails /\ otp \in [Emails -> OtpRow]
      BY SlotType
      DEF UpsertOTP, ExpireOTP, IncrementOTPAttempts, LockOut, ConsumeOTP, At, Form, SendStmts,
          CheckStmts, SessInv, TypeInv, TypeOK
<1>1. CASE UpsertOTP(r)
  <2>1. PICK c : /\ c \notin Minted
                 /\ otp' = [otp EXCEPT ![req[r].email] =
                      [code |-> c, expires |-> req[r].start + OtpTTL, attempts |-> 0]]
        BY <1>1 DEF UpsertOTP
  <2>2. otp'[req[r].email].code = c
        BY <1>0, <2>1
  <2>3. \A e \in Emails \ {req[r].email} : otp'[e] = otp[e]
        BY <1>0, <2>1
  <2> QED
      BY <2>1, <2>2, <2>3 DEF OtpGrows
<1>2. CASE otp' = WithoutOtp(req[r].email)
      BY <1>0, <1>2 DEF WithoutOtp, NoOtp, OtpGrows, OtpRow
<1>3. CASE IncrementOTPAttempts(r)
  <2>1. CASE otp' = [otp EXCEPT ![req[r].email].attempts = @ + 1]
    <3>1. \A e \in Emails : /\ otp'[e].code = otp[e].code /\ otp'[e].expires = otp[e].expires
                            /\ otp'[e].attempts \in {otp[e].attempts, otp[e].attempts + 1}
                            /\ otp[e].attempts \in Nat
          BY <1>0, <2>1 DEF OtpRow
    <3> QED
        BY <3>1, AuthAssumption DEF OtpGrows
  <2> QED
      BY <1>3, <2>1, OtpSame DEF IncrementOTPAttempts
<1> QED
    BY <1>1, <1>2, <1>3, OtpSame DEF ExpireOTP, LockOut, ConsumeOTP

LEMMA CodeKept ==
    ASSUME CodeInv, NEW s \in Requests, Grows(sessions, sessions'), OtpGrows
    PROVE  Sound(req[s], otp', sessions')
<1> DEFINE q == req[s]
<1>1. Live(q, otp, sessions) /\ Cause(q, otp) /\ q \in Request /\ Form(q)
      /\ Sess(q, sessions, now)
      BY SlotType DEF CodeInv, CodeRest, Sound, SessInv
<1>2. q.code \in Minted /\ q.first \in Minted
      BY DEF Minted
<1>3. q.pc \in CheckStmts => q.email \in Emails
      BY <1>1 DEF Form
<1>4. q.email \in Emails /\ otp'[q.email].code # None
        /\ otp'[q.email].code \in {q.code, q.first} =>
             /\ otp[q.email].code = otp'[q.email].code
             /\ otp[q.email].expires = otp'[q.email].expires
             /\ otp[q.email].attempts >= MaxAttempts => otp'[q.email].attempts >= MaxAttempts
      BY <1>2 DEF OtpGrows
<1>5. ASSUME q.pc = "sessionByHash", sessions'[q.token].status # "REVOKED",
             q.start =< sessions'[q.token].expires
      PROVE  q.live
  <2>1. q.token \in Tokens /\ sessions[q.token].status # "NONE"
        BY <1>1, <1>5 DEF Form, Sess, TokenStmts
  <2>2. sessions[q.token].status # "REVOKED" /\ q.start =< sessions[q.token].expires
        BY <1>5, <2>1 DEF Grows
  <2> QED
      BY <1>1, <1>5, <2>2 DEF Live
<1>6. ASSUME q.pc = "otpByEmail", q.code # None, otp'[q.email].code = q.code,
             q.start =< otp'[q.email].expires
      PROVE  q.live
      BY <1>1, <1>3, <1>4, <1>6 DEF Live, CheckStmts
<1>7. Live(q, otp', sessions')
      BY <1>1, <1>5, <1>6 DEF Live
<1>8. ASSUME otp'[q.email].code # None, q.first = otp'[q.email].code, q.pc \in CheckStmts
      PROVE  /\ q.pc = "consumeOTP" => q.code = otp'[q.email].code
             /\ q.pc = "expireOTP" => q.start > otp'[q.email].expires
             /\ q.pc = "lockOut" => otp'[q.email].attempts >= MaxAttempts
  <2>1. /\ otp[q.email].code = otp'[q.email].code
        /\ otp[q.email].expires = otp'[q.email].expires
        /\ otp[q.email].attempts >= MaxAttempts => otp'[q.email].attempts >= MaxAttempts
        BY <1>3, <1>4, <1>8
  <2> QED
      BY <1>1, <1>8, <2>1 DEF Cause
<1>9. Cause(q, otp')
      BY <1>8 DEF Cause, CheckStmts
<1> QED
    BY <1>7, <1>9 DEF Sound

LEMMA CodeWrite ==
    ASSUME CodeInv, NEW r \in Requests, NEW q, req' = [req EXCEPT ![r] = q],
           Sound(q, otp', sessions'), Grows(sessions, sessions'), OtpGrows
    PROVE  CodeRest'
<1>1. \A s \in Requests : req'[s] = IF s = r THEN q ELSE req[s]
      BY DEF CodeInv, SessInv, TypeInv, TypeOK
<1> QED
    BY <1>1, CodeKept DEF CodeRest

(* Where a request is about to send a code, to count a wrong one or has    *)
(* been refused, nothing is asked of it.                                   *)
LEMMA CodeQuiet ==
    ASSUME NEW q, NEW ot, NEW ss,
           \/ q.pc \in SendStmts \cup {"incrementOTPAttempts"}
           \/ q.pc = "done" /\ q.op = "SendCode"
    PROVE  Sound(q, ot, ss)
BY DEF Sound, Live, Cause, SendStmts

LEMMA CodeRefuse ==
    ASSUME CodeInv, NEW r \in Requests, NEW out, Refuse(r, out) \/ Forget(r),
           Grows(sessions, sessions'), OtpGrows
    PROVE  CodeRest'
<1> DEFINE q == [NoRequest EXCEPT !.out = "UNIQUE_VIOLATION", !.known = req[r].known]
<1>1. req' = [req EXCEPT ![r] = NoRequest] \/ req' = [req EXCEPT ![r] = q]
      BY DEF Refuse, Forget
<1>2. q.pc = "done" /\ q.op = "SendCode" /\ NoRequest.pc = "done" /\ NoRequest.op = "SendCode"
      BY DEF NoRequest
<1>3. Sound(q, otp', sessions') /\ Sound(NoRequest, otp', sessions')
      BY <1>2, CodeQuiet
<1> QED
    BY <1>1, <1>3, CodeWrite

LEMMA CodeInit == Init => CodeRest
<1> SUFFICES ASSUME Init PROVE CodeRest
    OBVIOUS
<1>1. NoRequest.pc = "done" /\ NoRequest.op = "SendCode"
      BY DEF NoRequest
<1>2. Sound(NoRequest, otp, sessions)
      BY <1>1, CodeQuiet
<1> QED
    BY <1>2 DEF Init, CodeRest

LEMMA CodeStart ==
    ASSUME CodeInv, NEW r \in Requests, Start(r)
    PROVE  CodeRest'
<1>0. otp' = otp /\ sessions' = sessions /\ now \in Nat
      BY DEF Start, RussianEmailRequired, StartSendCode, StartCheckCode, StartRefresh,
             StartLogout, Begin, tables, CodeInv, SessInv, TypeInv, TypeOK
<1>1. Grows(sessions, sessions') /\ OtpGrows
      BY <1>0, OtpSame DEF Grows, CodeInv
<1>2. CASE RussianEmailRequired(r)
      BY <1>1, <1>2, CodeRefuse DEF RussianEmailRequired
<1>3. CASE StartSendCode(r)
  <2>1. PICK e \in Emails, ip \in IPs :
           req' = [req EXCEPT ![r] = [NoRequest EXCEPT !.op = "SendCode", !.email = e,
                                        !.ip = ip, !.start = now, !.pc = "lastSendAt"]]
        BY <1>3 DEF StartSendCode, Begin
  <2> DEFINE q == [NoRequest EXCEPT !.op = "SendCode", !.email = e, !.ip = ip,
                                    !.start = now, !.pc = "lastSendAt"]
  <2>2. q.pc = "lastSendAt"
        BY DEF NoRequest
  <2>3. Sound(q, otp', sessions')
        BY <2>2, CodeQuiet DEF SendStmts
  <2> QED
      BY <1>1, <2>1, <2>3, CodeWrite
<1>4. CASE StartCheckCode(r)
  <2>1. PICK e \in Emails, code \in Codes \cup {None} :
           Begin(r, [NoRequest EXCEPT !.op = "CheckCode", !.email = e, !.code = code,
               !.start = now, !.pc = "otpByEmail", !.first = otp[e].code,
               !.known = users[e] # None,
               !.live = code # None /\ otp[e].code = code /\ now =< otp[e].expires,
               !.prior = UNION {ActiveSessions(u) : u \in AccountOf(Canon[e])}])
        BY <1>4 DEF StartCheckCode, CodeInv, SessInv, TypeInv, TypeOK
  <2> DEFINE live == code # None /\ otp[e].code = code /\ now =< otp[e].expires
             prior == UNION {ActiveSessions(u) : u \in AccountOf(Canon[e])}
             known == users[e] # None
             q == [NoRequest EXCEPT !.op = "CheckCode", !.email = e, !.code = code,
                     !.start = now, !.pc = "otpByEmail", !.first = otp[e].code,
                     !.known = known, !.live = live, !.prior = prior]
  <2>2. req' = [req EXCEPT ![r] = q]
        BY <2>1 DEF Begin
  <2> HIDE DEF live, prior, known
  <2>3. /\ q.pc = "otpByEmail" /\ q.email = e /\ q.code = code /\ q.start = now
        /\ q.live = live
        BY DEF NoRequest
  <2> HIDE DEF q
  <2>4. Sound(q, otp, sessions)
        BY <2>3 DEF Sound, Live, Cause, live
  <2> QED
      BY <1>0, <1>1, <2>2, <2>4, CodeWrite
<1>5. CASE StartRefresh(r)
  <2>1. PICK token \in held :
           Begin(r, [NoRequest EXCEPT !.op = "Refresh", !.token = token,
               !.start = now, !.pc = "sessionByHash",
               !.live = /\ sessions[token].status = "ACTIVE"
                        /\ now =< sessions[token].expires,
               !.prior = {token}])
        BY <1>5 DEF StartRefresh
  <2> DEFINE live == sessions[token].status = "ACTIVE" /\ now =< sessions[token].expires
             q == [NoRequest EXCEPT !.op = "Refresh", !.token = token, !.start = now,
                     !.pc = "sessionByHash", !.live = live, !.prior = {token}]
  <2>2. req' = [req EXCEPT ![r] = q]
        BY <2>1 DEF Begin
  <2> HIDE DEF live
  <2>3. /\ q.pc = "sessionByHash" /\ q.token = token /\ q.start = now
        /\ q.live = live
        BY DEF NoRequest
  <2>4. sessions[token].status \in {"ACTIVE", "REVOKED"}
        BY DEF CodeInv, SessInv, SessionsOK, Issued, TypeInv, TypeOK, SessionRow
  <2> HIDE DEF q
  <2>5. Sound(q, otp, sessions)
        BY <2>3, <2>4 DEF Sound, Live, Cause, live
  <2> QED
      BY <1>0, <1>1, <2>2, <2>5, CodeWrite
<1>6. CASE StartLogout(r)
  <2>1. PICK user \in {sessions[t].user : t \in held} :
           Begin(r, [NoRequest EXCEPT !.op = "Logout", !.user = user, !.start = now,
                       !.pc = "revokeSessions", !.prior = ActiveSessions(user)])
        BY <1>6 DEF StartLogout
  <2> DEFINE q == [NoRequest EXCEPT !.op = "Logout", !.user = user, !.start = now,
                     !.pc = "revokeSessions", !.prior = ActiveSessions(user)]
  <2>2. req' = [req EXCEPT ![r] = q]
        BY <2>1 DEF Begin
  <2>3. q.op = "Logout" /\ q.pc = "revokeSessions"
        BY DEF NoRequest
  <2> HIDE DEF q
  <2>4. Sound(q, otp, sessions)
        BY <2>3 DEF Sound, Live, Cause
  <2> QED
      BY <1>0, <1>1, <2>2, <2>4, CodeWrite
<1> QED
    BY <1>2, <1>3, <1>4, <1>5, <1>6 DEF Start

LEMMA CodeSend ==
    ASSUME CodeInv, NEW r \in Requests, Grows(sessions, sessions'), OtpGrows,
           \/ LastSendAt(r) \/ CountByEmail(r) \/ CountByIP(r) \/ UpsertOTP(r)
           \/ SendOTP(r) \/ InsertSendEvent(r)
    PROVE  CodeRest'
<1>0. req[r] \in Request
      BY SlotType DEF CodeInv, SessInv
<1>1. CASE \E out : Refuse(r, out) \/ Forget(r)
      BY <1>1, CodeRefuse
<1>2. CASE \E stmt \in SendStmts : Goto(r, stmt)
  <2>1. PICK stmt \in SendStmts : Goto(r, stmt)
        BY <1>2
  <2> DEFINE q == [req[r] EXCEPT !.pc = stmt]
  <2>2. q.pc \in SendStmts
        BY <1>0 DEF Request
  <2> QED
      BY <2>1, <2>2, CodeQuiet, CodeWrite DEF Goto
<1>3. CASE UpsertOTP(r)
  <2>1. PICK c : req' = [req EXCEPT ![r] = [@ EXCEPT !.pc = "sendOTP", !.code = c]]
        BY <1>3 DEF UpsertOTP
  <2> DEFINE q == [req[r] EXCEPT !.pc = "sendOTP", !.code = c]
  <2>2. q.pc \in SendStmts
        BY <1>0 DEF Request, SendStmts
  <2> QED
      BY <2>1, <2>2, CodeQuiet, CodeWrite
<1> QED
    BY <1>1, <1>2, <1>3
    DEF LastSendAt, CountByEmail, CountByIP, SendOTP, InsertSendEvent, SendStmts

(* The comparison, and what follows it.                                    *)
LEMMA CodeCheck ==
    ASSUME CodeInv, NEW r \in Requests, Grows(sessions, sessions'), OtpGrows,
           \/ OtpByEmail(r) \/ ExpireOTP(r) \/ IncrementOTPAttempts(r) \/ LockOut(r)
           \/ ConsumeOTP(r)
    PROVE  CodeRest'
<1>0. /\ req[r] \in Request /\ Form(req[r]) /\ Sound(req[r], otp, sessions)
      /\ req[r].pc \in CheckStmts /\ req[r].email \in Emails /\ req[r].op = "CheckCode"
      BY SlotType DEF CodeInv, SessInv, CodeRest, OtpByEmail, ExpireOTP, IncrementOTPAttempts,
             LockOut, ConsumeOTP, At, Form, CheckStmts
<1>1. ASSUME NEW out, Refuse(r, out) PROVE CodeRest'
      BY <1>1, CodeRefuse
<1>2. ASSUME NEW stmt, Goto(r, stmt), Sound([req[r] EXCEPT !.pc = stmt], otp', sessions')
      PROVE  CodeRest'
      BY <1>2, CodeWrite DEF Goto
<1>3. CASE OtpByEmail(r)
  <2> DEFINE row == otp[req[r].email]
  <2>0. otp' = otp /\ req[r].pc = "otpByEmail"
        BY <1>3 DEF OtpByEmail, tables, At
  <2>1. CASE row.code # None /\ Expired(row, req[r].start) /\ Goto(r, "expireOTP")
    <3> DEFINE q == [req[r] EXCEPT !.pc = "expireOTP"]
    <3>1. q.pc = "expireOTP" /\ q.email = req[r].email /\ q.start = req[r].start
          BY <1>0 DEF Request
    <3> HIDE DEF q
    <3>2. Sound(q, otp', sessions')
          BY <2>0, <2>1, <3>1 DEF Sound, Live, Cause, Expired
    <3> QED
        BY <1>2, <2>1, <3>2 DEF q
  <2>2. CASE /\ row.code # None /\ ~Expired(row, req[r].start) /\ row.code = req[r].code
             /\ Goto(r, "consumeOTP")
    <3> DEFINE q == [req[r] EXCEPT !.pc = "consumeOTP"]
    <3>1. /\ q.pc = "consumeOTP" /\ q.email = req[r].email /\ q.code = req[r].code
          /\ q.live = req[r].live
          BY <1>0 DEF Request
    <3>2. req[r].start =< row.expires
          BY <1>0, <2>2 DEF Expired, Request, CodeInv, SessInv, TypeInv, TypeOK, OtpRow
    <3>3. req[r].live
          BY <1>0, <2>0, <2>2, <3>2 DEF Sound, Live
    <3> HIDE DEF q
    <3>4. Sound(q, otp', sessions')
          BY <2>0, <2>2, <3>1, <3>3 DEF Sound, Live, Cause
    <3> QED
        BY <1>2, <2>2, <3>4 DEF q
  <2>3. CASE req' = [req EXCEPT ![r] = [@ EXCEPT !.pc = "incrementOTPAttempts",
                                                 !.code = row.code]]
    <3> DEFINE q == [req[r] EXCEPT !.pc = "incrementOTPAttempts", !.code = row.code]
    <3>1. q.pc = "incrementOTPAttempts"
          BY <1>0 DEF Request
    <3> QED
        BY <2>3, <3>1, CodeQuiet, CodeWrite
  <2> QED
      BY <1>1, <1>3, <2>1, <2>2, <2>3 DEF OtpByEmail
<1>4. CASE IncrementOTPAttempts(r)
  <2> DEFINE e == req[r].email
             q == [req[r] EXCEPT !.pc = "lockOut"]
  <2>1. \/ \E out : Refuse(r, out)
        \/ /\ otp' = [otp EXCEPT ![e].attempts = @ + 1] /\ Goto(r, "lockOut")
           /\ TooMany(otp[e].attempts + 1)
        BY <1>4 DEF IncrementOTPAttempts
  <2>2. CASE /\ otp' = [otp EXCEPT ![e].attempts = @ + 1] /\ Goto(r, "lockOut")
             /\ TooMany(otp[e].attempts + 1)
    <3>1. q.pc = "lockOut" /\ q.email = e
          BY <1>0 DEF Request
    <3>2. otp'[e].attempts >= MaxAttempts
          BY <1>0, <2>2 DEF TooMany, CodeInv, SessInv, TypeInv, TypeOK, OtpRow
    <3> HIDE DEF q
    <3>3. Sound(q, otp', sessions')
          BY <3>1, <3>2 DEF Sound, Live, Cause
    <3> QED
        BY <1>2, <2>2, <3>3 DEF q
  <2> QED
      BY <1>1, <2>1, <2>2
<1>5. CASE ConsumeOTP(r)
  <2> DEFINE q == [req[r] EXCEPT !.pc = "userByCanonicalEmail"]
  <2>1. q.pc = "userByCanonicalEmail" /\ q.live = req[r].live /\ req[r].pc = "consumeOTP"
        BY <1>0, <1>5 DEF Request, ConsumeOTP, At
  <2> HIDE DEF q
  <2>2. Sound(q, otp', sessions')
        BY <1>0, <2>1 DEF Sound, Live, Cause
  <2> QED
      BY <1>2, <1>5, <2>2 DEF q, ConsumeOTP
<1> QED
    BY <1>1, <1>3, <1>4, <1>5 DEF ExpireOTP, LockOut

(* What follows the comparison takes live along.                           *)
LEMMA CodeOn ==
    ASSUME CodeInv, NEW r \in Requests, NEW q, req' = [req EXCEPT ![r] = q],
           Grows(sessions, sessions'), OtpGrows,
           q.live = req[r].live, q.op = req[r].op,
           req[r].live \/ q.op = "Logout",
           \/ q.pc \in {"createUser", "userByID", "revokeOld", "insertSession"} /\ req[r].live
           \/ q.pc \in {"revokeSessions", "lockSessions", "reply", "done"}
    PROVE  CodeRest'
<1>1. Sound(q, otp', sessions')
      BY DEF Sound, Live, Cause
<1> QED
    BY <1>1, CodeWrite

LEMMA CodeAccount ==
    ASSUME CodeInv, NEW r \in Requests, Grows(sessions, sessions'), OtpGrows,
           UserByCanonicalEmail(r) \/ CreateUser(r)
    PROVE  CodeRest'
<1>0. req[r] \in Request /\ req[r].live
      BY SlotType DEF CodeInv, SessInv, CodeRest, Sound, Live, UserByCanonicalEmail, CreateUser,
             At
<1>1. CASE \E out : Refuse(r, out)
      BY <1>1, CodeRefuse
<1>2. CASE Goto(r, "createUser")
  <2> DEFINE q == [req[r] EXCEPT !.pc = "createUser"]
  <2>1. q.pc = "createUser" /\ q.live = req[r].live /\ q.op = req[r].op
        BY <1>0 DEF Request
  <2> HIDE DEF q
  <2>2. req' = [req EXCEPT ![r] = q]
        BY <1>2 DEF Goto, q
  <2> QED
      BY <1>0, <2>1, <2>2, CodeOn
<1>3. CASE \E u : req' = [req EXCEPT ![r] = [@ EXCEPT !.pc = "revokeSessions", !.user = u]]
  <2>1. PICK u : req' = [req EXCEPT ![r] = [@ EXCEPT !.pc = "revokeSessions", !.user = u]]
        BY <1>3
  <2> DEFINE q == [req[r] EXCEPT !.pc = "revokeSessions", !.user = u]
  <2>2. q.pc = "revokeSessions" /\ q.live = req[r].live /\ q.op = req[r].op
        BY <1>0 DEF Request
  <2>3. req' = [req EXCEPT ![r] = q]
        BY <2>1
  <2> HIDE DEF q
  <2> QED
      BY <1>0, <2>2, <2>3, CodeOn
<1> QED
    BY <1>1, <1>2, <1>3 DEF UserByCanonicalEmail, CreateUser

LEMMA CodeSession ==
    ASSUME CodeInv, NEW r \in Requests, Grows(sessions, sessions'), OtpGrows,
           \/ RevokeSessions(r) \/ LockSessions(r) \/ SessionByHash(r) \/ UserByID(r)
           \/ RevokeOld(r) \/ InsertSession(r) \/ Reply(r)
    PROVE  CodeRest'
<1>0. /\ req[r] \in Request /\ Form(req[r]) /\ Sound(req[r], otp, sessions)
      /\ Sess(req[r], sessions, now)
      BY SlotType DEF CodeInv, SessInv, CodeRest
<1>1. CASE RevokeSessions(r)
  <2> DEFINE q == [req[r] EXCEPT !.pc = "lockSessions", !.targets = ToRevoke(req[r].user)]
  <2>1. req' = [req EXCEPT ![r] = q] /\ req[r].pc = "revokeSessions"
        BY <1>1 DEF RevokeSessions, At
  <2>2. q.pc = "lockSessions" /\ q.live = req[r].live /\ q.op = req[r].op
        BY <1>0 DEF Request
  <2>3. req[r].live \/ req[r].op = "Logout"
        BY <1>0, <2>1 DEF Sound, Live, Form
  <2> HIDE DEF q
  <2> QED
      BY <2>1, <2>2, <2>3, CodeOn
<1>2. CASE LockSessions(r)
  <2>0. req[r].pc = "lockSessions"
        BY <1>2 DEF LockSessions, At
  <2>1. CASE req[r].op = "CheckCode"
    <3> DEFINE q == [req[r] EXCEPT !.pc = "insertSession", !.targets = StillActive(r)]
    <3>1. req' = [req EXCEPT ![r] = q]
          BY <1>2, <2>1 DEF LockSessions
    <3>2. q.pc = "insertSession" /\ q.live = req[r].live /\ q.op = req[r].op
          BY <1>0 DEF Request
    <3>3. req[r].live
          BY <1>0, <2>0, <2>1 DEF Sound, Live
    <3> HIDE DEF q
    <3> QED
        BY <3>1, <3>2, <3>3, CodeOn
  <2>2. CASE req[r].op # "CheckCode"
    <3> DEFINE q == [req[r] EXCEPT !.pc = "reply", !.targets = {}]
    <3>1. req' = [req EXCEPT ![r] = q]
          BY <1>2, <2>2 DEF LockSessions
    <3>2. q.pc = "reply" /\ q.live = req[r].live /\ q.op = req[r].op
          BY <1>0 DEF Request
    <3>3. req[r].op = "Logout"
          BY <1>0, <2>0, <2>2 DEF Form
    <3> HIDE DEF q
    <3> QED
        BY <3>1, <3>2, <3>3, CodeOn
  <2> QED
      BY <2>1, <2>2
<1>3. CASE SessionByHash(r)
  <2> DEFINE row == sessions[req[r].token]
             q == [req[r] EXCEPT !.pc = "userByID"]
  <2>1. CASE \E out : Refuse(r, out)
        BY <2>1, CodeRefuse
  <2>2. CASE ~IsRevoked(row) /\ ~Expired(row, req[r].start) /\ Goto(r, "userByID")
    <3>1. req[r].pc = "sessionByHash" /\ req[r].token \in Tokens
          BY <1>0, <1>3 DEF SessionByHash, At, Form, TokenStmts
    <3>2. req[r].start =< row.expires
          BY <1>0, <2>2, <3>1 DEF Expired, Request, CodeInv, SessInv, TypeInv, TypeOK, SessionRow
    <3>3. req[r].live
          BY <1>0, <2>2, <3>1, <3>2 DEF Sound, Live, IsRevoked
    <3>4. q.pc = "userByID" /\ q.live = req[r].live /\ q.op = req[r].op
          BY <1>0 DEF Request
    <3>5. req' = [req EXCEPT ![r] = q]
          BY <2>2 DEF Goto
    <3> HIDE DEF q
    <3> QED
        BY <3>3, <3>4, <3>5, CodeOn
  <2> QED
      BY <1>3, <2>1, <2>2 DEF SessionByHash
<1>4. CASE UserByID(r)
  <2> DEFINE u == sessions[req[r].token].user
             q == [req[r] EXCEPT !.pc = "revokeOld", !.user = u]
  <2>1. req' = [req EXCEPT ![r] = q] /\ req[r].live
        BY <1>0, <1>4 DEF UserByID, At, Sound, Live
  <2>2. q.pc = "revokeOld" /\ q.live = req[r].live /\ q.op = req[r].op
        BY <1>0 DEF Request
  <2> HIDE DEF q
  <2> QED
      BY <2>1, <2>2, CodeOn
<1>5. CASE RevokeOld(r)
  <2> DEFINE q == [req[r] EXCEPT !.pc = "insertSession", !.targets = {req[r].token}]
  <2>1. req' = [req EXCEPT ![r] = q] /\ req[r].live
        BY <1>0, <1>5 DEF RevokeOld, At, Sound, Live
  <2>2. q.pc = "insertSession" /\ q.live = req[r].live /\ q.op = req[r].op
        BY <1>0 DEF Request
  <2> HIDE DEF q
  <2> QED
      BY <2>1, <2>2, CodeOn
<1>6. CASE InsertSession(r)
  <2>1. PICK t : req' = [req EXCEPT ![r] = [@ EXCEPT !.pc = "reply", !.targets = {}, !.own = t]]
        BY <1>6 DEF InsertSession
  <2> DEFINE q == [req[r] EXCEPT !.pc = "reply", !.targets = {}, !.own = t]
  <2>2. q.pc = "reply" /\ q.live = req[r].live /\ q.op = req[r].op /\ req[r].live
        BY <1>0, <1>6 DEF Request, InsertSession, At, Sound, Live
  <2>3. req' = [req EXCEPT ![r] = q]
        BY <2>1
  <2> HIDE DEF q
  <2> QED
      BY <2>2, <2>3, CodeOn
<1>7. CASE Reply(r)
  <2> DEFINE q == [NoRequest EXCEPT !.out = "OK", !.op = req[r].op,
                                    !.live = req[r].live, !.prior = req[r].prior]
  <2>1. req' = [req EXCEPT ![r] = q] /\ req[r].pc = "reply"
        BY <1>7 DEF Reply, At
  <2>2. q.pc = "done" /\ q.live = req[r].live /\ q.op = req[r].op
        BY DEF NoRequest
  <2>3. req[r].op = "Logout" \/ req[r].live
        BY <1>0, <2>1 DEF Sound, Live, Form, Request, AuthOps
  <2> HIDE DEF q
  <2> QED
      BY <2>1, <2>2, <2>3, CodeOn
<1> QED
    BY <1>1, <1>2, <1>3, <1>4, <1>5, <1>6, <1>7

LEMMA StepOtp == SessInv /\ [Next]_vars => OtpGrows
<1> SUFFICES ASSUME SessInv, [Next]_vars PROVE OtpGrows
    OBVIOUS
<1>1. CASE otp' = otp
      BY <1>1, OtpSame
<1>2. CASE Tick \/ UNCHANGED vars
      BY <1>1, <1>2 DEF Tick, tables, vars
<1>3. ASSUME NEW r \in Requests, Start(r) PROVE otp' = otp
      BY <1>3 DEF Start, RussianEmailRequired, StartSendCode, StartCheckCode, StartRefresh,
             StartLogout, Begin, tables
<1>4. ASSUME NEW r \in Requests, Fail(r) PROVE otp' = otp
      BY <1>4 DEF Fail, tables
<1>5. ASSUME NEW r \in Requests, Statement(r) PROVE OtpGrows
  <2>1. CASE \/ UpsertOTP(r) \/ ExpireOTP(r) \/ IncrementOTPAttempts(r) \/ LockOut(r)
             \/ ConsumeOTP(r)
        BY <2>1, OtpStep
  <2>2. CASE \/ LastSendAt(r) \/ CountByEmail(r) \/ CountByIP(r) \/ SendOTP(r)
             \/ InsertSendEvent(r) \/ OtpByEmail(r) \/ UserByCanonicalEmail(r) \/ CreateUser(r)
             \/ RevokeSessions(r) \/ LockSessions(r) \/ SessionByHash(r) \/ UserByID(r)
             \/ RevokeOld(r) \/ InsertSession(r) \/ Reply(r)
        BY <1>1, <2>2
        DEF LastSendAt, CountByEmail, CountByIP, SendOTP, InsertSendEvent, OtpByEmail,
            UserByCanonicalEmail, CreateUser, RevokeSessions, LockSessions, SessionByHash,
            UserByID, RevokeOld, InsertSession, Reply, tables
  <2> QED
      BY <1>5, <2>1, <2>2 DEF Statement
<1> QED
    BY <1>1, <1>2, <1>3, <1>4, <1>5 DEF Next

LEMMA NextCode == CodeInv /\ [Next]_vars => CodeInv'
<1> SUFFICES ASSUME CodeInv, [Next]_vars PROVE CodeRest'
    BY NextSess DEF CodeInv
<1>0. Grows(sessions, sessions') /\ OtpGrows
      BY StepGrows, StepOtp DEF CodeInv
<1>1. CASE UNCHANGED <<otp, sessions, req>>
      BY <1>1 DEF CodeInv, CodeRest
<1>2. CASE Tick \/ UNCHANGED vars
      BY <1>1, <1>2 DEF Tick, vars, tables
<1>3. ASSUME NEW r \in Requests, Start(r) PROVE CodeRest'
      BY <1>3, CodeStart
<1>4. ASSUME NEW r \in Requests, Fail(r) PROVE CodeRest'
      BY <1>0, <1>4, CodeRefuse DEF Fail
<1>5. ASSUME NEW r \in Requests, Statement(r) PROVE CodeRest'
      BY <1>0, <1>5, CodeSend, CodeCheck, CodeAccount, CodeSession DEF Statement
<1> QED
    BY <1>2, <1>3, <1>4, <1>5 DEF Next

LEMMA CodeAlways == Spec => []CodeInv
<1>1. Init => CodeInv
      BY InitType, SessInit, CodeInit DEF CodeInv, SessInv, SessRest
<1> QED
    BY <1>1, NextCode, PTL DEF Spec

(* A login or a refresh succeeds only with a code or a token that was good *)
(* when the request began, whoever replaces, uses, locks out or revokes it *)
(* meanwhile.                                                              *)
THEOREM OnlyGoodOnesGetIn == Spec => []GoodAtStart
<1>1. CodeInv => GoodAtStart
      BY DEF CodeInv, CodeRest, Sound, Live, GoodAtStart, Succeeded, At
<1> QED
    BY <1>1, CodeAlways, PTL

(* A code is lost to nobody but the request that entered it, found it      *)
(* expired or counted MaxAttempts wrong tries, or one older than the code. *)
THEOREM CodesLostForCause == Spec => CodeLostForCause
<1> DEFINE Fair(e, r) ==
             /\ Removes(r, e) /\ req'[r] # req[r]
             /\ \/ req[r].first # otp[e].code
                \/ At(r, "consumeOTP") /\ req[r].code = otp[e].code
                \/ At(r, "expireOTP") /\ req[r].start > otp[e].expires
                \/ At(r, "lockOut") /\ otp[e].attempts >= MaxAttempts
           Lost == \A e \in Emails : otp[e].code # None /\ otp'[e].code = None =>
                      \E r \in Requests : Fair(e, r)
<1>1. ASSUME CodeInv, [Next]_vars, NEW e \in Emails, otp[e].code # None, otp'[e].code = None
      PROVE  \E r \in Requests : Fair(e, r)
  <2>0. otp \in [Emails -> OtpRow]
        BY <1>1 DEF CodeInv, SessInv, TypeInv, TypeOK
  <2>1. PICK r \in Requests : Statement(r)
        BY <1>1 DEF Next, Tick, Start, Fail, RussianEmailRequired, StartSendCode,
               StartCheckCode, StartRefresh, StartLogout, Begin, tables, vars
  <2>2. Sound(req[r], otp, sessions) /\ req[r] \in Request /\ Form(req[r])
        BY <1>1, SlotType DEF CodeInv, CodeRest, SessInv
  <2>3. ExpireOTP(r) \/ LockOut(r) \/ ConsumeOTP(r)
    <3>1. ~IncrementOTPAttempts(r) /\ ~UpsertOTP(r)
      <4>1. CASE IncrementOTPAttempts(r)
            BY <1>1, <2>0, <4>1 DEF IncrementOTPAttempts, OtpRow
      <4>2. CASE UpsertOTP(r)
        <5>1. PICK c \in Codes :
                otp' = [otp EXCEPT ![req[r].email] =
                          [code |-> c, expires |-> req[r].start + OtpTTL, attempts |-> 0]]
              BY <4>2 DEF UpsertOTP
        <5>2. otp'[e].code \in {c, otp[e].code}
              BY <2>0, <5>1
        <5>3. c # None
              BY AuthAssumption
        <5> QED
            BY <1>1, <5>2, <5>3
      <4> QED
          BY <4>1, <4>2
    <3> QED
        BY <1>1, <2>1, <3>1
        DEF Statement, LastSendAt, CountByEmail, CountByIP, SendOTP, InsertSendEvent,
            OtpByEmail, UserByCanonicalEmail, CreateUser, RevokeSessions, LockSessions,
            SessionByHash, UserByID, RevokeOld, InsertSession, Reply, tables
  <2>4. otp' = WithoutOtp(req[r].email)
        BY <1>1, <2>3 DEF ExpireOTP, LockOut, ConsumeOTP
  <2>5. req[r].email = e /\ req[r].pc \in {"expireOTP", "lockOut", "consumeOTP"}
        BY <1>1, <2>0, <2>3, <2>4 DEF WithoutOtp, ExpireOTP, LockOut, ConsumeOTP, At
  <2>6. req'[r] # req[r]
    <3>1. req \in [Requests -> Request] /\ NoRequest.pc = "done"
          BY <1>1 DEF CodeInv, SessInv, TypeInv, TypeOK, NoRequest
    <3>2. CASE ConsumeOTP(r)
          BY <2>2, <2>5, <3>1, <3>2 DEF ConsumeOTP, Goto, At, Request
    <3>3. CASE ExpireOTP(r) \/ LockOut(r)
          BY <2>5, <3>1, <3>3 DEF ExpireOTP, LockOut, Refuse
    <3> QED
        BY <2>3, <3>2, <3>3
  <2>7. Fair(e, r)
        BY <1>1, <2>2, <2>5, <2>6 DEF Sound, Cause, Removes, At
  <2> QED
      BY <2>7
<1>2. CodeInv /\ [Next]_vars => [Lost]_vars
      BY <1>1
<1> QED
    BY <1>2, CodeAlways, PTL DEF Spec, CodeLostForCause
=============================================================================
