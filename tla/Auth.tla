--------------------------------- MODULE Auth ---------------------------------
(***************************************************************************)
(* One-time codes, accounts and refresh sessions (internal/auth).          *)
(*                                                                         *)
(* As in module Meeting a request is a goroutine that runs SQL statements  *)
(* one after another at READ COMMITTED, req[r].pc is the statement it      *)
(* issues next, and the row locks of an open transaction are read off the  *)
(* pc.  Here most requests run no transaction at all: what they read in    *)
(* one statement may be gone when the next one acts on it.                 *)
(***************************************************************************)
EXTENDS EmailRules, FiniteSets

CONSTANTS
    Emails,         \* the addresses in use
    Old,            \* addresses that may have an account from before
                    \* migration 000005
    Sent,           \* the code each address has just been sent, or None
    IPs,            \* client addresses
    RussianIPs,     \* those that GeoIP places in RU
    Codes,          \* one-time codes; no two sends generate the same one
    Tokens,         \* refresh tokens, each the key of its session's row
    None,           \* no address, code, token: also a code that was never sent
    Requests,       \* slots for requests in flight
    Ops,            \* the endpoints an instance exercises
    OtpTTL, ResendAfter, RefreshTTL,   \* otpTTL, otpResendAfter, refreshTTL
    EmailWindow, MaxPerEmail,          \* emailRateWindow, sendMaxPerEmailPerHour
    IPWindow, MaxPerIP,                \* ipRateWindow, sendMaxPerIPPer10Min
    MaxAttempts,    \* otpMaxAttempts
    Deadline,       \* the context of a request is cancelled after this long
    MaxTime,        \* bound: the clock stops here
    MaxGuesses      \* bound: no more wrong codes once the row has counted this

AuthOps == {"SendCode", "CheckCode", "Refresh", "Logout"}

ASSUME AuthAssumption ==
    /\ Emails \subseteq Addresses /\ Old \subseteq Emails
    /\ IsFiniteSet(Emails) /\ IsFiniteSet(Requests)
    /\ None \notin Addresses \cup IPs \cup Codes \cup Tokens
    /\ Sent \in [Emails -> Codes \cup {None}]
    /\ \A d, e \in Emails : Sent[d] = Sent[e] => d = e \/ Sent[d] = None
    /\ Ops \subseteq AuthOps /\ RussianIPs \subseteq IPs
    /\ {OtpTTL, ResendAfter, RefreshTTL, EmailWindow, IPWindow} \subseteq Nat
    /\ {MaxPerEmail, MaxPerIP, MaxAttempts} \subseteq Nat \ {0}
    /\ {Deadline, MaxTime, MaxGuesses} \subseteq Nat

VARIABLES
    now,        \* the clock, of server and database alike
    users,      \* canonical_email of the account of each address, or None
    otp,        \* table otp_codes, by address
    events,     \* table otp_send_events
    sessions,   \* table refresh_sessions, by token
    mailed,     \* the codes in each address' mailbox
    held,       \* refresh tokens some client has received
    req,        \* the request in each slot, or the last one it answered
    wrong,      \* history: wrong codes counted against each code
    kept        \* history: codes a lockout failed to delete

vars == <<now, users, otp, events, sessions, mailed, held, req, wrong, kept>>
tables == <<users, otp, events, sessions>>
clients == <<mailed, held>>
history == <<wrong, kept>>

-----------------------------------------------------------------------------
(* The canonical form of each address.                                     *)
Canon == [e \in Emails |-> canonicalEmail(e)]

(* What migration 000005 gave the rows it found: lower(email), which is    *)
(* the address itself, as validateEmail has stored it in lower case.       *)
Backfill(e) == e

(* Values of column canonical_email.                                       *)
Idents == Emails \cup {Canon[e] : e \in Emails}

ASSUME IdentAssumption == None \notin Idents

(* The tables.  Faulty variants (Mut...) stand before what they mutate and *)
(* are not used.                                                           *)

(* An absent row of otp_codes has code None.                               *)
OtpRow == [code : Codes \cup {None}, expires : Nat, attempts : Nat]
NoOtp == [code |-> None, expires |-> 0, attempts |-> 0]

(* created_at is "at"; code and start are history: the code that was sent, *)
(* and when the request that sent it began.                                *)
Event == [email : Emails, ip : IPs, at : Nat, code : Codes, start : Nat]

(* revoked_at only matters as null or not.                                 *)
SessionRow == [user : Emails \cup {None}, status : {"NONE", "ACTIVE", "REVOKED"},
               expires : Nat]
Unissued == [user |-> None, status |-> "NONE", expires |-> 0]

ActiveSessions(u) ==
    {t \in Tokens : sessions[t].user = u /\ sessions[t].status = "ACTIVE"}

(* The codes that are stored, in a mailbox or about to be, that a request  *)
(* still knows of, or that wrong ones were counted against.                *)
Minted == (UNION {mailed[e] : e \in Emails}) \cup {c \in Codes : wrong[c] > 0}
          \cup {otp[e].code : e \in Emails}
          \cup {req[r].code : r \in Requests} \cup {req[r].first : r \in Requests}

AccountOf(ident) == {e \in Emails : users[e] = ident}

-----------------------------------------------------------------------------
(* The requests.                                                           *)

Stmts == {"done", "lastSendAt", "countByEmail", "countByIP", "upsertOTP",
          "sendOTP", "insertSendEvent", "otpByEmail", "expireOTP",
          "incrementOTPAttempts", "lockOut", "consumeOTP",
          "userByCanonicalEmail", "createUser", "revokeSessions",
          "lockSessions", "insertSession", "reply",
          "sessionByHash", "userByID", "revokeOld"}

Outs == {"", "OK", "UNIQUE_VIOLATION"}

(* first, live and prior are taken when the request begins: which code is  *)
(* stored for its address, whether its code or token is good, and which of *)
(* its user's sessions are active.  targets are the session rows its       *)
(* UPDATE has found, then those it has locked.                             *)
Request == [op : AuthOps, email : Emails \cup {None}, ip : IPs \cup {None},
            code : Codes \cup {None}, token : Tokens \cup {None},
            first : Codes \cup {None},
            user : Emails \cup {None}, pc : Stmts, out : Outs, start : Nat,
            targets : SUBSET Tokens, own : Tokens \cup {None},
            known : BOOLEAN, live : BOOLEAN, prior : SUBSET Tokens]

NoRequest == [op |-> "SendCode", email |-> None, ip |-> None, code |-> None,
              token |-> None, first |-> None, user |-> None, pc |-> "done", out |-> "",
              start |-> 0, targets |-> {}, own |-> None,
              known |-> FALSE, live |-> FALSE, prior |-> {}]

At(r, stmt) == req[r].pc = stmt
Goto(r, stmt) == req' = [req EXCEPT ![r].pc = stmt]
(* What a finished request leaves behind is what some property asks for:   *)
(* nothing of a send, of a refusal only the 500 of a unique violation, of  *)
(* a success (Reply) live and prior.                                       *)
Forget(r) == req' = [req EXCEPT ![r] = NoRequest]
Refuse(r, out) ==
    req' = [req EXCEPT ![r] = IF out = "UNIQUE_VIOLATION"
                              THEN [NoRequest EXCEPT !.out = out, !.known = req[r].known]
                              ELSE NoRequest]

(* A transaction between its UPDATE and its COMMIT.                        *)
Locked(t) == \E r \in Requests : At(r, "insertSession") /\ t \in req[r].targets

-----------------------------------------------------------------------------

(* A behaviour may begin with the sends of Sent just answered, so that an  *)
(* instance about logins need not work through them.                       *)
Init ==
    /\ now = 0
    /\ \E old \in SUBSET Old :
         users = [e \in Emails |-> IF e \in old THEN Backfill(e) ELSE None]
    /\ otp = [e \in Emails |-> IF Sent[e] = None THEN NoOtp
                  ELSE [code |-> Sent[e], expires |-> OtpTTL, attempts |-> 0]]
    /\ \E ip \in IPs :
         events = {[email |-> e, ip |-> ip, at |-> 0, code |-> Sent[e], start |-> 0] :
                      e \in {e \in Emails : Sent[e] # None}}
    /\ sessions = [t \in Tokens |-> Unissued]
    /\ mailed = [e \in Emails |-> {Sent[e]} \ {None}]
    /\ held = {}
    /\ req = [r \in Requests |-> NoRequest]
    /\ wrong = [c \in Codes |-> 0]
    /\ kept = {}

Tick ==
    /\ now < MaxTime
    /\ now' = now + 1
    /\ UNCHANGED <<tables, clients, req, history>>

(* Bounds: codes and tokens left for the sends and logins under way.       *)
Busy(ops) == Cardinality({r \in Requests : ~At(r, "done") /\ req[r].op \in ops})
CodesLeft == Cardinality(Codes \ Minted) > Busy({"SendCode"})
TokensLeft == Cardinality({t \in Tokens : sessions[t].status = "NONE"})
                  > Busy({"CheckCode", "Refresh"})

Begin(r, q) ==
    /\ At(r, "done")
    /\ req' = [req EXCEPT ![r] = q]
    /\ UNCHANGED <<now, tables, clients, history>>

(* From a Russian client address only Russian mail addresses are accepted. *)
(* The others are refused before anything is read.                         *)
Accepted(e, ip) == ip \in RussianIPs => isRussianEmail(e)

RussianEmailRequired(r) ==
    /\ At(r, "done")
    /\ \E e \in Emails, ip \in IPs : "SendCode" \in Ops /\ ~Accepted(e, ip)
    /\ Forget(r)
    /\ UNCHANGED <<now, tables, clients, history>>

StartSendCode(r) ==
    \E e \in Emails, ip \in IPs :
        /\ "SendCode" \in Ops
        /\ Accepted(e, ip)
        /\ CodesLeft
        /\ Begin(r, [NoRequest EXCEPT !.op = "SendCode", !.email = e, !.ip = ip,
                                      !.start = now, !.pc = "lastSendAt"])

(* The code entered is one from the mailbox, or a wrong one (None).        *)
StartCheckCode(r) ==
    \E e \in Emails : \E code \in mailed[e] \cup {None} :
        /\ "CheckCode" \in Ops
        /\ code = None \/ TokensLeft
        /\ otp[e].attempts < MaxGuesses \/ otp[e].code = code
        /\ Begin(r, [NoRequest EXCEPT !.op = "CheckCode", !.email = e, !.code = code,
               !.start = now, !.pc = "otpByEmail", !.first = otp[e].code,
               !.known = users[e] # None,
               !.live = code # None /\ otp[e].code = code /\ now =< otp[e].expires,
               !.prior = UNION {ActiveSessions(u) : u \in AccountOf(Canon[e])}])

StartRefresh(r) ==
    \E token \in held :
        /\ "Refresh" \in Ops
        /\ TokensLeft
        /\ Begin(r, [NoRequest EXCEPT !.op = "Refresh", !.token = token,
               !.start = now, !.pc = "sessionByHash",
               !.live = /\ sessions[token].status = "ACTIVE"
                        /\ now =< sessions[token].expires,
               !.prior = {token}])

(* Middleware accepts any access token that has not expired, also one of a *)
(* session that is revoked by now.                                         *)
StartLogout(r) ==
    \E user \in {sessions[t].user : t \in held} :
        /\ "Logout" \in Ops
        /\ Begin(r, [NoRequest EXCEPT !.op = "Logout", !.user = user,
               !.start = now, !.pc = "revokeSessions",
               !.prior = ActiveSessions(user)])

InTime(r) == now =< req[r].start + Deadline

(* A statement errors, the deadline or a disconnect cancels the context,   *)
(* or the process dies.  At "reply" the answer is lost on its way.         *)
Fail(r) ==
    /\ ~At(r, "done")
    /\ Refuse(r, "FAILED")
    /\ kept' = IF At(r, "lockOut") THEN kept \cup ({otp[req[r].email].code} \ {None})
                                   ELSE kept
    /\ UNCHANGED <<now, tables, clients, wrong>>

-----------------------------------------------------------------------------
(* send_code: three checks of the send events of the past, and only after  *)
(* the mail has gone out an event of its own.                              *)

SentTo(e) == {v \in events : v.email = e}
MutWrongColumn(ip) == {v \in events : v.email = ip}
SentFrom(ip) == {v \in events : v.ip = ip}
Recent(sends, window, t) == {v \in sends : v.at + window > t}

(* now of the request less the time of the last send, if there is one.     *)
CoolingDown(r) ==
    \E v \in SentTo(req[r].email) : req[r].start < v.at + ResendAfter

LastSendAt(r) ==
    /\ At(r, "lastSendAt")
    /\ IF CoolingDown(r) THEN Refuse(r, "RATE_LIMITED") ELSE Goto(r, "countByEmail")
    /\ UNCHANGED <<now, tables, clients, history>>

CountByEmail(r) ==
    LET sends == Recent(SentTo(req[r].email), EmailWindow, req[r].start) IN
    /\ At(r, "countByEmail")
    /\ IF Cardinality(sends) >= MaxPerEmail
       THEN Refuse(r, "RATE_LIMITED") ELSE Goto(r, "countByIP")
    /\ UNCHANGED <<now, tables, clients, history>>

CountByIP(r) ==
    LET sends == Recent(SentFrom(req[r].ip), IPWindow, req[r].start) IN
    /\ At(r, "countByIP")
    /\ IF Cardinality(sends) >= MaxPerIP
       THEN Refuse(r, "RATE_LIMITED") ELSE Goto(r, "upsertOTP")
    /\ UNCHANGED <<now, tables, clients, history>>

(* generateCode, and the upsert that replaces the code before.             *)
UpsertOTP(r) ==
    /\ At(r, "upsertOTP")
    /\ \E c \in Codes \ Minted :
         /\ otp' = [otp EXCEPT ![req[r].email] =
                      [code |-> c, expires |-> req[r].start + OtpTTL, attempts |-> 0]]
         /\ req' = [req EXCEPT ![r] = [@ EXCEPT !.pc = "sendOTP", !.code = c]]
    /\ UNCHANGED <<now, users, events, sessions, clients, history>>

SendOTP(r) ==
    /\ At(r, "sendOTP")
    /\ mailed' = [mailed EXCEPT ![req[r].email] = @ \cup {req[r].code}]
    /\ Goto(r, "insertSendEvent")
    /\ UNCHANGED <<now, tables, held, history>>

InsertSendEvent(r) ==
    /\ At(r, "insertSendEvent")
    /\ events' = events \cup {[email |-> req[r].email, ip |-> req[r].ip, at |-> now,
                               code |-> req[r].code, start |-> req[r].start]}
    /\ Forget(r)
    /\ UNCHANGED <<now, users, otp, sessions, clients, history>>

-----------------------------------------------------------------------------
(* check_code: verify.                                                     *)

(* The row is compared as it is read: its attempts are not looked at.      *)
MutForgetsExpiry(row, t) == FALSE
MutExpiresEarly(row, t) == t >= row.expires
Expired(row, t) == t > row.expires

OtpByEmail(r) ==
    LET row == otp[req[r].email] IN
    /\ At(r, "otpByEmail")
    /\ CASE row.code = None -> Refuse(r, "OTP_INVALID")
         [] row.code # None /\ Expired(row, req[r].start) -> Goto(r, "expireOTP")
         [] row.code # None /\ ~Expired(row, req[r].start) /\ row.code = req[r].code ->
              Goto(r, "consumeOTP")
         [] OTHER -> req' = [req EXCEPT ![r] = [@ EXCEPT !.pc = "incrementOTPAttempts", !.code = row.code]]
    /\ UNCHANGED <<now, tables, clients, history>>

(* deleteOTP goes by the address: the row it deletes may hold a newer code *)
(* by now.  Both of these ignore an error of the statement.                *)
MutMarkedUsed(e) == [otp EXCEPT ![e].code = "USED"]
WithoutOtp(e) == [otp EXCEPT ![e] = NoOtp]

ExpireOTP(r) ==
    /\ At(r, "expireOTP")
    /\ otp' \in {WithoutOtp(req[r].email), otp}
    /\ Refuse(r, "OTP_EXPIRED")
    /\ UNCHANGED <<now, users, events, sessions, clients, history>>

(* A wrong code.  The counter it raises is the one of the row now there.   *)
MutLateLockout(attempts) == attempts > MaxAttempts
TooMany(attempts) == attempts >= MaxAttempts

IncrementOTPAttempts(r) ==
    LET row == otp[req[r].email] IN
    /\ At(r, "incrementOTPAttempts")
    /\ IF row.code = None
       THEN Refuse(r, "FAILED") /\ UNCHANGED <<otp, wrong>>
       ELSE /\ otp' = [otp EXCEPT ![req[r].email].attempts = @ + 1]
            /\ wrong' = [wrong EXCEPT ![req[r].code] = @ + 1]
            /\ IF TooMany(row.attempts + 1) THEN Goto(r, "lockOut")
                                            ELSE Refuse(r, "OTP_INVALID")
    /\ UNCHANGED <<now, users, events, sessions, clients, kept>>

LockOut(r) ==
    LET e == req[r].email IN
    /\ At(r, "lockOut")
    /\ \/ otp' = WithoutOtp(e) /\ kept' = kept
       \/ otp' = otp /\ kept' = kept \cup ({otp[e].code} \ {None})
    /\ Refuse(r, "OTP_INVALID")
    /\ UNCHANGED <<now, users, events, sessions, clients, wrong>>

(* The right code.  How many rows the DELETE found is not asked.           *)
ConsumeOTP(r) ==
    /\ At(r, "consumeOTP")
    /\ otp' = WithoutOtp(req[r].email)
    /\ Goto(r, "userByCanonicalEmail")
    /\ UNCHANGED <<now, users, events, sessions, clients, history>>

-----------------------------------------------------------------------------
(* check_code: the account.                                                *)

UserByCanonicalEmail(r) ==
    LET found == AccountOf(Canon[req[r].email]) IN
    /\ At(r, "userByCanonicalEmail")
    /\ \/ \E u \in found :
             req' = [req EXCEPT ![r] = [@ EXCEPT !.pc = "revokeSessions", !.user = u]]
       \/ found = {} /\ Goto(r, "createUser")
    /\ UNCHANGED <<now, tables, clients, history>>

(* UNIQUE on both columns of users.                                        *)
CreateUser(r) ==
    LET e == req[r].email IN
    /\ At(r, "createUser")
    /\ IF users[e] = None /\ AccountOf(Canon[e]) = {}
       THEN /\ users' = [users EXCEPT ![e] = Canon[e]]
            /\ req' = [req EXCEPT ![r] = [@ EXCEPT !.pc = "revokeSessions", !.user = e]]
       ELSE Refuse(r, "UNIQUE_VIOLATION") /\ UNCHANGED users
    /\ UNCHANGED <<now, otp, events, sessions, clients, history>>

-----------------------------------------------------------------------------
(* Sessions.                                                               *)

(* The UPDATE of resetSession and of revokeUserSessions.  The rows it sees *)
(* are those of its snapshot; it waits for the ones another transaction    *)
(* has locked, and then skips those no longer active.                      *)
MutRevokesNothing(u) == {}
ToRevoke(u) == ActiveSessions(u)

RevokeSessions(r) ==
    /\ At(r, "revokeSessions")
    /\ req' = [req EXCEPT ![r] = [@ EXCEPT !.pc = "lockSessions", !.targets = ToRevoke(req[r].user)]]
    /\ UNCHANGED <<now, tables, clients, history>>

Revoked(set) == [t \in Tokens |-> IF t \in set
                    THEN [sessions[t] EXCEPT !.status = "REVOKED"] ELSE sessions[t]]

StillActive(r) == {t \in req[r].targets : sessions[t].status = "ACTIVE"}

(* resetSession goes on in its transaction, Logout commits.                *)
MutRevokeWithoutTx(r) ==
    /\ At(r, "lockSessions")
    /\ \A t \in req[r].targets : ~Locked(t)
    /\ sessions' = Revoked(StillActive(r))
    /\ Goto(r, IF req[r].op = "CheckCode" THEN "insertSession" ELSE "reply")
    /\ UNCHANGED <<now, users, otp, events, clients, history>>
LockSessions(r) ==
    /\ At(r, "lockSessions")
    /\ \A t \in req[r].targets : ~Locked(t)
    /\ IF req[r].op = "CheckCode"
       THEN /\ req' = [req EXCEPT ![r] = [@ EXCEPT !.pc = "insertSession", !.targets = StillActive(r)]]
            /\ UNCHANGED sessions
       ELSE /\ sessions' = Revoked(StillActive(r))
            /\ req' = [req EXCEPT ![r] = [@ EXCEPT !.pc = "reply", !.targets = {}]]
    /\ UNCHANGED <<now, users, otp, events, clients, history>>

(* refresh: the session is checked as it is read ...                       *)
MutHonoursRevoked(row) == FALSE
IsRevoked(row) == row.status = "REVOKED"

SessionByHash(r) ==
    LET row == sessions[req[r].token] IN
    /\ At(r, "sessionByHash")
    /\ IF IsRevoked(row) THEN Refuse(r, "SESSION_REVOKED")
       ELSE IF Expired(row, req[r].start) THEN Refuse(r, "INVALID_REFRESH")
       ELSE Goto(r, "userByID")
    /\ UNCHANGED <<now, tables, clients, history>>

UserByID(r) ==
    /\ At(r, "userByID")
    /\ req' = [req EXCEPT ![r] = [@ EXCEPT !.pc = "revokeOld", !.user = sessions[req[r].token].user]]
    /\ UNCHANGED <<now, tables, clients, history>>

(* ... and rotateSession revokes it, whatever it has become since.         *)
RevokeOld(r) ==
    /\ At(r, "revokeOld")
    /\ ~Locked(req[r].token)
    /\ req' = [req EXCEPT ![r] = [@ EXCEPT !.pc = "insertSession", !.targets = {req[r].token}]]
    /\ UNCHANGED <<now, tables, clients, history>>

(* Both transactions end with the new session.                             *)
InsertSession(r) ==
    /\ At(r, "insertSession")
    /\ \E t \in {t \in Tokens : sessions[t].status = "NONE"} :
         /\ sessions' = [Revoked(req[r].targets) EXCEPT ![t] =
                           [user |-> req[r].user, status |-> "ACTIVE",
                            expires |-> req[r].start + RefreshTTL]]
         /\ req' = [req EXCEPT ![r] = [@ EXCEPT !.pc = "reply", !.targets = {}, !.own = t]]
    /\ UNCHANGED <<now, users, otp, events, clients, history>>

Reply(r) ==
    /\ At(r, "reply")
    /\ held' = held \cup ({req[r].own} \ {None})
    /\ req' = [req EXCEPT ![r] = [NoRequest EXCEPT !.out = "OK", !.op = req[r].op,
                                     !.live = req[r].live, !.prior = req[r].prior]]
    /\ UNCHANGED <<now, tables, mailed, history>>

-----------------------------------------------------------------------------

Statement(r) ==
    /\ InTime(r)
    /\ \/ LastSendAt(r) \/ CountByEmail(r) \/ CountByIP(r) \/ UpsertOTP(r)
       \/ SendOTP(r) \/ InsertSendEvent(r) \/ OtpByEmail(r) \/ ExpireOTP(r)
       \/ IncrementOTPAttempts(r) \/ LockOut(r) \/ ConsumeOTP(r)
       \/ UserByCanonicalEmail(r) \/ CreateUser(r) \/ RevokeSessions(r)
       \/ LockSessions(r) \/ SessionByHash(r) \/ UserByID(r) \/ RevokeOld(r)
       \/ InsertSession(r) \/ Reply(r)

Start(r) ==
    \/ RussianEmailRequired(r)
    \/ StartSendCode(r) \/ StartCheckCode(r) \/ StartRefresh(r) \/ StartLogout(r)

Next ==
    \/ Tick
    \/ \E r \in Requests : Start(r) \/ Fail(r) \/ Statement(r)

Spec == Init /\ [][Next]_vars

-----------------------------------------------------------------------------
(* Properties.                                                             *)

(* Every table and every request holds values of its type.                 *)
TypeOK ==
    /\ now \in Nat
    /\ users \in [Emails -> Idents \cup {None}]
    /\ otp \in [Emails -> OtpRow]
    /\ events \in SUBSET Event
    /\ sessions \in [Tokens -> SessionRow]
    /\ mailed \in [Emails -> SUBSET Codes]
    /\ held \in SUBSET Tokens
    /\ req \in [Requests -> Request]
    /\ wrong \in [Codes -> Nat]
    /\ kept \in SUBSET Codes

Succeeded(r, op) == At(r, "done") /\ req[r].op = op /\ req[r].out = "OK"

(* A login, a refresh and a logout end the sessions they are there to end: *)
(* every session of the user that was active when the login or the logout  *)
(* began, and the session whose token was refreshed, is revoked and stays  *)
(* so, whatever other requests insert or revoke meanwhile.                 *)
PriorRevoked ==
    \A r \in Requests :
        Succeeded(r, "CheckCode") \/ Succeeded(r, "Refresh") \/ Succeeded(r, "Logout")
            => \A t \in req[r].prior : sessions[t].status = "REVOKED"

(* Neither a replaced, used, locked out or expired code nor a revoked or   *)
(* expired token gets anybody in: a login or a refresh only succeeds with  *)
(* one that was good when the request began.                               *)
GoodAtStart ==
    \A r \in Requests :
        Succeeded(r, "CheckCode") \/ Succeeded(r, "Refresh") => req[r].live

(* A code does not vanish on its owner: it is only removed by a request    *)
(* that entered it, found it expired or has counted MaxAttempts wrong      *)
(* tries at it, or else by one that was under way before it was stored     *)
(* (deleteOTP goes by the address, not by the code that was compared).     *)
Removes(r, e) ==
    req[r].email = e /\ req[r].pc \in {"expireOTP", "lockOut", "consumeOTP"}
CodeLostForCause ==
    [][\A e \in Emails :
         otp[e].code # None /\ otp'[e].code = None =>
             \E r \in Requests :
                 /\ Removes(r, e) /\ req'[r] # req[r]
                 /\ \/ req[r].first # otp[e].code
                    \/ At(r, "consumeOTP") /\ req[r].code = otp[e].code
                    \/ At(r, "expireOTP") /\ req[r].start > otp[e].expires
                    \/ At(r, "lockOut") /\ otp[e].attempts >= MaxAttempts]_vars

(* The addresses of one inbox with each.                                   *)
Spelt == [e \in Emails |-> {f \in Emails : SameInbox(e, f)}]

(* Accounts and inboxes: canonicalEmail tells the inboxes apart, so no two *)
(* accounts whose canonical_email it has worked out are of one inbox,      *)
(* although logins look for the account and create it in different         *)
(* statements; and whoever enters a code gets into an account of the inbox *)
(* it was sent to, be it an old one of another spelling.                   *)
AccountPerInbox ==
    /\ CanonicalIsTheInbox
    /\ \A e, f \in Emails :
         e # f /\ users[e] = Canon[e] /\ users[f] = Canon[f] => f \notin Spelt[e]
    /\ \A r \in Requests :
         req[r].op = "CheckCode" /\ req[r].user # None
             => req[r].user \in Spelt[req[r].email]

(* Login, refresh and logout are atomic although each is several           *)
(* statements: a login that breaks off after its UPDATE ends no session,   *)
(* and none ends without a new one unless its user asked for it.           *)
Leaving == {req[r].user : r \in {r \in Requests :
               req[r].op = "Logout" /\ req[r].pc = "lockSessions"}}
Store == INSTANCE SessionStore WITH Users <- Emails, leaving <- Leaving
SessionStoreSpec == Store!Spec

(* The lockout holds under concurrency up to the requests in flight: a     *)
(* code is refuted by at most MaxAttempts wrong tries and one more for     *)
(* every other request at work, unless a lockout failed to delete it.      *)
GuessesBounded ==
    \A c \in Codes \ kept : wrong[c] =< MaxAttempts + Cardinality(Requests) - 1

(* The limits hold for requests that do not overlap: of the sends that     *)
(* were recorded when a send began, none is within the cooldown of its     *)
(* address, and fewer than the maximum are within each window.             *)
LimitsKept ==
    \A v \in events :
        LET past == {u \in events : u.at < v.start}
            within(set, d) == Recent(set, d, v.start)
            mail == {u \in past : u.email = v.email}
            net == {u \in past : u.ip = v.ip}
        IN /\ within(mail, ResendAfter) = {}
           /\ Cardinality(within(mail, EmailWindow)) < MaxPerEmail
           /\ Cardinality(within(net, IPWindow)) < MaxPerIP

-----------------------------------------------------------------------------
(* What the documents promise and the code does not keep.                  *)

(* Single-session (docs/api.md): a user has one active session.            *)
SingleSession == \A u \in Emails : Cardinality(ActiveSessions(u)) =< 1

(* Identity is matched on canonical_email (migration 000005): who has an   *)
(* account gets in with the right code, also with one from before.         *)
AccountReachable ==
    \A r \in Requests : ~(req[r].out = "UNIQUE_VIOLATION" /\ req[r].known)
=============================================================================
