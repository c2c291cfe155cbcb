----------------------------- MODULE SessionStore -----------------------------
(***************************************************************************)
(* What login, refresh and logout promise of table refresh_sessions        *)
(* (internal/auth/repository.go, docs/api.md), each one atomic: a session  *)
(* is issued once, to one user, for a bounded time; it ends for good, and  *)
(* only where its user gets a new one in the same step or has asked to be  *)
(* logged out.  Module Auth implements it.                                 *)
(***************************************************************************)
EXTENDS Naturals

CONSTANTS
    Users,      \* accounts
    Tokens,     \* refresh tokens
    None,       \* nobody
    RefreshTTL  \* how long a session lasts at most

VARIABLES
    now,        \* the clock
    sessions,   \* user, status and expiry of each token's session
    leaving     \* the users who have asked to be logged out

vars == <<now, sessions, leaving>>

Issued == {t \in Tokens : sessions[t].status # "NONE"}
ActiveOf(u) ==
    {t \in Tokens : sessions[t].user = u /\ sessions[t].status = "ACTIVE"}

Init ==
    /\ now = 0
    /\ sessions = [t \in Tokens |-> [user |-> None, status |-> "NONE", expires |-> 0]]
    /\ leaving = {}

(* The sessions in S end ...                                               *)
Ended(S) == [t \in Tokens |-> IF t \in S
               THEN [sessions[t] EXCEPT !.status = "REVOKED"] ELSE sessions[t]]

(* ... and user u gets a new one.                                          *)
Replace(u, S) ==
    \E t \in Tokens \ Issued, expires \in 0 .. now + RefreshTTL :
        /\ sessions' = [Ended(S) EXCEPT ![t] =
                          [user |-> u, status |-> "ACTIVE", expires |-> expires]]
        /\ UNCHANGED <<now, leaving>>

Login(u) == \E S \in SUBSET ActiveOf(u) : Replace(u, S)

(* The session of a token that was issued, be it revoked by now.           *)
Refresh(token) == token \in Issued /\ Replace(sessions[token].user, {token})

Logout(u) ==
    /\ u \in leaving
    /\ \E S \in SUBSET ActiveOf(u) : sessions' = Ended(S)
    /\ UNCHANGED now

(* Users ask to be logged out, and their requests end, one way or another. *)
Ask == leaving' \in SUBSET Users /\ UNCHANGED <<now, sessions>>

Tick == now' = now + 1 /\ UNCHANGED <<sessions, leaving>>

Next ==
    \/ Tick \/ Ask
    \/ \E u \in Users : Login(u) \/ Logout(u)
    \/ \E t \in Tokens : Refresh(t)

Spec == Init /\ [][Next]_vars
=============================================================================
