---------------------------- MODULE MeetingBoard ----------------------------
(***************************************************************************)
(* What the meeting component promises, with no request, statement or      *)
(* reply in sight: profiles publish ads, other profiles respond to them,   *)
(* authors decide.  Every promise is a guard of an atomic action, and      *)
(* module Meeting shows that the interleaved SQL statements of the server  *)
(* implement it.                                                           *)
(***************************************************************************)
EXTENDS Naturals

CONSTANTS
    Profiles,   \* rows of table profiles
    Ads,        \* identifiers an ad may get
    Texts,      \* contents of an ad (its description together with its tags)
    None,       \* no profile, no ad, no text
    TTL         \* lifetime of an ad (adTTL, 24 hours)

VARIABLES
    now,        \* the clock of the database
    ads,        \* table meeting_ads with its tags, by id
    cands,      \* status of the like of each (ad, profile); "NONE": no row
    chats       \* number of chats opened for each (ad, profile)

Unborn == [author |-> None, status |-> "NONE", expires |-> 0,
           desc |-> None, tags |-> None]

Active(p) == {a \in Ads : ads[a].author = p /\ ads[a].status = "ACTIVE"}

Pairs == Ads \X Profiles

-----------------------------------------------------------------------------

Init ==
    /\ now = 0
    /\ ads = [a \in Ads |-> Unborn]
    /\ cands = [c \in Pairs |-> "NONE"]
    /\ chats = [c \in Pairs |-> 0]

Pass ==
    /\ now' = now + 1
    /\ UNCHANGED <<ads, cands, chats>>

(* An author gets an ad only when no other ad of hers is active, and never *)
(* one that lives longer than TTL from now.                                *)
Publish(p, a, t) ==
    /\ ads[a] = Unborn
    /\ Active(p) = {}
    /\ \E expires \in 0 .. now + TTL :
          ads' = [ads EXCEPT ![a] = [author |-> p, status |-> "ACTIVE",
                                     expires |-> expires, desc |-> t, tags |-> t]]
    /\ UNCHANGED <<now, cands, chats>>

(* Description and tags change together, on an active ad, and nothing else *)
(* of the ad does.                                                         *)
Edit(a, t) ==
    /\ ads[a].status = "ACTIVE"
    /\ ads' = [ads EXCEPT ![a] = [@ EXCEPT !.desc = t, !.tags = t]]
    /\ UNCHANGED <<now, cands, chats>>

Close(a) ==
    /\ ads[a].status = "ACTIVE"
    /\ ads' = [ads EXCEPT ![a].status = "CLOSED"]
    /\ UNCHANGED <<now, cands, chats>>

Expire(a) ==
    /\ ads[a].status = "ACTIVE"
    /\ ads[a].expires =< now
    /\ ads' = [ads EXCEPT ![a].status = "EXPIRED"]
    /\ UNCHANGED <<now, cands, chats>>

Respond(a, p) ==
    /\ ads[a].status # "NONE"
    /\ ads[a].author # p
    /\ cands[<<a, p>>] = "NONE"
    /\ cands' = [cands EXCEPT ![<<a, p>>] = "PENDING"]
    /\ UNCHANGED <<now, ads, chats>>

(* An accepted like and its chat appear in one step.                       *)
Accept(c) ==
    /\ cands[c] = "PENDING"
    /\ cands' = [cands EXCEPT ![c] = "ACCEPTED"]
    /\ chats' = [chats EXCEPT ![c] = chats[c] + 1]
    /\ UNCHANGED <<now, ads>>

Reject(c) ==
    /\ cands[c] = "PENDING"
    /\ cands' = [cands EXCEPT ![c] = "REJECTED"]
    /\ UNCHANGED <<now, ads, chats>>

Next ==
    \/ Pass
    \/ \E p \in Profiles, a \in Ads, t \in Texts : Publish(p, a, t)
    \/ \E a \in Ads, t \in Texts : Edit(a, t)
    \/ \E a \in Ads : Close(a) \/ Expire(a)
    \/ \E a \in Ads, p \in Profiles : Respond(a, p)
    \/ \E c \in Pairs : Accept(c) \/ Reject(c)

Spec == Init /\ [][Next]_<<now, ads, cands, chats>>
=============================================================================
