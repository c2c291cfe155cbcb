------------------------------- MODULE MCAuth -------------------------------
(* Instances of Auth for TLC.                                              *)
EXTENDS Auth, TLC

(* Slots, codes and tokens are interchangeable.  Used for safety only.     *)
Symmetry == Permutations(Requests) \cup Permutations(Codes) \cup Permutations(Tokens)

(* Where Sent tells the codes apart.                                       *)
SlotSymmetry == Permutations(Requests) \cup Permutations(Tokens)

CONSTANTS c1, c2

Address(local, domain) == [local |-> local, domain |-> domain]

plain == Address(<<"a", "b">>, "gmail.com")             \* canonical
dotted == Address(<<"a", ".", "b", "+", "x">>, "googlemail.com")
yandex == Address(<<"a", "b">>, "ya.ru")                \* someone else's

OnePlain == {plain}
OneInbox == {plain, dotted}
other == Address(<<"b">>, "ya.ru")                      \* a third one's
ThreeInboxes == {plain, yandex, other}

NoneSent == [e \in Emails |-> None]
BothSent == [e \in Emails |-> IF e = plain THEN c1 ELSE c2]
NoOld == {}
DottedOld == {dotted}

AllOps == AuthOps
CodeOps == {"SendCode", "CheckCode"}
SessionOps == {"CheckCode", "Refresh", "Logout"}
SendOnly == {"SendCode"}

(* Every address with a short local part, at Gmail and elsewhere.          *)
Locals == UNION {[1 .. n -> {"a", "b", ".", "+"}] : n \in 0 .. 4}
AllSpellings == {Address(l, d) : l \in Locals,
                                 d \in {"gmail.com", "googlemail.com", "ya.ru"}}
NoSpellings == {}
Russian == {"ya.ru"}
=============================================================================
