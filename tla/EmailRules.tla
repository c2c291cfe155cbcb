------------------------------ MODULE EmailRules ------------------------------
(***************************************************************************)
(* Which addresses are one inbox and which are Russian                     *)
(* (internal/auth/dto.go).  An address is as validateEmail returns it,     *)
(* trimmed and in lower case; its local part is a sequence of characters   *)
(* of which only "." and "+" matter.                                       *)
(***************************************************************************)
EXTENDS Naturals, Sequences

CONSTANTS
    Spellings,      \* bounded inputs: addresses the rules are checked on
    RussianDomains  \* the domains with one of the suffixes russianEmailTLDs

Addresses == [local : Seq(STRING), domain : STRING]

gmailDomains == {"gmail.com", "googlemail.com"}

(* The second conjunct is a fact about strings that the provers lack.      *)
ASSUME RulesAssumption == Spellings \subseteq Addresses /\ gmailDomains \subseteq STRING

(* strings.ReplaceAll(local, ".", "")                                      *)
MutKeepsDots(local) == local
WithoutDots(local) ==
    LET upTo[n \in 0 .. Len(local)] ==
            IF n = 0 THEN <<>>
            ELSE IF local[n] = "." THEN upTo[n - 1] ELSE Append(upTo[n - 1], local[n])
    IN upTo[Len(local)]

(* Up to the first "+", unless that leaves nothing.  IndexByte counts from *)
(* 0, so "i > 0" is a position greater than 1 here.                        *)
Before(local, plus) ==
    SubSeq(local, 1, (CHOOSE i \in plus : \A j \in plus : i =< j) - 1)
MutMayLeaveNothing(local) ==
    LET plus == {i \in DOMAIN local : local[i] = "+"} IN
    IF plus = {} THEN local ELSE Before(local, plus)
Untagged(local) ==
    LET plus == {i \in DOMAIN local : local[i] = "+"} IN
    IF plus = {} \/ 1 \in plus THEN local ELSE Before(local, plus)

canonicalEmail(a) ==
    IF a.domain \in gmailDomains
    THEN [local |-> Untagged(WithoutDots(a.local)), domain |-> "gmail.com"]
    ELSE [a EXCEPT !.local = Untagged(@)]

isRussianEmail(a) == a.domain \in RussianDomains

-----------------------------------------------------------------------------

(* What makes two spellings one inbox, one change at a time: a dot in a    *)
(* Gmail name, the other name of Gmail, a character of the tag after a     *)
(* name that is not empty.                                                 *)
WithoutDotAt(a, i) ==
    [a EXCEPT !.local = SubSeq(@, 1, i - 1) \o SubSeq(@, i + 1, Len(@))]
Named(a) ==
    LET name == IF a.domain \in gmailDomains THEN WithoutDots(a.local) ELSE a.local
    IN name # <<>> /\ name[1] # "+"
Tagged(a) == Named(a) /\ \E i \in DOMAIN a.local : a.local[i] = "+"

Plainer(a) ==
    (IF a.domain \in gmailDomains
     THEN {WithoutDotAt(a, i) : i \in {i \in DOMAIN a.local : a.local[i] = "."}}
          \cup {[a EXCEPT !.domain = "gmail.com"]}
     ELSE {})
    \cup (IF Tagged(a) THEN {WithoutDotAt(a, Len(a.local))} ELSE {})

(* Every form plainer changes lead to, and so whether two addresses are    *)
(* one inbox, without a look at canonicalEmail.                            *)
Forms(a) ==
    LET f[n \in 0 .. 2 * Len(a.local) + 1] ==
            IF n = 0 THEN {a} ELSE f[n - 1] \cup UNION {Plainer(b) : b \in f[n - 1]}
    IN f[2 * Len(a.local) + 1]
SameInbox(a, b) == Forms(a) \cap Forms(b) # {}

(* canonicalEmail tells exactly the inboxes apart: no single change that   *)
(* keeps the inbox changes it, and as long as such a change makes an       *)
(* address plainer the address is not canonical yet.                       *)
CanonicalIsTheInbox ==
    \A a \in Spellings :
        /\ \A b \in Plainer(a) : canonicalEmail(b) = canonicalEmail(a)
        /\ Plainer(a) \subseteq {a} <=> canonicalEmail(a) = a
=============================================================================
