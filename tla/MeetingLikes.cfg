\* Two profiles, either of which may publish the ad and like that of the other;
\* two requests at a time.
SPECIFICATION Spec
CONSTANTS
    Profiles = {p1, p2}
    Ads = {a1}
    Texts = {t1}
    None = None
    Requests = {r1, r2}
    Ops <- GuestOps
    TTL = 2
    Deadline = 1
    Skew = 1
    MaxTime = 4
SYMMETRY Symmetry
INVARIANTS
    ChatIffAccepted
    DecisionStands
    LiveAtStart
PROPERTY BoardSpec
