\* One author, two requests of hers at a time, two ads one after the other.
SPECIFICATION Spec
CONSTANTS
    Profiles = {p1}
    Ads = {a1, a2}
    Texts = {t1, t2}
    None = None
    Requests = {r1, r2}
    Ops <- OwnerOps
    TTL = 2
    Deadline = 1
    Skew = 0
    MaxTime = 3
SYMMETRY Symmetry
INVARIANTS
    TypeOK
    OneActiveAd
    ContentWhole
    LiveAtStart
    NoResurrection
PROPERTY BoardSpec
