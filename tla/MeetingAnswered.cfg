\* Liveness: no symmetry.
SPECIFICATION FairSpec
CONSTANTS
    Profiles = {p1}
    Ads = {a1, a2}
    Texts = {t1}
    None = None
    Requests = {r1, r2}
    Ops <- WaitingOps
    TTL = 2
    Deadline = 1
    Skew = 0
    MaxTime = 2
PROPERTY EveryRequestAnswered
