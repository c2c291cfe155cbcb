\* A viewer scrolls, one ad a page, while ads come and go and authors move.
SPECIFICATION Spec
CONSTANTS
    p = p
    q = q
    c = c
    Ads = {1, 2}
    Points = {p, q}
    Cities = {c}
    Places <- Around
    Distance <- OneApart
    Radius = 1
    Limit = 1
    None = None
    MaxTime = 1
INVARIANTS
    TypeOK
    ShownOnce
    SteadyShown
PROPERTY CursorAdvances
