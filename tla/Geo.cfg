\* Fixes and changes of mode race each other and an import of the cities.
SPECIFICATION ImportSpec
CONSTANTS
    p1 = p1
    p2 = p2
    g1 = g1
    g2 = g2
    n1 = n1
    n2 = n2
    Points = {p1, p2}
    Cities = {c1, c2}
    Places = {g1, g2}
    Names = {n1, n2}
    Dist <- Apart
    Far <- FarApart
    None = None
    Requests = {r1, r2}
    JumpWindow = 1
    MaxTime = 1
    Dumps <- TwoDumps
    AltFiles <- ShortFiles
    Keep = {"RU"}
    MinPop = 1
    NoName = NoName
    MaxImports = 2
SYMMETRY Symmetry
INVARIANTS
    TypeOK
    PointFollowsMode
    ImportConverges
PROPERTIES
    JumpNeedsRace
    ImplementsGeo
