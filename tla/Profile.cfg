\* Onboarding, uploads, crops, new orders and deletions.
SPECIFICATION Spec
CONSTANTS
    Photos = {p1, p2, p3}
    Texts = {t1}
    None = None
    Requests = {r1, r2}
    Ops <- AllOps
    MaxPhotos = 1
    MinPhotos = 1
    Shift = 10
    Churn = 2
SYMMETRY Symmetry
INVARIANTS
    TypeOK
    CreatedIffDone
    StepsInOrder
    CeilingBounded
    PhotosStored
    NoOrphans
PROPERTIES
    StepNeverBack
    MainLostByDeletion
