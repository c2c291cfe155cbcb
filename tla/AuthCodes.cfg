\* One address: two codes in succession, wrong and right tries at them.
SPECIFICATION Spec
CONSTANTS
    Spellings <- NoSpellings
    RussianDomains <- Russian
    c1 = c1
    c2 = c2
    Emails <- OnePlain
    Old <- NoOld
    Sent <- NoneSent
    IPs = {i1, i2}
    RussianIPs = {i2}
    Codes = {c1, c2}
    Tokens = {t1}
    None = None
    Requests = {r1, r2}
    Ops <- CodeOps
    OtpTTL = 0
    ResendAfter = 0
    RefreshTTL = 1
    EmailWindow = 1
    MaxPerEmail = 3
    IPWindow = 1
    MaxPerIP = 3
    MaxAttempts = 2
    Deadline = 1
    MaxTime = 1
    MaxGuesses = 3
SYMMETRY Symmetry
INVARIANTS
    TypeOK
    GoodAtStart
    GuessesBounded
PROPERTY CodeLostForCause
