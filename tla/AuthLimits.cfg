\* Two Russian addresses behind one client address ask for codes, a third is refused.
SPECIFICATION Spec
CONSTANTS
    Spellings <- NoSpellings
    RussianDomains <- Russian
    c1 = c1
    c2 = c2
    Emails <- ThreeInboxes
    Old <- NoOld
    Sent <- NoneSent
    IPs = {i1}
    RussianIPs = {i1}
    Codes = {c1, c2, c3}
    Tokens = {t1}
    None = None
    Requests = {r1, r2}
    Ops <- SendOnly
    OtpTTL = 1
    ResendAfter = 2
    RefreshTTL = 1
    EmailWindow = 5
    MaxPerEmail = 2
    IPWindow = 3
    MaxPerIP = 2
    MaxAttempts = 2
    Deadline = 1
    MaxTime = 4
    MaxGuesses = 0
SYMMETRY Symmetry
INVARIANT LimitsKept
