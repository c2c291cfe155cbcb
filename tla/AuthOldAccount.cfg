\* An account from before canonical_email logs in.
SPECIFICATION Spec
CONSTANTS
    Spellings <- NoSpellings
    RussianDomains <- Russian
    c1 = c1
    c2 = c2
    Emails <- OneInbox
    Old <- DottedOld
    Sent <- BothSent
    IPs = {i1}
    RussianIPs = {}
    Codes = {c1, c2}
    Tokens = {t1, t2, t3}
    None = None
    Requests = {r1, r2}
    Ops <- SessionOps
    OtpTTL = 1
    ResendAfter = 0
    RefreshTTL = 0
    EmailWindow = 1
    MaxPerEmail = 3
    IPWindow = 1
    MaxPerIP = 3
    MaxAttempts = 1
    Deadline = 1
    MaxTime = 1
    MaxGuesses = 0
INVARIANT AccountReachable
