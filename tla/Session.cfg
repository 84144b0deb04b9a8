\* Lost answers, late arrivals, expiry, kills and a failing disk.
SPECIFICATION Spec
CONSTANTS
    Requests = {r1, r2}
    Sids = {s1, s2, s3}
    NoSid = NoSid
    DiskFails = TRUE
    Hangs = TRUE
INVARIANTS
    TypeOK
    ToggledAtMostOnce
    ReplayHasNewSession
PROPERTIES
    RenewalHidesExpiry
    KeepsPromise
    CallReturns
