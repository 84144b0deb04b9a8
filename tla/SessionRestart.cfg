\* A renewed session is never saved: a restart finds the old one.
SPECIFICATION Spec
CONSTANTS
    Requests = {r1}
    Sids = {s1, s2, s3}
    NoSid = NoSid
    DiskFails = FALSE
    Hangs = FALSE
PROPERTIES
    RestartFindsSession
