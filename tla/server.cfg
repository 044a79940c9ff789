SPECIFICATION Spec
CONSTANTS
    Servers = {s1, s2, s3}
    Guids = {g, h}
    NoGuid = NoGuid
    s1 = s1
    s2 = s2
    s3 = s3
    g = g
    h = h
    Serial = TRUE
    Faults = TRUE
CHECK_DEADLOCK FALSE
INVARIANTS
    ServersAgree
    Startable
PROPERTIES
    ClaimsKept
    RightServerServes
