SPECIFICATION Spec
CONSTANTS
    f1 = f1
    f2 = f2
    v1 = v1
    v2 = v2
    v3 = v3
    s1 = s1
    r1 = r1
    r2 = r2
    r3 = r3
    Null = Null
    Files = {f1}
    Versions = {v1, v2, v3}
    Shares = {s1}
    Requests = {r1, r2}
    Uploads = {r1}
    Limit = 1
    MaxEdits = 1
    MaxFaults = 1
INVARIANTS TypeOK CurrentIsStored DownloadsDecrypt NumbersAreConsecutive OvershootIsBounded DownloadsAreCounted
SYMMETRY VersionSymmetry
CHECK_DEADLOCK FALSE
