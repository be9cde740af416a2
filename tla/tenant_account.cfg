SPECIFICATION Spec
CONSTANTS
    p1 = p1
    p2 = p2
    p3 = p3
    p4 = p4
    t1 = t1
    t2 = t2
    t3 = t3
    r1 = r1
    r2 = r2
    r3 = r3
    Null = Null
    Passwords = {p1, p2, p3, p4}
    First = p1
    Tokens = {t1, t2}
    Requests = {r1, r2}
    Serial = {r1}
    maxAttempts = 2
    historyLimit = 2
    MaxCount = 3
    MaxFaults = 1
INVARIANTS TypeOK TriesBounded SessionsEnd OneTokenPerLogin NoReuse
SYMMETRY Symmetry
CHECK_DEADLOCK FALSE
