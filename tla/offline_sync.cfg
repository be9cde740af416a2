SPECIFICATION Spec
CONSTANTS
    a = a
    b = b
    x = x
    y = y
    Null = Null
    Items = {1}
    Runs = {a, b}
    Connections = {x, y}
    maxAttempts = 1
    threshold = 50
    minCalls = 2
    MaxTotal = 3
    MaxFaults = 1
INVARIANTS TypeOK EarnedOpen NothingLost
PROPERTY OutboxEmpties
CHECK_DEADLOCK FALSE
