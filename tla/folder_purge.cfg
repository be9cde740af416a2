SPECIFICATION Spec
CONSTANTS
    f1 = f1
    f2 = f2
    f3 = f3
    a = a
    b = b
    odd = odd
    q1 = q1
    q2 = q2
    Root = Root
    Odd = Odd
    Omitted = Omitted
    Ids <- ThreeIds
    Names <- OneName
    Plain <- OneName
    Requests <- OneRequest
    MaxPath = 3
    InUse <- JustOne
    MaxFaults = 0
PROPERTIES PurgeIsLocal
CHECK_DEADLOCK FALSE
