SPECIFICATION FairSpec
CONSTANTS
    f1 = f1
    f2 = f2
    f3 = f3
    a = a
    b = b
    odd = odd
    q1 = q1
    q2 = q2
    Root = Root
    Odd = Odd
    Omitted = Omitted
    Ids <- ThreeIds
    Names <- ThreeNames
    Plain <- TwoNames
    Requests <- OneRequest
    MaxPath = 3
    InUse <- OneOrTwo
    MaxFaults = 1
INVARIANTS TypeOK NoCycle SiblingsDistinct PathsMatchLinks LiveUnderLive
PROPERTIES RequestsEnd
CHECK_DEADLOCK FALSE
