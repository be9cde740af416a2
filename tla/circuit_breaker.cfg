SPECIFICATION FairSpec
CONSTANTS
    c1 = c1
    c2 = c2
    c3 = c3
    Callers <- ThreeCallers
    failureThreshold = 3
    resetTimeout = 2
    MaxCount = 5
INVARIANTS TypeOK ProbeInFlight
PROPERTIES ProbeDecides NeverStuck
