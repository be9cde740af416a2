SPECIFICATION Spec
CONSTANTS
    k1 = k1
    k2 = k2
    Consumers <- TwoConsumers
    Last = 2
    Unparseable = {1}
    fromBeginning = TRUE
    maxRetries = 3
    sendRetries = 1
    MaxFaults = 0
INVARIANT UnparseableReachesDlq
CHECK_DEADLOCK FALSE
