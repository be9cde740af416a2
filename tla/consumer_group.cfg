SPECIFICATION FairSpec
CONSTANTS
    k1 = k1
    k2 = k2
    Consumers <- TwoConsumers
    Last = 3
    Unparseable = {2}
    fromBeginning = FALSE
    maxRetries = 1
    sendRetries = 1
    MaxFaults = 2
INVARIANTS TypeOK NothingSkipped OutcomePerDelivery
PROPERTY ContractSpec
CHECK_DEADLOCK FALSE
