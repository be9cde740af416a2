SPECIFICATION FairSpec
CONSTANTS
    email = email
    sms = sms
    s1 = s1
    q1 = q1
    Channels <- OneChannel
    Scans = {s1}
    Requests = {}
    MaxRetries = 8
    MaxRounds = 9
    MaxFaults = 0
INVARIANT LogIsComplete
PROPERTY ContractSpec
CHECK_DEADLOCK FALSE
