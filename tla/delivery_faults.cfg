SPECIFICATION FairSpec
CONSTANTS
    email = email
    sms = sms
    s1 = s1
    q1 = q1
    Channels <- OneChannel
    Scans = {s1}
    Requests = {q1}
    MaxRetries = 2
    MaxRounds = 3
    MaxFaults = 2
INVARIANT DispatchedOnce
PROPERTIES DormantStaysDormant DueLeavesSchedule
CHECK_DEADLOCK FALSE
