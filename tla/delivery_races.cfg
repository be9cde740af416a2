SPECIFICATION Spec
CONSTANTS
    email = email
    sms = sms
    s1 = s1
    q1 = q1
    Channels <- TwoChannels
    Scans = {s1}
    Requests = {q1}
    MaxRetries = 2
    MaxRounds = 2
    MaxFaults = 0
INVARIANTS TypeOK FailedIsEarned DeliveredIsReal LogIsSound RoundsAreCaused PendingIsAlive
SYMMETRY ChannelSymmetry
CHECK_DEADLOCK FALSE
