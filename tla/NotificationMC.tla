--------------------------- MODULE NotificationMC ---------------------------
EXTENDS NotificationDelivery, TLC
CONSTANTS email, sms, s1, q1
OneChannel == {email}
TwoChannels == {email, sms}
ChannelSymmetry == Permutations(Channels)
=============================================================================
