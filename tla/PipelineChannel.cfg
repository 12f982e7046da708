SPECIFICATION FairSpec
CONSTANTS
    Alerts = {a1}
    InfoAlerts = {}
    Details = {d1}
    NoDetail = NoDetail
    Reminder = 2
    Slots = {s1}
    Faults = {"loseRequest", "loseReply", "mute", "refuse", "storeRead"}
INVARIANTS
    AckedMeansHeard
PROPERTIES
    NoRepeatedRecovery
    ChannelSpec
