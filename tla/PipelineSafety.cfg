SPECIFICATION Spec
CONSTANTS
    Alerts = {a1}
    InfoAlerts = {}
    Details = {d1}
    NoDetail = NoDetail
    Reminder = 2
    Slots = {s1, s2}
    Faults = {"loseRequest", "loseReply", "abandon", "restart", "reload", "mute", "refuse", "unsure", "storeRead", "storeWrite", "relayCrash", "unpair"}
SYMMETRY SlotSymmetry
INVARIANTS
    TypeOK
    RecordedWasTold
    RecoveryNeedsFiring
    AckedFiringWasTold
    UnpairedOnlyByRelay
