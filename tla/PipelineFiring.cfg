SPECIFICATION FairSpec
CONSTANTS
    Alerts = {a1}
    InfoAlerts = {}
    Details = {d1}
    NoDetail = NoDetail
    Reminder = 1
    Slots = {s1, s2}
    Faults = {"abandon", "unsure", "storeWrite"}
PROPERTIES
    FiringHeard
