SPECIFICATION FairSpec
CONSTANTS
    Requests = {r1}
    Quiet = 2
    Reminder = 4
    Faults = {"mute", "refuse", "blocks", "storeRead"}
INVARIANTS
    FlagMatchesWord
PROPERTIES
    ReturnHeard
    SilenceHeard
