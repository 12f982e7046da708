SPECIFICATION Spec
CONSTANTS
    Requests = {r1}
    Quiet = 1
    Reminder = 2
    Faults = {"overlap", "mute", "refuse", "unsure", "blocks", "disconnect", "storeRead", "storeWrite", "restart"}
INVARIANTS
    SilentWasTold
