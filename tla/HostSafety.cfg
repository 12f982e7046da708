SPECIFICATION Spec
CONSTANTS
    Procs = {p1, p2}
    Folders = {f1, f2}
    None = None
    Snapshot = Snapshot
    MaxMoment = 1
    Ops = {"backup", "restore", "bootstrap", "discard", "resync", "deploy"}
    Faults = {"stopFails", "startFails", "copyFails", "archiveFails", "removeFails", "extractFails", "asideFails", "installFails", "putBackFails", "wipeFails", "buildFails", "killed", "reboot", "nodeDies", "userStarts", "userStops"}
    MaxBackups = 1
    MaxArchives = 2
INVARIANTS
    NothingLost
    NewestKept
