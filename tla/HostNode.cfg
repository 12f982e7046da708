SPECIFICATION FairSpec
CONSTANTS
    Procs = {p1, p2}
    Folders = {f1, f2}
    None = None
    Snapshot = Snapshot
    MaxMoment = 2
    Ops = {"backup", "restore", "bootstrap", "deploy"}
    Faults = {"stopFails", "copyFails", "archiveFails", "removeFails", "extractFails", "asideFails", "installFails", "buildFails", "userStops"}
    MaxBackups = 1
    MaxArchives = 2
INVARIANTS
    RunsOnOneState
    RolledBack
    ArchivesAreOneState
PROPERTIES
    NodeComesBack
