SPECIFICATION MCSpec
CONSTANTS
    Writers = {w1, w2}
    Keys = {k1, k2}
    Texts = {plain, stray, bad}
    Valid = {plain, stray}
    Clean = {plain}
    Plain = plain
    None = None
    Names = {"plain", "elsewhere"}
    MaxRuns = 3
    FileFaults = {"sameSecond", "writeFails", "createFails", "hashFails", "asideFails", "installFails", "putBackFails", "restartFails", "killed"}
    Words = {"on", "3", "99999", ""}
    HandNames = {"Extra"}
    HandFields = {"Stray"}
    MaxChanges = 2
    Upgraders = {u1}
    Releases = {1, 2}
    Inodes = {i1, i2, i3, i4, i5}
    MaxUpgrades = 3
    UpFaultSets = {{"linkFails", "fetchFails", "restartFails"}, {"fetchFails", "copyFails", "restartFails", "killed"}, {"linkFails"}}
    Branches = {"master", "dev"}
    TTL = 2
    Default = "master"
    MaxTime = 3
    MaxNumber = 2
    Day = 4
    Hour = 1
    Cadences = {0, 1, 2}
    Takes = {1, 2}
    MaxBackups = 2
    TimerFaults = {"fails", "off", "byHand"}
    LastTick = 16
    Views = {"service", "sync", "height", "pillar"}
    SystemdAnswers = TRUE
    Interval = 2
    Delays = {0, 3}
    MaxWindow = 6
    DefaultMinutes = 4
    Written <- HandEdited
    Count = 2
    MinMissed = 1
    Word = 256
    MaxSamples = 4
    Addrs = {"local", "lan"}
    Passwords = {"admin", "own"}
    MaxInstalls = 3
    InstallFaults = {"stepFails", "killed", "serviceDies"}
SYMMETRY PartsSymmetry
INVARIANTS
    PartsTypeOK
    ConfigOpens
    SilenceMeansBackedUp
    FilesPutBack
    EveryEditIsSafe
    UpgradeSafe
    ReportsAreRight
    StaleNeedsTrouble
    AlarmsAreReal
    InstallsComplete
PROPERTIES
    NothingDestroyed
    ProducerReserved
    QuitsForAReason
CHECK_DEADLOCK FALSE
