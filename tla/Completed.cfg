SPECIFICATION InstallSpec
CONSTANTS
    Addrs = {"local", "lan"}
    Passwords = {"admin", "own"}
    MaxInstalls = 2
    InstallFaults = {"killed"}
INVARIANTS
    InterruptedIsCompleted
CHECK_DEADLOCK FALSE
