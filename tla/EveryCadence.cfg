SPECIFICATION TimerSpec
CONSTANTS
    Day = 4
    Hour = 1
    Cadences = {0, 1, 2}
    Takes = {1}
    MaxBackups = 2
    TimerFaults = {}
    LastTick = 12
PROPERTY EveryCadence
CHECK_DEADLOCK FALSE
