SPECIFICATION FairSpec
CONSTANTS
    Alarms = {a1, a2, a3}
    NULL = NULL
    Seconds <- AlsoPast
    Start = 2
    MaxTime = 6
INVARIANTS EachAlarmOnce SleepsForEarliest
PROPERTIES RingsInOrder AlarmRings
CHECK_DEADLOCK FALSE
