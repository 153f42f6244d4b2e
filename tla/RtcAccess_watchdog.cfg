CONSTANTS
    MaxAnswers = 1
    MaxMidnights = 1
SPECIFICATION Spec
INVARIANT
    WatchdogReadsOneMoment
