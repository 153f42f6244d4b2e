CONSTANTS
    MaxAnswers = 2
    MaxMidnights = 2
SPECIFICATION Spec
INVARIANTS
    TypeOK
    TimeAndDateAgree
    NoSettingRefused
    TokenMeansSynced
    SaveReadsOneMoment
PROPERTY
    NoSettingReplacesALater
