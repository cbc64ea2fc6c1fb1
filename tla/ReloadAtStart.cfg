SPECIFICATION FairSpec
CONSTANTS
    File <- MCFiles
    Absent = Absent
    Alert <- MCAlerts
    Cover = {}
INVARIANT TypeOK
PROPERTY EveryEditTakesEffect
