SPECIFICATION FairSpec
CONSTANTS
    File <- MCFiles
    Absent = Absent
    Alert <- MCAlerts
    Cover = {"bo"}
INVARIANTS OneConfigPerResolution ValidatedMeansPaged
PROPERTY EditTakesEffect
