SPECIFICATION FairSpec
CONSTANTS
    Incident = {1, 2}
    Keep = 1
    MaxAlerts = 2
PROPERTY OldIncidentsGo
