SPECIFICATION Spec
CONSTANTS
    MaxConnects = 2
    MaxCloses = 1
INVARIANTS LastReportTrue Watched
PROPERTIES ConnectAnswered
CHECK_DEADLOCK FALSE
