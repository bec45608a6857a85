SPECIFICATION Spec
CONSTANTS
    MaxConnects = 2
    MaxCloses = 1
INVARIANTS LastReportTrue AllJoined
PROPERTIES Paired ConnectAnswered SilentIsClosed
CHECK_DEADLOCK FALSE
