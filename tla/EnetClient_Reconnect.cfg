SPECIFICATION Spec
CONSTANTS
    MaxConnects = 2
    MaxCloses = 1
INVARIANTS CanDial
CHECK_DEADLOCK FALSE
