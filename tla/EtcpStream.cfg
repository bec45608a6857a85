SPECIFICATION FairSpec
CONSTANTS
    Sizes = {1, 2}
    HeadSize = 2
    SizeModulus = 3
    MaxMessages = 3
    WireCapacity = 3
INVARIANTS TypeOK OneWrite FramesPaired NoFalseAlarm
PROPERTIES ImplementsChannel
CHECK_DEADLOCK FALSE
