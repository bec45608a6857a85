SPECIFICATION FairSpec
CONSTANTS
    Sessions = {s1}
    ContextCount = 2
    ReadOutcomes = {"bad", "err"}
    MaxPostedCloses = 1
    QuietExit = TRUE
    EarlyClose = TRUE
    None = None
PROPERTIES ExitTerminates
CHECK_DEADLOCK FALSE
