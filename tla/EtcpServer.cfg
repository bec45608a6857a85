SPECIFICATION FairSpec
CONSTANTS
    Sessions = {s1, s2}
    ContextCount = 2
    ReadOutcomes = {"ok", "empty", "bad", "err"}
    MaxPostedCloses = 1
    QuietExit = TRUE
    EarlyClose = FALSE
    None = None
INVARIANTS TypeOK CallbacksPaired OneLateCallback OneReader OpenSessionReferenced Registration CleanShutdown
PROPERTIES ExitTerminates CloseIsReported ImplementsContract
