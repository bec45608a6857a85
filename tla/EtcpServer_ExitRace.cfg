SPECIFICATION Spec
CONSTANTS
    Sessions = {s1, s2}
    ContextCount = 1
    ReadOutcomes = {"ok", "empty", "bad", "err"}
    MaxPostedCloses = 1
    QuietExit = FALSE
    EarlyClose = TRUE
    None = None
INVARIANT CleanShutdown
CHECK_DEADLOCK FALSE
