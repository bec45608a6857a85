SPECIFICATION FairSpec
CONSTANTS
    Sizes = {1, 2}
    Gateways = {TRUE, FALSE}
    Impatient = FALSE
    MaxConnects = 3
    MaxMessages = 2
INVARIANTS OneWrite OneReader BodyInPlace CallbacksPaired ConnectedIsWatched
PROPERTIES ConnectAnswered CloseAnswered
