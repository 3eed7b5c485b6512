CONSTANTS
    NumMsgs = 4
    QueueMax = 2
    Unset = Unset
    NotANumber = NotANumber
    RawMaxRetries = 2
    RawRetryPollTime <- Negative
    RawTopicCloseTime = NotANumber
    RawFlushTime <- Negative
SPECIFICATION FairSpec
INVARIANTS
    TypeOK
    AcceptedOnceInOrder
    EveryMessageInOnePlace
    NoSilentFailure
PROPERTIES
    GiveUpIsJustified
    SendReturns
    ShutdownEnds
    LostOnlyByFlushTimeout
    ImplementsDelivery
