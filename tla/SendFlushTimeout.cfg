CONSTANTS
    NumMsgs = 3
    QueueMax = 2
    Unset = Unset
    NotANumber = NotANumber
    RawMaxRetries = 1
    RawRetryPollTime = Unset
    RawTopicCloseTime = Unset
    RawFlushTime = Unset
SPECIFICATION Spec
INVARIANTS
    CallbackForEveryMessage
