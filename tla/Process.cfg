CONSTANTS
    u1 = u1  u2 = u2
    d1 = d1  d2 = d2  d3 = d3
    t1 = t1  t2 = t2
    NoUser = NoUser
    Users <- MCUsers
    Dusers <- MCDusers
    Txns <- MCTxns
    Owner <- MCOwner
    DuserOf <- MCDuserOf
    EnabledValues = {TRUE}
    NumMsgs = 2
    QueueMax = 1
    Unset = Unset
    NotANumber = NotANumber
    RawMaxRetries = 1
    RawRetryPollTime <- Negative
    RawTopicCloseTime = NotANumber
    RawFlushTime <- Negative
SPECIFICATION FairSpec
INVARIANTS
    PendingIsUnflushed
    SettledBeforeUnload
    ShutdownBeforeUnload
PROPERTIES
    LossOnlyAtShutdown
    ImplementsSend
    ProducerEventuallyDestroyed
    EveryMessageSettled
