CONSTANTS
    Tokens <- MCTokens
    NULL = NULL
    Clock <- MCClock
    Zone <- MCZone
    d1 = d1  d2 = d2  d3 = d3
    Numbers <- MCNumbers
    User <- MCUser
    Msg <- MCMsg
    Mbox <- MCMbox
    Env <- MCEnv
    Drivers = {d1, d2, d3}
    Config <- DispatchConfig
    MsgEvents <- DispatchMsgEvents
    MboxEvents <- DispatchMboxEvents
    MaxEvents = 1
SPECIFICATION Spec
INVARIANTS
    OnlyConfiguredEvents
