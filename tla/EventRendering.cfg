CONSTANTS
    Tokens <- MCTokens
    NULL = NULL
    Clock <- MCClock
    Zone <- MCZone
    d1 = d1  d2 = d2  d3 = d3
    Numbers <- MCNumbers
    User <- MCUser
    Msg <- MCMsg
    Mbox <- MCMbox
    Env <- MCEnv
    Drivers = {d1, d2}
    Config <- RenderConfig
    MsgEvents <- RenderMsgEvents
    MboxEvents <- RenderMboxEvents
    MaxEvents = 1
SPECIFICATION Spec
INVARIANTS
    MessageReadBack
    
    FlagChangesTellSomething
