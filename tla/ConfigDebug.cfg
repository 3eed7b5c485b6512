CONSTANTS
    u1 = u1  u2 = u2
    NoUser = NoUser
    Users <- MCUsers
    PluginEnvs <- MCPluginEnvs
    Brokers <- MCBrokers
    Debugs <- MCDebugs
    PREFIX <- MCPREFIX
    Properties <- MCProperties
    BOOTSTRAP_SERVERS <- MCServers
    DEBUG <- MCDebug
    Values <- MCValues
    Refused <- MCRefused
    DEFAULT = DEFAULT
    ALL = "all"
    MaxConfs = 3
SPECIFICATION Spec
INVARIANT DebugAsConfigured
