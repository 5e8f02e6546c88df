SPECIFICATION FairBridge
CONSTANTS
    ClientIds = {c1, c2}
    Sockets = {s1}
    ApiKeys = {k1}
    Accounts = {a1}
    Mints = {}
    RetentionTicks = 1
    IdleTicks = 0
    None = None
    Labels = {processed}
    RequireHealthy = TRUE
    MaxAttempt = 1
PROPERTIES WatchReachesStreams GrpcRefined
