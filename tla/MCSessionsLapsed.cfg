SPECIFICATION Spec
CONSTANTS
    ClientIds = {c1, c2}
    Sockets = {s1, s2}
    ApiKeys = {k1}
    Accounts = {a1}
    Mints = {m1}
    RetentionTicks = 1
    IdleTicks = 1
    None = None
INVARIANTS ConnectedCovered
