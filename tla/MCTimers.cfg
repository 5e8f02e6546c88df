SPECIFICATION TimersSpec
CONSTANTS
    Interval = 5
    UnhealthyInterval = 1
    Timeout = 4
    UnhealthyTimeout = 2
    Latencies = {0, 2, 3, 4, 6}
    NotSet = NotSet
    Limit = 2
    Window = 3
    Messages = {m1, m2, m3, m4, m5}
    IdleTimeouts = {1, 3, 6, 10}
    Delays = {1, 3, 6}
    MinInterval = 2
    MaxInterval = 4
INVARIANTS Fresh Tuned AtMostTwice DroppedOnlyAtLimit ResponsiveKept SilentGone
PROPERTIES FollowsNode
