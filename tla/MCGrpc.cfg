SPECIFICATION FairSpec
CONSTANTS
    Watch = {w1, w2}
    Labels = {processed, confirmed}
    RequireHealthy = TRUE
    MaxAttempt = 1
INVARIANTS AttachedIsWatched
PROPERTIES OnlyLateAttach FilterConverges UnhealthyQuiet Reconnects
