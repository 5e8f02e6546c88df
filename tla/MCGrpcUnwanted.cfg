SPECIFICATION FairSpec
CONSTANTS
    Watch = {w1}
    Labels = {processed}
    RequireHealthy = TRUE
    MaxAttempt = 1
PROPERTIES UnwantedDropped
