SPECIFICATION FairSpec
CONSTANTS
    Updates <- MCUpdates
    Slots = {1, 2}
    MaxBlocks = 1
    Buffering = TRUE
INVARIANTS TypeOK Conserved EntriesAccounted
PROPERTIES OutboxRefined Delivered
