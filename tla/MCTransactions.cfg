SPECIFICATION Spec
CONSTANTS
    Messages <- MCMessages
    Together <- MCTogether
    WatchableAccounts = {"alice", "vault"}
    WatchableMints = {"vault", "gold"}
    Found <- MCFound
    CacheSize = 2
    Exact = 8
    Units = {1, 2, 4}
    None = None
INVARIANTS TypeOK ChangesExact DeltasAddUp NativesExplain HopsAgree OwnBalancesSuffice
PROPERTIES SentIffWatched
