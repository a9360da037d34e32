CONSTANTS
    Id = {"stake", "claim", "liquidate"}
    Guarded = {"claim", "liquidate"}
    Send = {s1, s2, s3}
    NoId = "none"
    NoTx = notx
SPECIFICATION FairSpec
INVARIANTS WatchesWhatIsShown GuardedWaits
PROPERTIES EndsIdle NotStuckWaiting
