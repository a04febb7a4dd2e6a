\* The scheduler as build_scheduler leaves it.
SPECIFICATION FairSpec
CONSTANTS
    Jobs = {"sync_profiles", "sync_groups"}
    Interval <- MCInterval
    Paused = Paused
PROPERTY
    EachJobRuns
