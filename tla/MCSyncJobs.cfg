SPECIFICATION FairSpec
CONSTANTS
    r1 = r1
    r2 = r2
    Requests = {r1, r2}
CHECK_DEADLOCK FALSE
INVARIANTS RowsTrackFlows TwoSyncsHaveACause FalseFailuresHaveACause
PROPERTIES RowsLiveTheirLives PendingEnds
