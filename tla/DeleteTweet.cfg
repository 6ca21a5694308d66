\* Two devices delete the same tweet with two photos; apps may be killed.
CONSTANTS
    Device = {d1, d2}
    Photo = {p1, p2}
    Kills = TRUE
SPECIFICATION FairSpec
INVARIANTS OrphansOnlyFromErrors RowGoneMeansDeleted
PROPERTIES GroupProtocol AttemptEnds
