\* Liveness, with deletions that may empty the list again; for the
\* timeline's contents, of a user who scrolls and pulls while nothing is
\* deleted.  Five tweets are a full page, another and a part of one: of two
\* pages asked for at one cursor, the second may move the cursor back from
\* the third page's.
CONSTANTS
    Tweet = {1, 2, 3, 4, 5}
    InitialDb <- FourLoaded
    Own = {4, 5}
    Erasable = {}
    Slot = {q1, q2}
    pageSize = 2
    Deletes = TRUE
    InOrder = TRUE
    MaxRows = 5
    MaxDetails = 1
SPECIFICATION FairSpec
PROPERTIES SpinnerStops RefreshEnds ReachesOldest OwnPostAdded
