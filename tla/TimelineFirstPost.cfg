\* The first tweet of an empty timeline never shows up.
CONSTANTS
    Tweet = {1, 2, 3}
    InitialDb <- Empty
    Own = {1, 2}
    Erasable = {}
    Slot = {q1, q2}
    pageSize = 2
    Deletes = FALSE
    InOrder = TRUE
    MaxRows = 4
    MaxDetails = 1
SPECIFICATION AttentiveSpec
PROPERTY OwnPostShown
