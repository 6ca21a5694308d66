\* Three requests in flight, tweets arriving in order, deletions from this
\* and another device between sending, answer and completion.
CONSTANTS
    Tweet = {1, 2, 3, 4, 5}
    InitialDb <- ThreeLoaded
    Own = {2, 5}
    Erasable = {3}
    Slot = {q1, q2, q3}
    pageSize = 2
    Deletes = TRUE
    InOrder = TRUE
    MaxRows = 4
    MaxDetails = 1
SYMMETRY SlotSymmetry
SPECIFICATION Spec
INVARIANTS TypeOK TableConsistent OneTriggerRow FirstPageAlone NoGap ExactWindow LossOnlyBesideDeletion
PROPERTY DeletedStaysGone
