\* Two users who can both sign up and in with a password, one of them with
\* Google as well; sheets that begin a second attempt during one or are
\* swiped away, kills and failing steps, and a row of Home's table.
CONSTANTS
    User = {ann, gil}
    Google = {gil}
    Registered = {}
    Slot = {q1, q2}
    Form = {f1, f2}
    Nil = Nil
    Dismissals = TRUE
    Mixed = FALSE
    Kills = TRUE
    MaxDetails = 2
    Author = ann
SYMMETRY SlotSymmetry
SPECIFICATION RowsSpec
INVARIANTS HomeMeansSignedIn OneIdentity NoForeignTweet PartialOnlyFromErrors DeleteIsTheAuthors SpinnerHasAttempt
