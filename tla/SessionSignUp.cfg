\* A sign-up that fails half-way can neither be repeated nor signed in to.
CONSTANTS
    User = {ann}
    Google = {}
    Registered = {}
    Slot = {q1}
    Form = {f1}
    Nil = Nil
    Mixed = TRUE
    Dismissals = TRUE
    Kills = FALSE
    MaxDetails = 2
SPECIFICATION PersistentSpec
PROPERTY UserCanSignUp
