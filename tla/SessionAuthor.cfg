\* A second login on the same launch; its first tweet.
CONSTANTS
    User = {ann, gil}
    Google = {gil}
    Registered = {ann}
    Slot = {q1}
    Form = {f1}
    Nil = Nil
    Mixed = TRUE
    Dismissals = FALSE
    Kills = FALSE
    MaxDetails = 2
SPECIFICATION Spec
INVARIANT TweetsAreOwned
