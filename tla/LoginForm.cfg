\* Both forms, two attempts, a keyboard with and without a suggestion bar.
CONSTANTS
    Attempt = {a1, a2}
    NameTexts = {"blank", "good"}
    EmailTexts = {"good", "alt"}
    PasswordTexts = {"bad", "good"}
    KeyboardHeight = {2, 3}
    MaxReturns = 1
SPECIFICATION Spec
INVARIANTS TypeOK ModelIsShown AlertTruthful OneAttempt RecordMatchesAccount ContentFits
PROPERTY FormSpinnerStops
\* After a login the form is gone.
CHECK_DEADLOCK FALSE
