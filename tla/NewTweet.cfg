\* Composing and sending with failing uploads, a failing post and an image
\* that cannot be encoded.
CONSTANTS
    Photo = {p1, p2, p3, p4}
    Unencodable = {p4}
    MaxItems = 3
    maxCharacter = 4
    MaxInsert = 2
    UploadsFail = TRUE
    PostFails = TRUE
    Nil = Nil
SPECIFICATION FairSpec
INVARIANTS ScreenShowsDraft RecordMatchesStorage
           EmptyOnlyFromErrors CaptionBounded ClosesWithPost
PROPERTIES GroupProtocol AddTweetCallsBack
CHECK_DEADLOCK FALSE
