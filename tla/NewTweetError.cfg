\* A post that fails once leaves the screen covered.
CONSTANTS
    Photo = {p1, p2}
    Unencodable = {}
    MaxItems = 2
    maxCharacter = 4
    MaxInsert = 2
    UploadsFail = FALSE
    PostFails = TRUE
    Nil = Nil
SPECIFICATION PersistentSpec
PROPERTY UserCanPost
CHECK_DEADLOCK FALSE
