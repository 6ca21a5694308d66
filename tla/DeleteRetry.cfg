\* One device, an author who retries over a connection that fails at times.
CONSTANTS
    Device = {d1}
    Photo = {p1, p2}
    Kills = FALSE
SPECIFICATION PersistentSpec
PROPERTY AuthorCanDelete
CHECK_DEADLOCK FALSE
