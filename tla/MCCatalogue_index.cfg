\* One request at a time, of two users.
SPECIFICATION CatalogueSpec
CONSTANTS
    u1 = u1
    u2 = u2
    People <- TwoUsers
    AtOnce = 1
    MaxAsked = 3
    MaxDocs = 2
    Absent = Absent
INVARIANT OnlyForTheUser
CHECK_DEADLOCK FALSE
