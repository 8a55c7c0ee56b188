\* One request at a time, about groups without members.
SPECIFICATION GroupsSpec
CONSTANTS
    Users = {}
    MaxGroups = 3
    MaxServing = 1
    MaxServed = 3
    Gone = Gone
INVARIANT NoCycle
CHECK_DEADLOCK FALSE
