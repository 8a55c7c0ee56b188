SPECIFICATION WholeSpec
CONSTANTS
    r1 = r1
    r2 = r2
    p = p
    q = q
    s = s
    t = t
    Requests <- OneRequest
    Names = {"a", "b"}
    Users = {"u"}
    Items = {"i"}
    Prefs <- TwoPrefs
    Titles <- OneTitle
    Publish = {}
    MaxWidgets = 0
    MaxTabs = 2
    MaxTime = 1
    None = None
    Gone = Gone
CHECK_DEADLOCK FALSE
PROPERTY ShareListStored
