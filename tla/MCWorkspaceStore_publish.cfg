SPECIFICATION WholeSpec
CONSTANTS
    r1 = r1
    r2 = r2
    p = p
    q = q
    s = s
    t = t
    Requests <- TwoRequests
    Names = {"a"}
    Users = {}
    Items = {}
    Prefs <- OnePref
    Titles <- OneTitle
    Publish = {TRUE}
    MaxWidgets = 0
    MaxTabs = 2
    MaxTime = 3
    None = None
    Gone = Gone
SYMMETRY SymReq
CHECK_DEADLOCK FALSE
INVARIANT CreatedKept
