SPECIFICATION MixSpec
CONSTANTS
    r1 = r1
    r2 = r2
    p = p
    q = q
    s = s
    t = t
    Requests <- TwoRequests
    Names = {"a", "b"}
    Users = {"u"}
    Items = {"i"}
    Prefs <- TwoPrefs
    Titles <- TwoTitles
    Publish = {}
    MaxWidgets = 2
    MaxTabs = 2
    MaxTime = 2
    None = None
    Gone = Gone
SYMMETRY Sym
CHECK_DEADLOCK FALSE
INVARIANTS
    TypeOK
    TabsSound
    CreatedKept
    CacheFresh
    IndexCurrent
PROPERTIES
    Serializable
    StaysDeleted
    ReadOnlyKept
