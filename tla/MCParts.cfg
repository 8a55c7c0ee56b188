\* The parts of the system that keep a state of their own.
SPECIFICATION PartsSpec
CONSTANTS
    MaxTasks = 4
    MaxOf <- MCMaxOf
    MaxGroup = 2
    MaxDepth = 0
    Profiles <- MCProfiles
    Handlers = {"h1", "h2"}
    Inputs = {"t1", "t2", "t3"}
    MaxHandlers = 3
    MaxDispatch = 2
    MaxMeddling = 3
    Widgets = {"w1", "w2", "w3"}
    Columns = 2
    Rows = 7
    Shapes <- MCShapes
    MaxY = 1
    Depth = 2
    Parts = {"a", "b"}
    Links <- MCLinks
    MaxDrawn = 2
    MaxBehaviours = 3
    GoOn = FALSE
    TabObjects = 1
    WidgetObjects = {"w1", "w2"}
    MaxFlight = 2
    TabLimit = 2
    WidgetLimit = 2
    NotThere = NotThere
    AtOnce = 2
    MaxAsked = 3
    People = {"u1", "u2"}
    MaxDocs = 2
    Absent = Absent
    ann = ann
    bob = bob
    Users <- TwoMembers
    MaxGroups = 3
    MaxServing = 2
    MaxServed = 3
    Gone = Gone
    Operators = {"op1"}
    Versions = {"a", "b", "old"}
    Legacy = {"old"}
    Missing = "missing"
    Scripts = {"lib", "a.js", "b.js"}
    JsFiles <- MCJsFiles
    Endpoints = {"in1", "in2"}
    InputList <- MCInputList
    MaxEvents = 2
    MaxChanges = 2
INVARIANTS
    PartsTypeOK
    NobodyForgotten
    AbortReaches
    NobodySkipped
    LoggedToItsConnection
    MatrixAgrees
    StaysCompact
    BehavioursClosed
    NothingHidden
    AllDescribed
    NothingLeft
    MirrorsServer
    InstalledStays
    UnusedRemoved
    Mirrored
    PathsSound
    Listed
    DeliveredInOrder
PROPERTIES
    StatusFinal
    NoGhosts
    NoQueuedEventLost
CHECK_DEADLOCK FALSE
