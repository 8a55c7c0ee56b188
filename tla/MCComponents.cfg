\* Two operators that load, and the saves of a component's properties.
SPECIFICATION ComponentsSpec
CONSTANTS
    op1 = op1
    op2 = op2
    Operators <- TwoOps
    Versions = {"a", "b"}
    Legacy = {}
    Missing = "missing"
    Scripts = {"lib", "a.js", "b.js"}
    JsFiles <- MCJsFiles
    Inputs = {"in1", "in2"}
    InputList <- MCInputList
    MaxEvents = 0
    MaxChanges = 1
    Names = {"p1", "p2"}
    MaxSets = 3
    MaxFailures = 2
    MaxUnloads = 1
CHECK_DEADLOCK FALSE
INVARIANTS
    ScriptsShared
    WaitsAreComing
    ValueKept
PROPERTIES
    LoadingEnds
    LastValueStored
