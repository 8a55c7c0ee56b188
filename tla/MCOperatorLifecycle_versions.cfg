SPECIFICATION Spec
CONSTANTS
    op1 = op1
    op2 = op2
    Operators <- OneOp
    Versions = {"a", "b", "old"}
    Legacy = {"old"}
    Missing = "missing"
    Scripts = {"lib", "a.js", "b.js"}
    JsFiles <- MCJsFiles
    Inputs = {"in1", "in2"}
    InputList <- MCInputList
    MaxEvents = 0
    MaxChanges = 2
CHECK_DEADLOCK FALSE
PROPERTY EveryVersionLoads
