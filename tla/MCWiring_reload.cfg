SPECIFICATION WholeSpec
CONSTANTS
    w1 = w1
    o1 = o1
    o2 = o2
    c1 = c1
    c2 = c2
    NoComp = NoComp
    Widgets <- MCWidgets
    Operators <- TwoOperators
    Conn <- OneConn
    Metas = {"full"}
    WidgetNum = 1
    MaxId = 4
    MaxGen <- NoChanges
CHECK_DEADLOCK FALSE
INVARIANT OperatorsIndexed
