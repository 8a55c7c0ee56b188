\* Two operators that keep their versions, or one that changes and a widget.
SPECIFICATION MixSpec
CONSTANTS
    w1 = w1
    o1 = o1
    o2 = o2
    c1 = c1
    c2 = c2
    NoComp = NoComp
    Widgets <- MCWidgets
    Operators <- TwoOperators
    Conn <- MCConn
    Metas = {"full", "missing"}
    WidgetNum = 1
    MaxId = 4
    MaxGen <- SomeChanges
SYMMETRY SymBoth
CHECK_DEADLOCK FALSE
INVARIANTS
    TypeOK
    WiresSound
    EstablishedWired
PROPERTIES
    StaysEstablished
    RemovalComplete
    Rebound
