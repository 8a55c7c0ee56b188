\* Two widgets and two tabs are enough for an id to be given again.
SPECIFICATION TabsSpec
CONSTANTS
    TabObjects = 1
    WidgetObjects = {"w1", "w2"}
    MaxFlight = 2
    TabLimit = 2
    WidgetLimit = 2
    NotThere = NotThere
INVARIANT WidgetsFound
CHECK_DEADLOCK FALSE
