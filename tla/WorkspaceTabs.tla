--------------------------- MODULE WorkspaceTabs ---------------------------
(* The tabs and widgets of a workspace open in a browser (Workspace.js,      *)
(* WorkspaceTab.js, Widget.js) and the server that stores them, which is     *)
(* taken at its word: WorkspaceSerial, one request at a time.  The browser   *)
(* changes nothing until a request is answered; requests are served and      *)
(* answered in any order.                                                    *)
(*                                                                           *)
(* What the views show, titles, the initial tab, volatile widgets and what a *)
(* widget does in its tab are left out; everything the user has may be moved *)
(* and removed.                                                              *)
EXTENDS Naturals, Sequences, FiniteSets, SequencesExt, FiniteSetsExt

CONSTANTS
    TabObjects,     \* bound: tab objects the browser makes, after the first two
    WidgetObjects,  \* bound: the widget objects it makes
    MaxFlight,       \* bound: requests at once
    TabLimit,       \* bound: tabs the server stores
    WidgetLimit,    \* bound: widgets of a tab it stores
    NotThere        \* the place of what the server does not have

ASSUME TabBounds ==
    /\ {TabObjects, MaxFlight, TabLimit, WidgetLimit} \subseteq Nat /\ TabLimit > 1
    /\ NotThere \notin Nat \cup (Nat \X Nat) \cup WidgetObjects

VARIABLES
    document,   \* what the server stores
    tabList,    \* priv.tabs of the workspace: tab objects
    tabId,      \* tabId[T]: the id of the tab object T
    hears,      \* hears[T]: widgets that listen to "preremove" of T
    known,      \* widgets the workspace has announced and that were not removed
    widgetId,   \* widgetId[w]: the id of the widget object w
    widgetTab,  \* widgetTab[w]: its tab object
    flight,     \* requests sent and not answered to the browser
    tabAt,      \* history: tabAt[i], the object that stands for tab i of the server
    place,      \* history: place[w], where the server has the widget that w stands for
    astray      \* history: an id stood for something else when a request was
                \* served, or a tab went that widgets were moved from or to

tabVars == <<document, tabList, tabId, hears, known, widgetId, widgetTab, flight, tabAt, place, astray>>
modelVars == <<tabList, tabId, hears, known, widgetId, widgetTab>>
historyVars == <<tabAt, place>>

Server == INSTANCE WorkspaceSerial WITH
    ws <- document, Names <- {"one", "two"}, Users <- {}, Items <- {}, Prefs <- {"pref"},
    Titles <- {"title"}, Publish <- {}, MaxTabs <- TabLimit, MaxWidgets <- WidgetLimit,
    None <- NotThere, Gone <- "gone"

Tabs == 1..(TabObjects + 2)
Shown == Range(tabList)
StoredTabs == Server!Ids(document)
StoredWidgets == Server!WidgetIds(document)
Made(S) == CHOOSE x \in S' \ S : TRUE

\* Objects the browser has not made, nor asked for.
FreshTabs == {T \in Tabs : tabId[T] = NotThere /\ \A q \in flight : q.tab # T}
FreshWidgets == {w \in WidgetObjects : widgetId[w] = NotThere /\ \A q \in flight : q.widget # w}

TabsInit ==
    /\ document \in {c \in Server!Blank : Server!WidgetIds(c) = {} /\ c.tabs[1].name = "one"}
    /\ tabList = [k \in DOMAIN document.tabs |-> k]
    /\ tabId = [T \in Tabs |-> IF T \in Shown THEN document.tabs[T].id ELSE NotThere]
    /\ hears = [T \in Tabs |-> {}]
    /\ known = {}
    /\ widgetId = [w \in WidgetObjects |-> NotThere]
    /\ widgetTab = [w \in WidgetObjects |-> NotThere]
    /\ flight = {}
    /\ tabAt = [i \in Server!TabId |-> IF i + 1 \in Shown THEN i + 1 ELSE NotThere]
    /\ place = [w \in WidgetObjects |-> NotThere]
    /\ astray = FALSE

----------------------------------------------------------------------------
(* What the user asks for.  A request names its objects by their ids as they *)
(* are when it is sent: at is the tab it is for, or the tab and the widget.  *)

Send(op, T, w, at) ==
    /\ ~astray
    /\ Cardinality(flight) < MaxFlight
    /\ \E n \in 1..MaxFlight :
          /\ \A q \in flight : q.n # n
          /\ \A m \in 1..(n - 1) : \E q \in flight : q.n = m
          /\ flight' = flight \cup {[n |-> n, op |-> op, tab |-> T, widget |-> w, at |-> at, answer |-> "none", made |-> NotThere]}
    /\ UNCHANGED <<document, modelVars, historyVars, astray>>

CreateTab == FreshTabs # {} /\ Send("addTab", Min(FreshTabs), NotThere, NotThere)

\* The menu of a tab, while there are others.
RemoveTab(T) == T \in Shown /\ Len(tabList) > 1 /\ Send("dropTab", T, NotThere, tabId[T])

CreateWidget(T) ==
    /\ T \in Shown /\ FreshWidgets # {}
    /\ Send("addWidget", T, CHOOSE w \in FreshWidgets : TRUE, tabId[T])

\* The id in the address of a widget: its tab's and its own.
Address(w) == <<tabId[widgetTab[w]], widgetId[w]>>

\* changeTab, when a widget was dropped on another tab; at once if it is there.
MoveWidget(w, T) ==
    /\ w \in known /\ T \in Shown \ {widgetTab[w]}
    /\ Send("moveWidget", T, w, Address(w))

RemoveWidget(w) == w \in known /\ Send("dropWidget", NotThere, w, Address(w))

----------------------------------------------------------------------------
(* The server.                                                               *)

Done(q, made) == flight' = (flight \ {q}) \cup {[q EXCEPT !.answer = "done", !.made = made]}
Waiting(q, op) == q.op = op /\ q.answer = "none" /\ ~astray

\* An error, or what the request is for is not there: the browser is left as
\* it was.
Refuse(q) ==
    /\ q.answer = "none" /\ ~astray
    /\ flight' = flight \ {q}
    /\ UNCHANGED <<document, modelVars, historyVars, astray>>

StoreTab(q) ==
    /\ Waiting(q, "addTab")
    /\ Server!AddTab("one")
    /\ Done(q, Made(StoredTabs))
    /\ tabAt' = [tabAt EXCEPT ![Made(StoredTabs)] = q.tab]
    /\ UNCHANGED <<modelVars, place, astray>>

DropTab(q) ==
    /\ Waiting(q, "dropTab") /\ q.at \in StoredTabs
    /\ Server!DropTab(q.at)
    /\ Done(q, NotThere)
    /\ astray' = (tabAt[q.at] # q.tab)
    /\ tabAt' = [tabAt EXCEPT ![q.at] = NotThere]
    /\ place' = [w \in WidgetObjects |-> IF place[w] \in StoredWidgets' THEN place[w] ELSE NotThere]
    /\ UNCHANGED modelVars

StoreWidget(q) ==
    /\ Waiting(q, "addWidget") /\ q.at \in StoredTabs
    /\ Server!AddWidget(q.at)
    /\ Done(q, Made(StoredWidgets))
    /\ astray' = (tabAt[q.at] # q.tab)
    /\ place' = [place EXCEPT ![q.widget] = Made(StoredWidgets)]
    /\ UNCHANGED <<modelVars, tabAt>>

\* The widget of that id in that tab, which takes a new id in the tab it goes
\* to: the answer does not say which.
FoundThere(q) == q.at[2] \in StoredWidgets /\ q.at[1] = q.at[2][1]

StoreMove(q) ==
    /\ Waiting(q, "moveWidget") /\ FoundThere(q) /\ tabId[q.tab] \in StoredTabs
    /\ Server!MoveWidget(q.at[2][1], q.at[2][2], tabId[q.tab])
    /\ Done(q, NotThere)
    /\ astray' = (place[q.widget] # q.at[2] \/ tabAt[tabId[q.tab]] # q.tab)
    /\ place' = [place EXCEPT ![q.widget] = Made(StoredWidgets)]
    /\ UNCHANGED <<modelVars, tabAt>>

DropWidget(q) ==
    /\ Waiting(q, "dropWidget") /\ FoundThere(q)
    /\ Server!DropWidget(q.at[2][1], q.at[2][2])
    /\ Done(q, NotThere)
    /\ astray' = (place[q.widget] # q.at[2])
    /\ place' = [place EXCEPT ![q.widget] = NotThere]
    /\ UNCHANGED <<modelVars, tabAt>>

----------------------------------------------------------------------------
(* The answers.                                                              *)

Comes(q, op) == q.op = op /\ q.answer = "done" /\ ~astray /\ flight' = flight \ {q}

\* _create_tab
TabCreated(q) ==
    /\ Comes(q, "addTab")
    /\ tabList' = Append(tabList, q.tab)
    /\ tabId' = [tabId EXCEPT ![q.tab] = q.made]
    /\ UNCHANGED <<document, hears, known, widgetId, widgetTab, historyVars, astray>>

\* Mutant: remove_tab without its "preremove" event.
TabRemovedAlone(q) ==
    /\ Comes(q, "dropTab")
    /\ tabList' = RemoveFirst(tabList, q.tab)
    /\ UNCHANGED <<document, tabId, hears, known, widgetId, widgetTab, historyVars, astray>>

\* remove_tab: the widgets that listen to the tab are removed, which are those
\* that were created in it.
TabRemoved(q) ==
    /\ Comes(q, "dropTab")
    /\ tabList' = RemoveFirst(tabList, q.tab)
    /\ known' = known \ hears[q.tab]
    /\ hears' = [hears EXCEPT ![q.tab] = {}]
    /\ astray' = \E w \in known : \/ w \in hears[q.tab] /\ place[w] # NotThere
                                  \/ w \notin hears[q.tab] /\ widgetTab[w] = q.tab
    /\ UNCHANGED <<document, tabId, widgetId, widgetTab, historyVars>>

\* create_widget: a tab that was removed meanwhile tells nobody.
WidgetCreated(q) ==
    /\ Comes(q, "addWidget")
    /\ widgetId' = [widgetId EXCEPT ![q.widget] = q.made]
    /\ widgetTab' = [widgetTab EXCEPT ![q.widget] = q.tab]
    /\ hears' = [hears EXCEPT ![q.tab] = @ \cup {q.widget}]
    /\ known' = IF q.tab \in Shown THEN known \cup {q.widget} ELSE known
    /\ UNCHANGED <<document, tabList, tabId, historyVars, astray>>

\* The rest of changeTab: the id stays, and so does the listener.
WidgetMoved(q) ==
    /\ Comes(q, "moveWidget")
    /\ widgetTab' = [widgetTab EXCEPT ![q.widget] = q.tab]
    /\ astray' = (q.widget \in known /\ q.tab \notin Shown)
    /\ UNCHANGED <<document, tabList, tabId, hears, known, widgetId, historyVars>>

\* _remove; the listener of "preremove" stays.
WidgetRemoved(q) ==
    /\ Comes(q, "dropWidget")
    /\ known' = known \ {q.widget}
    /\ UNCHANGED <<document, tabList, tabId, hears, widgetId, widgetTab, historyVars, astray>>

TabsNext ==
    \/ CreateTab
    \/ \E T \in Shown : RemoveTab(T) \/ CreateWidget(T)
    \/ \E w \in known, T \in Shown : MoveWidget(w, T)
    \/ \E w \in known : RemoveWidget(w)
    \/ \E q \in flight :
          \/ Refuse(q) \/ StoreTab(q) \/ DropTab(q) \/ StoreWidget(q) \/ StoreMove(q) \/ DropWidget(q)
          \/ TabCreated(q) \/ TabRemoved(q) \/ WidgetCreated(q) \/ WidgetMoved(q) \/ WidgetRemoved(q)

TabsSpec == TabsInit /\ [][TabsNext]_tabVars

----------------------------------------------------------------------------
WidgetPlaces == (Server!TabId \X Server!WidgetNo) \cup {NotThere}

TabsTypeOK ==
    /\ document \in Server!Contents
    /\ tabList \in Seq(Tabs) /\ IsInjective(tabList)
    /\ tabId \in [Tabs -> Server!TabId \cup {NotThere}]
    /\ hears \in [Tabs -> SUBSET WidgetObjects]
    /\ known \subseteq WidgetObjects
    /\ widgetId \in [WidgetObjects -> WidgetPlaces] /\ place \in [WidgetObjects -> WidgetPlaces]
    /\ widgetTab \in [WidgetObjects -> Tabs \cup {NotThere}]
    /\ tabAt \in [Server!TabId -> Tabs \cup {NotThere}]
    /\ Cardinality(flight) <= MaxFlight

\* When nothing is in flight, the browser has the tabs and the widgets the
\* server has, each widget in the tab that stores it, in whatever order the
\* requests were served, refused and answered.  Two things lead it astray: an
\* id that was given again before a request for what had it was served, and the
\* removal of a tab that a widget was moved from or to, because the widget
\* listens to the tab it was created in.
MirrorsServer ==
    flight = {} /\ ~astray =>
        /\ Len(tabList) = Len(document.tabs) /\ {tabId[T] : T \in Shown} = StoredTabs
        /\ Cardinality(known) = Cardinality(StoredWidgets) /\ {place[w] : w \in known} = StoredWidgets
        /\ \A w \in known : widgetTab[w] \in Shown /\ tabId[widgetTab[w]] = place[w][1]

\* "Looks up a widget insid this workspace" (Workspace.js 502): when nothing is
\* in flight, the id that is looked up is that of one widget.
WidgetsFound == flight = {} => \A v, w \in known : widgetId[v] = widgetId[w] => v = w
============================================================================
