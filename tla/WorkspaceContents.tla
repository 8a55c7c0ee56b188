------------------------- MODULE WorkspaceContents -------------------------
(***************************************************************************)
(* What a workspace document holds and what each request asks for, shared  *)
(* by WorkspaceStore (the code) and WorkspaceSerial (what it promises).    *)
(***************************************************************************)
EXTENDS Integers, Sequences, FiniteSets, Functions

CONSTANTS
    Names,      \* names a tab can have
    Users,      \* users a workspace can be shared with
    Items,      \* connections and operators of the wiring
    Prefs,      \* values of the other preferences
    Titles,     \* titles of the workspace
    Publish,    \* values of "public" that requests carry
    MaxTabs,    \* bound: tabs of a workspace
    MaxWidgets, \* bound: widgets of a tab
    None        \* a field a request does not carry

ASSUME ContentsAssumption ==
    /\ Publish \subseteq BOOLEAN
    /\ MaxTabs \in Nat \ {0, 1} /\ MaxWidgets \in Nat
    /\ None \notin Names /\ None \notin Prefs
    /\ None \notin BOOLEAN \cup Nat /\ \A U \in SUBSET Users : U # None

TabId == 0..(MaxTabs - 1)
\* The widgets of a tab by number, and whether each is read-only.
WidgetNo == 0..(MaxWidgets - 1)
WidgetSets == UNION {[S -> BOOLEAN] : S \in SUBSET WidgetNo}
Tab == [id : TabId, name : Names, visible : BOOLEAN, widgets : WidgetSets]
Contents == [tabs : Seq(Tab), users : SUBSET Users, public : BOOLEAN,
             wiring : SUBSET Items, pref : Prefs, title : Titles]

Ids(c) == {c.tabs[i].id : i \in DOMAIN c.tabs}
NameTaken(c, n) == \E i \in DOMAIN c.tabs : c.tabs[i].name = n

\* first_id_tab: the first number no tab uses.
FreeId(c) == CHOOSE i \in TabId : i \notin Ids(c) /\ 0..(i - 1) \subseteq Ids(c)

\* first_id_widget_instance: the same for the widgets of a tab.
FreeNo(ws) == CHOOSE n \in WidgetNo : n \notin DOMAIN ws /\ 0..(n - 1) \subseteq DOMAIN ws
NoWidgets == [n \in {} |-> FALSE]
Full(ws) == DOMAIN ws = WidgetNo

\* The ids of the widgets, and of those that are read-only: a widget's is made
\* of its tab's and its number.
TabWidgets(t) == {<<t.id, n>> : n \in DOMAIN t.widgets}
WidgetIds(c) == UNION {TabWidgets(c.tabs[k]) : k \in DOMAIN c.tabs}
ReadOnly(t) == {n \in DOMAIN t.widgets : t.widgets[n]}
ReadOnlyIds(c) == UNION {{<<c.tabs[k].id, n>> : n \in ReadOnly(c.tabs[k])} : k \in DOMAIN c.tabs}

\* A workspace as it is found: one tab, shown, or two, the first with the
\* read-only widgets of the workspaces that were migrated.
Fresh(names, ws) == [k \in 1..Len(names) |->
                        [id |-> k - 1, name |-> names[k], visible |-> k = 1,
                         widgets |-> IF k = 1 THEN ws ELSE NoWidgets]]
Found == {NoWidgets, [n \in {0} |-> TRUE]} \cap WidgetSets
Blank == [tabs : {Fresh(<<n>>, ws) : n \in Names, ws \in Found}
                 \cup {Fresh(two, ws) : two \in {n \in Names \X Names : n[1] # n[2]}, ws \in Found},
          users : {{}}, public : {FALSE}, wiring : {{}},
          pref : Prefs, title : Titles]

\* The requests, by what they ask for.  A tab is created with a name, or with
\* a title the name is made from; the edit of a widget may move it to a tab.
Ops ==
    [kind : {"addTab"}, name : Names, named : BOOLEAN]
    \cup [kind : {"editTab"}, tab : TabId, name : Names \cup {None},
          visible : BOOLEAN \cup {None}]
    \cup [kind : {"dropTab"}, tab : TabId]
    \cup [kind : {"addWidget"}, tab : TabId]
    \cup [kind : {"editWidget"}, tab : TabId, no : WidgetNo, to : TabId \cup {None}]
    \cup [kind : {"dropWidget"}, tab : TabId, no : WidgetNo]
    \cup [kind : {"rewire"}, wiring : SUBSET Items]
    \cup [kind : {"patch"}, item : Items]
    \cup [kind : {"prefs"}, users : (SUBSET Users) \cup {None},
          public : Publish \cup {None}, pref : Prefs \cup {None}]
    \cup [kind : {"retitle"}, title : Titles]
    \cup [kind : {"remove", "view"}]
=============================================================================
