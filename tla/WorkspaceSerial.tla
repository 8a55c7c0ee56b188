-------------------------- MODULE WorkspaceSerial --------------------------
(***************************************************************************)
(* What the workspace API promises its clients: requests take effect one   *)
(* at a time, each on what the previous ones left, whole or not at all.    *)
(***************************************************************************)
EXTENDS WorkspaceContents, SequencesExt

CONSTANT Gone        \* a deleted workspace

VARIABLE ws          \* the contents of the workspace, or Gone

\* The tab i is the visible one.
Showing(c, i) ==
    [c EXCEPT !.tabs = [k \in DOMAIN c.tabs |->
                            [c.tabs[k] EXCEPT !.visible = (c.tabs[k].id = i)]]]

Hidden(c, i) ==
    [c EXCEPT !.tabs = [k \in DOMAIN c.tabs |->
                            [c.tabs[k] EXCEPT !.visible = @ /\ c.tabs[k].id # i]]]

AddTab(n) ==
    /\ Len(ws.tabs) < MaxTabs
    /\ ws' = [ws EXCEPT !.tabs =
                 Append(@, [id |-> FreeId(ws), name |-> n, visible |-> FALSE, widgets |-> NoWidgets])]

\* A tab is renamed, shown or hidden.  A name that is taken is refused, but
\* the tab is shown all the same.
ShowTab(i) == ws' = Showing(ws, i)

EditTab(i, n, v) ==
    LET shown == IF v = None THEN ws ELSE IF v THEN Showing(ws, i) ELSE Hidden(ws, i)
    IN /\ n # None => ~NameTaken(ws, n)
       /\ ws' = [shown EXCEPT !.tabs = [k \in DOMAIN @ |->
                    IF @[k].id = i /\ n # None THEN [@[k] EXCEPT !.name = n] ELSE @[k]]]

\* The last tab stays, and so does one with read-only widgets; the visible one
\* hands over to the first.
DropTab(i) ==
    /\ Len(ws.tabs) > 1
    /\ \A n \in WidgetNo : <<i, n>> \notin ReadOnlyIds(ws)
    /\ \E k \in DOMAIN ws.tabs :
          /\ ws.tabs[k].id = i
          /\ LET left == [ws EXCEPT !.tabs = RemoveAt(@, k)]
             IN ws' = IF ws.tabs[k].visible THEN Showing(left, left.tabs[1].id) ELSE left

\* A widget takes the lowest free number of its tab; one leaves the tab i.
Filled(w, fixed) == [n \in {FreeNo(w)} \cup DOMAIN w |-> IF n \in DOMAIN w THEN w[n] ELSE fixed]
Put(c, i, fixed) ==
    [c EXCEPT !.tabs = [k \in DOMAIN c.tabs |->
        IF c.tabs[k].id = i THEN [c.tabs[k] EXCEPT !.widgets = Filled(@, fixed)] ELSE c.tabs[k]]]
Taken(c, i, n) ==
    [c EXCEPT !.tabs = [k \in DOMAIN c.tabs |->
        IF c.tabs[k].id = i THEN [c.tabs[k] EXCEPT !.widgets = Restrict(@, DOMAIN @ \ {n})]
        ELSE c.tabs[k]]]
HasRoom(i) == \E k \in DOMAIN ws.tabs : ws.tabs[k].id = i /\ ~Full(ws.tabs[k].widgets)

\* A widget moved keeps what it is, but not its number.
AddWidget(i) == HasRoom(i) /\ ws' = Put(ws, i, FALSE)
MoveWidget(i, n, j) ==
    /\ HasRoom(j) /\ i # j
    /\ ws' = Put(Taken(ws, i, n), j, <<i, n>> \in ReadOnlyIds(ws))
DropWidget(i, n) == <<i, n>> \notin ReadOnlyIds(ws) /\ ws' = Taken(ws, i, n)

Rewire(W) == ws' = [ws EXCEPT !.wiring = W]
Patch(x) == ws' = [ws EXCEPT !.wiring = @ \cup {x}]

\* A list of users in the request has no effect: see WorkspaceStore.
SetPrefs(public, pref) ==
    ws' = [ws EXCEPT !.public = IF public = None THEN @ ELSE public,
                     !.pref = IF pref = None THEN @ ELSE pref]

Retitle(t) == ws' = [ws EXCEPT !.title = t]

Init == ws \in Blank

Next ==
    /\ ws # Gone
    /\ \/ \E n \in Names : AddTab(n)
       \/ \E i \in Ids(ws) : ShowTab(i)
       \/ \E i \in Ids(ws), n \in Names \cup {None}, v \in BOOLEAN \cup {None} : EditTab(i, n, v)
       \/ \E i \in Ids(ws) : DropTab(i) \/ AddWidget(i)
       \/ \E w \in WidgetIds(ws) : DropWidget(w[1], w[2]) \/ \E j \in Ids(ws) : MoveWidget(w[1], w[2], j)
       \/ \E W \in SUBSET Items : Rewire(W)
       \/ \E x \in Items : Patch(x)
       \/ \E b \in Publish \cup {None}, p \in Prefs \cup {None} : SetPrefs(b, p)
       \/ \E t \in Titles : Retitle(t)
       \/ ws' = Gone

Spec == Init /\ [][Next]_ws
=============================================================================
