---------------------------- MODULE SerialProofs ----------------------------
(***************************************************************************)
(* WorkspaceStore implements WorkspaceSerial: with transactions, requests  *)
(* take effect one at a time and whole, for any number of requests and any *)
(* contents.  With them and without, read-only widgets go with the         *)
(* workspace only.                                                         *)
(***************************************************************************)
EXTENDS StoreProofs

-----------------------------------------------------------------------------
(* The words the two modules share.                                        *)

LEMMA SameWords ==
    /\ \A c : Serial!Ids(c) = Ids(c) /\ Serial!FreeId(c) = FreeId(c)
              /\ Serial!ReadOnlyIds(c) = ReadOnlyIds(c) /\ Serial!WidgetIds(c) = WidgetIds(c)
    /\ \A c, n : Serial!NameTaken(c, n) = NameTaken(c, n)
    /\ \A ws : Serial!FreeNo(ws) = FreeNo(ws) /\ Serial!Full(ws) = Full(ws)
    /\ Serial!NoWidgets = NoWidgets /\ Serial!Blank = Blank /\ Serial!WidgetNo = WidgetNo
    /\ \A s, k : Serial!RemoveAt(s, k) = RemoveAt(s, k)
    /\ \A f, S : Serial!Restrict(f, S) = Restrict(f, S)
    /\ \A c, i : Serial!Showing(c, i) = SetVisible(c, i)
<1>1. \A c : Serial!Ids(c) = Ids(c)
  BY DEF Serial!Ids, Ids
<1>2. \A c : Serial!FreeId(c) = FreeId(c)
  BY DEF Serial!FreeId, FreeId, Serial!Ids, Ids, Serial!TabId, TabId
<1>3. \A c : Serial!ReadOnlyIds(c) = ReadOnlyIds(c) /\ Serial!WidgetIds(c) = WidgetIds(c)
  BY DEF Serial!ReadOnlyIds, ReadOnlyIds, Serial!WidgetIds, WidgetIds, Serial!ReadOnly, ReadOnly,
         Serial!TabWidgets, TabWidgets
<1>4. \A c, n : Serial!NameTaken(c, n) = NameTaken(c, n)
  BY DEF Serial!NameTaken, NameTaken
<1>5. \A ws : Serial!FreeNo(ws) = FreeNo(ws)
  BY DEF Serial!FreeNo, FreeNo, Serial!WidgetNo, WidgetNo
<1>6. Serial!NoWidgets = NoWidgets /\ Serial!WidgetNo = WidgetNo
  BY DEF Serial!NoWidgets, NoWidgets, Serial!WidgetNo, WidgetNo
<1>7. \A ws : Serial!Full(ws) = Full(ws)
  BY DEF Serial!Full, Full, Serial!WidgetNo, WidgetNo
<1>8. Serial!Blank = Blank
  BY DEF Serial!Blank, Blank, Serial!Fresh, Fresh, Serial!Found, Found, Serial!NoWidgets, NoWidgets,
         Serial!WidgetSets, WidgetSets, Serial!WidgetNo, WidgetNo
<1>9. \A s, k : Serial!RemoveAt(s, k) = RemoveAt(s, k)
  BY DEF Serial!RemoveAt, RemoveAt
<1>10. \A f, S : Serial!Restrict(f, S) = Restrict(f, S)
  BY DEF Serial!Restrict, Restrict
<1>11. \A c, i : Serial!Showing(c, i) = SetVisible(c, i)
  BY DEF Serial!Showing, SetVisible
<1>. QED
  BY <1>1, <1>2, <1>3, <1>4, <1>5, <1>6, <1>7, <1>8, <1>9, <1>10, <1>11

-----------------------------------------------------------------------------
(* What a request may save is what the promise says of it.                 *)

WrittenBy(t) == {t[i].c : i \in {j \in 1..Len(t) : t[j].do = "save"}}
Saved(op, c) == WrittenBy(Plan(op, c))

LEMMA SavesWritten ==
    ASSUME NEW S, NEW t \in Saves(S)
    PROVE  WrittenBy(t) \subseteq S
<1>. DEFINE T == [do : {"save", "index"}, c : S]
<1>1. t \in Seq(T)
  <2>1. ASSUME NEW d \in S PROVE Save(d) \in Seq(T)
    BY DEF Save
  <2>2. ASSUME NEW d \in S, NEW e \in S PROVE Save(d) \o Save(e) \in Seq(T)
    <3>1. Save(d) \in Seq(T) /\ Save(e) \in Seq(T)
      BY <2>1
    <3>. HIDE DEF T
    <3>. QED
      BY <3>1
  <2>3. <<>> \in Seq(T)
    OBVIOUS
  <2>. QED
    <3>1. t = <<>> \/ (\E d \in S : t = Save(d)) \/ (\E d \in S, e \in S : t = Save(d) \o Save(e))
      BY DEF Saves
    <3>. HIDE DEF T
    <3>. QED
      BY <2>1, <2>2, <2>3, <3>1
<1>2. \A i \in 1..Len(t) : t[i] \in T
  <2>. HIDE DEF T
  <2>. QED
    BY <1>1
<1>. QED
  BY <1>2 DEF WrittenBy

\* What a plan with one save, or two, may write.
LEMMA WrittenOne ==
    /\ WrittenBy(<<>>) = {}
    /\ \A x : WrittenBy(Save(x)) \subseteq {x}
    /\ \A x, y : WrittenBy(Save(x) \o Save(y)) \subseteq {x, y}
<1>1. <<>> \in Saves({})
  BY InSaves
<1>2. \A x : Save(x) \in Saves({x})
  BY InSaves
<1>3. \A x, y : Save(x) \o Save(y) \in Saves({x, y})
  BY InSaves
<1>4. WrittenBy(<<>>) \subseteq {}
  BY <1>1, SavesWritten
<1>5. ASSUME NEW x PROVE WrittenBy(Save(x)) \subseteq {x}
  <2>. DEFINE S == {x}
              t == Save(x)
  <2>1. t \in Saves(S)
    BY <1>2
  <2>. HIDE DEF S, t
  <2>2. WrittenBy(t) \subseteq S
    BY <2>1, SavesWritten
  <2>. QED
    BY <2>2 DEF S, t
<1>6. ASSUME NEW x, NEW y PROVE WrittenBy(Save(x) \o Save(y)) \subseteq {x, y}
  <2>. DEFINE S == {x, y}
              t == Save(x) \o Save(y)
  <2>1. t \in Saves(S)
    BY <1>3
  <2>. HIDE DEF S, t
  <2>2. WrittenBy(t) \subseteq S
    BY <2>1, SavesWritten
  <2>. QED
    BY <2>2 DEF S, t
<1>. QED
  BY <1>4, <1>5, <1>6

LEMMA SerialSteps ==
    ASSUME Promised # Gone
    PROVE  /\ \A n \in Names : Serial!AddTab(n) => Serial!Next
           /\ \A i \in Ids(Promised) : Serial!ShowTab(i) \/ Serial!DropTab(i) \/ Serial!AddWidget(i) => Serial!Next
           /\ \A i \in Ids(Promised), n \in Names \cup {None}, v \in BOOLEAN \cup {None} :
                 Serial!EditTab(i, n, v) => Serial!Next
           /\ \A w \in WidgetIds(Promised) : Serial!DropWidget(w[1], w[2]) => Serial!Next
           /\ \A w \in WidgetIds(Promised), j \in Ids(Promised) :
                 Serial!MoveWidget(w[1], w[2], j) => Serial!Next
           /\ \A W \in SUBSET Items : Serial!Rewire(W) => Serial!Next
           /\ \A x \in Items : Serial!Patch(x) => Serial!Next
           /\ \A b \in Publish \cup {None}, p \in Prefs \cup {None} : Serial!SetPrefs(b, p) => Serial!Next
           /\ \A s \in Titles : Serial!Retitle(s) => Serial!Next
           /\ Promised' = Gone => Serial!Next
BY SameWords DEF Serial!Next

\* Promises about contents, for the contents c of the workspace and d of the
\* next state.
Now(c, d) == c \in Sane /\ Promised = c /\ Promised # Gone /\ Promised' = d

LEMMA AddTabSerial ==
    ASSUME NEW c, NEW op \in Ops, op.kind = "addTab", Room(op, c), NEW d \in WrittenBy(AddTab(op, c)),
           Now(c, d)
    PROVE  Serial!Next
<1>. DEFINE t == [id |-> FreeId(c), name |-> op.name, visible |-> Len(c.tabs) = 0, widgets |-> NoWidgets]
            u == [id |-> FreeId(c), name |-> op.name, visible |-> FALSE, widgets |-> NoWidgets]
            x == [c EXCEPT !.tabs = Append(@, t)]
<1>1. AddTab(op, c) \in Saves({x})
  <2>1. AddTab(op, c) \in {<<>>, Save(x)}
    BY DEF AddTab
  <2>. HIDE DEF x
  <2>. QED
    BY <2>1, InSaves
<1>2. d = x
  <2>. HIDE DEF x
  <2>. QED
    BY <1>1, SavesWritten
<1>3. op.name \in Names /\ Len(c.tabs) < MaxTabs
  BY OpFields DEF Room
<1>4. t = u
  <2>1. (Len(c.tabs) = 0) = FALSE
    BY SaneFields DEF Now
  <2>. QED
    BY <2>1
<1>5. d = [c EXCEPT !.tabs = Append(@, u)]
  <2>. HIDE DEF t, u
  <2>. QED
    BY <1>2, <1>4
<1>6. Serial!AddTab(op.name)
  BY <1>3, <1>5, SameWords DEF Serial!AddTab, Now
<1>. QED
  BY <1>3, <1>6, SerialSteps DEF Now

\* One tab changed, as the promise says it: the tabs f are those of c but for
\* t, in the place of the k-th.
TabPut(c, k, t, f) ==
    /\ f \in [DOMAIN c.tabs -> Tab]
    /\ \A j \in DOMAIN c.tabs : f[j] = IF c.tabs[j].id = c.tabs[k].id THEN t ELSE c.tabs[j]

LEMMA OneTab ==
    ASSUME NEW c \in Sane, NEW k \in DOMAIN c.tabs, NEW t, NEW f, TabPut(c, k, t, f)
    PROVE  f = [c.tabs EXCEPT ![k] = t]
<1>0. /\ f \in [DOMAIN c.tabs -> Tab]
      /\ \A j \in DOMAIN c.tabs : f[j] = IF c.tabs[j].id = c.tabs[k].id THEN t ELSE c.tabs[j]
  BY DEF TabPut
<1>1. \A j \in DOMAIN c.tabs : c.tabs[j].id = c.tabs[k].id <=> j = k
  BY SaneFields DEF Shape
<1>. DEFINE g == [c.tabs EXCEPT ![k] = t]
<1>2. /\ g = [j \in DOMAIN g |-> g[j]] /\ DOMAIN g = DOMAIN c.tabs
      /\ \A j \in DOMAIN c.tabs : g[j] = IF j = k THEN t ELSE c.tabs[j]
  OBVIOUS
<1>. HIDE DEF g
<1>3. \A j \in DOMAIN c.tabs : f[j] = g[j]
  BY <1>0, <1>1, <1>2
<1>4. f = g
  BY <1>0, <1>2, <1>3
<1>. QED
  BY <1>4 DEF g

LEMMA EditTabSerial ==
    ASSUME NEW c, NEW op \in Ops, op.kind = "editTab", NEW d \in WrittenBy(EditTab(op, c)), Now(c, d)
    PROVE  Serial!Next
<1>. DEFINE i      == op.tab
            k      == TabAt(c, i)
            shown  == IF op.visible = TRUE THEN SetVisible(c, i)
                      ELSE IF op.visible = FALSE THEN [c EXCEPT !.tabs[k].visible = FALSE]
                      ELSE c
            named  == IF op.name = None THEN shown ELSE [shown EXCEPT !.tabs[k].name = op.name]
            taken  == op.name # None /\ NameTaken(c, op.name)
            sh     == IF op.visible = None THEN c
                      ELSE IF op.visible THEN Serial!Showing(c, i) ELSE Serial!Hidden(c, i)
<1>0. c \in Sane /\ i \in TabId /\ op.name \in Names \cup {None} /\ op.visible \in BOOLEAN \cup {None}
      /\ None \notin BOOLEAN
  BY OpFields, ContentsAssumption DEF Now
<1>1. i \in Ids(c)
  <2>1. ASSUME op.tab \notin Ids(c) PROVE FALSE
    <3>1. EditTab(op, c) = <<>>
      BY <2>1 DEF EditTab
    <3>. QED
      BY <3>1, WrittenOne
  <2>. QED
    BY <2>1
<1>2. \/ op.visible = TRUE /\ d = shown
      \/ ~taken /\ d = named
  <2>1. CASE op.visible = TRUE /\ taken
    <3>1. EditTab(op, c) = Save(shown)
      BY <1>1, <2>1 DEF EditTab
    <3>. HIDE DEF shown
    <3>. QED
      BY <2>1, <3>1, WrittenOne
  <2>2. CASE op.visible = TRUE /\ ~taken
    <3>1. EditTab(op, c) = Save(shown) \o Save(named)
      BY <1>1, <2>2 DEF EditTab
    <3>. HIDE DEF shown, named
    <3>. QED
      BY <2>2, <3>1, WrittenOne
  <2>3. CASE op.visible # TRUE /\ taken
    <3>1. EditTab(op, c) = <<>>
      BY <1>1, <2>3 DEF EditTab
    <3>. QED
      BY <3>1, WrittenOne
  <2>4. CASE op.visible # TRUE /\ ~taken
    <3>1. EditTab(op, c) = <<>> \o Save(named)
      BY <1>1, <2>4 DEF EditTab
    <3>. HIDE DEF named
    <3>2. <<>> \o Save(named) = Save(named)
      BY DEF Save
    <3>. QED
      BY <2>4, <3>1, <3>2, WrittenOne
  <2>. QED
    BY <2>1, <2>2, <2>3, <2>4
<1>3. k \in DOMAIN c.tabs /\ c.tabs[k].id = i /\ c.tabs[k] \in Tab
  BY <1>0, <1>1, TabAtType, SaneFields
<1>4. shown \in Sane /\ DOMAIN shown.tabs = DOMAIN c.tabs
      /\ \A j \in DOMAIN c.tabs : shown.tabs[j].id = c.tabs[j].id
  <2>. HIDE DEF shown
  <2>. QED
    BY <1>0, <1>1, ShownKeeps DEF shown
<1>. HIDE DEF k
<1>5. sh = shown
  <2>1. CASE op.visible = TRUE
    BY <1>0, <2>1, SameWords
  <2>2. CASE op.visible = FALSE
    <3>. DEFINE f == [j \in DOMAIN c.tabs |->
                         [c.tabs[j] EXCEPT !.visible = @ /\ c.tabs[j].id # i]]
                t == [c.tabs[k] EXCEPT !.visible = FALSE]
    <3>1. ASSUME NEW j \in DOMAIN c.tabs
          PROVE  f[j] = IF c.tabs[j].id = c.tabs[k].id THEN t ELSE c.tabs[j]
      <4>1. c.tabs[j] \in Tab
        BY <1>0, SaneFields
      <4>2. CASE c.tabs[j].id = i
        <5>1. j = k
          BY <1>0, <1>3, <4>2, SaneFields DEF Shape
        <5>2. (c.tabs[j].visible /\ c.tabs[j].id # i) = FALSE
          BY <4>2
        <5>. QED
          BY <1>3, <5>1, <5>2
      <4>3. CASE c.tabs[j].id # i
        <5>1. (c.tabs[j].visible /\ c.tabs[j].id # i) = c.tabs[j].visible
          BY <4>1, <4>3 DEF Tab
        <5>2. [c.tabs[j] EXCEPT !.visible = c.tabs[j].visible] = c.tabs[j]
          BY <4>1 DEF Tab
        <5>. QED
          BY <1>3, <4>3, <5>1, <5>2
      <4>. QED
        BY <4>2, <4>3
    <3>2. f \in [DOMAIN c.tabs -> Tab]
      <4>1. t \in Tab
        BY <1>3 DEF Tab
      <4>2. \A j \in DOMAIN c.tabs : f[j] \in Tab
        <5>. HIDE DEF f, t
        <5>. QED
          BY <1>0, <3>1, <4>1, SaneFields
      <4>. QED
        BY <4>2
    <3>3. sh = [c EXCEPT !.tabs = f]
      BY <1>0, <2>2 DEF Serial!Hidden
    <3>4. shown = [c EXCEPT !.tabs = [c.tabs EXCEPT ![k] = t]]
      BY <2>2
    <3>. HIDE DEF f, t
    <3>5. TabPut(c, k, t, f)
      BY <3>1, <3>2 DEF TabPut
    <3>6. f = [c.tabs EXCEPT ![k] = t]
      BY <1>0, <1>3, <3>5, OneTab
    <3>. QED
      BY <3>3, <3>4, <3>6
  <2>3. CASE op.visible = None
    BY <1>0, <2>3
  <2>. QED
    BY <1>0, <2>1, <2>2, <2>3
<1>6. CASE op.visible = TRUE /\ d = shown
  <2>1. Serial!ShowTab(i)
    BY <1>6, SameWords DEF Serial!ShowTab, Now
  <2>. QED
    BY <1>1, <2>1, SerialSteps DEF Now
<1>7. CASE ~taken /\ d = named
  <2>. DEFINE g == [j \in DOMAIN sh.tabs |->
                       IF sh.tabs[j].id = i /\ op.name # None THEN [sh.tabs[j] EXCEPT !.name = op.name]
                       ELSE sh.tabs[j]]
              t == [shown.tabs[k] EXCEPT !.name = op.name]
  <2>. HIDE DEF sh
  <2>1. named = [sh EXCEPT !.tabs = g]
    <3>. HIDE DEF shown
    <3>0. DOMAIN g = DOMAIN shown.tabs /\ g = [j \in DOMAIN g |-> g[j]]
      BY <1>5
    <3>1. CASE op.name = None
      <4>1. \A j \in DOMAIN shown.tabs : g[j] = shown.tabs[j]
        BY <1>5, <3>1
      <4>2. shown.tabs \in Seq(Tab) /\ shown \in Contents
        BY <1>4, SaneFields
      <4>3. g = shown.tabs
        <5>1. shown.tabs = [j \in DOMAIN shown.tabs |-> shown.tabs[j]]
          BY <4>2
        <5>. HIDE DEF g
        <5>. QED
          BY <3>0, <4>1, <5>1
      <4>4. [shown EXCEPT !.tabs = shown.tabs] = shown
        BY <4>2 DEF Contents
      <4>. QED
        BY <1>5, <3>1, <4>3, <4>4
    <3>2. CASE op.name # None
      <4>1. named = [shown EXCEPT !.tabs = [shown.tabs EXCEPT ![k] = t]]
        BY <3>2
      <4>2. k \in DOMAIN shown.tabs /\ shown.tabs[k].id = i
        BY <1>3, <1>4
      <4>3. ASSUME NEW j \in DOMAIN shown.tabs
            PROVE  g[j] = IF shown.tabs[j].id = shown.tabs[k].id THEN t ELSE shown.tabs[j]
        <5>1. shown.tabs[j].id = i => j = k
          BY <1>4, <4>2, SaneFields DEF Shape
        <5>. QED
          BY <1>5, <3>2, <4>2, <5>1
      <4>4. g \in [DOMAIN shown.tabs -> Tab]
        <5>1. shown.tabs[k] \in Tab /\ op.name \in Names
          BY <1>0, <1>4, <3>2, <4>2, SaneFields
        <5>2. t \in Tab
          BY <5>1 DEF Tab
        <5>3. \A j \in DOMAIN shown.tabs : g[j] \in Tab
          <6>. HIDE DEF g, t
          <6>. QED
            BY <1>4, <4>3, <5>2, SaneFields
        <5>. QED
          BY <3>0, <5>3
      <4>. HIDE DEF g, t, named
      <4>5. TabPut(shown, k, t, g)
        BY <4>3, <4>4 DEF TabPut
      <4>6. g = [shown.tabs EXCEPT ![k] = t]
        BY <1>4, <4>2, <4>5, OneTab
      <4>. QED
        BY <1>5, <4>1, <4>6
    <3>. QED
      BY <3>1, <3>2
  <2>2. Serial!EditTab(i, op.name, op.visible)
    <3>1. op.name # None => ~Serial!NameTaken(c, op.name)
      BY <1>7, SameWords
    <3>2. d = [sh EXCEPT !.tabs = g]
      BY <1>7, <2>1
    <3>. HIDE DEF shown, named, taken
    <3>. QED
      BY <3>1, <3>2 DEF Serial!EditTab, Now, sh
  <2>. QED
    BY <1>0, <1>1, <2>2, SerialSteps DEF Now
<1>. QED
  BY <1>2, <1>6, <1>7

-----------------------------------------------------------------------------
(* Widgets.                                                                *)

\* The ids of a widget, and of one that is read-only.
LEMMA WidgetAt ==
    ASSUME NEW c \in Sane, NEW k \in DOMAIN c.tabs, NEW n
    PROVE  /\ <<c.tabs[k].id, n>> \in WidgetIds(c) <=> n \in DOMAIN c.tabs[k].widgets
           /\ <<c.tabs[k].id, n>> \in ReadOnlyIds(c) <=> n \in ReadOnly(c.tabs[k])
<1>1. \A j \in DOMAIN c.tabs : c.tabs[j].id = c.tabs[k].id => j = k
  BY SaneFields DEF Shape
<1>. QED
  BY <1>1 DEF WidgetIds, TabWidgets, ReadOnlyIds

\* The widgets of one tab changed, as the promise says it.
Furnishing(c, k, ws, f) ==
    /\ DOMAIN f = DOMAIN c.tabs /\ f = [j \in DOMAIN f |-> f[j]]
    /\ \A j \in DOMAIN c.tabs :
           f[j] = IF c.tabs[j].id = c.tabs[k].id THEN [c.tabs[k] EXCEPT !.widgets = ws]
                  ELSE c.tabs[j]

LEMMA OneFurnished ==
    ASSUME NEW c \in Sane, NEW k \in DOMAIN c.tabs, NEW ws \in WidgetSets, NEW f,
           Furnishing(c, k, ws, f)
    PROVE  [c EXCEPT !.tabs = f] = [c EXCEPT !.tabs[k].widgets = ws]
<1>. DEFINE t == [c.tabs[k] EXCEPT !.widgets = ws]
<1>1. [c EXCEPT !.tabs[k].widgets = ws] = [c EXCEPT !.tabs = [c.tabs EXCEPT ![k] = t]]
  OBVIOUS
<1>2. t \in Tab
  BY SaneFields DEF Tab
<1>3. /\ DOMAIN f = DOMAIN c.tabs /\ f = [j \in DOMAIN f |-> f[j]]
      /\ \A j \in DOMAIN c.tabs : f[j] = IF c.tabs[j].id = c.tabs[k].id THEN t ELSE c.tabs[j]
  BY DEF Furnishing
<1>. HIDE DEF t
<1>4. \A j \in DOMAIN c.tabs : f[j] \in Tab
  BY <1>2, <1>3, SaneFields
<1>5. f \in [DOMAIN c.tabs -> Tab]
  BY <1>3, <1>4
<1>6. TabPut(c, k, t, f)
  BY <1>3, <1>5 DEF TabPut
<1>7. f = [c.tabs EXCEPT ![k] = t]
  BY <1>6, OneTab
<1>. QED
  BY <1>1, <1>7

LEMMA PutSerial ==
    ASSUME NEW c \in Sane, NEW k \in DOMAIN c.tabs, ~Full(c.tabs[k].widgets), NEW fixed \in BOOLEAN
    PROVE  Serial!Put(c, c.tabs[k].id, fixed) = [c EXCEPT !.tabs[k].widgets = Put(@, FreeNo(@), fixed)]
<1>. DEFINE Filled(w) == [n \in {Serial!FreeNo(w)} \cup DOMAIN w |->
                             IF n \in DOMAIN w THEN w[n] ELSE fixed]
            w == c.tabs[k].widgets
            ws == Put(w, FreeNo(w), fixed)
            f == [j \in DOMAIN c.tabs |->
                     IF c.tabs[j].id = c.tabs[k].id THEN [c.tabs[j] EXCEPT !.widgets = Filled(@)]
                     ELSE c.tabs[j]]
<1>1. Serial!Put(c, c.tabs[k].id, fixed) = [c EXCEPT !.tabs = f]
  BY DEF Serial!Put, Serial!Filled
<1>2. w \in WidgetSets
  BY SaneFields DEF Tab
<1>3. FreeNo(w) \in WidgetNo /\ FreeNo(w) \notin DOMAIN w
  <2>. HIDE DEF w
  <2>. QED
    BY <1>2, FreeNoType DEF w
<1>4. ws \in WidgetSets
  BY <1>2, <1>3, PutType
<1>5. Filled(w) = ws
  BY <1>3, SameWords DEF Put
<1>6. ASSUME NEW j \in DOMAIN c.tabs
      PROVE  f[j] = IF c.tabs[j].id = c.tabs[k].id THEN [c.tabs[k] EXCEPT !.widgets = ws] ELSE c.tabs[j]
  <2>1. c.tabs[j].id = c.tabs[k].id => j = k
    BY SaneFields DEF Shape
  <2>. HIDE DEF Filled, ws
  <2>. QED
    BY <1>5, <2>1
<1>7. DOMAIN f = DOMAIN c.tabs /\ f = [j \in DOMAIN f |-> f[j]]
  OBVIOUS
<1>8. Furnishing(c, k, ws, f)
  <2>. HIDE DEF f, ws
  <2>. QED
    BY <1>6, <1>7 DEF Furnishing
<1>. HIDE DEF f, ws
<1>9. [c EXCEPT !.tabs = f] = [c EXCEPT !.tabs[k].widgets = ws]
  BY <1>4, <1>8, OneFurnished
<1>. QED
  BY <1>1, <1>9 DEF ws

LEMMA TakeSerial ==
    ASSUME NEW c \in Sane, NEW k \in DOMAIN c.tabs, NEW n
    PROVE  Serial!Taken(c, c.tabs[k].id, n) = [c EXCEPT !.tabs[k].widgets = Take(@, n)]
<1>. DEFINE ws == Take(c.tabs[k].widgets, n)
            f == [j \in DOMAIN c.tabs |->
                     IF c.tabs[j].id = c.tabs[k].id
                     THEN [c.tabs[j] EXCEPT !.widgets = Serial!Restrict(@, DOMAIN @ \ {n})]
                     ELSE c.tabs[j]]
<1>1. Serial!Taken(c, c.tabs[k].id, n) = [c EXCEPT !.tabs = f]
  BY DEF Serial!Taken
<1>2. ws \in WidgetSets
  BY TakeType, SaneFields DEF Tab
<1>3. ws = Serial!Restrict(c.tabs[k].widgets, DOMAIN c.tabs[k].widgets \ {n})
  BY SameWords DEF Take
<1>4. ASSUME NEW j \in DOMAIN c.tabs
      PROVE  f[j] = IF c.tabs[j].id = c.tabs[k].id THEN [c.tabs[k] EXCEPT !.widgets = ws] ELSE c.tabs[j]
  <2>1. c.tabs[j].id = c.tabs[k].id => j = k
    BY SaneFields DEF Shape
  <2>. HIDE DEF ws
  <2>. QED
    BY <1>3, <2>1
<1>5. DOMAIN f = DOMAIN c.tabs /\ f = [j \in DOMAIN f |-> f[j]]
  OBVIOUS
<1>6. Furnishing(c, k, ws, f)
  <2>. HIDE DEF f, ws
  <2>. QED
    BY <1>4, <1>5 DEF Furnishing
<1>. HIDE DEF f, ws
<1>7. [c EXCEPT !.tabs = f] = [c EXCEPT !.tabs[k].widgets = ws]
  BY <1>2, <1>6, OneFurnished
<1>. QED
  BY <1>1, <1>7 DEF ws

LEMMA AddWidgetSerial ==
    ASSUME NEW c, NEW op \in Ops, op.kind = "addWidget", Room(op, c),
           NEW d \in WrittenBy(AddWidget(op, c)), Now(c, d)
    PROVE  Serial!Next
<1>. DEFINE k == TabAt(c, op.tab)
            x == [c EXCEPT !.tabs[k].widgets = Put(@, FreeNo(@), FALSE)]
<1>1. op.tab \in Ids(c)
  <2>1. ASSUME op.tab \notin Ids(c) PROVE FALSE
    <3>1. AddWidget(op, c) = <<>>
      BY <2>1 DEF AddWidget
    <3>. QED
      BY <3>1, WrittenOne
  <2>. QED
    BY <2>1
<1>2. c \in Sane /\ k \in DOMAIN c.tabs /\ c.tabs[k].id = op.tab
  BY <1>1, TabAtType DEF Now
<1>3. ~Full(c.tabs[k].widgets)
  BY <1>2 DEF Room
<1>4. d = x
  <2>1. AddWidget(op, c) = Save(x)
    BY <1>1 DEF AddWidget
  <2>. HIDE DEF x
  <2>. QED
    BY <2>1, WrittenOne
<1>. HIDE DEF k
<1>5. d = Serial!Put(c, op.tab, FALSE)
  <2>1. Serial!Put(c, c.tabs[k].id, FALSE) = x
    BY <1>2, <1>3, PutSerial
  <2>. HIDE DEF x
  <2>. QED
    BY <1>2, <1>4, <2>1
<1>. HIDE DEF x
<1>6. Serial!AddWidget(op.tab)
  BY <1>2, <1>3, <1>5, SameWords DEF Serial!AddWidget, Serial!HasRoom, Now
<1>. QED
  BY <1>1, <1>6, SerialSteps DEF Now

LEMMA DropWidgetSerial ==
    ASSUME NEW c, NEW op \in Ops, op.kind = "dropWidget",
           NEW d \in WrittenBy(DropWidget(op, c)), Now(c, d)
    PROVE  Serial!Next
<1>. DEFINE k == TabAt(c, op.tab)
            x == [c EXCEPT !.tabs[k].widgets = Take(@, op.no)]
            w == <<op.tab, op.no>>
<1>1. HasWidget(c, op.tab, op.no) /\ ~c.tabs[k].widgets[op.no]
  <2>1. ASSUME ~HasWidget(c, op.tab, op.no) \/ c.tabs[k].widgets[op.no] PROVE FALSE
    <3>1. DropWidget(op, c) = <<>>
      BY <2>1 DEF DropWidget
    <3>. QED
      BY <3>1, WrittenOne
  <2>. QED
    BY <2>1
<1>2. /\ c \in Sane /\ k \in DOMAIN c.tabs /\ c.tabs[k].id = op.tab
      /\ op.no \in DOMAIN c.tabs[k].widgets
  BY <1>1, TabAtType DEF Now, HasWidget
<1>3. d = x
  <2>1. DropWidget(op, c) = Save(x)
    BY <1>1 DEF DropWidget
  <2>. HIDE DEF x
  <2>. QED
    BY <2>1, WrittenOne
<1>4. w \in WidgetIds(c) /\ w \notin ReadOnlyIds(c)
  <2>1. op.no \notin ReadOnly(c.tabs[k])
    BY <1>1 DEF ReadOnly
  <2>. HIDE DEF k
  <2>. QED
    BY <1>2, <2>1, WidgetAt
<1>. HIDE DEF k
<1>5. d = Serial!Taken(c, op.tab, op.no)
  BY <1>2, <1>3, TakeSerial
<1>. HIDE DEF x
<1>6. Serial!DropWidget(w[1], w[2])
  BY <1>4, <1>5, SameWords DEF Serial!DropWidget, Now
<1>. HIDE DEF w
<1>. QED
  BY <1>4, <1>6, SerialSteps DEF Now

LEMMA EditWidgetSerial ==
    ASSUME NEW c, NEW op \in Ops, op.kind = "editWidget", Room(op, c),
           NEW d \in WrittenBy(EditWidget(op, c)), Now(c, d)
    PROVE  Serial!Next \/ d = c
<1>. DEFINE k     == TabAt(c, op.tab)
            j     == TabAt(c, op.to)
            fixed == c.tabs[k].widgets[op.no]
            off   == [c EXCEPT !.tabs[k].widgets = Take(@, op.no)]
            x     == [c EXCEPT !.tabs[k].widgets = Take(@, op.no),
                               !.tabs[j].widgets = Put(@, FreeNo(@), fixed)]
            w     == <<op.tab, op.no>>
<1>1. HasWidget(c, op.tab, op.no) /\ op.to \in Ids(c) \cup {None}
  <2>1. ASSUME ~HasWidget(c, op.tab, op.no) \/ op.to \notin Ids(c) \cup {None} PROVE FALSE
    <3>1. EditWidget(op, c) = <<>>
      BY <2>1 DEF EditWidget
    <3>. QED
      BY <3>1, WrittenOne
  <2>. QED
    BY <2>1
<1>2. CASE op.to \in {None, op.tab}
  <2>1. EditWidget(op, c) = Save(c)
    BY <1>1, <1>2 DEF EditWidget
  <2>. QED
    BY <2>1, WrittenOne
<1>3. CASE op.to \notin {None, op.tab}
  <2>1. /\ c \in Sane /\ k \in DOMAIN c.tabs /\ c.tabs[k].id = op.tab
        /\ op.no \in DOMAIN c.tabs[k].widgets
        /\ j \in DOMAIN c.tabs /\ c.tabs[j].id = op.to /\ op.to \in Ids(c) /\ j # k
    BY <1>1, <1>3, TabAtType DEF Now, HasWidget
  <2>2. ~Full(c.tabs[j].widgets)
    BY <1>3, <2>1 DEF Room
  <2>3. d = x
    <3>1. EditWidget(op, c) = Save(x)
      BY <1>1, <1>3 DEF EditWidget
    <3>. HIDE DEF x
    <3>. QED
      BY <3>1, WrittenOne
  <2>4. w \in WidgetIds(c) /\ fixed = (w \in ReadOnlyIds(c))
    <3>1. fixed \in BOOLEAN
      <4>1. c.tabs[k].widgets \in WidgetSets
        BY <2>1, SaneFields DEF Tab
      <4>. QED
        BY <2>1, <4>1, WidgetsByDomain
    <3>2. op.no \in ReadOnly(c.tabs[k]) <=> fixed
      BY <2>1 DEF ReadOnly
    <3>3. w \in WidgetIds(c) /\ (w \in ReadOnlyIds(c) <=> op.no \in ReadOnly(c.tabs[k]))
      <4>. HIDE DEF k
      <4>. QED
        BY <2>1, WidgetAt
    <3>. HIDE DEF fixed, w, k
    <3>4. CASE fixed
      <4>1. w \in ReadOnlyIds(c) /\ fixed = TRUE
        BY <3>1, <3>2, <3>3, <3>4
      <4>2. (w \in ReadOnlyIds(c)) = TRUE
        BY <4>1
      <4>. QED
        BY <3>3, <4>1, <4>2
    <3>5. CASE ~fixed
      <4>1. w \notin ReadOnlyIds(c) /\ fixed = FALSE
        BY <3>1, <3>2, <3>3, <3>5
      <4>2. (w \in ReadOnlyIds(c)) = FALSE
        BY <4>1
      <4>. QED
        BY <3>3, <4>1, <4>2
    <3>. QED
      BY <3>1, <3>4, <3>5
  <2>10. fixed \in BOOLEAN
    <3>1. c.tabs[k].widgets \in WidgetSets
      BY <2>1, SaneFields DEF Tab
    <3>. QED
      BY <2>1, <3>1, WidgetsByDomain
  <2>5. /\ off \in Sane /\ DOMAIN off.tabs = DOMAIN c.tabs /\ off.tabs[j] = c.tabs[j]
    <3>. DEFINE T == {<<c.tabs[k].id, op.no>>}
    <3>1. <<c.tabs[k].id, op.no>> \in T
      OBVIOUS
    <3>. HIDE DEF T
    <3>2. /\ off \in Keeping(c, T, None) /\ DOMAIN off.tabs = DOMAIN c.tabs
          /\ \A m \in DOMAIN c.tabs : m # k => off.tabs[m] = c.tabs[m]
      BY <2>1, <3>1, TakeKeeps
    <3>. HIDE DEF off
    <3>. QED
      BY <2>1, <3>2 DEF Keeping
  <2>6. x = [off EXCEPT !.tabs[j].widgets = Put(@, FreeNo(@), fixed)]
    BY <2>5
  <2>. HIDE DEF k, j, w
  <2>7. off = Serial!Taken(c, op.tab, op.no)
    BY <2>1, TakeSerial
  <2>. HIDE DEF off, x, fixed
  <2>8. x = Serial!Put(off, op.to, fixed)
    <3>1. /\ off \in Sane /\ j \in DOMAIN off.tabs /\ ~Full(off.tabs[j].widgets)
          /\ off.tabs[j].id = op.to
      BY <2>1, <2>2, <2>5
    <3>2. Serial!Put(off, off.tabs[j].id, fixed) = [off EXCEPT !.tabs[j].widgets = Put(@, FreeNo(@), fixed)]
      BY <2>10, <3>1, PutSerial
    <3>. QED
      BY <2>6, <3>1, <3>2
  <2>9. Serial!MoveWidget(w[1], w[2], op.to)
    <3>1. w[1] = op.tab /\ w[2] = op.no /\ w = <<w[1], w[2]>>
      BY DEF w
    <3>2. Serial!HasRoom(op.to)
      BY <2>1, <2>2, SameWords DEF Serial!HasRoom, Now
    <3>3. d = Serial!Put(Serial!Taken(c, w[1], w[2]), op.to, w \in ReadOnlyIds(c))
      BY <2>3, <2>4, <2>7, <2>8, <3>1
    <3>4. op.to # op.tab
      BY <1>3
    <3>. QED
      BY <3>1, <3>2, <3>3, <3>4, SameWords DEF Serial!MoveWidget, Now
  <2>. QED
    BY <2>1, <2>4, <2>9, SerialSteps DEF Now
<1>. QED
  BY <1>2, <1>3

-----------------------------------------------------------------------------
(* The other requests.                                                     *)

LEMMA DropTabSerial ==
    ASSUME NEW c, NEW op \in Ops, op.kind = "dropTab", NEW d \in WrittenBy(DropTab(op, c)), Now(c, d)
    PROVE  Serial!Next
<1>. DEFINE k     == TabAt(c, op.tab)
            left  == [c EXCEPT !.tabs = RemoveAt(@, k)]
            shown == SetVisible(left, left.tabs[1].id)
<1>1. op.tab \in Ids(c) /\ Len(c.tabs) # 1 /\ ReadOnly(c.tabs[k]) = {}
  <2>1. ASSUME op.tab \notin Ids(c) \/ Len(c.tabs) = 1 \/ ReadOnly(c.tabs[k]) # {} PROVE FALSE
    <3>1. DropTab(op, c) = <<>>
      BY <2>1 DEF DropTab
    <3>. QED
      BY <3>1, WrittenOne
  <2>. QED
    BY <2>1
<1>2. c \in Sane /\ k \in DOMAIN c.tabs /\ c.tabs[k].id = op.tab
  BY <1>1, TabAtType DEF Now
<1>3. \/ c.tabs[k].visible /\ d = shown
      \/ ~c.tabs[k].visible /\ d = left
  <2>1. CASE c.tabs[k].visible
    <3>1. DropTab(op, c) = Save(shown) \o Save(shown)
      BY <1>1, <2>1 DEF DropTab
    <3>. HIDE DEF shown
    <3>2. d \in WrittenBy(Save(shown) \o Save(shown))
      BY <3>1
    <3>3. d \in {shown, shown}
      BY <3>2, WrittenOne
    <3>. QED
      BY <2>1, <3>3
  <2>2. CASE ~c.tabs[k].visible
    <3>1. DropTab(op, c) = Save(left)
      BY <1>1, <2>2 DEF DropTab
    <3>. HIDE DEF left
    <3>. QED
      BY <2>2, <3>1, WrittenOne
  <2>. QED
    BY <2>1, <2>2
<1>4. \A n \in WidgetNo : <<op.tab, n>> \notin ReadOnlyIds(c)
  <2>. HIDE DEF k
  <2>. QED
    BY <1>1, <1>2, WidgetAt
<1>5. Len(c.tabs) > 1
  <2>. DEFINE n == Len(c.tabs)
  <2>1. n \in Nat /\ n > 0 /\ n # 1
    BY <1>1, <1>2, SaneFields
  <2>. HIDE DEF n
  <2>2. n > 1
    BY <2>1
  <2>. QED
    BY <2>2 DEF n
<1>. HIDE DEF k
<1>6. d = IF c.tabs[k].visible THEN Serial!Showing(left, left.tabs[1].id) ELSE left
  BY <1>3, SameWords
<1>7. Serial!DropTab(op.tab)
  <2>. HIDE DEF shown
  <2>. QED
    BY <1>2, <1>4, <1>5, <1>6, SameWords DEF Serial!DropTab, Now
<1>. QED
  BY <1>1, <1>7, SerialSteps DEF Now

LEMMA SetPrefsSerial ==
    ASSUME NEW c, NEW op \in Ops, op.kind = "prefs", NEW d \in WrittenBy(SetPrefs(op, c)), Now(c, d)
    PROVE  Serial!Next
<1>. DEFINE pub == IF op.public = None THEN c ELSE [c EXCEPT !.public = op.public]
            all == IF op.pref = None THEN pub ELSE [pub EXCEPT !.pref = op.pref]
<1>1. c \in Sane /\ op.public \in Publish \cup {None} /\ op.pref \in Prefs \cup {None}
  BY OpFields DEF Now
<1>2. d \in {pub, all}
  <2>. DEFINE t == SetPrefs(op, c)
  <2>1. \A i \in 1..Len(t) : t[i].do = "save" => t[i].c \in {pub, all}
    <3>. HIDE DEF t
    <3>. QED
      BY <1>1, SetPrefsKeeps DEF t
  <2>2. PICK i \in 1..Len(t) : t[i].do = "save" /\ d = t[i].c
    <3>. HIDE DEF pub, all
    <3>. QED
      BY DEF WrittenBy
  <2>. HIDE DEF pub, all, t
  <2>. QED
    BY <2>1, <2>2
<1>3. c \in Contents
  BY <1>1 DEF Sane
<1>4. CASE d = pub
  <2>1. d = [c EXCEPT !.public = IF op.public = None THEN @ ELSE op.public,
                      !.pref = IF None = None THEN @ ELSE None]
    BY <1>3, <1>4 DEF Contents
  <2>2. Serial!SetPrefs(op.public, None)
    BY <2>1 DEF Serial!SetPrefs, Now
  <2>. QED
    BY <1>1, <2>2, SerialSteps DEF Now
<1>5. CASE d = all
  <2>1. d = [c EXCEPT !.public = IF op.public = None THEN @ ELSE op.public,
                      !.pref = IF op.pref = None THEN @ ELSE op.pref]
    BY <1>3, <1>5 DEF Contents
  <2>2. Serial!SetPrefs(op.public, op.pref)
    BY <2>1 DEF Serial!SetPrefs, Now
  <2>. QED
    BY <1>1, <2>2, SerialSteps DEF Now
<1>. QED
  BY <1>2, <1>4, <1>5

\* A request that replaces one field.
LEMMA FieldSerial ==
    ASSUME NEW c, NEW op \in Ops, op.kind \in {"rewire", "patch", "retitle"},
           NEW d \in Saved(op, c), Now(c, d)
    PROVE  Serial!Next
<1>1. CASE op.kind = "rewire"
  <2>. DEFINE x == [c EXCEPT !.wiring = op.wiring]
  <2>1. Plan(op, c) = Save(x)
    BY <1>1 DEF Plan
  <2>2. d = x
    <3>. HIDE DEF x
    <3>. QED
      BY <2>1, WrittenOne DEF Saved
  <2>3. Serial!Rewire(op.wiring) /\ op.wiring \in SUBSET Items
    BY <1>1, <2>2, OpFields DEF Serial!Rewire, Now
  <2>. QED
    BY <2>3, SerialSteps DEF Now
<1>2. CASE op.kind = "patch"
  <2>. DEFINE x == [c EXCEPT !.wiring = @ \cup {op.item}]
  <2>1. Plan(op, c) = Save(x)
    BY <1>2 DEF Plan
  <2>2. d = x
    <3>. HIDE DEF x
    <3>. QED
      BY <2>1, WrittenOne DEF Saved
  <2>3. Serial!Patch(op.item) /\ op.item \in Items
    BY <1>2, <2>2, OpFields DEF Serial!Patch, Now
  <2>. QED
    BY <2>3, SerialSteps DEF Now
<1>3. CASE op.kind = "retitle"
  <2>. DEFINE x == [c EXCEPT !.title = op.title]
  <2>1. Plan(op, c) = Save(x)
    BY <1>3 DEF Plan
  <2>2. d = x
    <3>. HIDE DEF x
    <3>. QED
      BY <2>1, WrittenOne DEF Saved
  <2>3. Serial!Retitle(op.title) /\ op.title \in Titles
    BY <1>3, <2>2, OpFields DEF Serial!Retitle, Now
  <2>. QED
    BY <2>3, SerialSteps DEF Now
<1>. QED
  BY <1>1, <1>2, <1>3

\* Whatever a request may save, seen from the contents it read, is what one
\* request of the promise does to them.
LEMMA SavedSerial ==
    ASSUME NEW c, NEW op \in Ops, Room(op, c), NEW d \in Saved(op, c), Now(c, d)
    PROVE  Serial!Next \/ d = c
<1>1. CASE op.kind = "addTab"
  <2>1. Plan(op, c) = AddTab(op, c)
    BY <1>1 DEF Plan
  <2>. QED
    BY <1>1, <2>1, AddTabSerial DEF Saved
<1>2. CASE op.kind = "editTab"
  <2>1. Plan(op, c) = EditTab(op, c)
    BY <1>2 DEF Plan
  <2>. QED
    BY <1>2, <2>1, EditTabSerial DEF Saved
<1>3. CASE op.kind = "dropTab"
  <2>1. Plan(op, c) = DropTab(op, c)
    BY <1>3 DEF Plan
  <2>. QED
    BY <1>3, <2>1, DropTabSerial DEF Saved
<1>4. CASE op.kind = "addWidget"
  <2>1. Plan(op, c) = AddWidget(op, c)
    BY <1>4 DEF Plan
  <2>. QED
    BY <1>4, <2>1, AddWidgetSerial DEF Saved
<1>5. CASE op.kind = "editWidget"
  <2>1. Plan(op, c) = EditWidget(op, c)
    BY <1>5 DEF Plan
  <2>. QED
    BY <1>5, <2>1, EditWidgetSerial DEF Saved
<1>6. CASE op.kind = "dropWidget"
  <2>1. Plan(op, c) = DropWidget(op, c)
    BY <1>6 DEF Plan
  <2>. QED
    BY <1>6, <2>1, DropWidgetSerial DEF Saved
<1>7. CASE op.kind \in {"rewire", "patch", "retitle"}
  BY <1>7, FieldSerial
<1>8. CASE op.kind = "prefs"
  <2>1. Plan(op, c) = SetPrefs(op, c)
    BY <1>8 DEF Plan
  <2>. QED
    BY <1>8, <2>1, SetPrefsSerial DEF Saved
<1>9. CASE op.kind \in {"remove", "view"}
  <2>1. \/ Plan(op, c) = <<[do |-> "delete"], [do |-> "unindex"]>>
        \/ Plan(op, c) = <<[do |-> "view"]>>
    BY <1>9 DEF Plan
  <2>2. WrittenBy(Plan(op, c)) = {}
    BY <2>1 DEF WrittenBy
  <2>. QED
    BY <2>2 DEF Saved
<1>. QED
  BY <1>1, <1>2, <1>3, <1>4, <1>5, <1>6, <1>7, <1>8, <1>9, OpFields

-----------------------------------------------------------------------------
(* The requests in progress: what each may still save and what it holds    *)
(* uncommitted follow from the document as it is, or cannot be committed.  *)

Heading(q, d) ==
    q.snap = d =>
        /\ q.op \in Ops /\ Room(q.op, d.c)
        /\ \A i \in 1..Len(q.todo) : q.todo[i].do = "save" => q.todo[i].c \in Saved(q.op, d.c)
Holding(q, d) ==
    q.mine \in SaneDoc =>
        q.snap = d /\ (Next1(q, {"users", "save"}) \/ q.mine.c \in Saved(q.op, d.c))
SerialIn(q, d) == Heading(q, d) /\ Holding(q, d) /\ Started(q)
SerialInv == doc # Gone => \A r \in Requests : SerialIn(req[r], doc)

LEMMA IdleSerial ==
    ASSUME NEW q, q.todo = <<>>, q.mine = None, q.snap = None, NEW d, d # None
    PROVE  SerialIn(q, d)
BY NotDocs, NothingLeft DEF SerialIn, Heading, Holding

\* What is left after a step.
LEMMA LeftSerial ==
    ASSUME NEW q, q.todo \in Seq(SaneStep), q.todo # <<>>, NEW w, w.todo = Tail(q.todo),
           w.op = q.op, NEW d, Heading(q, d), Started(q),
           w.snap = q.snap \/ (q.snap = d /\ w.snap # None)
    PROVE  Heading(w, d) /\ Started(w)
<1>1. ASSUME NEW i \in 1..Len(w.todo)
      PROVE  i + 1 \in 1..Len(q.todo) /\ w.todo[i] = q.todo[i + 1]
  BY TailOf
<1>2. Heading(w, d)
  BY <1>1 DEF Heading
<1>3. Started(w)
  BY <1>1 DEF Started
<1>. QED
  BY <1>2, <1>3

\* A step of one request under which the document does not change.
LEMMA SerialSame ==
    ASSUME IInv, SerialInv, NEW r \in Requests, NEW q, req' = [req EXCEPT ![r] = q],
           UNCHANGED doc, doc # Gone => SerialIn(q, doc)
    PROVE  SerialInv'
BY Others DEF SerialInv

LEMMA WroteSerial ==
    ASSUME Base, transactional, IndexInv, SerialInv, NEW r \in Requests,
           NEW kind \in {"save", "users", "delete"}, NEW q, Wrote(r, q, kind)
    PROVE  SerialInv'
<1>0. UNCHANGED doc /\ req' = [req EXCEPT ![r] = q] /\ IInv
  BY DEF Wrote, Base
<1>. SUFFICES ASSUME doc # Gone PROVE SerialIn(q, doc)
  BY <1>0, SerialSame
<1>1. /\ Due(r, kind) /\ Ordered(req[r].todo) /\ q.todo = Tail(req[r].todo) /\ q.op = req[r].op
  BY DEF Wrote, Base, OrderInv
<1>2. /\ Next1(req[r], {kind}) /\ req[r].todo \in Seq(SaneStep) /\ req[r].todo # <<>>
      /\ 1 \in 1..Len(req[r].todo) /\ req[r].todo[1] = Head(req[r].todo)
      /\ req[r].todo[1].do = kind
      /\ kind = "users" => Next1(Rest(r), {"users", "save"}) /\ Rest(r).todo = Tail(req[r].todo)
  BY <1>0, <1>1, Resting, NextOf
<1>3. SerialIn(req[r], doc) /\ doc \in SaneDoc
  BY <1>0 DEF SerialInv, IInv
<1>4. req[r].mine # Gone
  BY <1>2 DEF IndexInv, IndexedIn, Deleting, Next1
<1>5. Seen(r) # Gone
  BY <1>4 DEF Seen
<1>6. /\ q.snap = doc /\ req[r].snap \in {None, doc}
      /\ kind = "save" => q.mine \in SaneDoc /\ q.mine.c = Head(req[r].todo).c
      /\ kind = "delete" => q.mine = Gone
  BY <1>5 DEF Wrote
<1>7. req[r].snap = doc
  BY <1>2, <1>3, <1>6 DEF SerialIn, Started
<1>8. Heading(q, doc) /\ Started(q)
  <2>1. q.snap # None
    BY <1>3, <1>6, NotDocs
  <2>. QED
    BY <1>1, <1>2, <1>3, <1>7, <2>1, LeftSerial DEF SerialIn
<1>9. Holding(q, doc)
  <2>1. CASE kind = "save"
    <3>1. req[r].todo[1].c \in Saved(req[r].op, doc.c)
      BY <1>2, <1>3, <1>7, <2>1 DEF SerialIn, Heading
    <3>. QED
      BY <1>1, <1>2, <1>6, <2>1, <3>1 DEF Holding
  <2>2. CASE kind = "users"
    <3>1. Next1(q, {"users", "save"})
      BY <1>1, <1>2, <2>2 DEF Next1
    <3>. QED
      BY <1>6, <3>1 DEF Holding
  <2>3. CASE kind = "delete"
    BY <1>6, <2>3, NotDocs DEF Holding
  <2>. QED
    BY <2>1, <2>2, <2>3
<1>. QED
  BY <1>8, <1>9 DEF SerialIn

LEMMA RestedSerial ==
    ASSUME Base, transactional, SerialInv, NEW r \in Requests,
           IndexStep(r) \/ UnindexStep(r) \/ ViewStep(r)
    PROVE  SerialInv'
<1>. DEFINE q == Rest(r)
<1>1. PICK kind \in {"index", "unindex", "view"} : Due(r, kind)
  BY DEF IndexStep, UnindexStep, ViewStep
<1>2. /\ IInv /\ Ordered(req[r].todo)
      /\ req' = [req EXCEPT ![r] = q] /\ UNCHANGED doc
  BY DEF IndexStep, UnindexStep, ViewStep, Base, OrderInv
<1>3. /\ q.snap = req[r].snap /\ q.mine = req[r].mine /\ q.op = req[r].op
      /\ q.todo = Tail(req[r].todo) /\ Next1(req[r], {kind})
  BY <1>1, <1>2, Resting
<1>. HIDE DEF q
<1>4. req[r].todo \in Seq(SaneStep) /\ req[r].todo # <<>>
  BY <1>1, <1>2, NextOf
<1>5. doc # Gone => SerialIn(q, doc)
  <2>. SUFFICES ASSUME doc # Gone PROVE SerialIn(q, doc)
    OBVIOUS
  <2>1. SerialIn(req[r], doc)
    BY DEF SerialInv
  <2>2. Heading(q, doc) /\ Started(q)
    BY <1>3, <1>4, <2>1, LeftSerial DEF SerialIn
  <2>3. ~Next1(req[r], {"users", "save"})
    BY <1>3 DEF Next1
  <2>. QED
    BY <1>3, <2>1, <2>2, <2>3 DEF SerialIn, Holding
<1>. QED
  BY <1>2, <1>5, SerialSame

\* A commit is a step of the promise, or nothing.
LEMMA EndedSerial ==
    ASSUME Publish = {}, Base, transactional, transactional' = transactional, ClockInv, SerialInv,
           NEW r \in Requests, NEW q, Ended(r, q), doc = Gone => doc' = Gone
    PROVE  SerialInv' /\ (Serial!Next \/ UNCHANGED Promised)
<1>1. /\ IInv /\ req' = [req EXCEPT ![r] = q] /\ q.mine = None /\ q.snap = None
      /\ doc' = Committed(r)
  BY DEF Ended, Base
<1>2. q.todo = <<>>
  BY Resting DEF Ended, Base, OrderInv
<1>3. /\ Promised = IF doc = Gone THEN Gone ELSE doc.c
      /\ Promised' = IF doc' = Gone THEN Gone ELSE doc'.c
  BY DEF Promised
<1>4. doc # None /\ doc' # None
  <2>1. req[r] \in Record \cup {Idle} /\ doc \in SaneDoc \cup {Gone}
    BY <1>1 DEF IInv
  <2>. QED
    BY <1>1, <2>1, RecordFields, IdleFields, NotDocs DEF Committed
<1>5. CASE req[r].mine = None
  <2>1. UNCHANGED doc
    BY <1>1, <1>5 DEF Committed
  <2>2. SerialInv'
    BY <1>1, <1>2, <1>4, <2>1, IdleSerial, SerialSame
  <2>. QED
    BY <1>3, <2>1, <2>2
<1>6. CASE req[r].mine = Gone
  <2>1. doc' = Gone /\ doc # Gone
    BY <1>1, <1>6, NotDocs DEF Committed, Base, WriterInv, OneWriter
  <2>2. Promised # Gone
    BY <1>1, <1>3, <2>1, StoreAssumption DEF IInv, SaneDoc, Sane
  <2>3. Serial!Next
    BY <1>3, <2>1, <2>2, SerialSteps
  <2>. QED
    BY <2>1, <2>3 DEF SerialInv
<1>7. CASE req[r].mine # None /\ req[r].mine # Gone
  <2>1. /\ doc # Gone /\ doc \in SaneDoc /\ doc' = req[r].mine /\ doc' \in SaneDoc
        /\ doc.lm \in Nat /\ doc'.lm \in Nat /\ doc'.lm > doc.lm
        /\ \A p \in Requests \ {r} : req[p].mine = None
    BY <1>7, CommitNew
  <2>2. SerialIn(req[r], doc) /\ ~Next1(req[r], {"users", "save"})
    BY <2>1 DEF SerialInv, Ended, Due, Finished, Next1
  <2>3. /\ req[r].op \in Ops /\ Room(req[r].op, doc.c)
        /\ doc'.c \in Saved(req[r].op, doc.c)
    BY <2>1, <2>2 DEF SerialIn, Holding, Heading
  <2>4. Now(doc.c, doc'.c)
    <3>1. doc.c \in Sane /\ doc.c \in Contents /\ doc' # Gone
      BY <2>1, NotDocs DEF SaneDoc, Sane
    <3>. QED
      BY <1>3, <2>1, <3>1, StoreAssumption DEF Now
  <2>5. Serial!Next \/ doc'.c = doc.c
    BY <2>3, <2>4, SavedSerial
  <2>6. Promised = doc.c /\ Promised' = doc'.c
    BY <2>4 DEF Now
  <2>7. ASSUME NEW p \in Requests \ {r} PROVE SerialIn(req'[p], doc')
    <3>1. /\ req'[p] = req[p] /\ req[p].mine = None /\ SnapOld(req[p], doc)
          /\ Started(req[p])
      BY <1>1, <2>1, Others DEF SerialInv, SerialIn, ClockInv, TimedIn
    <3>2. req[p] \in Record \cup {Idle}
      BY <1>1 DEF IInv
    <3>3. req[p].snap \in SaneDoc \cup {None, Gone}
      BY <3>2, RecordFields, IdleFields
    <3>4. req[p].snap # doc'
      BY <2>1, <3>1, <3>3, NotDocs DEF SnapOld, SaneDoc
    <3>. QED
      BY <3>1, <3>4, NotDocs DEF SerialIn, Heading, Holding
  <2>8. SerialIn(req'[r], doc')
    <3>1. req'[r] = q
      BY <1>1, Others
    <3>2. \A d : d # None => SerialIn(q, d)
      BY <1>1, <1>2, IdleSerial
    <3>. QED
      BY <1>4, <3>1, <3>2
  <2>. QED
    BY <2>5, <2>6, <2>7, <2>8 DEF SerialInv
<1>. QED
  BY <1>5, <1>6, <1>7

LEMMA NextSerial ==
    ASSUME Publish = {}, Base, transactional, ClockInv, IndexInv, SerialInv, [Next]_vars
    PROVE  SerialInv' /\ (Serial!Next \/ UNCHANGED Promised)
<1>0. NothingBack /\ IInv /\ transactional' = transactional
  BY BaseAlways DEF Base
<1>1. UNCHANGED doc => UNCHANGED Promised
  BY <1>0 DEF Promised
<1>2. ASSUME NEW r \in Requests, NEW op \in Ops, Read(r, op) PROVE SerialInv' /\ UNCHANGED doc
  <2>. DEFINE t == Plan(op, doc.c)
              made == IF t # <<>> THEN Made(op, doc.c) ELSE None
              q == [op |-> op, todo |-> t, copy |-> doc, snap |-> doc, mine |-> None,
                    made |-> made]
  <2>1. /\ req' = [req EXCEPT ![r] = q] /\ UNCHANGED doc
        /\ doc # Gone /\ doc \in SaneDoc /\ Room(op, doc.c)
    BY <1>0, <1>2 DEF Read, IInv
  <2>2. q.op = op /\ q.mine = None /\ q.todo = t /\ q.snap = doc
    OBVIOUS
  <2>3. \A i \in 1..Len(t) : t[i].do = "save" => t[i].c \in Saved(op, doc.c)
    <3>1. Saved(op, doc.c) = WrittenBy(t)
      BY DEF Saved
    <3>. HIDE DEF t
    <3>. QED
      BY <3>1 DEF WrittenBy
  <2>. HIDE DEF q, t
  <2>4. SerialIn(q, doc)
    BY <2>1, <2>2, <2>3, NotDocs DEF SerialIn, Heading, Holding, Started
  <2>. QED
    BY <1>0, <2>1, <2>4, SerialSame
<1>3. ASSUME NEW r \in Requests, Abort(r) PROVE SerialInv' /\ UNCHANGED doc
  <2>1. req' = [req EXCEPT ![r] = Idle] /\ UNCHANGED doc
    BY <1>3 DEF Abort
  <2>2. doc # None
    BY <1>0, NotDocs DEF IInv
  <2>3. SerialIn(Idle, doc)
    BY <2>2, IdleFields, IdleSerial
  <2>. QED
    BY <1>0, <2>1, <2>3, SerialSame
<1>4. CASE UNCHANGED vars
  BY <1>1, <1>4 DEF vars, SerialInv
<1>5. ASSUME NEW r \in Requests, NEW kind \in {"save", "users", "delete"}, NEW q, Wrote(r, q, kind)
      PROVE  SerialInv' /\ UNCHANGED doc
  BY <1>5, WroteSerial DEF Wrote
<1>6. ASSUME NEW r \in Requests, IndexStep(r) \/ UnindexStep(r) \/ ViewStep(r)
      PROVE  SerialInv' /\ UNCHANGED doc
  BY <1>6, RestedSerial DEF IndexStep, UnindexStep, ViewStep
<1>7. ASSUME NEW r \in Requests, NEW q, Ended(r, q)
      PROVE  SerialInv' /\ (Serial!Next \/ UNCHANGED Promised)
  BY <1>0, <1>7, EndedSerial DEF NothingBack
<1>8. CASE Next
  BY <1>1, <1>2, <1>3, <1>5, <1>6, <1>7, <1>8, ByKind
<1>. QED
  BY <1>4, <1>8

-----------------------------------------------------------------------------
(* The theorem.                                                            *)

\* With transactions, requests take effect one at a time, whole, each on what
\* the previous ones left, for any number of requests that publish nothing:
\* what a request commits is what WorkspaceSerial makes of the document it
\* finds then, although it was planned on the one it had read (get_session,
\* change_workspace and the handlers that call it).
THEOREM AlwaysSerializable == ASSUME Publish = {} PROVE Spec => Serializable
<1>. DEFINE Inv == Promises /\ (transactional => SerialInv)
<1>1. ASSUME Init PROVE Inv /\ Serial!Init
  <2>1. PICK c \in Blank : doc = [c |-> c, lm |-> 0, raw |-> FALSE]
    BY <1>1 DEF Init
  <2>2. doc \in SaneDoc /\ doc.c = c
    BY <2>1, BlankSane DEF SaneDoc
  <2>3. Promised \in Blank
    BY <2>2, NotDocs DEF Promised
  <2>4. SerialInv
    <3>1. req = [r \in Requests |-> Idle]
      BY <1>1 DEF Init
    <3>2. SerialIn(Idle, doc)
      BY <2>2, IdleFields, IdleSerial, NotDocs
    <3>. QED
      BY <3>1, <3>2 DEF SerialInv
  <2>. QED
    BY <1>1, <2>3, <2>4, PromisesAlways, SameWords DEF Serial!Init
<1>2. ASSUME Inv, [Next]_vars PROVE Inv' /\ (Serial!Next \/ UNCHANGED Promised)
  <2>1. Promises' /\ transactional' = transactional
    BY <1>2, PromisesAlways
  <2>2. CASE transactional
    BY <1>2, <2>1, <2>2, NextSerial DEF Promises
  <2>3. CASE ~transactional
    BY <2>1, <2>3 DEF Promised
  <2>. QED
    BY <2>1, <2>2, <2>3
<1>. QED
  BY <1>1, <1>2, PTL DEF Spec, Serializable, Serial!Spec

-----------------------------------------------------------------------------
(* Read-only widgets: what a request may save has as many of them.         *)

OnesOf(t) == {<<t.id, n>> : n \in ReadOnly(t)}
Count(c) == Cardinality(ReadOnlyIds(c))

LEMMA OnesMeaning == \A c : ReadOnlyIds(c) = UNION {OnesOf(c.tabs[k]) : k \in DOMAIN c.tabs}
BY DEF ReadOnlyIds, OnesOf

LEMMA FiniteOnes ==
    ASSUME NEW c \in Sane
    PROVE  IsFiniteSet(ReadOnlyIds(c)) /\ Count(c) \in Nat
<1>1. IsFiniteSet(TabId) /\ IsFiniteSet(WidgetNo)
  BY ContentsAssumption, FS_Interval DEF TabId, WidgetNo
<1>2. IsFiniteSet(TabId \X WidgetNo)
  BY <1>1, FS_Product
<1>3. ReadOnlyIds(c) \subseteq TabId \X WidgetNo
  <2>1. ASSUME NEW k \in DOMAIN c.tabs PROVE OnesOf(c.tabs[k]) \subseteq TabId \X WidgetNo
    <3>1. c.tabs[k].id \in TabId /\ DOMAIN c.tabs[k].widgets \subseteq WidgetNo
      BY SaneFields, WidgetsByDomain DEF Tab
    <3>. QED
      BY <3>1 DEF OnesOf, ReadOnly
  <2>. QED
    BY <2>1, OnesMeaning
<1>4. IsFiniteSet(ReadOnlyIds(c))
  BY <1>2, <1>3, FS_Subset
<1>. QED
  BY <1>4, FS_CardinalityType DEF Count

\* Two documents whose tabs have the same read-only widgets.
LEMMA SameOnes ==
    ASSUME NEW c, NEW d,
           \A k \in DOMAIN c.tabs : \/ OnesOf(c.tabs[k]) = {}
                                    \/ \E j \in DOMAIN d.tabs : OnesOf(d.tabs[j]) = OnesOf(c.tabs[k]),
           \A j \in DOMAIN d.tabs : \/ OnesOf(d.tabs[j]) = {}
                                    \/ \E k \in DOMAIN c.tabs : OnesOf(c.tabs[k]) = OnesOf(d.tabs[j])
    PROVE  Count(d) = Count(c)
<1>1. ReadOnlyIds(c) \subseteq ReadOnlyIds(d)
  BY OnesMeaning
<1>2. ReadOnlyIds(d) \subseteq ReadOnlyIds(c)
  BY OnesMeaning
<1>3. ReadOnlyIds(d) = ReadOnlyIds(c)
  BY <1>1, <1>2
<1>. QED
  BY <1>3 DEF Count

LEMMA TabsAlikeCount ==
    ASSUME NEW c, NEW d, DOMAIN d.tabs = DOMAIN c.tabs,
           \A k \in DOMAIN c.tabs : d.tabs[k].id = c.tabs[k].id /\ d.tabs[k].widgets = c.tabs[k].widgets
    PROVE  Count(d) = Count(c)
<1>1. \A k \in DOMAIN c.tabs : OnesOf(d.tabs[k]) = OnesOf(c.tabs[k])
  BY DEF OnesOf, ReadOnly
<1>. QED
  BY <1>1, SameOnes

LEMMA TakeOnes ==
    ASSUME NEW c \in Sane, NEW k \in DOMAIN c.tabs, NEW n
    PROVE  LET d == [c EXCEPT !.tabs[k].widgets = Take(@, n)]
           IN  /\ d \in Sane /\ DOMAIN d.tabs = DOMAIN c.tabs
               /\ \A j \in DOMAIN c.tabs : j # k => d.tabs[j] = c.tabs[j]
               /\ ReadOnlyIds(d) = ReadOnlyIds(c) \ {<<c.tabs[k].id, n>>}
<1>. DEFINE ws == Take(c.tabs[k].widgets, n)
            t == [c.tabs[k] EXCEPT !.widgets = ws]
            d == [c EXCEPT !.tabs[k].widgets = Take(@, n)]
            w == <<c.tabs[k].id, n>>
            T == {w}
<1>1. c.tabs[k] \in Tab /\ c.tabs[k].widgets \in WidgetSets
  BY SaneFields DEF Tab
<1>2. d \in Sane /\ DOMAIN d.tabs = DOMAIN c.tabs /\ \A j \in DOMAIN c.tabs : j # k => d.tabs[j] = c.tabs[j]
  <2>1. w \in T
    OBVIOUS
  <2>. HIDE DEF T
  <2>2. /\ d \in Keeping(c, T, None) /\ DOMAIN d.tabs = DOMAIN c.tabs
        /\ \A j \in DOMAIN c.tabs : j # k => d.tabs[j] = c.tabs[j]
    BY <2>1, TakeKeeps
  <2>. HIDE DEF d
  <2>. QED
    BY <2>2 DEF Keeping
<1>3. d.tabs[k] = t
  BY DEF Sane, Contents
<1>4. OnesOf(t) = OnesOf(c.tabs[k]) \ {w}
  <2>1. /\ DOMAIN ws = DOMAIN c.tabs[k].widgets \ {n}
        /\ \A m \in DOMAIN ws : ws[m] = c.tabs[k].widgets[m]
    BY DEF Take, Restrict
  <2>. HIDE DEF ws
  <2>2. t.id = c.tabs[k].id /\ t.widgets = ws
    BY <1>1 DEF Tab
  <2>. HIDE DEF t
  <2>. QED
    BY <2>1, <2>2 DEF OnesOf, ReadOnly
<1>5. \A j \in DOMAIN c.tabs : j # k => w \notin OnesOf(c.tabs[j])
  <2>1. \A j \in DOMAIN c.tabs : j # k => c.tabs[j].id # c.tabs[k].id
    BY SaneFields DEF Shape
  <2>. QED
    BY <2>1 DEF OnesOf
<1>. HIDE DEF d, t, w
<1>6. \A j \in DOMAIN c.tabs : OnesOf(d.tabs[j]) = OnesOf(c.tabs[j]) \ {w}
  BY <1>2, <1>3, <1>4, <1>5
<1>7. ReadOnlyIds(d) = ReadOnlyIds(c) \ {w}
  BY <1>2, <1>6, OnesMeaning
<1>. QED
  BY <1>2, <1>7 DEF d, w

LEMMA PutOnes ==
    ASSUME NEW c \in Sane, NEW k \in DOMAIN c.tabs, ~Full(c.tabs[k].widgets), NEW fixed \in BOOLEAN
    PROVE  LET d == [c EXCEPT !.tabs[k].widgets = Put(@, FreeNo(@), fixed)]
               w == <<c.tabs[k].id, FreeNo(c.tabs[k].widgets)>>
           IN  /\ w \notin ReadOnlyIds(c)
               /\ ReadOnlyIds(d) = IF fixed THEN ReadOnlyIds(c) \cup {w} ELSE ReadOnlyIds(c)
<1>. DEFINE n == FreeNo(c.tabs[k].widgets)
            ws == Put(c.tabs[k].widgets, n, fixed)
            t == [c.tabs[k] EXCEPT !.widgets = ws]
            d == [c EXCEPT !.tabs[k].widgets = Put(@, FreeNo(@), fixed)]
            w == <<c.tabs[k].id, n>>
            W == IF fixed THEN {w} ELSE {}
<1>1. c.tabs[k] \in Tab /\ c.tabs[k].widgets \in WidgetSets
  BY SaneFields DEF Tab
<1>2. n \in WidgetNo /\ n \notin DOMAIN c.tabs[k].widgets
  BY <1>1, FreeNoType
<1>3. w \notin ReadOnlyIds(c)
  BY <1>2, WidgetAt DEF ReadOnly
<1>4. /\ DOMAIN d.tabs = DOMAIN c.tabs /\ d.tabs[k] = t
      /\ \A j \in DOMAIN c.tabs : j # k => d.tabs[j] = c.tabs[j]
  BY DEF Sane, Contents
<1>5. OnesOf(t) = OnesOf(c.tabs[k]) \cup W
  <2>1. /\ DOMAIN ws = DOMAIN c.tabs[k].widgets \cup {n}
        /\ ws[n] = fixed
        /\ \A m \in DOMAIN c.tabs[k].widgets : ws[m] = c.tabs[k].widgets[m]
    <3>. HIDE DEF n
    <3>. QED
      BY <1>2 DEF Put
  <2>. HIDE DEF ws
  <2>2. t.id = c.tabs[k].id /\ t.widgets = ws
    BY <1>1 DEF Tab
  <2>. HIDE DEF t
  <2>. HIDE DEF n
  <2>. DEFINE old == c.tabs[k].widgets
  <2>3. \A m : m \in ReadOnly(t) <=> m \in ReadOnly(c.tabs[k]) \/ (fixed /\ m = n)
    <3>1. n \notin DOMAIN old /\ DOMAIN ws = DOMAIN old \cup {n} /\ ws[n] = fixed
          /\ (\A m \in DOMAIN old : ws[m] = old[m])
      BY <1>2, <2>1
    <3>2. /\ \A m : m \in ReadOnly(t) <=> m \in DOMAIN ws /\ ws[m]
          /\ \A m : m \in ReadOnly(c.tabs[k]) <=> m \in DOMAIN old /\ old[m]
      BY <2>2 DEF ReadOnly
    <3>. HIDE DEF old
    <3>. QED
      BY <3>1, <3>2, Zenon
  <2>4. CASE fixed
    <3>1. W = {w}
      BY <2>4
    <3>2. ReadOnly(t) = ReadOnly(c.tabs[k]) \cup {n}
      BY <2>3, <2>4
    <3>. HIDE DEF W
    <3>. QED
      BY <2>2, <3>1, <3>2 DEF OnesOf
  <2>5. CASE ~fixed
    <3>1. W = {}
      BY <2>5
    <3>2. ReadOnly(t) = ReadOnly(c.tabs[k])
      BY <2>3, <2>5
    <3>. HIDE DEF W
    <3>. QED
      BY <2>2, <3>1, <3>2 DEF OnesOf
  <2>. QED
    BY <2>4, <2>5
<1>. HIDE DEF d, t, W
<1>6. ReadOnlyIds(d) = ReadOnlyIds(c) \cup W
  <2>1. ReadOnlyIds(d) \subseteq ReadOnlyIds(c) \cup W
    BY <1>4, <1>5, OnesMeaning
  <2>2. ReadOnlyIds(c) \cup W \subseteq ReadOnlyIds(d)
    <3>1. \A j \in DOMAIN c.tabs : OnesOf(c.tabs[j]) \subseteq OnesOf(d.tabs[j])
      BY <1>4, <1>5
    <3>2. W \subseteq OnesOf(d.tabs[k])
      BY <1>4, <1>5
    <3>. QED
      BY <1>4, <3>1, <3>2, OnesMeaning
  <2>. QED
    BY <2>1, <2>2
<1>. QED
  BY <1>3, <1>6 DEF W, d

LEMMA AddTabCounts ==
    ASSUME NEW c \in Sane, NEW op \in Ops, NEW d \in WrittenBy(AddTab(op, c))
    PROVE  Count(d) = Count(c)
<1>. DEFINE t == [id |-> FreeId(c), name |-> op.name, visible |-> Len(c.tabs) = 0, widgets |-> NoWidgets]
            x == [c EXCEPT !.tabs = Append(@, t)]
            n == Len(c.tabs)
<1>1. d = x
  <2>1. AddTab(op, c) \in {<<>>, Save(x)}
    BY DEF AddTab
  <2>. HIDE DEF x
  <2>. QED
    BY <2>1, WrittenOne
<1>2. x.tabs = Append(c.tabs, t)
  BY DEF Sane, Contents
<1>3. OnesOf(t) = {}
  BY DEF OnesOf, ReadOnly, NoWidgets
<1>. HIDE DEF x, t
<1>4. /\ DOMAIN x.tabs = 1..(n + 1) /\ x.tabs[n + 1] = t
      /\ \A k \in 1..n : x.tabs[k] = c.tabs[k]
  <2>1. c.tabs \in Seq(Tab)
    BY SaneFields
  <2>. QED
    BY <1>2, <2>1
<1>5. DOMAIN c.tabs = 1..n /\ n \in Nat
  BY SaneFields
<1>. HIDE DEF n
<1>6. /\ \A k \in DOMAIN c.tabs : k \in DOMAIN x.tabs /\ x.tabs[k] = c.tabs[k]
      /\ \A j \in DOMAIN x.tabs : x.tabs[j] = t \/ (j \in DOMAIN c.tabs /\ x.tabs[j] = c.tabs[j])
  <2>1. \A j \in 1..(n + 1) : j = n + 1 \/ j \in 1..n
    BY <1>5
  <2>2. \A j \in 1..n : j \in 1..(n + 1)
    BY <1>5
  <2>. QED
    BY <1>4, <1>5, <2>1, <2>2
<1>7. Count(x) = Count(c)
  BY <1>3, <1>6, SameOnes
<1>. QED
  BY <1>1, <1>7

LEMMA EditTabCounts ==
    ASSUME NEW c \in Sane, NEW op \in Ops, op.kind = "editTab", NEW d \in WrittenBy(EditTab(op, c))
    PROVE  Count(d) = Count(c)
<1>. DEFINE k      == TabAt(c, op.tab)
            shown  == IF op.visible = TRUE THEN SetVisible(c, op.tab)
                      ELSE IF op.visible = FALSE THEN [c EXCEPT !.tabs[k].visible = FALSE]
                      ELSE c
            named  == IF op.name = None THEN shown ELSE [shown EXCEPT !.tabs[k].name = op.name]
<1>1. op.tab \in Ids(c)
  <2>1. ASSUME op.tab \notin Ids(c) PROVE FALSE
    <3>1. EditTab(op, c) = <<>>
      BY <2>1 DEF EditTab
    <3>. QED
      BY <3>1, WrittenOne
  <2>. QED
    BY <2>1
<1>2. d \in {shown, named}
  <2>1. EditTab(op, c) \in {<<>>, Save(shown), <<>> \o Save(named), Save(shown) \o Save(named)}
    BY <1>1 DEF EditTab
  <2>2. <<>> \o Save(named) = Save(named)
    BY DEF Save
  <2>. HIDE DEF shown, named
  <2>. QED
    BY <2>1, <2>2, WrittenOne
<1>3. /\ shown \in Sane /\ DOMAIN shown.tabs = DOMAIN c.tabs
      /\ \A j \in DOMAIN c.tabs : /\ shown.tabs[j].id = c.tabs[j].id
                                  /\ shown.tabs[j].widgets = c.tabs[j].widgets
  <2>. HIDE DEF shown
  <2>. QED
    BY <1>1, ShownKeeps DEF shown
<1>. HIDE DEF shown
<1>4. /\ DOMAIN named.tabs = DOMAIN c.tabs
      /\ \A j \in DOMAIN c.tabs : /\ named.tabs[j].id = shown.tabs[j].id
                                  /\ named.tabs[j].widgets = shown.tabs[j].widgets
  <2>1. CASE op.name = None
    BY <1>3, <2>1
  <2>2. CASE op.name # None
    <3>. DEFINE t == [shown.tabs[k] EXCEPT !.name = op.name]
    <3>1. k \in DOMAIN c.tabs
      BY <1>1, TabAtType
    <3>2. named.tabs = [shown.tabs EXCEPT ![k] = t]
      BY <1>3, <2>2 DEF Sane, Contents
    <3>3. t.id = shown.tabs[k].id /\ t.widgets = shown.tabs[k].widgets
      <4>1. shown.tabs[k] \in Tab
        BY <1>3, <3>1, SaneFields
      <4>. QED
        BY <4>1 DEF Tab
    <3>4. /\ DOMAIN [shown.tabs EXCEPT ![k] = t] = DOMAIN shown.tabs
          /\ \A j \in DOMAIN shown.tabs : [shown.tabs EXCEPT ![k] = t][j] = IF j = k THEN t ELSE shown.tabs[j]
      OBVIOUS
    <3>. HIDE DEF named, t, k
    <3>. QED
      BY <1>3, <3>1, <3>2, <3>3, <3>4
  <2>. QED
    BY <2>1, <2>2
<1>. HIDE DEF named
<1>5. Count(shown) = Count(c)
  BY <1>3, TabsAlikeCount
<1>6. Count(named) = Count(c)
  BY <1>3, <1>4, TabsAlikeCount
<1>. QED
  BY <1>2, <1>5, <1>6

LEMMA DropTabCounts ==
    ASSUME NEW c \in Sane, NEW op \in Ops, NEW d \in WrittenBy(DropTab(op, c))
    PROVE  Count(d) = Count(c)
<1>. DEFINE k     == TabAt(c, op.tab)
            left  == [c EXCEPT !.tabs = RemoveAt(@, k)]
            shown == SetVisible(left, left.tabs[1].id)
            n     == Len(c.tabs)
<1>1. op.tab \in Ids(c) /\ Len(c.tabs) # 1 /\ ReadOnly(c.tabs[k]) = {}
  <2>1. ASSUME op.tab \notin Ids(c) \/ Len(c.tabs) = 1 \/ ReadOnly(c.tabs[k]) # {} PROVE FALSE
    <3>1. DropTab(op, c) = <<>>
      BY <2>1 DEF DropTab
    <3>. QED
      BY <3>1, WrittenOne
  <2>. QED
    BY <2>1
<1>2. d \in {shown, left}
  <2>1. DropTab(op, c) \in {<<>>, Save(shown) \o Save(shown), Save(left)}
    BY DEF DropTab
  <2>. HIDE DEF shown, left
  <2>. QED
    BY <2>1, WrittenOne
<1>3. left \in Sane /\ k \in DOMAIN c.tabs
  BY <1>1, TabAtType, RemoveTabType
<1>4. Count(shown) = Count(left)
  <2>. HIDE DEF left
  <2>. QED
    BY <1>3, SetVisibleKeeps, TabsAlikeCount
<1>5. left.tabs = RemoveAt(c.tabs, k)
  BY DEF Sane, Contents
<1>6. c.tabs \in Seq(Tab) /\ n \in Nat /\ n > 0 /\ DOMAIN c.tabs = 1..n
  BY SaneFields
<1>7. OnesOf(c.tabs[k]) = {}
  BY <1>1 DEF OnesOf
<1>. HIDE DEF n, left, k, shown
<1>8. /\ DOMAIN left.tabs = 1..(n - 1)
      /\ \A j \in 1..(n - 1) : left.tabs[j] = IF j < k THEN c.tabs[j] ELSE c.tabs[j + 1]
  <2>1. k \in 1..Len(c.tabs) /\ n = Len(c.tabs)
    BY <1>3, <1>6 DEF n
  <2>2. /\ Len(left.tabs) = n - 1 /\ left.tabs \in Seq(Tab)
        /\ \A j \in 1..(n - 1) : left.tabs[j] = IF j < k THEN c.tabs[j] ELSE c.tabs[j + 1]
    BY <1>5, <1>6, <2>1, RemoveAtSeq, SMTT(30)
  <2>. QED
    BY <2>2
<1>9. ASSUME NEW m \in DOMAIN c.tabs, m # k
      PROVE  \E j \in DOMAIN left.tabs : left.tabs[j] = c.tabs[m]
  <2>1. CASE m < k
    <3>1. m \in 1..(n - 1) /\ left.tabs[m] = c.tabs[m]
      BY <1>3, <1>6, <1>8, <2>1
    <3>. QED
      BY <1>8, <3>1
  <2>2. CASE m > k
    <3>1. m - 1 \in 1..(n - 1) /\ left.tabs[m - 1] = c.tabs[m]
      BY <1>3, <1>6, <1>8, <2>2
    <3>. QED
      BY <1>8, <3>1
  <2>3. m \in Int /\ k \in Int
    BY <1>3, <1>6
  <2>. QED
    BY <1>9, <2>1, <2>2, <2>3
<1>10. ASSUME NEW j \in DOMAIN left.tabs
       PROVE  \E m \in DOMAIN c.tabs : left.tabs[j] = c.tabs[m]
  <2>1. j \in 1..n /\ j + 1 \in 1..n
    BY <1>6, <1>8
  <2>. QED
    BY <1>6, <1>8, <2>1
<1>11. Count(left) = Count(c)
  BY <1>7, <1>9, <1>10, SameOnes
<1>. QED
  BY <1>2, <1>4, <1>11

LEMMA AddWidgetCounts ==
    ASSUME NEW c \in Sane, NEW op \in Ops, op.kind = "addWidget", Room(op, c),
           NEW d \in WrittenBy(AddWidget(op, c))
    PROVE  Count(d) = Count(c)
<1>. DEFINE k == TabAt(c, op.tab)
            x == [c EXCEPT !.tabs[k].widgets = Put(@, FreeNo(@), FALSE)]
<1>1. op.tab \in Ids(c)
  <2>1. ASSUME op.tab \notin Ids(c) PROVE FALSE
    <3>1. AddWidget(op, c) = <<>>
      BY <2>1 DEF AddWidget
    <3>. QED
      BY <3>1, WrittenOne
  <2>. QED
    BY <2>1
<1>2. k \in DOMAIN c.tabs /\ c.tabs[k].id = op.tab
  BY <1>1, TabAtType
<1>3. ~Full(c.tabs[k].widgets)
  BY <1>2 DEF Room
<1>4. d = x
  <2>1. AddWidget(op, c) = Save(x)
    BY <1>1 DEF AddWidget
  <2>. HIDE DEF x
  <2>. QED
    BY <2>1, WrittenOne
<1>5. ReadOnlyIds(x) = ReadOnlyIds(c)
  <2>. HIDE DEF k
  <2>. QED
    BY <1>2, <1>3, PutOnes
<1>. HIDE DEF x
<1>. QED
  BY <1>4, <1>5 DEF Count

LEMMA DropWidgetCounts ==
    ASSUME NEW c \in Sane, NEW op \in Ops, NEW d \in WrittenBy(DropWidget(op, c))
    PROVE  Count(d) = Count(c)
<1>. DEFINE k == TabAt(c, op.tab)
            x == [c EXCEPT !.tabs[k].widgets = Take(@, op.no)]
            w == <<c.tabs[k].id, op.no>>
<1>1. HasWidget(c, op.tab, op.no) /\ ~c.tabs[k].widgets[op.no]
  <2>1. ASSUME ~HasWidget(c, op.tab, op.no) \/ c.tabs[k].widgets[op.no] PROVE FALSE
    <3>1. DropWidget(op, c) = <<>>
      BY <2>1 DEF DropWidget
    <3>. QED
      BY <3>1, WrittenOne
  <2>. QED
    BY <2>1
<1>2. k \in DOMAIN c.tabs
  BY <1>1, TabAtType DEF HasWidget
<1>3. d = x
  <2>1. DropWidget(op, c) = Save(x)
    BY <1>1 DEF DropWidget
  <2>. HIDE DEF x
  <2>. QED
    BY <2>1, WrittenOne
<1>4. w \notin ReadOnlyIds(c)
  <2>1. op.no \notin ReadOnly(c.tabs[k])
    BY <1>1 DEF ReadOnly
  <2>. HIDE DEF k
  <2>. QED
    BY <1>2, <2>1, WidgetAt
<1>5. ReadOnlyIds(x) = ReadOnlyIds(c) \ {w}
  <2>. DEFINE n == op.no
  <2>1. x = [c EXCEPT !.tabs[k].widgets = Take(@, n)] /\ w = <<c.tabs[k].id, n>>
    OBVIOUS
  <2>. HIDE DEF k, n, x, w
  <2>2. ReadOnlyIds([c EXCEPT !.tabs[k].widgets = Take(@, n)]) = ReadOnlyIds(c) \ {<<c.tabs[k].id, n>>}
    BY <1>2, TakeOnes
  <2>. QED
    BY <2>1, <2>2
<1>. HIDE DEF x, w
<1>6. ReadOnlyIds(x) = ReadOnlyIds(c)
  BY <1>4, <1>5
<1>. QED
  BY <1>3, <1>6 DEF Count

LEMMA EditWidgetCounts ==
    ASSUME NEW c \in Sane, NEW op \in Ops, op.kind = "editWidget", Room(op, c),
           NEW d \in WrittenBy(EditWidget(op, c))
    PROVE  Count(d) = Count(c)
<1>. DEFINE k     == TabAt(c, op.tab)
            j     == TabAt(c, op.to)
            fixed == c.tabs[k].widgets[op.no]
            off   == [c EXCEPT !.tabs[k].widgets = Take(@, op.no)]
            x     == [c EXCEPT !.tabs[k].widgets = Take(@, op.no),
                               !.tabs[j].widgets = Put(@, FreeNo(@), fixed)]
            w     == <<c.tabs[k].id, op.no>>
            v     == <<off.tabs[j].id, FreeNo(off.tabs[j].widgets)>>
<1>1. HasWidget(c, op.tab, op.no) /\ op.to \in Ids(c) \cup {None}
  <2>1. ASSUME ~HasWidget(c, op.tab, op.no) \/ op.to \notin Ids(c) \cup {None} PROVE FALSE
    <3>1. EditWidget(op, c) = <<>>
      BY <2>1 DEF EditWidget
    <3>. QED
      BY <3>1, WrittenOne
  <2>. QED
    BY <2>1
<1>2. CASE op.to \in {None, op.tab}
  <2>1. EditWidget(op, c) = Save(c)
    BY <1>1, <1>2 DEF EditWidget
  <2>2. d = c
    BY <2>1, WrittenOne
  <2>. QED
    BY <2>2
<1>3. CASE op.to \notin {None, op.tab}
  <2>1. /\ k \in DOMAIN c.tabs /\ c.tabs[k].id = op.tab /\ op.no \in DOMAIN c.tabs[k].widgets
        /\ j \in DOMAIN c.tabs /\ c.tabs[j].id = op.to /\ j # k
    BY <1>1, <1>3, TabAtType DEF HasWidget
  <2>2. ~Full(c.tabs[j].widgets)
    BY <1>3, <2>1 DEF Room
  <2>3. d = x
    <3>1. EditWidget(op, c) = Save(x)
      BY <1>1, <1>3 DEF EditWidget
    <3>. HIDE DEF x
    <3>. QED
      BY <3>1, WrittenOne
  <2>4. fixed \in BOOLEAN
    <3>1. c.tabs[k].widgets \in WidgetSets
      BY <2>1, SaneFields DEF Tab
    <3>. QED
      BY <2>1, <3>1, WidgetsByDomain
  <2>5. w \in ReadOnlyIds(c) <=> fixed
    <3>1. op.no \in ReadOnly(c.tabs[k]) <=> fixed
      BY <2>1 DEF ReadOnly
    <3>. HIDE DEF k, fixed
    <3>. QED
      BY <2>1, <3>1, WidgetAt
  <2>6. /\ off \in Sane /\ DOMAIN off.tabs = DOMAIN c.tabs /\ off.tabs[j] = c.tabs[j]
        /\ ReadOnlyIds(off) = ReadOnlyIds(c) \ {w}
    <3>. HIDE DEF k, j
    <3>. QED
      BY <2>1, TakeOnes
  <2>7. x = [off EXCEPT !.tabs[j].widgets = Put(@, FreeNo(@), fixed)]
    BY <2>6
  <2>. HIDE DEF k, j, w, x, fixed, off
  <2>8. /\ v \notin ReadOnlyIds(off)
        /\ ReadOnlyIds(x) = IF fixed THEN ReadOnlyIds(off) \cup {v} ELSE ReadOnlyIds(off)
    BY <2>1, <2>2, <2>4, <2>6, <2>7, PutOnes
  <2>. HIDE DEF v
  <2>9. CASE ~fixed
    <3>1. ReadOnlyIds(x) = ReadOnlyIds(c)
      BY <2>5, <2>6, <2>8, <2>9
    <3>. QED
      BY <2>3, <3>1 DEF Count
  <2>10. CASE fixed
    <3>1. IsFiniteSet(ReadOnlyIds(c)) /\ w \in ReadOnlyIds(c)
      BY <2>5, <2>10, FiniteOnes
    <3>2. /\ Cardinality(ReadOnlyIds(off)) = Cardinality(ReadOnlyIds(c)) - 1
          /\ IsFiniteSet(ReadOnlyIds(off))
      BY <2>6, <3>1, FS_RemoveElement
    <3>3. Cardinality(ReadOnlyIds(x)) = Cardinality(ReadOnlyIds(off)) + 1
      BY <2>8, <2>10, <3>2, FS_AddElement
    <3>4. Count(c) \in Nat
      BY FiniteOnes
    <3>. QED
      BY <2>3, <3>2, <3>3, <3>4 DEF Count
  <2>. QED
    BY <2>4, <2>9, <2>10
<1>. QED
  BY <1>2, <1>3

LEMMA SameTabsCount ==
    ASSUME NEW c, NEW d, d.tabs = c.tabs
    PROVE  Count(d) = Count(c)
BY DEF Count, ReadOnlyIds

LEMMA SetPrefsCounts ==
    ASSUME NEW c \in Sane, NEW op \in Ops, op.kind = "prefs", NEW d \in WrittenBy(SetPrefs(op, c))
    PROVE  Count(d) = Count(c)
<1>. DEFINE pub == IF op.public = None THEN c ELSE [c EXCEPT !.public = op.public]
            all == IF op.pref = None THEN pub ELSE [pub EXCEPT !.pref = op.pref]
            t == SetPrefs(op, c)
<1>1. d \in {pub, all}
  <2>1. \A i \in 1..Len(t) : t[i].do = "save" => t[i].c \in {pub, all}
    <3>. HIDE DEF t
    <3>. QED
      BY SetPrefsKeeps DEF t
  <2>2. PICK i \in 1..Len(t) : t[i].do = "save" /\ d = t[i].c
    <3>. HIDE DEF pub, all
    <3>. QED
      BY DEF WrittenBy
  <2>. HIDE DEF pub, all, t
  <2>. QED
    BY <2>1, <2>2
<1>2. pub.tabs = c.tabs
  BY DEF Sane, Contents
<1>3. all.tabs = pub.tabs
  OBVIOUS
<1>. HIDE DEF pub, all
<1>. QED
  BY <1>1, <1>2, <1>3, SameTabsCount

\* Whatever a request may save has as many read-only widgets as what it read.
LEMMA SavedCounts ==
    ASSUME NEW c \in Sane, NEW op \in Ops, Room(op, c), NEW d \in Saved(op, c)
    PROVE  Count(d) = Count(c)
<1>1. CASE op.kind = "addTab"
  BY <1>1, AddTabCounts DEF Saved, Plan
<1>2. CASE op.kind = "editTab"
  BY <1>2, EditTabCounts DEF Saved, Plan
<1>3. CASE op.kind = "dropTab"
  BY <1>3, DropTabCounts DEF Saved, Plan
<1>4. CASE op.kind = "addWidget"
  BY <1>4, AddWidgetCounts DEF Saved, Plan
<1>5. CASE op.kind = "editWidget"
  BY <1>5, EditWidgetCounts DEF Saved, Plan
<1>6. CASE op.kind = "dropWidget"
  BY <1>6, DropWidgetCounts DEF Saved, Plan
<1>7. CASE op.kind \in {"rewire", "patch", "retitle"}
  <2>1. PICK x : Plan(op, c) = Save(x) /\ x.tabs = c.tabs
    <3>1. CASE op.kind = "rewire"
      BY <3>1 DEF Plan, Sane, Contents
    <3>2. CASE op.kind = "patch"
      BY <3>2 DEF Plan, Sane, Contents
    <3>3. CASE op.kind = "retitle"
      BY <3>3 DEF Plan, Sane, Contents
    <3>. QED
      BY <1>7, <3>1, <3>2, <3>3
  <2>2. d = x
    BY <2>1, WrittenOne DEF Saved
  <2>. QED
    BY <2>1, <2>2, SameTabsCount
<1>8. CASE op.kind = "prefs"
  BY <1>8, SetPrefsCounts DEF Saved, Plan
<1>9. CASE op.kind \in {"remove", "view"}
  <2>1. \/ Plan(op, c) = <<[do |-> "delete"], [do |-> "unindex"]>>
        \/ Plan(op, c) = <<[do |-> "view"]>>
    BY <1>9 DEF Plan
  <2>2. WrittenBy(Plan(op, c)) = {}
    BY <2>1 DEF WrittenBy
  <2>. QED
    BY <2>2 DEF Saved
<1>. QED
  BY <1>1, <1>2, <1>3, <1>4, <1>5, <1>6, <1>7, <1>8, <1>9, OpFields

-----------------------------------------------------------------------------
(* The requests in progress, whatever the others have done meanwhile.      *)

CountIn(q, d) ==
    /\ q.mine \in SaneDoc => Count(q.mine.c) = Count(d.c)
    /\ \A i \in 1..Len(q.todo) : q.todo[i].do = "save" => Count(q.todo[i].c) = Count(d.c)
CountInv == doc # Gone => \A r \in Requests : CountIn(req[r], doc)
Counted == doc # Gone /\ doc' # Gone => Count(doc'.c) = Count(doc.c)

LEMMA NoneCounted ==
    ASSUME NEW q, q.todo = <<>>, q.mine = None
    PROVE  \A d : CountIn(q, d)
BY NotDocs DEF CountIn

LEMMA CountsOn ==
    ASSUME NEW q, NEW d, NEW e, CountIn(q, d), Count(e.c) = Count(d.c)
    PROVE  CountIn(q, e)
BY DEF CountIn

\* A step of one request.
LEMMA CountStep ==
    ASSUME IInv, CountInv, Counted, NothingBack, NEW r \in Requests, NEW q, req' = [req EXCEPT ![r] = q],
           doc # Gone => CountIn(q, doc)
    PROVE  CountInv'
<1>. SUFFICES ASSUME doc' # Gone PROVE \A p \in Requests : CountIn(req'[p], doc')
  BY DEF CountInv
<1>1. doc # Gone /\ Count(doc'.c) = Count(doc.c)
  BY DEF NothingBack, Counted
<1>2. ASSUME NEW p \in Requests PROVE CountIn(req'[p], doc)
  BY <1>1, Others DEF CountInv
<1>. QED
  BY <1>1, <1>2, CountsOn

LEMMA LeftCounts ==
    ASSUME NEW q, q.todo \in Seq(SaneStep), q.todo # <<>>, NEW w, w.todo = Tail(q.todo), NEW d,
           CountIn(q, d), w.mine \in SaneDoc => Count(w.mine.c) = Count(d.c)
    PROVE  CountIn(w, d)
<1>1. ASSUME NEW i \in 1..Len(w.todo)
      PROVE  i + 1 \in 1..Len(q.todo) /\ w.todo[i] = q.todo[i + 1]
  BY TailOf
<1>. QED
  BY <1>1 DEF CountIn

LEMMA WriteCounts ==
    ASSUME IInv, CountInv, NothingBack, NEW r \in Requests, NEW kind, Due(r, kind),
           NEW d \in SaneDoc \cup {Gone}, NEW q \in Record, Write(r, d, q),
           q.todo = Tail(req[r].todo), q.mine = req[r].mine,
           doc # Gone /\ d # Gone => Count(d.c) = Count(doc.c)
    PROVE  CountInv' /\ Counted
<1>1. req[r].todo \in Seq(SaneStep) /\ req[r].todo # <<>> /\ doc \in SaneDoc \cup {Gone}
  BY DueType, RecordFields DEF Due, IInv
<1>2. ASSUME NEW w, w.todo = Tail(req[r].todo), w.mine = req[r].mine \/ w.mine = d, doc # Gone
      PROVE  CountIn(w, doc)
  <2>1. CountIn(req[r], doc)
    BY <1>2 DEF CountInv
  <2>2. w.mine \in SaneDoc => Count(w.mine.c) = Count(doc.c)
    BY <1>2, <2>1, NotDocs DEF CountIn
  <2>. QED
    BY <1>1, <1>2, <2>1, <2>2, LeftCounts
<1>3. CASE req' = [req EXCEPT ![r] = q] /\ (UNCHANGED doc \/ doc' = d)
  <2>1. Counted
    BY <1>3 DEF Counted
  <2>. QED
    BY <1>2, <1>3, <2>1, CountStep
<1>4. CASE req' = [req EXCEPT ![r] = [q EXCEPT !.mine = d, !.snap = doc]] /\ UNCHANGED doc
  <2>. DEFINE w == [q EXCEPT !.mine = d, !.snap = doc]
  <2>1. w.todo = q.todo /\ w.mine = d
    BY DEF Record
  <2>2. Counted
    BY <1>4 DEF Counted
  <2>. HIDE DEF w
  <2>3. doc # Gone => CountIn(w, doc)
    BY <1>2, <2>1
  <2>. QED
    BY <1>4, <2>2, <2>3, CountStep DEF w
<1>. QED
  BY <1>3, <1>4 DEF Write

LEMMA NextCount ==
    ASSUME IInv, CountInv, NothingBack, Next
    PROVE  CountInv' /\ Counted
<1>1. ASSUME NEW r \in Requests, NEW op \in Ops, Read(r, op) PROVE CountInv' /\ Counted
  <2>. DEFINE t == Plan(op, doc.c)
              made == IF t # <<>> THEN Made(op, doc.c) ELSE None
              q == [op |-> op, todo |-> t, copy |-> doc, snap |-> doc, mine |-> None,
                    made |-> made]
  <2>1. /\ req' = [req EXCEPT ![r] = q] /\ UNCHANGED doc
        /\ doc # Gone /\ doc \in SaneDoc /\ doc.c \in Sane /\ Room(op, doc.c)
    BY <1>1 DEF Read, IInv, SaneDoc
  <2>2. q.mine = None /\ q.todo = t
    OBVIOUS
  <2>3. \A i \in 1..Len(t) : t[i].do = "save" => t[i].c \in Saved(op, doc.c)
    <3>1. Saved(op, doc.c) = WrittenBy(t)
      BY DEF Saved
    <3>. HIDE DEF t
    <3>. QED
      BY <3>1 DEF WrittenBy
  <2>. HIDE DEF q, t
  <2>4. CountIn(q, doc)
    BY <2>1, <2>2, <2>3, SavedCounts, NotDocs DEF CountIn
  <2>5. Counted
    BY <2>1 DEF Counted
  <2>. QED
    BY <2>1, <2>4, <2>5, CountStep
<1>2. ASSUME NEW r \in Requests, SaveStep(r) PROVE CountInv' /\ Counted
  <2>. DEFINE copy == [c |-> Head(req[r].todo).c, lm |-> now + 1, raw |-> FALSE]
              q == [Rest(r) EXCEPT !.copy = copy]
  <2>1. Due(r, "save") /\ Write(r, copy, q)
    BY <1>2 DEF SaveStep
  <2>2. /\ Rest(r) \in Record /\ Rest(r).mine = req[r].mine /\ req[r] \in Record
        /\ Head(req[r].todo) \in SaneStep /\ Head(req[r].todo).do = "save"
    BY <2>1, DueType
  <2>3. copy \in SaneDoc /\ copy.c = Head(req[r].todo).c
    BY <2>2, StepFields DEF IInv, SaneDoc
  <2>4. Rest(r).todo = Tail(req[r].todo)
    BY <2>2 DEF Rest, Record
  <2>. HIDE DEF copy
  <2>5. q \in Record /\ q.todo = Tail(req[r].todo) /\ q.mine = req[r].mine
    BY <2>2, <2>3, <2>4 DEF Record
  <2>6. 1 \in 1..Len(req[r].todo) /\ req[r].todo[1] = Head(req[r].todo)
    <3>1. req[r].todo \in Seq(SaneStep) /\ req[r].todo # <<>>
      BY <2>1, <2>2, RecordFields DEF Due
    <3>. QED
      BY <3>1
  <2>7. doc # Gone => Count(copy.c) = Count(doc.c)
    BY <2>2, <2>3, <2>6 DEF CountInv, CountIn
  <2>. HIDE DEF q
  <2>. QED
    BY <2>1, <2>3, <2>5, <2>7, WriteCounts
<1>3. ASSUME NEW r \in Requests, UsersStep(r) PROVE CountInv' /\ Counted
  <2>. DEFINE U == Head(req[r].todo).users
              d == [Seen(r) EXCEPT !.c.users = U, !.raw = U # {}]
              q == Rest(r)
  <2>1. Due(r, "users") /\ Write(r, d, q)
    BY <1>3 DEF UsersStep
  <2>2. /\ q \in Record /\ q.mine = req[r].mine /\ req[r] \in Record
        /\ Head(req[r].todo) \in SaneStep /\ Head(req[r].todo).do = "users"
    BY <2>1, DueType
  <2>3. q.todo = Tail(req[r].todo)
    BY <2>2 DEF Rest, Record
  <2>4. Seen(r) \in SaneDoc => d \in SaneDoc /\ d.c.tabs = Seen(r).c.tabs
    <3>1. U \subseteq Users
      BY <2>2, StepFields
    <3>. QED
      BY <3>1 DEF SaneDoc, Sane, Contents
  <2>5. Seen(r) \in SaneDoc \cup {Gone}
    BY <2>2, RecordFields DEF Seen, IInv
  <2>. HIDE DEF d, q
  <2>6. CASE Seen(r) = Gone
    <3>1. req' = [req EXCEPT ![r] = q] /\ UNCHANGED doc
      BY <2>1, <2>6 DEF Write
    <3>2. Write(r, Gone, q)
      BY <2>6, <3>1 DEF Write
    <3>. QED
      BY <2>1, <2>2, <2>3, <3>2, WriteCounts
  <2>7. CASE Seen(r) # Gone
    <3>1. doc # Gone => Count(Seen(r).c) = Count(doc.c)
      BY <2>5, <2>7 DEF Seen, CountInv, CountIn
    <3>2. Count(d.c) = Count(Seen(r).c)
      BY <2>4, <2>5, <2>7, SameTabsCount
    <3>. QED
      BY <2>1, <2>2, <2>3, <2>4, <2>5, <2>7, <3>1, <3>2, WriteCounts
  <2>. QED
    BY <2>6, <2>7
<1>4. ASSUME NEW r \in Requests, DeleteStep(r) PROVE CountInv' /\ Counted
  <2>1. Due(r, "delete") /\ Write(r, Gone, Rest(r))
    BY <1>4 DEF DeleteStep
  <2>2. Rest(r) \in Record /\ Rest(r).mine = req[r].mine /\ req[r] \in Record
    BY <2>1, DueType
  <2>3. Rest(r).todo = Tail(req[r].todo)
    BY <2>2 DEF Rest, Record
  <2>. QED
    BY <2>1, <2>2, <2>3, WriteCounts
<1>5. ASSUME NEW r \in Requests, IndexStep(r) \/ UnindexStep(r) \/ ViewStep(r)
      PROVE  CountInv' /\ Counted
  <2>1. PICK kind : Due(r, kind) /\ req' = [req EXCEPT ![r] = Rest(r)] /\ UNCHANGED doc
    BY <1>5 DEF IndexStep, UnindexStep, ViewStep
  <2>2. Rest(r) \in Record /\ Rest(r).mine = req[r].mine /\ req[r] \in Record
    BY <2>1, DueType
  <2>3. /\ Rest(r).todo = Tail(req[r].todo)
        /\ req[r].todo \in Seq(SaneStep) /\ req[r].todo # <<>>
    BY <2>1, <2>2, RecordFields DEF Rest, Record, Due
  <2>4. doc # Gone => CountIn(Rest(r), doc)
    <3>1. doc # Gone => CountIn(req[r], doc)
      BY DEF CountInv
    <3>. QED
      BY <2>2, <2>3, <3>1, LeftCounts DEF CountIn
  <2>5. Counted
    BY <2>1 DEF Counted
  <2>. QED
    BY <2>1, <2>4, <2>5, CountStep
<1>6. ASSUME NEW r \in Requests, NEW q, req' = [req EXCEPT ![r] = q], doc' = Committed(r), Busy(r),
             q.mine = None, q.todo = <<>> \/ (req[r].todo # <<>> /\ q.todo = Tail(req[r].todo))
      PROVE  CountInv' /\ Counted
  <2>1. req[r] \in Record /\ doc \in SaneDoc \cup {Gone}
    BY <1>6 DEF Busy, IInv
  <2>2. req[r].todo \in Seq(SaneStep) /\ req[r].mine \in SaneDoc \cup {None, Gone}
    BY <2>1, RecordFields
  <2>3. Counted
    BY <1>6, <2>2 DEF Committed, Counted, CountInv, CountIn
  <2>4. doc # Gone => CountIn(q, doc)
    <3>1. CASE q.todo = <<>>
      BY <1>6, <3>1, NoneCounted
    <3>2. CASE req[r].todo # <<>> /\ q.todo = Tail(req[r].todo)
      <4>1. doc # Gone => CountIn(req[r], doc)
        BY DEF CountInv
      <4>. QED
        BY <1>6, <2>2, <3>2, <4>1, LeftCounts, NotDocs
    <3>. QED
      BY <1>6, <3>1, <3>2
  <2>. QED
    BY <1>6, <2>3, <2>4, CountStep
<1>7. ASSUME NEW r \in Requests, CommitStep(r) PROVE CountInv' /\ Counted
  <2>. DEFINE q == [Rest(r) EXCEPT !.mine = None, !.snap = None]
  <2>1. Due(r, "commit") /\ req' = [req EXCEPT ![r] = q] /\ doc' = Committed(r)
    BY <1>7 DEF CommitStep
  <2>2. Rest(r) \in Record /\ req[r] \in Record
    BY <2>1, DueType
  <2>3. Rest(r).todo = Tail(req[r].todo)
    BY <2>2 DEF Rest, Record
  <2>4. q.mine = None /\ q.todo = Tail(req[r].todo)
    BY <2>2, <2>3 DEF Record
  <2>. HIDE DEF q
  <2>. QED
    BY <1>6, <2>1, <2>4 DEF Due
<1>8. ASSUME NEW r \in Requests, Finish(r) PROVE CountInv' /\ Counted
  BY <1>6, <1>8, IdleFields DEF Finish, Finished
<1>9. ASSUME NEW r \in Requests, Abort(r) PROVE CountInv' /\ Counted
  <2>1. req' = [req EXCEPT ![r] = Idle] /\ UNCHANGED doc
    BY <1>9 DEF Abort
  <2>2. CountIn(Idle, doc)
    BY IdleFields, NoneCounted
  <2>3. Counted
    BY <2>1 DEF Counted
  <2>. QED
    BY <2>1, <2>2, <2>3, CountStep
<1>. QED
  BY <1>1, <1>2, <1>3, <1>4, <1>5, <1>7, <1>8, <1>9 DEF Next, Conflict, Fail

\* Read-only widgets go with the workspace only: whichever requests run at
\* once, commit or fail, with transactions or without them, the document keeps
\* as many as it has (delete_widget_instance_entry and delete_tab_entry refuse
\* to remove them, update_widget_instance moves them as they are, and the
\* documents the other handlers save have those of the document they read).
THEOREM ReadOnlyAlwaysKept == Spec => ReadOnlyKept
<1>. DEFINE Inv == IInv /\ WriterInv /\ CountInv
<1>1. Init => Inv
  <2>1. ASSUME Init PROVE CountInv
    <3>1. req = [r \in Requests |-> Idle]
      BY <2>1 DEF Init
    <3>2. CountIn(Idle, doc)
      BY IdleFields, NoneCounted
    <3>. QED
      BY <3>1, <3>2 DEF CountInv
  <2>. QED
    BY <2>1, InitIInv, InitWriter
<1>2. Inv /\ [Next]_vars => Inv' /\ [Counted]_doc
  <2>. SUFFICES ASSUME Inv, [Next]_vars PROVE Inv' /\ [Counted]_doc
    OBVIOUS
  <2>1. IInv' /\ WriterInv' /\ NothingBack
    BY NextIInv, NextWriter
  <2>2. CASE Next
    BY <2>1, <2>2, NextCount
  <2>3. CASE UNCHANGED vars
    BY <2>1, <2>3 DEF vars, CountInv
  <2>. QED
    BY <2>1, <2>2, <2>3
<1>3. [Counted]_doc =>
         [doc # Gone /\ doc' # Gone =>
             Cardinality(ReadOnlyIds(doc'.c)) = Cardinality(ReadOnlyIds(doc.c))]_doc
  BY DEF Counted, Count
<1>. QED
  BY <1>1, <1>2, <1>3, PTL DEF Spec, ReadOnlyKept
=============================================================================
