----------------------------- MODULE TabProofs -----------------------------
(***************************************************************************)
(* The browser has the tabs and the widgets the server has (MirrorsServer  *)
(* of WorkspaceTabs), for any numbers of tabs, of widgets and of requests. *)
(***************************************************************************)
EXTENDS WorkspaceTabs, FiniteSetTheorems, FunctionTheorems, WellFoundedInduction, TLAPS

-----------------------------------------------------------------------------
(* The tabs of WorkspaceTabs.  Nothing is required of a state that went    *)
(* astray: the model stops there.                                          *)

\* A document of the server, where no two tabs have an id in common.
Stored(c) ==
    /\ c \in Server!Contents
    /\ \A j, k \in DOMAIN c.tabs : c.tabs[j].id = c.tabs[k].id => j = k

\* Requests that were served, and whose answers are on their way.
Answered(op) == {q \in flight : q.op = op /\ q.answer = "done"}
Moving(w) == {q \in Answered("moveWidget") : q.widget = w}
Leaving(T) == \E q \in Answered("dropTab") : q.tab = T

\* A request names what its objects are known by: an object that is being
\* created is not known yet, and no other request names it.
Addressed(q) ==
    /\ q = [n |-> q.n, op |-> q.op, tab |-> q.tab, widget |-> q.widget,
            at |-> q.at, answer |-> q.answer, made |-> q.made]
    /\ \/ /\ q.op = "addTab" /\ q.tab \in Tabs /\ q.widget = NotThere
          /\ tabId[q.tab] = NotThere /\ \A p \in flight : p.tab = q.tab => p = q
       \/ /\ q.op = "dropTab" /\ q.tab \in Tabs /\ q.widget = NotThere
          /\ q.at = tabId[q.tab] /\ q.at # NotThere
       \/ /\ q.op = "addWidget" /\ q.tab \in Tabs /\ q.widget \in WidgetObjects
          /\ q.at = tabId[q.tab] /\ q.at # NotThere
          /\ widgetId[q.widget] = NotThere /\ \A p \in flight : p.widget = q.widget => p = q
       \/ /\ q.op = "moveWidget" /\ q.tab \in Tabs /\ q.widget \in WidgetObjects
          /\ tabId[q.tab] # NotThere
          /\ q.at[2] = widgetId[q.widget] /\ q.at[2] # NotThere
       \/ /\ q.op = "dropWidget" /\ q.tab = NotThere /\ q.widget \in WidgetObjects
          /\ q.at[2] = widgetId[q.widget] /\ q.at[2] # NotThere

Named ==
    /\ Stored(document)
    /\ tabList \in Seq(Tabs) /\ \A j, k \in DOMAIN tabList : tabList[j] = tabList[k] => j = k
    /\ tabId \in [Tabs -> Server!TabId \cup {NotThere}] /\ \A T \in Shown : tabId[T] # NotThere
    /\ known \subseteq WidgetObjects /\ \A w \in known : widgetId[w] # NotThere
    /\ widgetId \in [WidgetObjects -> (Server!TabId \X Server!WidgetNo) \cup {NotThere}]
    /\ widgetTab \in [WidgetObjects -> Tabs \cup {NotThere}]
    /\ \A q \in flight : Addressed(q)

\* Each tab of the server stands for a tab object that shows it or will, and
\* each tab that is shown is stored, or its removal is on its way.
TabsMeet ==
    /\ tabAt \in [Server!TabId -> Tabs \cup {NotThere}]
    /\ \A i \in StoredTabs : \/ tabAt[i] \in Shown /\ tabId[tabAt[i]] = i
                             \/ \E q \in Answered("addTab") : q.tab = tabAt[i] /\ q.made = i
    /\ \A T \in Shown : (tabId[T] \in StoredTabs /\ tabAt[tabId[T]] = T) \/ Leaving(T)
    /\ \A q \in Answered("addTab") : q.made \in StoredTabs /\ tabAt[q.made] = q.tab
    /\ \A q \in Answered("dropTab") :
          /\ q.tab \in Shown /\ \A i \in StoredTabs : tabAt[i] # q.tab
          /\ \A p \in Answered("dropTab") : p.tab = q.tab => p = q

\* The tab that a widget is in or, if it was moved, will be in.
Heads(w, T) ==
    \/ Moving(w) = {} /\ T = widgetTab[w]
    \/ \E q \in Moving(w) : q.tab = T

\* The server does not have the widget any more, and the browser will know.
Going(w) ==
    \/ \E q \in Answered("dropWidget") : q.widget = w
    \/ \E T \in Tabs : Heads(w, T) /\ (Leaving(T) \/ (Moving(w) # {} /\ T \notin Shown))

WidgetsMeet ==
    /\ place \in [WidgetObjects -> StoredWidgets \cup {NotThere}]
    /\ \A v, w \in WidgetObjects : place[v] = place[w] /\ place[v] # NotThere => v = w
    /\ \A p \in StoredWidgets : \E w \in WidgetObjects : place[w] = p
    /\ \A w \in WidgetObjects : place[w] # NotThere =>
          w \in known \/ \E q \in Answered("addWidget") : q.widget = w
    /\ \A w \in known : IF place[w] # NotThere THEN Heads(w, tabAt[place[w][1]]) ELSE Going(w)
    /\ \A q \in Answered("addWidget") :
          /\ q.made \in (Server!TabId \X Server!WidgetNo)
          /\ IF place[q.widget] # NotThere THEN tabAt[place[q.widget][1]] = q.tab
             ELSE q.tab \in Shown => Leaving(q.tab)
    /\ \A q \in Answered("moveWidget") :
          /\ place[q.widget] # widgetId[q.widget]
          /\ \A p \in Answered("moveWidget") : p.widget = q.widget => p = q
    /\ \A q \in Answered("dropWidget") : place[q.widget] = NotThere

TabsInv == Named /\ TabsMeet /\ WidgetsMeet

-----------------------------------------------------------------------------
(* What the server makes of its document.                                  *)

LEMMA LeastOf ==
    ASSUME NEW S \in SUBSET Nat, S # {}
    PROVE  Min(S) \in S /\ \A y \in S : Min(S) <= y
<1>1. PICK x \in S : \A y \in S : ~ (<<y, x>> \in OpToRel(<, Nat))
  BY NatLessThanWellFounded, WFMin
<1>2. \A y \in S : ~(y < x)
  BY <1>1, Zenon DEF OpToRel
<1>3. \A y \in S : x <= y
  BY <1>2
<1>. QED
  BY <1>3 DEF Min

LEMMA StoredFields ==
    ASSUME NEW c, Stored(c)
    PROVE  /\ c.tabs \in Seq(Server!Tab) /\ Len(c.tabs) \in Nat /\ DOMAIN c.tabs = 1..Len(c.tabs)
           /\ \A k \in DOMAIN c.tabs : c.tabs[k] \in Server!Tab
           /\ \A j, k \in DOMAIN c.tabs : c.tabs[j].id = c.tabs[k].id => j = k
BY DEF Stored, Server!Contents

LEMMA OtherTabs ==
    ASSUME NEW c, Stored(c), NEW tabs \in Seq(Server!Tab),
           \A j, k \in DOMAIN tabs : tabs[j].id = tabs[k].id => j = k
    PROVE  Stored([c EXCEPT !.tabs = tabs]) /\ [c EXCEPT !.tabs = tabs].tabs = tabs
BY DEF Stored, Server!Contents

LEMMA IdsElim ==
    ASSUME NEW c
    PROVE  /\ \A i : i \in Server!Ids(c) <=> \E k \in DOMAIN c.tabs : c.tabs[k].id = i
           /\ \A i, n : <<i, n>> \in Server!WidgetIds(c) <=>
                  \E k \in DOMAIN c.tabs : c.tabs[k].id = i /\ n \in DOMAIN c.tabs[k].widgets
           /\ \A w \in Server!WidgetIds(c) : w = <<w[1], w[2]>>
BY DEF Server!Ids, Server!WidgetIds, Server!TabWidgets

LEMMA TabFields ==
    ASSUME NEW t \in Server!Tab
    PROVE  /\ t.id \in Server!TabId /\ t.widgets \in Server!WidgetSets
           /\ DOMAIN t.widgets \subseteq Server!WidgetNo
BY DEF Server!Tab, Server!WidgetSets

LEMMA StoredIds ==
    ASSUME NEW c, Stored(c)
    PROVE  /\ Server!Ids(c) \subseteq Server!TabId
           /\ Server!WidgetIds(c) \subseteq Server!TabId \X Server!WidgetNo
           /\ \A w \in Server!WidgetIds(c) : w[1] \in Server!Ids(c)
<1>1. ASSUME NEW i \in Server!Ids(c) PROVE i \in Server!TabId
  BY <1>1, IdsElim, StoredFields, TabFields
<1>2. ASSUME NEW w \in Server!WidgetIds(c)
      PROVE  w \in Server!TabId \X Server!WidgetNo /\ w[1] \in Server!Ids(c)
  <2>1. w = <<w[1], w[2]>>
    BY <1>2, IdsElim
  <2>2. PICK k \in DOMAIN c.tabs : c.tabs[k].id = w[1] /\ w[2] \in DOMAIN c.tabs[k].widgets
    BY <1>2, <2>1, IdsElim
  <2>3. w[1] \in Server!TabId /\ w[2] \in Server!WidgetNo
    BY <2>2, StoredFields, TabFields
  <2>4. w[1] \in Server!Ids(c)
    BY <2>2, IdsElim
  <2>. QED
    BY <2>1, <2>3, <2>4
<1>. QED
  BY <1>1, <1>2

\* As many tabs as ids.
LEMMA CountIds ==
    ASSUME NEW c, Stored(c)
    PROVE  IsFiniteSet(Server!Ids(c)) /\ Cardinality(Server!Ids(c)) = Len(c.tabs)
<1>. DEFINE n == Len(c.tabs)
            D == 1..n
            f == [k \in D |-> c.tabs[k].id]
<1>1. n \in Nat /\ DOMAIN c.tabs = D
  BY StoredFields
<1>2. f \in Bijection(D, Server!Ids(c))
  <2>1. \A k \in D : f[k] \in Server!Ids(c)
    BY <1>1, IdsElim
  <2>2. \A j, k \in D : f[j] = f[k] => j = k
    BY <1>1, StoredFields
  <2>3. \A i \in Server!Ids(c) : \E k \in D : f[k] = i
    BY <1>1, IdsElim
  <2>4. f \in [D -> Server!Ids(c)]
    BY <2>1
  <2>. HIDE DEF f, D
  <2>. QED
    BY <2>2, <2>3, <2>4, Fun_IsBij
<1>3. IsFiniteSet(D) /\ Cardinality(D) = n
  <2>1. \A b \in Nat : IsFiniteSet(1..b) /\ Cardinality(1..b) = b
    BY FS_Interval
  <2>. QED
    BY <1>1, <2>1
<1>4. ExistsBijection(D, Server!Ids(c))
  BY <1>2 DEF ExistsBijection
<1>. QED
  BY <1>3, <1>4, FS_Bijection

LEMMA FreeIdFree ==
    ASSUME NEW c, Stored(c), Len(c.tabs) < TabLimit
    PROVE  Server!FreeId(c) \in Server!TabId \ Server!Ids(c)
<1>. DEFINE S == Server!TabId \ Server!Ids(c)
<1>1. TabLimit \in Nat /\ TabLimit > 1 /\ Server!TabId = 0..(TabLimit - 1)
  BY TabBounds DEF Server!TabId
<1>2. S # {}
  <2>1. SUFFICES ASSUME S = {} PROVE FALSE
    OBVIOUS
  <2>2. Server!Ids(c) = Server!TabId
    BY <2>1, StoredIds
  <2>3. Cardinality(Server!TabId) = TabLimit
    <3>1. \A b \in Int : b >= 0 => Cardinality(0..b) = b + 1
      BY FS_Interval
    <3>2. TabLimit - 1 \in Int /\ TabLimit - 1 >= 0 /\ (TabLimit - 1) + 1 = TabLimit
      BY <1>1
    <3>. QED
      BY <1>1, <3>1, <3>2
  <2>. QED
    BY <1>1, <2>2, <2>3, CountIds, StoredFields
<1>3. S \in SUBSET Nat
  BY <1>1
<1>. HIDE DEF S
<1>4. PICK i : i \in S /\ \A y \in S : i <= y
  BY <1>2, <1>3, LeastOf
<1>5. i \in Server!TabId /\ i \notin Server!Ids(c) /\ 0..(i - 1) \subseteq Server!Ids(c)
  <2>1. i \in Server!TabId /\ i \notin Server!Ids(c)
    BY <1>4 DEF S
  <2>2. ASSUME NEW j \in 0..(i - 1), j \notin Server!Ids(c) PROVE FALSE
    <3>1. j \in Server!TabId /\ ~(i <= j)
      BY <1>1, <2>1, <2>2
    <3>2. j \in S
      BY <2>2, <3>1 DEF S
    <3>. QED
      BY <1>4, <3>1, <3>2
  <2>. QED
    BY <2>1, <2>2
<1>. QED
  BY <1>5 DEF Server!FreeId

LEMMA FreeNoFree ==
    ASSUME NEW w \in Server!WidgetSets, ~Server!Full(w)
    PROVE  Server!FreeNo(w) \in Server!WidgetNo /\ Server!FreeNo(w) \notin DOMAIN w
<1>. DEFINE S == Server!WidgetNo \ DOMAIN w
<1>1. WidgetLimit \in Nat /\ Server!WidgetNo = 0..(WidgetLimit - 1)
  BY TabBounds DEF Server!WidgetNo
<1>2. S # {} /\ S \in SUBSET Nat
  <2>1. DOMAIN w \subseteq Server!WidgetNo
    BY DEF Server!WidgetSets
  <2>2. DOMAIN w # Server!WidgetNo
    BY DEF Server!Full
  <2>3. PICK n \in Server!WidgetNo : n \notin DOMAIN w
    BY <2>1, <2>2
  <2>. QED
    BY <1>1, <2>3
<1>. HIDE DEF S
<1>3. PICK i : i \in S /\ \A y \in S : i <= y
  BY <1>2, LeastOf
<1>4. i \in Server!WidgetNo /\ i \notin DOMAIN w /\ 0..(i - 1) \subseteq DOMAIN w
  <2>1. i \in Server!WidgetNo /\ i \notin DOMAIN w
    BY <1>3 DEF S
  <2>2. ASSUME NEW j \in 0..(i - 1), j \notin DOMAIN w PROVE FALSE
    <3>1. j \in Server!WidgetNo /\ ~(i <= j)
      BY <1>1, <2>1, <2>2
    <3>2. j \in S
      BY <2>2, <3>1 DEF S
    <3>. QED
      BY <1>3, <3>1, <3>2
  <2>. QED
    BY <2>1, <2>2
<1>. QED
  BY <1>4 DEF Server!FreeNo

\* Tabs changed, each of which keeps its id.
LEMMA SameIds ==
    ASSUME NEW c, Stored(c), NEW f, DOMAIN f = DOMAIN c.tabs, f = [k \in DOMAIN f |-> f[k]],
           \A k \in DOMAIN c.tabs : f[k] \in Server!Tab /\ f[k].id = c.tabs[k].id
    PROVE  /\ Stored([c EXCEPT !.tabs = f]) /\ [c EXCEPT !.tabs = f].tabs = f
           /\ Server!Ids([c EXCEPT !.tabs = f]) = Server!Ids(c)
<1>1. PICK n \in Nat : DOMAIN c.tabs = 1..n
  BY StoredFields
<1>2. f \in Seq(Server!Tab)
  BY <1>1
<1>3. \A j, k \in DOMAIN f : f[j].id = f[k].id => j = k
  BY StoredFields
<1>. DEFINE d == [c EXCEPT !.tabs = f]
<1>4. Stored(d) /\ d.tabs = f
  BY <1>2, <1>3, OtherTabs
<1>. HIDE DEF d
<1>5. Server!Ids(d) = Server!Ids(c)
  BY <1>4 DEF Server!Ids
<1>. QED
  BY <1>4, <1>5 DEF d

\* A tab gets a widget, with a number of its own there.
LEMMA PutWidget ==
    ASSUME NEW c, Stored(c), NEW i, NEW fixed \in BOOLEAN,
           \E k \in DOMAIN c.tabs : c.tabs[k].id = i /\ ~Server!Full(c.tabs[k].widgets)
    PROVE  LET d == Server!Put(c, i, fixed)
           IN  /\ Stored(d) /\ Server!Ids(d) = Server!Ids(c)
               /\ \E p : /\ p \notin Server!WidgetIds(c) /\ p[1] = i
                         /\ Server!WidgetIds(d) = Server!WidgetIds(c) \cup {p}
<1>1. PICK k \in DOMAIN c.tabs : c.tabs[k].id = i /\ ~Server!Full(c.tabs[k].widgets)
  OBVIOUS
<1>2. PICK n : n = Server!FreeNo(c.tabs[k].widgets)
  OBVIOUS
<1>3. n \in Server!WidgetNo /\ n \notin DOMAIN c.tabs[k].widgets
  BY <1>1, <1>2, StoredFields, TabFields, FreeNoFree
<1>4. \A j \in DOMAIN c.tabs : c.tabs[j].id = i <=> j = k
  BY <1>1, StoredFields
<1>. DEFINE full == Server!Filled(c.tabs[k].widgets, fixed)
            f == [j \in DOMAIN c.tabs |-> IF c.tabs[j].id = i
                     THEN [c.tabs[j] EXCEPT !.widgets = Server!Filled(@, fixed)] ELSE c.tabs[j]]
            d == [c EXCEPT !.tabs = f]
<1>5. Server!Put(c, i, fixed) = d
  BY DEF Server!Put
<1>6. full \in Server!WidgetSets /\ DOMAIN full = DOMAIN c.tabs[k].widgets \cup {n}
  <2>1. PICK w : w = c.tabs[k].widgets
    OBVIOUS
  <2>2. PICK D \in SUBSET Server!WidgetNo : w \in [D -> BOOLEAN]
    <3>1. w \in Server!WidgetSets
      BY <2>1, StoredFields, TabFields
    <3>. QED
      BY <3>1 DEF Server!WidgetSets
  <2>3. full \in [D \cup {n} -> BOOLEAN]
    BY <1>2, <1>3, <2>1, <2>2 DEF Server!Filled
  <2>4. D \cup {n} \in SUBSET Server!WidgetNo
    BY <1>3, <2>2
  <2>. HIDE DEF full
  <2>. QED
    BY <2>1, <2>2, <2>3, <2>4 DEF Server!WidgetSets
<1>7. \A j \in DOMAIN c.tabs : f[j] = IF j = k THEN [c.tabs[k] EXCEPT !.widgets = full] ELSE c.tabs[j]
  BY <1>4
<1>8. DOMAIN f = DOMAIN c.tabs /\ f = [j \in DOMAIN f |-> f[j]]
  OBVIOUS
<1>. HIDE DEF full, f
<1>9. \A j \in DOMAIN c.tabs : /\ f[j] \in Server!Tab /\ f[j].id = c.tabs[j].id
                               /\ DOMAIN f[j].widgets = IF j = k THEN DOMAIN c.tabs[k].widgets \cup {n}
                                                        ELSE DOMAIN c.tabs[j].widgets
  BY <1>6, <1>7, StoredFields DEF Server!Tab
<1>10. Stored(d) /\ d.tabs = f /\ Server!Ids(d) = Server!Ids(c)
  BY <1>8, <1>9, SameIds
<1>. HIDE DEF d
<1>11. <<i, n>> \notin Server!WidgetIds(c)
  BY <1>3, <1>4, IdsElim
<1>12. \A h, m : <<h, m>> \in Server!WidgetIds(d) <=> <<h, m>> \in Server!WidgetIds(c) \/ (h = i /\ m = n)
  <2>1. /\ \A h, m : <<h, m>> \in Server!WidgetIds(c) <=>
                \E j \in DOMAIN c.tabs : c.tabs[j].id = h /\ m \in DOMAIN c.tabs[j].widgets
        /\ \A h, m : <<h, m>> \in Server!WidgetIds(d) <=>
                \E j \in DOMAIN c.tabs : f[j].id = h /\ m \in DOMAIN f[j].widgets
    BY <1>8, <1>10, IdsElim
  <2>2. ASSUME NEW h, NEW m
        PROVE  <<h, m>> \in Server!WidgetIds(d) <=> <<h, m>> \in Server!WidgetIds(c) \/ (h = i /\ m = n)
    <3>1. ASSUME NEW j \in DOMAIN c.tabs, f[j].id = h, m \in DOMAIN f[j].widgets
          PROVE  <<h, m>> \in Server!WidgetIds(c) \/ (h = i /\ m = n)
      <4>1. c.tabs[j].id = h /\ (j = k \/ m \in DOMAIN c.tabs[j].widgets)
        BY <1>9, <3>1
      <4>2. m \in DOMAIN c.tabs[j].widgets \/ (h = i /\ m = n)
        BY <1>1, <1>9, <3>1, <4>1
      <4>. QED
        BY <2>1, <4>1, <4>2
    <3>2. ASSUME NEW j \in DOMAIN c.tabs, c.tabs[j].id = h, m \in DOMAIN c.tabs[j].widgets
          PROVE  <<h, m>> \in Server!WidgetIds(d)
      <4>1. f[j].id = h /\ m \in DOMAIN f[j].widgets
        BY <1>9, <3>2
      <4>. QED
        BY <2>1, <4>1
    <3>3. ASSUME h = i, m = n PROVE <<h, m>> \in Server!WidgetIds(d)
      <4>1. f[k].id = h /\ m \in DOMAIN f[k].widgets
        BY <1>1, <1>9, <3>3
      <4>. QED
        BY <2>1, <4>1
    <3>. QED
      BY <2>1, <3>1, <3>2, <3>3
  <2>. QED
    BY <2>2
<1>13. ASSUME NEW w PROVE w \in Server!WidgetIds(d) <=> w \in Server!WidgetIds(c) \cup {<<i, n>>}
  <2>1. w \in Server!WidgetIds(d) \cup Server!WidgetIds(c) => w = <<w[1], w[2]>>
    BY IdsElim
  <2>2. w = <<w[1], w[2]>> => (w \in Server!WidgetIds(d) <=> w \in Server!WidgetIds(c) \/ w = <<i, n>>)
    BY <1>12
  <2>. QED
    BY <1>12, <2>1, <2>2
<1>14. Server!WidgetIds(d) = Server!WidgetIds(c) \cup {<<i, n>>} /\ <<i, n>>[1] = i
  BY <1>13
<1>. QED
  BY <1>5, <1>10, <1>11, <1>14

\* A widget leaves its tab.
LEMMA TakeWidget ==
    ASSUME NEW c, Stored(c), NEW i, NEW n
    PROVE  LET d == Server!Taken(c, i, n)
           IN  /\ Stored(d) /\ Server!Ids(d) = Server!Ids(c)
               /\ Server!WidgetIds(d) = Server!WidgetIds(c) \ {<<i, n>>}
               /\ \A k \in DOMAIN c.tabs : /\ k \in DOMAIN d.tabs /\ d.tabs[k].id = c.tabs[k].id
                                           /\ c.tabs[k].id # i => d.tabs[k] = c.tabs[k]
<1>. DEFINE f == [j \in DOMAIN c.tabs |-> IF c.tabs[j].id = i
                     THEN [c.tabs[j] EXCEPT !.widgets = Server!Restrict(@, DOMAIN @ \ {n})] ELSE c.tabs[j]]
            d == [c EXCEPT !.tabs = f]
<1>1. Server!Taken(c, i, n) = d
  BY DEF Server!Taken
<1>2. ASSUME NEW j \in DOMAIN c.tabs
      PROVE  /\ f[j] \in Server!Tab /\ f[j].id = c.tabs[j].id
             /\ c.tabs[j].id # i => f[j] = c.tabs[j]
             /\ DOMAIN f[j].widgets = DOMAIN c.tabs[j].widgets \ {m \in {n} : c.tabs[j].id = i}
  <2>1. PICK w : w = c.tabs[j].widgets
    OBVIOUS
  <2>. DEFINE less == Server!Restrict(w, DOMAIN w \ {n})
  <2>2. PICK D \in SUBSET Server!WidgetNo : w \in [D -> BOOLEAN]
    <3>1. w \in Server!WidgetSets
      BY <2>1, StoredFields, TabFields
    <3>. QED
      BY <3>1 DEF Server!WidgetSets
  <2>3. less \in [D \ {n} -> BOOLEAN] /\ D \ {n} \in SUBSET Server!WidgetNo
    BY <2>2 DEF Server!Restrict
  <2>4. f[j] = IF c.tabs[j].id = i THEN [c.tabs[j] EXCEPT !.widgets = less] ELSE c.tabs[j]
    BY <2>1
  <2>. HIDE DEF less, f
  <2>5. less \in Server!WidgetSets /\ DOMAIN less = DOMAIN w \ {n}
    BY <2>2, <2>3 DEF Server!WidgetSets
  <2>. QED
    BY <2>1, <2>4, <2>5, StoredFields DEF Server!Tab
<1>3. DOMAIN f = DOMAIN c.tabs /\ f = [j \in DOMAIN f |-> f[j]]
  OBVIOUS
<1>. HIDE DEF f
<1>4. Stored(d) /\ d.tabs = f /\ Server!Ids(d) = Server!Ids(c)
  BY <1>2, <1>3, SameIds
<1>. HIDE DEF d
<1>5. \A h, m : <<h, m>> \in Server!WidgetIds(d) <=> <<h, m>> \in Server!WidgetIds(c) /\ ~(h = i /\ m = n)
  <2>1. /\ \A h, m : <<h, m>> \in Server!WidgetIds(c) <=>
                \E j \in DOMAIN c.tabs : c.tabs[j].id = h /\ m \in DOMAIN c.tabs[j].widgets
        /\ \A h, m : <<h, m>> \in Server!WidgetIds(d) <=>
                \E j \in DOMAIN c.tabs : f[j].id = h /\ m \in DOMAIN f[j].widgets
    BY <1>3, <1>4, IdsElim
  <2>2. ASSUME NEW h, NEW m
        PROVE  <<h, m>> \in Server!WidgetIds(d) <=> <<h, m>> \in Server!WidgetIds(c) /\ ~(h = i /\ m = n)
    <3>1. ASSUME NEW j \in DOMAIN c.tabs
          PROVE  f[j].id = h /\ m \in DOMAIN f[j].widgets
                 <=> (c.tabs[j].id = h /\ m \in DOMAIN c.tabs[j].widgets) /\ ~(h = i /\ m = n)
      <4>1. f[j].id = c.tabs[j].id
        BY <1>2
      <4>2. m \in DOMAIN f[j].widgets <=> m \in DOMAIN c.tabs[j].widgets /\ ~(m = n /\ c.tabs[j].id = i)
        BY <1>2
      <4>. QED
        BY <4>1, <4>2
    <3>. QED
      BY <2>1, <3>1
  <2>. QED
    BY <2>2
<1>6. ASSUME NEW w PROVE w \in Server!WidgetIds(d) <=> w \in Server!WidgetIds(c) \ {<<i, n>>}
  <2>1. w \in Server!WidgetIds(d) \cup Server!WidgetIds(c) => w = <<w[1], w[2]>>
    BY IdsElim
  <2>2. w = <<w[1], w[2]>> => (w \in Server!WidgetIds(d) <=> w \in Server!WidgetIds(c) /\ w # <<i, n>>)
    BY <1>5
  <2>. QED
    BY <2>1, <2>2
<1>7. Server!WidgetIds(d) = Server!WidgetIds(c) \ {<<i, n>>}
  BY <1>6
<1>. QED
  BY <1>1, <1>2, <1>3, <1>4, <1>7

\* Only what is visible changes.
LEMMA ShowTab ==
    ASSUME NEW c, Stored(c), NEW i
    PROVE  LET d == Server!Showing(c, i)
           IN  Stored(d) /\ Server!Ids(d) = Server!Ids(c) /\ Server!WidgetIds(d) = Server!WidgetIds(c)
<1>. DEFINE f == [k \in DOMAIN c.tabs |-> [c.tabs[k] EXCEPT !.visible = (c.tabs[k].id = i)]]
            d == [c EXCEPT !.tabs = f]
<1>1. Server!Showing(c, i) = d
  BY DEF Server!Showing
<1>2. \A k \in DOMAIN c.tabs : /\ f[k] \in Server!Tab /\ f[k].id = c.tabs[k].id
                               /\ f[k].widgets = c.tabs[k].widgets
  <2>1. \A t \in Server!Tab, b \in BOOLEAN :
           /\ [t EXCEPT !.visible = b] \in Server!Tab
           /\ [t EXCEPT !.visible = b].id = t.id /\ [t EXCEPT !.visible = b].widgets = t.widgets
    BY DEF Server!Tab
  <2>2. ASSUME NEW k \in DOMAIN c.tabs
        PROVE  f[k] \in Server!Tab /\ f[k].id = c.tabs[k].id /\ f[k].widgets = c.tabs[k].widgets
    <3>1. c.tabs[k] \in Server!Tab /\ (c.tabs[k].id = i) \in BOOLEAN
      BY StoredFields
    <3>. QED
      BY <2>1, <3>1
  <2>. QED
    BY <2>2
<1>3. DOMAIN f = DOMAIN c.tabs /\ f = [j \in DOMAIN f |-> f[j]]
  OBVIOUS
<1>. HIDE DEF f
<1>4. Stored(d) /\ d.tabs = f /\ Server!Ids(d) = Server!Ids(c)
  BY <1>2, <1>3, SameIds
<1>. HIDE DEF d
<1>5. Server!WidgetIds(d) = Server!WidgetIds(c)
  <2>1. \A k \in DOMAIN c.tabs : Server!TabWidgets(d.tabs[k]) = Server!TabWidgets(c.tabs[k])
    BY <1>2, <1>4 DEF Server!TabWidgets
  <2>. QED
    BY <1>3, <1>4, <2>1 DEF Server!WidgetIds
<1>. QED
  BY <1>1, <1>4, <1>5

LEMMA WithoutAt ==
    ASSUME NEW S, NEW s \in Seq(S), NEW i \in 1..Len(s)
    PROVE  /\ RemoveAt(s, i) \in Seq(S) /\ Len(RemoveAt(s, i)) = Len(s) - 1
           /\ \A j \in 1..(Len(s) - 1) : RemoveAt(s, i)[j] = s[IF j < i THEN j ELSE j + 1]
<1>. DEFINE a == SubSeq(s, 1, i - 1)
            b == SubSeq(s, i + 1, Len(s))
<1>1. a \in Seq(S) /\ Len(a) = i - 1 /\ \A j \in 1..(i - 1) : a[j] = s[j]
  OBVIOUS
<1>2. b \in Seq(S) /\ Len(b) = Len(s) - i /\ \A j \in 1..(Len(s) - i) : b[j] = s[j + i]
  OBVIOUS
<1>. HIDE DEF a, b
<1>3. /\ a \o b \in Seq(S) /\ Len(a \o b) = Len(s) - 1
      /\ \A j \in 1..(Len(s) - 1) : (a \o b)[j] = s[IF j < i THEN j ELSE j + 1]
  <2>1. /\ a \o b \in Seq(S) /\ Len(a \o b) = Len(a) + Len(b)
        /\ \A j \in 1..(Len(a) + Len(b)) : (a \o b)[j] = IF j <= Len(a) THEN a[j] ELSE b[j - Len(a)]
    <3>1. a \in Seq(S) /\ b \in Seq(S)
      BY <1>1, <1>2
    <3>. QED
      BY <3>1
  <2>2. ASSUME NEW j \in 1..(Len(s) - 1), j >= i
        PROVE  j - (i - 1) \in 1..(Len(s) - i) /\ (j - (i - 1)) + i = j + 1
    BY <2>2
  <2>3. ASSUME NEW j \in 1..(Len(s) - 1), j >= i
        PROVE  b[j - (i - 1)] = s[j + 1]
    BY <1>2, <2>2, <2>3
  <2>4. Len(s) \in Nat /\ Len(a) + Len(b) = Len(s) - 1
    BY <1>1, <1>2
  <2>5. ASSUME NEW j \in 1..(Len(s) - 1)
        PROVE  (a \o b)[j] = s[IF j < i THEN j ELSE j + 1]
    <3>1. (a \o b)[j] = IF j <= Len(a) THEN a[j] ELSE b[j - Len(a)]
      BY <2>1, <2>4
    <3>2. CASE j < i
      <4>1. j \in 1..(i - 1) /\ j <= Len(a)
        BY <1>1, <3>2
      <4>. QED
        BY <1>1, <3>1, <3>2, <4>1
    <3>3. CASE j >= i
      <4>1. ~(j <= Len(a)) /\ ~(j < i)
        BY <1>1, <3>3
      <4>. QED
        BY <1>1, <2>3, <3>1, <3>3, <4>1
    <3>4. j < i \/ j >= i
      BY <2>4
    <3>. QED
      BY <3>2, <3>3, <3>4
  <2>. QED
    BY <2>1, <2>4, <2>5
<1>. QED
  BY <1>3 DEF RemoveAt, a, b

\* A list without one of its elements: the others are there, once each.
LEMMA OthersLeft ==
    ASSUME NEW S, NEW s \in Seq(S), NEW i \in 1..Len(s), NEW t, t = RemoveAt(s, i)
    PROVE  /\ t \in Seq(S)
           /\ \A j \in DOMAIN t : \E m \in DOMAIN s \ {i} : t[j] = s[m]
           /\ \A m \in DOMAIN s \ {i} : \E j \in DOMAIN t : t[j] = s[m]
           /\ \A j, k \in DOMAIN t : j # k => \E l, m \in DOMAIN s : l # m /\ t[j] = s[l] /\ t[k] = s[m]
<1>1. PICK n \in Nat : n = Len(s)
  OBVIOUS
<1>3. /\ t \in Seq(S) /\ Len(t) = n - 1 /\ DOMAIN s = 1..n /\ i \in 1..n
      /\ \A j \in 1..(n - 1) : t[j] = s[IF j < i THEN j ELSE j + 1]
  <2>1. /\ RemoveAt(s, i) \in Seq(S) /\ Len(RemoveAt(s, i)) = Len(s) - 1
        /\ \A j \in 1..(Len(s) - 1) : RemoveAt(s, i)[j] = s[IF j < i THEN j ELSE j + 1]
    BY WithoutAt
  <2>. QED
    BY <1>1, <2>1
<1>4. DOMAIN t = 1..(n - 1)
  BY <1>1, <1>3
<1>5. ASSUME NEW m \in DOMAIN s \ {i} PROVE \E j \in DOMAIN t : t[j] = s[m]
  <2>1. CASE m < i
    BY <1>1, <1>3, <1>4, <2>1
  <2>2. CASE ~(m < i)
    <3>1. m - 1 \in 1..(n - 1) /\ ~(m - 1 < i) /\ (m - 1) + 1 = m
      BY <1>1, <1>3, <1>5, <2>2
    <3>. QED
      BY <1>3, <1>4, <3>1
  <2>. QED
    BY <2>1, <2>2
<1>6. ASSUME NEW j \in DOMAIN t PROVE \E m \in DOMAIN s \ {i} : t[j] = s[m] /\ m = IF j < i THEN j ELSE j + 1
  BY <1>1, <1>3, <1>4
<1>7. ASSUME NEW j \in DOMAIN t, NEW k \in DOMAIN t, j # k
      PROVE  \E l, m \in DOMAIN s : l # m /\ t[j] = s[l] /\ t[k] = s[m]
  <2>1. PICK l \in DOMAIN s : t[j] = s[l] /\ l = IF j < i THEN j ELSE j + 1
    BY <1>6
  <2>2. PICK m \in DOMAIN s : t[k] = s[m] /\ m = IF k < i THEN k ELSE k + 1
    BY <1>6
  <2>3. l # m
    BY <1>1, <1>3, <1>4, <1>7, <2>1, <2>2
  <2>. QED
    BY <2>1, <2>2, <2>3
<1>. QED
  BY <1>3, <1>5, <1>6, <1>7

\* Requests that change the tabs.
LEMMA TabAdded ==
    ASSUME Stored(document), Server!AddTab("one")
    PROVE  /\ Stored(document') /\ StoredWidgets' = StoredWidgets
           /\ \E i \in Server!TabId : i \notin StoredTabs /\ StoredTabs' = StoredTabs \cup {i}
<1>1. PICK c : c = document
  OBVIOUS
<1>2. PICK i : i = Server!FreeId(c)
  OBVIOUS
<1>. DEFINE new == [id |-> i, name |-> "one", visible |-> FALSE, widgets |-> Server!NoWidgets]
            tabs == Append(c.tabs, new)
            d == [c EXCEPT !.tabs = tabs]
<1>3. Stored(c) /\ Len(c.tabs) < TabLimit /\ document' = d
  BY <1>1, <1>2 DEF Server!AddTab
<1>4. i \in Server!TabId /\ i \notin Server!Ids(c)
  BY <1>2, <1>3, FreeIdFree
<1>5. new \in Server!Tab /\ DOMAIN new.widgets = {} /\ new.id = i
  <2>1. Server!NoWidgets \in [{} -> BOOLEAN] /\ {} \in SUBSET Server!WidgetNo
    BY DEF Server!NoWidgets
  <2>2. Server!NoWidgets \in Server!WidgetSets
    BY <2>1 DEF Server!WidgetSets
  <2>. QED
    BY <1>4, <2>1, <2>2 DEF Server!Tab
<1>. HIDE DEF new
<1>6. PICK n \in Nat : n = Len(c.tabs)
  BY <1>3, StoredFields
<1>7. /\ tabs \in Seq(Server!Tab) /\ DOMAIN tabs = 1..(n + 1) /\ DOMAIN c.tabs = 1..n
      /\ tabs[n + 1] = new /\ \A k \in 1..n : tabs[k] = c.tabs[k]
  BY <1>3, <1>5, <1>6, StoredFields
<1>. HIDE DEF tabs
<1>8. \A j, k \in DOMAIN tabs : tabs[j].id = tabs[k].id => j = k
  <2>1. \A k \in 1..n : tabs[k].id # i
    BY <1>4, <1>7, IdsElim
  <2>2. \A j, k \in 1..n : tabs[j].id = tabs[k].id => j = k
    BY <1>3, <1>7, StoredFields
  <2>3. \A k \in DOMAIN tabs : k \in 1..n \/ k = n + 1
    BY <1>6, <1>7
  <2>. QED
    BY <1>5, <1>7, <2>1, <2>2, <2>3
<1>9. Stored(d) /\ d.tabs = tabs
  BY <1>3, <1>7, <1>8, OtherTabs
<1>. HIDE DEF d
<1>10. \A k \in DOMAIN tabs : (k \in DOMAIN c.tabs /\ tabs[k] = c.tabs[k]) \/ tabs[k] = new
  BY <1>6, <1>7
<1>11. \A k \in DOMAIN c.tabs : k \in DOMAIN tabs /\ tabs[k] = c.tabs[k]
  BY <1>6, <1>7
<1>12. n + 1 \in DOMAIN tabs
  BY <1>6, <1>7
<1>13. Server!Ids(d) = Server!Ids(c) \cup {i}
  BY <1>5, <1>7, <1>9, <1>10, <1>11, <1>12 DEF Server!Ids
<1>14. Server!WidgetIds(d) = Server!WidgetIds(c)
  <2>1. Server!TabWidgets(new) = {}
    BY <1>5 DEF Server!TabWidgets
  <2>. QED
    BY <1>9, <1>10, <1>11, <2>1 DEF Server!WidgetIds
<1>. QED
  BY <1>1, <1>3, <1>4, <1>9, <1>13, <1>14 DEF StoredTabs, StoredWidgets

LEMMA TabDropped ==
    ASSUME Stored(document), NEW i, Server!DropTab(i)
    PROVE  /\ Stored(document') /\ StoredTabs' = StoredTabs \ {i}
           /\ StoredWidgets' = {w \in StoredWidgets : w[1] # i}
<1>1. PICK c : c = document
  OBVIOUS
<1>2. PICK k \in DOMAIN c.tabs :
         /\ c.tabs[k].id = i
         /\ LET left == [c EXCEPT !.tabs = RemoveAt(c.tabs, k)]
            IN  document' = left \/ document' = Server!Showing(left, left.tabs[1].id)
  BY <1>1 DEF Server!DropTab, Server!RemoveAt, RemoveAt
<1>. DEFINE tabs == RemoveAt(c.tabs, k)
            d == [c EXCEPT !.tabs = tabs]
<1>3. Stored(c) /\ c.tabs \in Seq(Server!Tab) /\ k \in 1..Len(c.tabs)
  BY <1>1, StoredFields
<1>4. /\ tabs \in Seq(Server!Tab)
      /\ \A j \in DOMAIN tabs : \E m \in DOMAIN c.tabs \ {k} : tabs[j] = c.tabs[m]
      /\ \A m \in DOMAIN c.tabs \ {k} : \E j \in DOMAIN tabs : tabs[j] = c.tabs[m]
      /\ \A j, h \in DOMAIN tabs : j # h => \E l, m \in DOMAIN c.tabs : l # m /\ tabs[j] = c.tabs[l] /\ tabs[h] = c.tabs[m]
  <2>1. PICK s \in Seq(Server!Tab) : s = c.tabs
    BY <1>3
  <2>2. PICK t : t = RemoveAt(s, k)
    OBVIOUS
  <2>3. /\ t \in Seq(Server!Tab)
        /\ \A j \in DOMAIN t : \E m \in DOMAIN s \ {k} : t[j] = s[m]
        /\ \A m \in DOMAIN s \ {k} : \E j \in DOMAIN t : t[j] = s[m]
        /\ \A j, h \in DOMAIN t : j # h => \E l, m \in DOMAIN s : l # m /\ t[j] = s[l] /\ t[h] = s[m]
    <3>1. k \in 1..Len(s)
      BY <1>3, <2>1
    <3>. HIDE DEF tabs, d
    <3>. QED
      BY <2>2, <3>1, OthersLeft
  <2>. QED
    BY <2>1, <2>2, <2>3
<1>. HIDE DEF tabs
<1>5. \A j, m \in DOMAIN c.tabs : c.tabs[j].id = c.tabs[m].id => j = m
  BY <1>3, StoredFields
<1>6. Stored(d) /\ d.tabs = tabs
  <2>1. \A j, h \in DOMAIN tabs : tabs[j].id = tabs[h].id => j = h
    BY <1>4, <1>5
  <2>. QED
    BY <1>3, <1>4, <2>1, OtherTabs
<1>. HIDE DEF d
<1>7. \A j \in DOMAIN c.tabs : c.tabs[j].id = i <=> j = k
  BY <1>2, <1>5
<1>8. ASSUME NEW h PROVE h \in Server!Ids(d) <=> h \in Server!Ids(c) \ {i}
  BY <1>4, <1>6, <1>7, IdsElim
<1>9. ASSUME NEW w PROVE w \in Server!WidgetIds(d) <=> w \in Server!WidgetIds(c) /\ w[1] # i
  <2>1. \A h, m : <<h, m>> \in Server!WidgetIds(d) <=> <<h, m>> \in Server!WidgetIds(c) /\ h # i
    <3>1. /\ \A h, m : <<h, m>> \in Server!WidgetIds(c) <=>
                  \E j \in DOMAIN c.tabs : c.tabs[j].id = h /\ m \in DOMAIN c.tabs[j].widgets
          /\ \A h, m : <<h, m>> \in Server!WidgetIds(d) <=>
                  \E j \in DOMAIN tabs : tabs[j].id = h /\ m \in DOMAIN tabs[j].widgets
      BY <1>6, IdsElim
    <3>2. ASSUME NEW h, NEW m, NEW j \in DOMAIN tabs, tabs[j].id = h, m \in DOMAIN tabs[j].widgets
          PROVE  <<h, m>> \in Server!WidgetIds(c) /\ h # i
      <4>1. PICK l \in DOMAIN c.tabs \ {k} : tabs[j] = c.tabs[l]
        BY <1>4
      <4>. QED
        BY <1>7, <3>1, <3>2, <4>1
    <3>3. ASSUME NEW h, NEW m, h # i, NEW l \in DOMAIN c.tabs, c.tabs[l].id = h, m \in DOMAIN c.tabs[l].widgets
          PROVE  <<h, m>> \in Server!WidgetIds(d)
      <4>1. l # k
        BY <1>7, <3>3
      <4>2. PICK j \in DOMAIN tabs : tabs[j] = c.tabs[l]
        BY <1>4, <4>1
      <4>. QED
        BY <3>1, <3>3, <4>2
    <3>4. ASSUME NEW h, NEW m
          PROVE  <<h, m>> \in Server!WidgetIds(d) <=> <<h, m>> \in Server!WidgetIds(c) /\ h # i
      <4>1. <<h, m>> \in Server!WidgetIds(d) => <<h, m>> \in Server!WidgetIds(c) /\ h # i
        BY <3>1, <3>2
      <4>2. <<h, m>> \in Server!WidgetIds(c) /\ h # i => <<h, m>> \in Server!WidgetIds(d)
        BY <3>1, <3>3
      <4>. QED
        BY <4>1, <4>2
    <3>. QED
      BY <3>4
  <2>2. w \in Server!WidgetIds(d) \cup Server!WidgetIds(c) => w = <<w[1], w[2]>>
    BY IdsElim
  <2>. QED
    BY <2>1, <2>2
<1>10. /\ Stored(d) /\ Server!Ids(d) = Server!Ids(c) \ {i}
       /\ Server!WidgetIds(d) = {w \in Server!WidgetIds(c) : w[1] # i}
  BY <1>6, <1>8, <1>9
<1>11. Stored(document') /\ Server!Ids(document') = Server!Ids(d) /\ Server!WidgetIds(document') = Server!WidgetIds(d)
  <2>1. CASE document' = d
    BY <1>10, <2>1
  <2>2. CASE document' = Server!Showing(d, d.tabs[1].id)
    BY <1>10, <2>2, ShowTab
  <2>. QED
    BY <1>2, <2>1, <2>2 DEF d, tabs
<1>. QED
  BY <1>1, <1>10, <1>11 DEF StoredTabs, StoredWidgets

\* Requests that change the widgets.
LEMMA WidgetAdded ==
    ASSUME Stored(document), NEW i, Server!AddWidget(i)
    PROVE  /\ Stored(document') /\ StoredTabs' = StoredTabs
           /\ \E p : /\ p \notin StoredWidgets /\ p[1] = i /\ Made(StoredWidgets) = p
                     /\ StoredWidgets' = StoredWidgets \cup {p}
<1>1. PICK c : c = document
  OBVIOUS
<1>2. /\ \E k \in DOMAIN c.tabs : c.tabs[k].id = i /\ ~Server!Full(c.tabs[k].widgets)
      /\ document' = Server!Put(c, i, FALSE) /\ Stored(c)
  BY <1>1 DEF Server!AddWidget, Server!HasRoom
<1>3. PICK d : d = Server!Put(c, i, FALSE)
  OBVIOUS
<1>4. PICK p : /\ Stored(d) /\ Server!Ids(d) = Server!Ids(c)
               /\ p \notin Server!WidgetIds(c) /\ p[1] = i
               /\ Server!WidgetIds(d) = Server!WidgetIds(c) \cup {p}
  BY <1>2, <1>3, PutWidget
<1>5. /\ StoredTabs' = StoredTabs /\ p \notin StoredWidgets
      /\ StoredWidgets' = StoredWidgets \cup {p}
  BY <1>1, <1>2, <1>3, <1>4 DEF StoredTabs, StoredWidgets
<1>6. Made(StoredWidgets) = p
  BY <1>5 DEF Made
<1>. QED
  BY <1>2, <1>3, <1>4, <1>5, <1>6

LEMMA WidgetTaken ==
    ASSUME Stored(document), NEW i, NEW n, Server!DropWidget(i, n)
    PROVE  /\ Stored(document') /\ StoredTabs' = StoredTabs
           /\ StoredWidgets' = StoredWidgets \ {<<i, n>>}
<1>1. PICK c : c = document
  OBVIOUS
<1>2. document' = Server!Taken(c, i, n) /\ Stored(c)
  BY <1>1 DEF Server!DropWidget
<1>3. PICK d : d = Server!Taken(c, i, n)
  OBVIOUS
<1>4. /\ Stored(d) /\ Server!Ids(d) = Server!Ids(c)
      /\ Server!WidgetIds(d) = Server!WidgetIds(c) \ {<<i, n>>}
  BY <1>2, <1>3, TakeWidget
<1>. QED
  BY <1>1, <1>2, <1>3, <1>4 DEF StoredTabs, StoredWidgets

LEMMA WidgetRehoused ==
    ASSUME Stored(document), NEW i, NEW n, NEW j, Server!MoveWidget(i, n, j)
    PROVE  /\ Stored(document') /\ StoredTabs' = StoredTabs /\ i # j
           /\ \E p : /\ p \notin StoredWidgets /\ p[1] = j /\ Made(StoredWidgets) = p
                     /\ StoredWidgets' = (StoredWidgets \ {<<i, n>>}) \cup {p}
<1>1. PICK c : c = document
  OBVIOUS
<1>2. /\ \E k \in DOMAIN c.tabs : c.tabs[k].id = j /\ ~Server!Full(c.tabs[k].widgets)
      /\ document' = Server!Put(Server!Taken(c, i, n), j, <<i, n>> \in Server!ReadOnlyIds(c))
      /\ Stored(c) /\ i # j
  BY <1>1 DEF Server!MoveWidget, Server!HasRoom
<1>3. PICK b : b = Server!Taken(c, i, n)
  OBVIOUS
<1>4. PICK fixed \in BOOLEAN : document' = Server!Put(b, j, fixed)
  <2>1. CASE <<i, n>> \in Server!ReadOnlyIds(c)
    <3>1. document' = Server!Put(b, j, TRUE)
      BY <1>2, <1>3, <2>1
    <3>. QED
      BY <3>1
  <2>2. CASE <<i, n>> \notin Server!ReadOnlyIds(c)
    <3>1. document' = Server!Put(b, j, FALSE)
      <4>1. (<<i, n>> \in Server!ReadOnlyIds(c)) = FALSE
        BY <2>2
      <4>. QED
        BY <1>2, <1>3, <4>1, Zenon
    <3>. QED
      BY <3>1
  <2>. QED
    BY <2>1, <2>2
<1>5. PICK d : d = Server!Put(b, j, fixed)
  OBVIOUS
<1>6. /\ Stored(b) /\ Server!Ids(b) = Server!Ids(c)
      /\ Server!WidgetIds(b) = Server!WidgetIds(c) \ {<<i, n>>}
      /\ \E k \in DOMAIN b.tabs : b.tabs[k].id = j /\ ~Server!Full(b.tabs[k].widgets)
  BY <1>2, <1>3, TakeWidget
<1>7. PICK p : /\ Stored(d) /\ Server!Ids(d) = Server!Ids(b)
               /\ p \notin Server!WidgetIds(b) /\ p[1] = j
               /\ Server!WidgetIds(d) = Server!WidgetIds(b) \cup {p}
  BY <1>5, <1>6, PutWidget
<1>8. p \notin Server!WidgetIds(c)
  BY <1>2, <1>6, <1>7
<1>9. /\ StoredTabs' = StoredTabs /\ p \notin StoredWidgets
      /\ StoredWidgets' = (StoredWidgets \ {<<i, n>>}) \cup {p}
  BY <1>1, <1>4, <1>5, <1>6, <1>7, <1>8 DEF StoredTabs, StoredWidgets
<1>10. Made(StoredWidgets) = p
  BY <1>9 DEF Made
<1>. QED
  BY <1>2, <1>4, <1>5, <1>7, <1>9, <1>10

-----------------------------------------------------------------------------
(* What a step does to the requests in flight.                             *)

LEMMA Asked ==
    ASSUME NEW x, x.answer = "none", flight' = flight \cup {x}
    PROVE  \A op : Answered(op)' = Answered(op)
BY DEF Answered

LEMMA Refused ==
    ASSUME NEW q \in flight, q.answer = "none", flight' = flight \ {q}
    PROVE  \A op : Answered(op)' = Answered(op)
BY DEF Answered

\* The request q, served.
ServedAs(q, made) == [q EXCEPT !.answer = "done", !.made = made]

LEMMA ServedFields ==
    ASSUME NEW q, Addressed(q), NEW made
    PROVE  LET s == ServedAs(q, made)
           IN  /\ s.op = q.op /\ s.tab = q.tab /\ s.widget = q.widget /\ s.at = q.at
               /\ s.answer = "done" /\ s.made = made
               /\ s = [n |-> s.n, op |-> s.op, tab |-> s.tab, widget |-> s.widget,
                       at |-> s.at, answer |-> s.answer, made |-> s.made]
<1>1. q = [n |-> q.n, op |-> q.op, tab |-> q.tab, widget |-> q.widget,
           at |-> q.at, answer |-> q.answer, made |-> q.made]
  BY DEF Addressed
<1>2. q \in [n : {q.n}, op : {q.op}, tab : {q.tab}, widget : {q.widget},
             at : {q.at}, answer : {q.answer}, made : {q.made}]
  BY <1>1
<1>3. ServedAs(q, made) \in [n : {q.n}, op : {q.op}, tab : {q.tab}, widget : {q.widget},
                             at : {q.at}, answer : {"done"}, made : {made}]
  BY <1>2 DEF ServedAs
<1>. QED
  BY <1>3

LEMMA Served ==
    ASSUME NEW q \in flight, q.answer = "none", Addressed(q), NEW made, Done(q, made)
    PROVE  \A op : Answered(op)' = IF op = q.op THEN Answered(op) \cup {ServedAs(q, made)} ELSE Answered(op)
<1>1. PICK s : s = ServedAs(q, made)
  OBVIOUS
<1>2. s.op = q.op /\ s.answer = "done"
  BY <1>1, ServedFields
<1>3. flight' = (flight \ {q}) \cup {s}
  BY <1>1 DEF Done, ServedAs
<1>4. ASSUME NEW op
      PROVE  Answered(op)' = IF op = q.op THEN Answered(op) \cup {s} ELSE Answered(op)
  BY <1>2, <1>3 DEF Answered
<1>. QED
  BY <1>1, <1>4

LEMMA Received ==
    ASSUME NEW q \in flight, flight' = flight \ {q}
    PROVE  \A op : Answered(op)' = Answered(op) \ {q}
BY DEF Answered

LEMMA AnsweredElim ==
    \A op, q : q \in Answered(op) <=> q \in flight /\ q.op = op /\ q.answer = "done"
BY DEF Answered

LEMMA NamedFields ==
    ASSUME Named
    PROVE  /\ StoredTabs \subseteq Server!TabId
           /\ StoredWidgets \subseteq Server!TabId \X Server!WidgetNo
           /\ \A p \in StoredWidgets : p[1] \in StoredTabs /\ p = <<p[1], p[2]>> /\ p # NotThere
           /\ Shown \subseteq Tabs
           /\ NotThere \notin Tabs \cup Server!TabId \cup (Server!TabId \X Server!WidgetNo) \cup WidgetObjects
<1>1. /\ StoredTabs \subseteq Server!TabId
      /\ StoredWidgets \subseteq Server!TabId \X Server!WidgetNo
      /\ \A p \in StoredWidgets : p[1] \in StoredTabs
  BY StoredIds DEF Named, StoredTabs, StoredWidgets
<1>2. NotThere \notin Tabs \cup Server!TabId \cup (Server!TabId \X Server!WidgetNo) \cup WidgetObjects
  <2>1. Tabs \subseteq Nat /\ Server!TabId \subseteq Nat /\ Server!WidgetNo \subseteq Nat
    BY TabBounds DEF Tabs, Server!TabId, Server!WidgetNo
  <2>2. Server!TabId \X Server!WidgetNo \subseteq Nat \X Nat
    BY <2>1
  <2>. QED
    BY <2>1, <2>2, TabBounds
<1>3. Shown \subseteq Tabs
  BY DEF Named, Shown, Range
<1>4. \A p \in StoredWidgets : p = <<p[1], p[2]>>
  BY IdsElim DEF StoredWidgets
<1>. QED
  BY <1>1, <1>2, <1>3, <1>4

LEMMA ShownElim == \A T : T \in Shown <=> \E j \in DOMAIN tabList : tabList[j] = T
BY DEF Shown, Range

LEMMA KeepsAddress ==
    ASSUME Named, NEW p \in flight,
           p.tab \in Tabs => tabId'[p.tab] = tabId[p.tab],
           p.widget \in WidgetObjects => widgetId'[p.widget] = widgetId[p.widget],
           p.op = "addTab" => \A x \in flight' : x.tab = p.tab => x = p,
           p.op = "addWidget" => \A x \in flight' : x.widget = p.widget => x = p
    PROVE  Addressed(p)'
<1>1. Addressed(p)
  BY DEF Named
<1>. QED
  BY <1>1 DEF Addressed

\* Another request for the objects of the one that is served.
LEMMA KeepsServed ==
    ASSUME Named, NEW q \in flight, NEW made, tabId' = tabId, widgetId' = widgetId,
           flight' = (flight \ {q}) \cup {ServedAs(q, made)}
    PROVE  \A p \in flight' : Addressed(p)'
<1>1. PICK s : s = ServedAs(q, made)
  OBVIOUS
<1>2. Addressed(q)
  BY DEF Named
<1>3. /\ s.op = q.op /\ s.tab = q.tab /\ s.widget = q.widget /\ s.at = q.at
      /\ s = [n |-> s.n, op |-> s.op, tab |-> s.tab, widget |-> s.widget,
              at |-> s.at, answer |-> s.answer, made |-> s.made]
  BY <1>1, <1>2, ServedFields
<1>4. \A x \in flight' : x = s \/ (x \in flight /\ x # q)
  BY <1>1
<1>5. ASSUME NEW p \in flight, p # q PROVE Addressed(p)'
  <2>1. Addressed(p)
    BY DEF Named
  <2>2. p.op = "addTab" => \A x \in flight : x.tab = p.tab => x = p
    BY <2>1 DEF Addressed
  <2>3. p.op = "addWidget" => \A x \in flight : x.widget = p.widget => x = p
    BY <2>1 DEF Addressed
  <2>4. p.op = "addTab" => \A x \in flight' : x.tab = p.tab => x = p
    BY <1>3, <1>4, <1>5, <2>2
  <2>5. p.op = "addWidget" => \A x \in flight' : x.widget = p.widget => x = p
    BY <1>3, <1>4, <1>5, <2>3
  <2>. QED
    BY <2>4, <2>5, KeepsAddress
<1>6. Addressed(s)'
  <2>1. s.op = "addTab" => \A x \in flight' : x.tab = s.tab => x = s
    BY <1>2, <1>3, <1>4 DEF Addressed
  <2>2. s.op = "addWidget" => \A x \in flight' : x.widget = s.widget => x = s
    BY <1>2, <1>3, <1>4 DEF Addressed
  <2>. QED
    BY <1>2, <1>3, <2>1, <2>2 DEF Addressed
<1>. QED
  BY <1>4, <1>5, <1>6

LEMMA NamedServed ==
    ASSUME Named, NEW q \in flight, NEW made, Done(q, made), Stored(document'), UNCHANGED modelVars
    PROVE  Named'
<1>1. \A p \in flight' : Addressed(p)'
  BY KeepsServed DEF modelVars, Done, ServedAs
<1>2. Stored(document)'
  BY DEF Stored
<1>. QED
  BY <1>1, <1>2 DEF Named, modelVars, Shown

LEMMA NamedLess ==
    ASSUME Named, flight' \subseteq flight, tabId' = tabId, widgetId' = widgetId
    PROVE  \A p \in flight' : Addressed(p)'
<1>1. ASSUME NEW p \in flight' PROVE Addressed(p)'
  <2>1. p \in flight /\ Addressed(p)
    BY <1>1 DEF Named
  <2>2. p.op = "addTab" => \A x \in flight' : x.tab = p.tab => x = p
    BY <2>1 DEF Addressed
  <2>3. p.op = "addWidget" => \A x \in flight' : x.widget = p.widget => x = p
    BY <2>1 DEF Addressed
  <2>. QED
    BY <2>1, <2>2, <2>3, KeepsAddress
<1>. QED
  BY <1>1

-----------------------------------------------------------------------------
(* The tabs, step by step.                                                 *)

LEMMA TabsStay ==
    ASSUME TabsMeet, tabAt' = tabAt, tabId' = tabId, tabList' = tabList, StoredTabs' = StoredTabs,
           Answered("addTab")' = Answered("addTab"), Answered("dropTab")' = Answered("dropTab")
    PROVE  TabsMeet'
<1>1. Shown' = Shown /\ \A T : Leaving(T)' <=> Leaving(T)
  BY DEF Shown, Leaving
<1>. QED
  BY <1>1 DEF TabsMeet

\* Which tab object a stored tab stands for.
LEMMA OneTabEach ==
    ASSUME Named, TabsMeet
    PROVE  /\ \A i, j \in StoredTabs : tabAt[i] = tabAt[j] => i = j
           /\ \A i \in StoredTabs : tabAt[i] \in Tabs
           /\ \A q \in flight : q.op \in {"dropTab", "addWidget", "moveWidget"} =>
                 \A i \in StoredTabs : tabAt[i] = q.tab => q.tab \in Shown /\ tabId[q.tab] = i
<1>1. \A a \in Answered("addTab") : /\ tabId[a.tab] = NotThere /\ a.tab \in Tabs
                                    /\ \A p \in flight : p.tab = a.tab => p = a
  <2>1. \A a \in Answered("addTab") : a \in flight /\ a.op = "addTab" /\ Addressed(a)
    BY AnsweredElim DEF Named
  <2>. QED
    BY <2>1 DEF Addressed
<1>2. \A i \in StoredTabs : \/ tabAt[i] \in Shown /\ tabId[tabAt[i]] = i /\ i # NotThere
                            \/ \E a \in Answered("addTab") : a.tab = tabAt[i] /\ a.made = i
  <2>1. \A i \in StoredTabs : i # NotThere
    BY NamedFields
  <2>. QED
    BY <2>1 DEF TabsMeet
<1>3. \A a \in Answered("addTab") : a \in flight /\ a.op = "addTab"
  BY AnsweredElim
<1>4. ASSUME NEW i \in StoredTabs, NEW j \in StoredTabs, tabAt[i] = tabAt[j] PROVE i = j
  <2>1. CASE tabAt[i] \in Shown /\ tabId[tabAt[i]] = i /\ i # NotThere
    BY <1>1, <1>2, <1>4, <2>1
  <2>2. CASE \E a \in Answered("addTab") : a.tab = tabAt[i] /\ a.made = i
    BY <1>1, <1>2, <1>3, <1>4, <2>2
  <2>. QED
    BY <1>2, <2>1, <2>2
<1>5. \A i \in StoredTabs : tabAt[i] \in Tabs
  BY <1>1, <1>2, NamedFields
<1>6. ASSUME NEW q \in flight, q.op \in {"dropTab", "addWidget", "moveWidget"},
             NEW i \in StoredTabs, tabAt[i] = q.tab
      PROVE  q.tab \in Shown /\ tabId[q.tab] = i
  <2>1. ASSUME NEW a \in Answered("addTab"), a.tab = q.tab PROVE FALSE
    BY <1>1, <1>3, <1>6, <2>1
  <2>. QED
    BY <1>2, <1>6, <2>1
<1>. QED
  BY <1>4, <1>5, <1>6

LEMMA StoreTabMeets ==
    ASSUME TabsInv, NEW q \in flight, StoreTab(q)
    PROVE  Named' /\ TabsMeet'
<1>1. Named /\ TabsMeet /\ Stored(document) /\ q.op = "addTab" /\ q.answer = "none" /\ Addressed(q)
  BY DEF TabsInv, Named, StoreTab, Waiting
<1>2. PICK i \in Server!TabId : i \notin StoredTabs /\ StoredTabs' = StoredTabs \cup {i}
  BY <1>1, TabAdded DEF StoreTab
<1>3. Made(StoredTabs) = i
  BY <1>2 DEF Made
<1>4. Stored(document') /\ Done(q, i) /\ UNCHANGED modelVars /\ tabAt' = [tabAt EXCEPT ![i] = q.tab]
  BY <1>1, <1>3, TabAdded DEF StoreTab
<1>5. PICK s : s = ServedAs(q, i)
  OBVIOUS
<1>6. s.tab = q.tab /\ s.made = i
  BY <1>1, <1>5, ServedFields
<1>7. Answered("addTab")' = Answered("addTab") \cup {s} /\ Answered("dropTab")' = Answered("dropTab")
  BY <1>1, <1>4, <1>5, Served
<1>8. Named'
  BY <1>1, <1>4, NamedServed
<1>9. /\ q.tab \in Tabs /\ \A p \in flight : p.tab = q.tab => p = q
  BY <1>1 DEF Addressed
<1>10. /\ tabAt' \in [Server!TabId -> Tabs \cup {NotThere}]
       /\ tabAt'[i] = q.tab /\ \A j \in StoredTabs : j # i /\ tabAt'[j] = tabAt[j]
  <2>1. tabAt \in [Server!TabId -> Tabs \cup {NotThere}] /\ \A j \in StoredTabs : j \in Server!TabId /\ j # i
    BY <1>1, <1>2, NamedFields DEF TabsMeet
  <2>. QED
    BY <1>2, <1>4, <1>9, <2>1
<1>11. Shown' = Shown /\ tabId' = tabId /\ \A T : Leaving(T)' <=> Leaving(T)
  BY <1>4, <1>7 DEF modelVars, Shown, Leaving
<1>12. ASSUME NEW d \in Answered("dropTab")
       PROVE  d.tab # q.tab
  <2>1. d \in flight /\ d.op = "dropTab"
    BY AnsweredElim
  <2>. QED
    BY <1>1, <1>9, <2>1
<1>13. ASSUME NEW j \in StoredTabs'
       PROVE  \/ tabAt'[j] \in Shown' /\ tabId'[tabAt'[j]] = j
              \/ \E a \in Answered("addTab")' : a.tab = tabAt'[j] /\ a.made = j
  <2>1. CASE j = i
    BY <1>6, <1>7, <1>10, <2>1
  <2>2. CASE j \in StoredTabs
    BY <1>1, <1>7, <1>10, <1>11, <2>2 DEF TabsMeet
  <2>. QED
    BY <1>2, <2>1, <2>2
<1>14. ASSUME NEW T \in Shown' PROVE (tabId'[T] \in StoredTabs' /\ tabAt'[tabId'[T]] = T) \/ Leaving(T)'
  BY <1>1, <1>2, <1>10, <1>11 DEF TabsMeet
<1>15. ASSUME NEW a \in Answered("addTab")' PROVE a.made \in StoredTabs' /\ tabAt'[a.made] = a.tab
  BY <1>1, <1>2, <1>6, <1>7, <1>10 DEF TabsMeet
<1>16. ASSUME NEW d \in Answered("dropTab")'
       PROVE  /\ d.tab \in Shown' /\ \A j \in StoredTabs' : tabAt'[j] # d.tab
              /\ \A p \in Answered("dropTab")' : p.tab = d.tab => p = d
  BY <1>1, <1>2, <1>7, <1>10, <1>11, <1>12 DEF TabsMeet
<1>17. TabsMeet'
  BY <1>10, <1>13, <1>14, <1>15, <1>16 DEF TabsMeet
<1>. QED
  BY <1>8, <1>17

LEMMA DropTabMeets ==
    ASSUME TabsInv, NEW q \in flight, DropTab(q), ~astray'
    PROVE  Named' /\ TabsMeet'
<1>. DEFINE i == q.at
<1>1. /\ Named /\ TabsMeet /\ Stored(document) /\ q.op = "dropTab" /\ q.answer = "none" /\ Addressed(q)
      /\ i \in StoredTabs /\ Server!DropTab(i) /\ Done(q, NotThere) /\ UNCHANGED modelVars
      /\ tabAt' = [tabAt EXCEPT ![i] = NotThere] /\ tabAt[i] = q.tab
  BY DEF TabsInv, Named, DropTab, Waiting
<1>2. Stored(document') /\ StoredTabs' = StoredTabs \ {i}
  BY <1>1, TabDropped
<1>3. Named'
  BY <1>1, <1>2, NamedServed
<1>4. PICK s : s = ServedAs(q, NotThere)
  OBVIOUS
<1>5. s.tab = q.tab
  BY <1>1, <1>4, ServedFields
<1>6. Answered("addTab")' = Answered("addTab") /\ Answered("dropTab")' = Answered("dropTab") \cup {s}
  BY <1>1, <1>4, Served
<1>7. q.tab \in Shown /\ tabId[q.tab] = i
  BY <1>1, OneTabEach
<1>8. \A j, k \in StoredTabs : tabAt[j] = tabAt[k] => j = k
  BY <1>1, OneTabEach
<1>9. /\ tabAt' \in [Server!TabId -> Tabs \cup {NotThere}]
      /\ \A j \in StoredTabs : j # i => tabAt'[j] = tabAt[j]
  BY <1>1, NamedFields DEF TabsMeet
<1>10. Shown' = Shown /\ tabId' = tabId /\ \A T : Leaving(T)' <=> Leaving(T) \/ T = q.tab
  BY <1>1, <1>5, <1>6 DEF modelVars, Shown, Leaving
<1>. HIDE DEF i
<1>11. ASSUME NEW j \in StoredTabs'
       PROVE  \/ tabAt'[j] \in Shown' /\ tabId'[tabAt'[j]] = j
              \/ \E a \in Answered("addTab")' : a.tab = tabAt'[j] /\ a.made = j
  <2>1. j \in StoredTabs /\ tabAt'[j] = tabAt[j]
    BY <1>2, <1>9
  <2>. QED
    BY <1>1, <1>6, <1>10, <2>1 DEF TabsMeet
<1>12. ASSUME NEW T \in Shown' PROVE (tabId'[T] \in StoredTabs' /\ tabAt'[tabId'[T]] = T) \/ Leaving(T)'
  <2>1. (tabId[T] \in StoredTabs /\ tabAt[tabId[T]] = T) \/ Leaving(T)
    BY <1>1, <1>10 DEF TabsMeet
  <2>. QED
    BY <1>1, <1>2, <1>9, <1>10, <2>1
<1>13. ASSUME NEW a \in Answered("addTab")' PROVE a.made \in StoredTabs' /\ tabAt'[a.made] = a.tab
  <2>1. a.made \in StoredTabs /\ tabAt[a.made] = a.tab /\ a \in flight /\ a.op = "addTab" /\ Addressed(a)
    BY <1>1, <1>6, AnsweredElim DEF TabsMeet, Named
  <2>2. a.tab # q.tab
    BY <1>1, <2>1 DEF Addressed
  <2>. QED
    BY <1>1, <1>2, <1>9, <2>1, <2>2
<1>14. ASSUME NEW d \in Answered("dropTab")'
       PROVE  /\ d.tab \in Shown' /\ \A j \in StoredTabs' : tabAt'[j] # d.tab
              /\ \A p \in Answered("dropTab")' : p.tab = d.tab => p = d
  <2>1. \A p \in Answered("dropTab") : /\ p.tab \in Shown /\ p.tab # q.tab
                                       /\ \A j \in StoredTabs : tabAt[j] # p.tab
                                       /\ \A o \in Answered("dropTab") : o.tab = p.tab => o = p
    BY <1>1 DEF TabsMeet
  <2>2. CASE d = s
    <3>1. \A j \in StoredTabs' : tabAt'[j] # d.tab
      BY <1>1, <1>2, <1>5, <1>8, <1>9, <2>2
    <3>. QED
      BY <1>5, <1>6, <1>7, <1>10, <2>1, <2>2, <3>1
  <2>3. CASE d \in Answered("dropTab")
    <3>1. \A j \in StoredTabs' : tabAt'[j] # d.tab
      BY <1>2, <1>9, <2>1, <2>3
    <3>. QED
      BY <1>5, <1>6, <1>10, <2>1, <2>3, <3>1
  <2>. QED
    BY <1>6, <2>2, <2>3
<1>15. TabsMeet'
  BY <1>9, <1>11, <1>12, <1>13, <1>14 DEF TabsMeet
<1>. QED
  BY <1>3, <1>15

LEMMA TabCreatedMeets ==
    ASSUME TabsInv, NEW q \in flight, TabCreated(q)
    PROVE  Named' /\ TabsMeet' /\ Shown' = Shown \cup {q.tab}
<1>1. /\ Named /\ TabsMeet /\ q.op = "addTab" /\ q.answer = "done" /\ Addressed(q) /\ flight' = flight \ {q}
      /\ tabList' = Append(tabList, q.tab) /\ tabId' = [tabId EXCEPT ![q.tab] = q.made]
      /\ UNCHANGED <<document, hears, known, widgetId, widgetTab, tabAt, place>>
  BY DEF TabsInv, Named, TabCreated, Comes, historyVars
<1>2. q \in Answered("addTab") /\ q.made \in StoredTabs /\ tabAt[q.made] = q.tab
  BY <1>1, AnsweredElim DEF TabsMeet
<1>3. /\ q.tab \in Tabs /\ tabId[q.tab] = NotThere /\ \A p \in flight : p.tab = q.tab => p = q
  BY <1>1 DEF Addressed
<1>4. /\ q.tab \notin Shown /\ q.made \in Server!TabId /\ q.made # NotThere
      /\ \A T \in Shown : T \in Tabs /\ T # q.tab
  BY <1>1, <1>2, <1>3, NamedFields DEF Named
<1>5. /\ tabId' \in [Tabs -> Server!TabId \cup {NotThere}] /\ tabId'[q.tab] = q.made
      /\ \A T \in Tabs : T # q.tab => tabId'[T] = tabId[T]
  BY <1>1, <1>3, <1>4 DEF Named
<1>6. /\ tabList' \in Seq(Tabs) /\ \A j, k \in DOMAIN tabList' : tabList'[j] = tabList'[k] => j = k
      /\ Shown' = Shown \cup {q.tab}
  <2>1. PICK l : l = tabList
    OBVIOUS
  <2>2. PICK m : m = Append(l, q.tab)
    OBVIOUS
  <2>3. PICK n \in Nat : n = Len(l)
    BY <1>1, <2>1 DEF Named
  <2>4. /\ l \in Seq(Tabs) /\ DOMAIN l = 1..n /\ \A k \in 1..n : l[k] # q.tab
        /\ \A j, k \in 1..n : l[j] = l[k] => j = k
    <3>1. l \in Seq(Tabs) /\ DOMAIN l = 1..n
      BY <1>1, <2>1, <2>3 DEF Named
    <3>2. \A j \in DOMAIN l : l[j] \in Shown
      BY <2>1, ShownElim
    <3>. QED
      BY <1>1, <1>4, <2>1, <3>1, <3>2 DEF Named
  <2>5. /\ m \in Seq(Tabs) /\ DOMAIN m = 1..(n + 1) /\ m[n + 1] = q.tab /\ \A k \in 1..n : m[k] = l[k]
    BY <1>3, <2>2, <2>3, <2>4
  <2>6. \A k \in 1..(n + 1) : k \in 1..n \/ k = n + 1
    BY <2>3
  <2>7. \A j, k \in DOMAIN m : m[j] = m[k] => j = k
    BY <2>4, <2>5, <2>6
  <2>8. \A T : (\E j \in DOMAIN m : m[j] = T) <=> T = q.tab \/ \E j \in DOMAIN l : l[j] = T
    <3>1. n + 1 \in 1..(n + 1) /\ \A k \in 1..n : k \in 1..(n + 1)
      BY <2>3
    <3>. QED
      BY <2>4, <2>5, <2>6, <3>1
  <2>9. tabList' = m
    BY <1>1, <2>1, <2>2
  <2>10. \A T : T \in Shown' <=> \E j \in DOMAIN m : m[j] = T
    BY <2>9 DEF Shown, Range
  <2>11. \A T : T \in Shown' <=> T \in Shown \/ T = q.tab
    BY <2>1, <2>8, <2>10, ShownElim
  <2>. QED
    BY <2>5, <2>7, <2>9, <2>11
<1>7. ASSUME NEW p \in flight' PROVE Addressed(p)'
  <2>1. p \in flight /\ p # q /\ p.tab # q.tab /\ Addressed(p) /\ flight' \subseteq flight
    BY <1>1, <1>3, <1>7 DEF Named
  <2>2. p.tab \in Tabs => tabId'[p.tab] = tabId[p.tab]
    BY <1>5, <2>1
  <2>3. /\ p.op = "addTab" => \A x \in flight' : x.tab = p.tab => x = p
        /\ p.op = "addWidget" => \A x \in flight' : x.widget = p.widget => x = p
    BY <2>1 DEF Addressed
  <2>. QED
    BY <1>1, <2>1, <2>2, <2>3, KeepsAddress
<1>8. Named'
  <2>1. Stored(document)' /\ \A T \in Shown' : tabId'[T] # NotThere
    BY <1>1, <1>4, <1>5, <1>6 DEF Named, Stored
  <2>. QED
    BY <1>1, <1>5, <1>6, <1>7, <2>1 DEF Named
<1>9. /\ Answered("addTab")' = Answered("addTab") \ {q} /\ Answered("dropTab")' = Answered("dropTab")
      /\ StoredTabs' = StoredTabs /\ tabAt' = tabAt
  <2>1. q \notin Answered("dropTab")
    BY <1>1, AnsweredElim
  <2>. QED
    <3>1. \A op : Answered(op)' = Answered(op) \ {q}
      BY <1>1, Received
    <3>2. Answered("dropTab") \ {q} = Answered("dropTab")
      BY <2>1
    <3>3. StoredTabs' = StoredTabs
      BY <1>1 DEF StoredTabs
    <3>. QED
      BY <1>1, <3>1, <3>2, <3>3
<1>10. \A T : Leaving(T)' <=> Leaving(T)
  BY <1>9 DEF Leaving
<1>11. ASSUME NEW j \in StoredTabs
       PROVE  \/ tabAt[j] \in Shown' /\ tabId'[tabAt[j]] = j
              \/ \E a \in Answered("addTab")' : a.tab = tabAt[j] /\ a.made = j
  <2>1. CASE tabAt[j] \in Shown /\ tabId[tabAt[j]] = j
    BY <1>4, <1>5, <1>6, <2>1
  <2>2. CASE \E a \in Answered("addTab") : a.tab = tabAt[j] /\ a.made = j
    BY <1>5, <1>6, <1>9, <2>2
  <2>. QED
    BY <1>1, <2>1, <2>2 DEF TabsMeet
<1>12. ASSUME NEW T \in Shown' PROVE (tabId'[T] \in StoredTabs /\ tabAt[tabId'[T]] = T) \/ Leaving(T)
  <2>1. CASE T = q.tab
    BY <1>2, <1>5, <2>1
  <2>2. CASE T \in Shown
    BY <1>1, <1>4, <1>5, <2>2 DEF TabsMeet
  <2>. QED
    BY <1>6, <2>1, <2>2
<1>13. TabsMeet'
  BY <1>1, <1>6, <1>9, <1>10, <1>11, <1>12 DEF TabsMeet
<1>. QED
  BY <1>6, <1>8, <1>13

LEMMA RemovedOnce ==
    ASSUME NEW S, NEW s \in Seq(S), \A j, k \in DOMAIN s : s[j] = s[k] => j = k,
           NEW e, NEW k \in DOMAIN s, s[k] = e
    PROVE  RemoveFirst(s, e) = RemoveAt(s, k)
<1>1. PICK n \in Nat : n = Len(s) /\ DOMAIN s = 1..n
  OBVIOUS
<1>2. {i \in 1..n : s[i] = e} = {k}
  BY <1>1
<1>3. SelectInSeq(s, LAMBDA v : v = e) = k
  <2>1. Min({k}) = k
    BY <1>1 DEF Min
  <2>. QED
    BY <1>1, <1>2, <2>1 DEF SelectInSeq
<1>. QED
  BY <1>1, <1>3 DEF RemoveFirst

LEMMA TabRemovedMeets ==
    ASSUME TabsInv, NEW q \in flight, TabRemoved(q)
    PROVE  /\ Named' /\ TabsMeet' /\ Shown' = Shown \ {q.tab}
           /\ \A T : T # q.tab => (Leaving(T)' <=> Leaving(T))
<1>1. /\ Named /\ TabsMeet /\ q.op = "dropTab" /\ q.answer = "done" /\ flight' = flight \ {q}
      /\ tabList' = RemoveFirst(tabList, q.tab) /\ known' = known \ hears[q.tab]
      /\ UNCHANGED <<document, tabId, widgetId, widgetTab, tabAt, place>>
  BY DEF TabsInv, TabRemoved, Comes, historyVars
<1>2. q \in Answered("dropTab")
  BY <1>1, AnsweredElim
<1>3. /\ q.tab \in Shown /\ \A i \in StoredTabs : tabAt[i] # q.tab
      /\ \A p \in Answered("dropTab") : p.tab = q.tab => p = q
  BY <1>1, <1>2 DEF TabsMeet
<1>4. /\ tabList' \in Seq(Tabs) /\ \A j, k \in DOMAIN tabList' : tabList'[j] = tabList'[k] => j = k
      /\ Shown' = Shown \ {q.tab}
  <2>1. PICK l \in Seq(Tabs) : l = tabList
    BY <1>1 DEF Named
  <2>2. \A j, k \in DOMAIN l : l[j] = l[k] => j = k
    BY <1>1, <2>1 DEF Named
  <2>3. PICK k \in DOMAIN l : l[k] = q.tab
    BY <1>3, <2>1, ShownElim
  <2>4. PICK m : m = RemoveAt(l, k)
    OBVIOUS
  <2>5. tabList' = m
    BY <1>1, <2>1, <2>2, <2>3, <2>4, RemovedOnce
  <2>6. k \in 1..Len(l)
    BY <2>1, <2>3
  <2>7. /\ m \in Seq(Tabs)
        /\ \A j \in DOMAIN m : \E h \in DOMAIN l \ {k} : m[j] = l[h]
        /\ \A h \in DOMAIN l \ {k} : \E j \in DOMAIN m : m[j] = l[h]
        /\ \A i, j \in DOMAIN m : i # j => \E g, h \in DOMAIN l : g # h /\ m[i] = l[g] /\ m[j] = l[h]
    BY <2>4, <2>6, OthersLeft
  <2>8. \A i, j \in DOMAIN m : m[i] = m[j] => i = j
    BY <2>2, <2>7
  <2>9. \A T : T \in Shown' <=> \E j \in DOMAIN m : m[j] = T
    BY <2>5 DEF Shown, Range
  <2>10. ASSUME NEW T PROVE (\E j \in DOMAIN m : m[j] = T) <=> T # q.tab /\ \E j \in DOMAIN l : l[j] = T
    <3>1. ASSUME NEW j \in DOMAIN m, m[j] = T
          PROVE  T # q.tab /\ \E h \in DOMAIN l : l[h] = T
      <4>1. PICK h \in DOMAIN l \ {k} : m[j] = l[h]
        BY <2>7
      <4>. QED
        BY <2>2, <2>3, <3>1, <4>1
    <3>2. ASSUME NEW h \in DOMAIN l, l[h] = T, T # q.tab
          PROVE  \E j \in DOMAIN m : m[j] = T
      <4>1. h \in DOMAIN l \ {k}
        BY <2>3, <3>2
      <4>. QED
        BY <2>7, <3>2, <4>1
    <3>. QED
      BY <3>1, <3>2
  <2>11. \A T : T \in Shown' <=> T \in Shown /\ T # q.tab
    BY <2>1, <2>9, <2>10, ShownElim
  <2>. QED
    BY <2>5, <2>7, <2>8, <2>11
<1>5. \A p \in flight' : Addressed(p)'
  BY <1>1, NamedLess
<1>6. Named'
  <2>1. Stored(document)' /\ \A T \in Shown' : tabId'[T] # NotThere
    BY <1>1, <1>4 DEF Named, Stored
  <2>. QED
    BY <1>1, <1>4, <1>5, <2>1 DEF Named
<1>7. /\ Answered("addTab")' = Answered("addTab") /\ Answered("dropTab")' = Answered("dropTab") \ {q}
      /\ StoredTabs' = StoredTabs
  <2>1. \A op : Answered(op)' = Answered(op) \ {q}
    BY <1>1, Received
  <2>2. Answered("addTab") \ {q} = Answered("addTab")
    BY <1>1, AnsweredElim
  <2>3. StoredTabs' = StoredTabs
    BY <1>1 DEF StoredTabs
  <2>. QED
    BY <2>1, <2>2, <2>3
<1>8. \A T : T # q.tab => (Leaving(T)' <=> Leaving(T))
  BY <1>7 DEF Leaving
<1>9. TabsMeet'
  <2>1. tabAt \in [Server!TabId -> Tabs \cup {NotThere}]
    BY <1>1 DEF TabsMeet
  <2>2. ASSUME NEW i \in StoredTabs
        PROVE  \/ tabAt[i] \in Shown' /\ tabId[tabAt[i]] = i
               \/ \E a \in Answered("addTab") : a.tab = tabAt[i] /\ a.made = i
    BY <1>1, <1>3, <1>4 DEF TabsMeet
  <2>3. ASSUME NEW T \in Shown' PROVE (tabId[T] \in StoredTabs /\ tabAt[tabId[T]] = T) \/ Leaving(T)'
    BY <1>1, <1>4, <1>8 DEF TabsMeet
  <2>4. \A a \in Answered("addTab") : a.made \in StoredTabs /\ tabAt[a.made] = a.tab
    BY <1>1 DEF TabsMeet
  <2>5. ASSUME NEW d \in Answered("dropTab")'
        PROVE  /\ d.tab \in Shown' /\ \A i \in StoredTabs : tabAt[i] # d.tab
               /\ \A p \in Answered("dropTab")' : p.tab = d.tab => p = d
    BY <1>1, <1>2, <1>3, <1>4, <1>7 DEF TabsMeet
  <2>. QED
    BY <1>1, <1>7, <2>1, <2>2, <2>3, <2>4, <2>5 DEF TabsMeet
<1>. QED
  BY <1>4, <1>6, <1>8, <1>9

-----------------------------------------------------------------------------
(* The widgets, step by step.                                              *)

\* What the requests in flight say of the widgets they create.
LEMMA NewWidgets ==
    ASSUME Named
    PROVE  \A q \in flight : q.op = "addWidget" =>
               /\ q.widget \in WidgetObjects /\ widgetId[q.widget] = NotThere /\ q.widget \notin known
               /\ \A p \in flight : p.widget = q.widget => p = q
<1>1. ASSUME NEW q \in flight, q.op = "addWidget"
      PROVE  /\ q.widget \in WidgetObjects /\ widgetId[q.widget] = NotThere
             /\ \A p \in flight : p.widget = q.widget => p = q
  <2>1. Addressed(q)
    BY DEF Named
  <2>. QED
    BY <1>1, <2>1 DEF Addressed
<1>. QED
  BY <1>1 DEF Named

LEMMA OldWidgets ==
    ASSUME Named
    PROVE  \A q \in flight : q.op \in {"moveWidget", "dropWidget"} =>
               /\ q.widget \in WidgetObjects /\ q.at[2] = widgetId[q.widget]
               /\ widgetId[q.widget] # NotThere
               /\ q.op = "moveWidget" => q.tab \in Tabs
<1>1. ASSUME NEW q \in flight, q.op \in {"moveWidget", "dropWidget"}
      PROVE  /\ q.widget \in WidgetObjects /\ q.at[2] = widgetId[q.widget]
             /\ widgetId[q.widget] # NotThere
             /\ q.op = "moveWidget" => q.tab \in Tabs
  <2>1. Addressed(q)
    BY DEF Named
  <2>. QED
    BY <1>1, <2>1 DEF Addressed
<1>. QED
  BY <1>1

WidgetsSame == place' = place /\ known' = known /\ widgetId' = widgetId /\ widgetTab' = widgetTab

LEMMA WidgetsStay ==
    ASSUME Named, WidgetsMeet, WidgetsSame, StoredWidgets' = StoredWidgets,
           \A op : op # "addTab" => Answered(op)' = Answered(op),
           \A i \in StoredTabs : tabAt'[i] = tabAt[i],
           \A q \in flight : q.op # "addTab" => (q.tab \in Shown' <=> q.tab \in Shown)
    PROVE  WidgetsMeet'
<1>1. /\ Answered("addWidget")' = Answered("addWidget") /\ Answered("moveWidget")' = Answered("moveWidget")
      /\ Answered("dropWidget")' = Answered("dropWidget") /\ Answered("dropTab")' = Answered("dropTab")
  OBVIOUS
<1>2. \A w, T : /\ Moving(w)' = Moving(w) /\ (Leaving(T)' <=> Leaving(T))
                /\ (Heads(w, T)' <=> Heads(w, T))
  BY <1>1 DEF Moving, Leaving, Heads, WidgetsSame
<1>3. \A w : \A m \in Moving(w) : m.tab \in Shown' <=> m.tab \in Shown
  <2>1. \A w : \A m \in Moving(w) : m \in flight /\ m.op # "addTab"
    BY AnsweredElim DEF Moving
  <2>. QED
    BY <2>1
<1>4. ASSUME NEW w, Going(w) PROVE Going(w)'
  <2>1. CASE \E q \in Answered("dropWidget") : q.widget = w
    BY <1>1, <2>1 DEF Going
  <2>2. CASE \E T \in Tabs : Heads(w, T) /\ (Leaving(T) \/ (Moving(w) # {} /\ T \notin Shown))
    <3>1. PICK T \in Tabs : Heads(w, T) /\ (Leaving(T) \/ (Moving(w) # {} /\ T \notin Shown))
      BY <2>2
    <3>2. Moving(w) # {} => \E m \in Moving(w) : m.tab = T
      BY <3>1 DEF Heads
    <3>3. Moving(w) # {} => (T \in Shown' <=> T \in Shown)
      BY <1>3, <3>2
    <3>4. Heads(w, T)' /\ (Leaving(T)' \/ (Moving(w)' # {} /\ T \notin Shown'))
      BY <1>2, <3>1, <3>3
    <3>. QED
      BY <3>4 DEF Going
  <2>. QED
    BY <1>4, <2>1, <2>2 DEF Going
<1>5. \A w \in WidgetObjects : place[w] # NotThere => tabAt'[place[w][1]] = tabAt[place[w][1]]
  BY NamedFields DEF WidgetsMeet
<1>6. ASSUME NEW w \in known'
      PROVE  IF place'[w] # NotThere THEN Heads(w, tabAt[place[w][1]])' ELSE Going(w)'
  <2>1. w \in known /\ w \in WidgetObjects
    BY <1>6 DEF WidgetsSame, Named
  <2>2. CASE place[w] # NotThere
    <3>1. PICK T : T = tabAt[place[w][1]]
      OBVIOUS
    <3>2. Heads(w, T)'
      BY <1>2, <2>1, <2>2, <3>1 DEF WidgetsMeet
    <3>3. T = tabAt'[place'[w][1]]
      BY <1>5, <2>1, <2>2, <3>1 DEF WidgetsSame
    <3>. QED
      BY <2>2, <3>2, <3>3 DEF WidgetsSame, Heads
  <2>3. CASE place[w] = NotThere
    BY <1>4, <2>1, <2>3 DEF WidgetsMeet, WidgetsSame
  <2>. QED
    BY <2>2, <2>3
<1>7. ASSUME NEW q \in Answered("addWidget")'
      PROVE  /\ q.made \in (Server!TabId \X Server!WidgetNo)
             /\ IF place'[q.widget] # NotThere THEN tabAt'[place'[q.widget][1]] = q.tab
                ELSE q.tab \in Shown' => Leaving(q.tab)'
  <2>1. q \in Answered("addWidget") /\ q \in flight /\ q.op = "addWidget" /\ q.widget \in WidgetObjects
    BY <1>1, <1>7, AnsweredElim, NewWidgets
  <2>2. q.tab \in Shown' <=> q.tab \in Shown
    BY <2>1
  <2>. QED
    BY <1>2, <1>5, <2>1, <2>2 DEF WidgetsMeet, WidgetsSame
<1>. QED
  BY <1>1, <1>6, <1>7 DEF WidgetsMeet, WidgetsSame

\* Nothing but the requests that were not served changes.
LEMMA Unmoved ==
    ASSUME TabsInv, UNCHANGED <<document, modelVars, historyVars>>,
           \A op : Answered(op)' = Answered(op), \A p \in flight' : Addressed(p)'
    PROVE  TabsInv'
<1>1. /\ Named /\ TabsMeet /\ WidgetsMeet
      /\ UNCHANGED <<document, tabList, tabId, known, widgetId, widgetTab, tabAt, place>>
  BY DEF TabsInv, modelVars, historyVars
<1>2. Shown' = Shown /\ StoredTabs' = StoredTabs /\ StoredWidgets' = StoredWidgets /\ Stored(document)'
  BY <1>1 DEF Shown, StoredTabs, StoredWidgets, Named, Stored
<1>3. Named'
  BY <1>1, <1>2 DEF Named
<1>4. TabsMeet'
  BY <1>1, <1>2, TabsStay
<1>5. WidgetsMeet'
  BY <1>1, <1>2, WidgetsStay DEF WidgetsSame
<1>. QED
  BY <1>3, <1>4, <1>5 DEF TabsInv

LEMMA RequestNamed ==
    ASSUME Named, NEW op, NEW T, NEW w, NEW at, Send(op, T, w, at),
           \A p \in flight : /\ p.op = "addTab" => p.tab # T
                             /\ p.op = "addWidget" => p.widget # w,
           \/ op = "addTab" /\ T \in FreshTabs /\ w = NotThere
           \/ op = "dropTab" /\ T \in Shown /\ w = NotThere /\ at = tabId[T]
           \/ op = "addWidget" /\ T \in Shown /\ w \in FreshWidgets /\ at = tabId[T]
           \/ op = "moveWidget" /\ T \in Shown /\ w \in known /\ at = Address(w)
           \/ op = "dropWidget" /\ T = NotThere /\ w \in known /\ at = Address(w)
    PROVE  /\ \A p \in flight' : Addressed(p)'
           /\ \A o : Answered(o)' = Answered(o)
<1>1. PICK n : flight' = flight \cup {[n |-> n, op |-> op, tab |-> T, widget |-> w, at |-> at, answer |-> "none", made |-> NotThere]}
  BY DEF Send
<1>2. PICK x : x = [n |-> n, op |-> op, tab |-> T, widget |-> w, at |-> at, answer |-> "none", made |-> NotThere]
  OBVIOUS
<1>3. /\ flight' = flight \cup {x} /\ tabId' = tabId /\ widgetId' = widgetId
      /\ x.op = op /\ x.tab = T /\ x.widget = w /\ x.at = at /\ x.answer = "none"
      /\ x = [n |-> x.n, op |-> x.op, tab |-> x.tab, widget |-> x.widget,
              at |-> x.at, answer |-> x.answer, made |-> x.made]
  BY <1>1, <1>2 DEF Send, modelVars
<1>4. ASSUME NEW p \in flight PROVE Addressed(p)'
  <2>1. Addressed(p)
    BY DEF Named
  <2>2. p.op = "addTab" => \A y \in flight' : y.tab = p.tab => y = p
    BY <1>3, <2>1 DEF Addressed
  <2>3. p.op = "addWidget" => \A y \in flight' : y.widget = p.widget => y = p
    BY <1>3, <2>1 DEF Addressed
  <2>. QED
    BY <1>3, <2>2, <2>3, KeepsAddress
<1>5. /\ \A t \in Shown : t \in Tabs /\ tabId[t] # NotThere
      /\ \A v \in known : v \in WidgetObjects /\ widgetId[v] # NotThere
  BY NamedFields DEF Named
<1>6. Addressed(x)'
  <2>1. CASE op = "addTab" /\ T \in FreshTabs /\ w = NotThere
    BY <1>3, <2>1 DEF Addressed, FreshTabs
  <2>2. CASE op = "dropTab" /\ T \in Shown /\ w = NotThere /\ at = tabId[T]
    BY <1>3, <1>5, <2>2 DEF Addressed
  <2>3. CASE op = "addWidget" /\ T \in Shown /\ w \in FreshWidgets /\ at = tabId[T]
    BY <1>3, <1>5, <2>3 DEF Addressed, FreshWidgets
  <2>4. CASE op = "moveWidget" /\ T \in Shown /\ w \in known /\ at = Address(w)
    BY <1>3, <1>5, <2>4 DEF Addressed, Address
  <2>5. CASE op = "dropWidget" /\ T = NotThere /\ w \in known /\ at = Address(w)
    BY <1>3, <1>5, <2>5 DEF Addressed, Address
  <2>. QED
    BY <2>1, <2>2, <2>3, <2>4, <2>5
<1>7. \A p \in flight' : p \in flight \/ p = x
  BY <1>3
<1>8. \A p \in flight' : Addressed(p)'
  BY <1>4, <1>6, <1>7
<1>. QED
  BY <1>3, <1>8, Asked

\* The user's requests.
Asks ==
    \/ CreateTab
    \/ \E T \in Shown : RemoveTab(T) \/ CreateWidget(T)
    \/ \E w \in known, T \in Shown : MoveWidget(w, T)
    \/ \E w \in known : RemoveWidget(w)

LEMMA RequestKeeps ==
    ASSUME TabsInv, Asks
    PROVE  TabsInv'
<1>1. Named
  BY DEF TabsInv
<1>2. ASSUME NEW p \in flight
      PROVE  /\ p.op = "addTab" => p.tab \in Tabs /\ tabId[p.tab] = NotThere
             /\ p.op = "addWidget" => p.widget \in WidgetObjects /\ widgetId[p.widget] = NotThere
  <2>1. Addressed(p)
    BY <1>1 DEF Named
  <2>. QED
    BY <2>1 DEF Addressed
<1>3. /\ \A t \in Shown : tabId[t] # NotThere
      /\ \A v \in known : widgetId[v] # NotThere
      /\ NotThere \notin Tabs /\ NotThere \notin WidgetObjects
  BY <1>1, NamedFields DEF Named
<1>4. PICK op, T, w, at :
        /\ Send(op, T, w, at)
        /\ \/ op = "addTab" /\ T \in FreshTabs /\ w = NotThere
           \/ op = "dropTab" /\ T \in Shown /\ w = NotThere /\ at = tabId[T]
           \/ op = "addWidget" /\ T \in Shown /\ w \in FreshWidgets /\ at = tabId[T]
           \/ op = "moveWidget" /\ T \in Shown /\ w \in known /\ at = Address(w)
           \/ op = "dropWidget" /\ T = NotThere /\ w \in known /\ at = Address(w)
  <2>1. CASE CreateTab
    <3>1. FreshTabs # {} /\ FreshTabs \in SUBSET Nat
      BY <2>1 DEF CreateTab, FreshTabs, Tabs
    <3>2. Min(FreshTabs) \in FreshTabs
      BY <3>1, LeastOf
    <3>. QED
      BY <2>1, <3>2 DEF CreateTab
  <2>2. CASE \E T \in Shown : RemoveTab(T) \/ CreateWidget(T)
    <3>1. PICK T \in Shown : RemoveTab(T) \/ CreateWidget(T)
      BY <2>2
    <3>2. CASE RemoveTab(T)
      BY <3>1, <3>2 DEF RemoveTab
    <3>3. CASE CreateWidget(T)
      BY <3>1, <3>3 DEF CreateWidget
    <3>. QED
      BY <3>1, <3>2, <3>3
  <2>3. CASE \E w \in known, T \in Shown : MoveWidget(w, T)
    BY <2>3 DEF MoveWidget
  <2>4. CASE \E w \in known : RemoveWidget(w)
    BY <2>4 DEF RemoveWidget
  <2>. QED
    BY <2>1, <2>2, <2>3, <2>4 DEF Asks
<1>5. \A p \in flight : /\ p.op = "addTab" => p.tab # T
                        /\ p.op = "addWidget" => p.widget # w
  BY <1>2, <1>3, <1>4 DEF FreshTabs, FreshWidgets
<1>6. /\ \A p \in flight' : Addressed(p)'
      /\ \A o : Answered(o)' = Answered(o)
  BY <1>1, <1>4, <1>5, RequestNamed
<1>7. UNCHANGED <<document, modelVars, historyVars>>
  BY <1>4 DEF Send
<1>. QED
  BY <1>6, <1>7, Unmoved

LEMMA RefuseKeeps ==
    ASSUME TabsInv, NEW q \in flight, Refuse(q)
    PROVE  TabsInv'
<1>1. /\ Named /\ q.answer = "none" /\ flight' = flight \ {q} /\ tabId' = tabId /\ widgetId' = widgetId
      /\ UNCHANGED <<document, modelVars, historyVars>>
  BY DEF TabsInv, Refuse, modelVars
<1>2. \A p \in flight' : Addressed(p)'
  BY <1>1, NamedLess
<1>3. \A op : Answered(op)' = Answered(op)
  BY <1>1, Refused
<1>. QED
  BY <1>1, <1>2, <1>3, Unmoved

LEMMA StoreTabKeeps ==
    ASSUME TabsInv, NEW q \in flight, StoreTab(q)
    PROVE  TabsInv'
<1>1. Named' /\ TabsMeet'
  BY StoreTabMeets
<1>2. /\ Named /\ TabsMeet /\ WidgetsMeet /\ Stored(document) /\ q.op = "addTab" /\ q.answer = "none" /\ Addressed(q)
  BY DEF TabsInv, Named, StoreTab, Waiting
<1>3. PICK i \in Server!TabId : i \notin StoredTabs /\ StoredTabs' = StoredTabs \cup {i}
  BY <1>2, TabAdded DEF StoreTab
<1>4. Made(StoredTabs) = i
  BY <1>3 DEF Made
<1>5. /\ StoredWidgets' = StoredWidgets /\ Done(q, i) /\ UNCHANGED <<modelVars, place>>
      /\ tabAt' = [tabAt EXCEPT ![i] = q.tab]
  BY <1>2, <1>4, TabAdded DEF StoreTab
<1>6. \A op : op # "addTab" => Answered(op)' = Answered(op)
  BY <1>2, <1>5, Served
<1>7. \A j \in StoredTabs : tabAt'[j] = tabAt[j]
  BY <1>2, <1>3, <1>5, NamedFields DEF TabsMeet
<1>8. Shown' = Shown /\ WidgetsSame
  BY <1>5 DEF modelVars, Shown, WidgetsSame
<1>9. WidgetsMeet'
  BY <1>2, <1>5, <1>6, <1>7, <1>8, WidgetsStay
<1>. QED
  BY <1>1, <1>9 DEF TabsInv

LEMMA TabCreatedKeeps ==
    ASSUME TabsInv, NEW q \in flight, TabCreated(q)
    PROVE  TabsInv'
<1>1. Named' /\ TabsMeet' /\ Shown' = Shown \cup {q.tab}
  BY TabCreatedMeets
<1>2. /\ Named /\ WidgetsMeet /\ q.op = "addTab" /\ q.answer = "done" /\ Addressed(q) /\ flight' = flight \ {q}
      /\ UNCHANGED <<document, known, widgetId, widgetTab, tabAt, place>>
  BY DEF TabsInv, Named, TabCreated, Comes, historyVars
<1>3. StoredWidgets' = StoredWidgets /\ WidgetsSame
  BY <1>2 DEF StoredWidgets, WidgetsSame
<1>4. \A op : op # "addTab" => Answered(op)' = Answered(op)
  <2>1. \A op : Answered(op)' = Answered(op) \ {q}
    BY <1>2, Received
  <2>2. \A op : op # "addTab" => Answered(op) \ {q} = Answered(op)
    BY <1>2, AnsweredElim
  <2>. QED
    BY <2>1, <2>2
<1>5. \A p \in flight : p.op # "addTab" => p.tab # q.tab
  BY <1>2 DEF Addressed
<1>6. WidgetsMeet'
  BY <1>1, <1>2, <1>3, <1>4, <1>5, WidgetsStay
<1>. QED
  BY <1>1, <1>6 DEF TabsInv

\* The parts of WidgetsMeet, before a step and after it.
LEMMA WidgetsElim ==
    ASSUME Named, WidgetsMeet
    PROVE  /\ place \in [WidgetObjects -> StoredWidgets \cup {NotThere}]
           /\ \A v, w \in WidgetObjects : place[v] = place[w] /\ place[v] # NotThere => v = w
           /\ \A p \in StoredWidgets : \E w \in WidgetObjects : place[w] = p
           /\ \A w \in WidgetObjects : place[w] # NotThere =>
                 /\ place[w] \in StoredWidgets /\ place[w][1] \in StoredTabs
                 /\ w \in known \/ \E q \in Answered("addWidget") : q.widget = w
           /\ \A w \in known : /\ w \in WidgetObjects
                               /\ place[w] # NotThere => Heads(w, tabAt[place[w][1]])
                               /\ place[w] = NotThere => Going(w)
BY NamedFields DEF WidgetsMeet, Named

LEMMA RequestsElim ==
    ASSUME Named, WidgetsMeet
    PROVE  /\ \A q \in Answered("addWidget") :
                 /\ q \in flight /\ q.op = "addWidget" /\ q.widget \in WidgetObjects
                 /\ q.made \in (Server!TabId \X Server!WidgetNo)
                 /\ place[q.widget] # NotThere => tabAt[place[q.widget][1]] = q.tab
                 /\ place[q.widget] = NotThere /\ q.tab \in Shown => Leaving(q.tab)
           /\ \A q \in Answered("moveWidget") :
                 /\ q \in flight /\ q.op = "moveWidget" /\ q.widget \in WidgetObjects
                 /\ place[q.widget] # widgetId[q.widget] /\ widgetId[q.widget] # NotThere
                 /\ \A p \in Answered("moveWidget") : p.widget = q.widget => p = q
           /\ \A q \in Answered("dropWidget") :
                 /\ q \in flight /\ q.op = "dropWidget" /\ q.widget \in WidgetObjects
                 /\ place[q.widget] = NotThere /\ widgetId[q.widget] # NotThere
<1>1. \A op, q : q \in Answered(op) => q \in flight /\ q.op = op
  BY AnsweredElim
<1>2. \A q \in Answered("addWidget") : q.widget \in WidgetObjects
  BY <1>1, NewWidgets
<1>3. \A q \in Answered("moveWidget") \cup Answered("dropWidget") :
          q.widget \in WidgetObjects /\ widgetId[q.widget] # NotThere
  BY <1>1, OldWidgets
<1>. QED
  BY <1>1, <1>2, <1>3 DEF WidgetsMeet

LEMMA WidgetsIntro ==
    ASSUME place' \in [WidgetObjects -> StoredWidgets' \cup {NotThere}],
           \A v, w \in WidgetObjects : place'[v] = place'[w] /\ place'[v] # NotThere => v = w,
           \A p \in StoredWidgets' : \E w \in WidgetObjects : place'[w] = p,
           \A w \in WidgetObjects : place'[w] # NotThere =>
               w \in known' \/ \E q \in Answered("addWidget")' : q.widget = w,
           \A w \in known' : /\ place'[w] # NotThere => \E T : T = tabAt'[place'[w][1]] /\ Heads(w, T)'
                             /\ place'[w] = NotThere => Going(w)',
           \A q \in Answered("addWidget")' :
               /\ q.made \in (Server!TabId \X Server!WidgetNo)
               /\ place'[q.widget] # NotThere => tabAt'[place'[q.widget][1]] = q.tab
               /\ place'[q.widget] = NotThere /\ q.tab \in Shown' => Leaving(q.tab)',
           \A q \in Answered("moveWidget")' :
               /\ place'[q.widget] # widgetId'[q.widget]
               /\ \A p \in Answered("moveWidget")' : p.widget = q.widget => p = q,
           \A q \in Answered("dropWidget")' : place'[q.widget] = NotThere
    PROVE  WidgetsMeet'
<1>1. ASSUME NEW w \in known'
      PROVE  IF place'[w] # NotThere THEN Heads(w, tabAt[place[w][1]])' ELSE Going(w)'
  <2>1. CASE place'[w] # NotThere
    <3>1. PICK T : T = tabAt'[place'[w][1]] /\ Heads(w, T)'
      BY <1>1, <2>1
    <3>. QED
      BY <2>1, <3>1 DEF Heads
  <2>2. CASE place'[w] = NotThere
    BY <1>1, <2>2
  <2>. QED
    BY <2>1, <2>2
<1>. QED
  BY <1>1 DEF WidgetsMeet

\* A widget that no step has to do with.
LEMMA HeadsSame ==
    ASSUME NEW w, Moving(w)' = Moving(w), widgetTab'[w] = widgetTab[w]
    PROVE  \A T : Heads(w, T)' <=> Heads(w, T)
BY DEF Heads

LEMMA GoingSame ==
    ASSUME NEW w, Going(w), Moving(w)' = Moving(w), widgetTab'[w] = widgetTab[w], Shown' = Shown,
           \A q \in Answered("dropWidget") : q.widget = w => q \in Answered("dropWidget")',
           \A T : Leaving(T) => Leaving(T)'
    PROVE  Going(w)'
<1>1. CASE \E q \in Answered("dropWidget") : q.widget = w
  BY <1>1 DEF Going
<1>2. CASE \E T \in Tabs : Heads(w, T) /\ (Leaving(T) \/ (Moving(w) # {} /\ T \notin Shown))
  <2>1. PICK T \in Tabs : Heads(w, T) /\ (Leaving(T) \/ (Moving(w) # {} /\ T \notin Shown))
    BY <1>2
  <2>2. Heads(w, T)' /\ (Leaving(T)' \/ (Moving(w)' # {} /\ T \notin Shown'))
    BY <2>1, HeadsSame
  <2>. QED
    BY <2>2 DEF Going
<1>. QED
  BY <1>1, <1>2 DEF Going

LEMMA MovingElim == \A w, q : q \in Moving(w) <=> q \in Answered("moveWidget") /\ q.widget = w
BY DEF Moving

LEMMA DropTabKeeps ==
    ASSUME TabsInv, NEW q \in flight, DropTab(q), ~astray'
    PROVE  TabsInv'
<1>1. Named' /\ TabsMeet'
  BY DropTabMeets
<1>2. PICK i : i = q.at
  OBVIOUS
<1>3. /\ Named /\ TabsMeet /\ WidgetsMeet /\ Stored(document) /\ q.op = "dropTab" /\ q.answer = "none" /\ Addressed(q)
      /\ i \in StoredTabs /\ Server!DropTab(i) /\ Done(q, NotThere) /\ UNCHANGED modelVars
      /\ tabAt' = [tabAt EXCEPT ![i] = NotThere] /\ tabAt[i] = q.tab
      /\ place' = [w \in WidgetObjects |-> IF place[w] \in StoredWidgets' THEN place[w] ELSE NotThere]
  BY <1>2 DEF TabsInv, Named, DropTab, Waiting
<1>4. StoredWidgets' = {p \in StoredWidgets : p[1] # i}
  BY <1>3, TabDropped
<1>5. PICK s : s = ServedAs(q, NotThere)
  OBVIOUS
<1>6. s.tab = q.tab /\ q.tab \in Tabs
  BY <1>3, <1>5, ServedFields DEF Addressed
<1>7. /\ Answered("addWidget")' = Answered("addWidget") /\ Answered("dropTab")' = Answered("dropTab") \cup {s}
      /\ Answered("moveWidget")' = Answered("moveWidget") /\ Answered("dropWidget")' = Answered("dropWidget")
  BY <1>3, <1>5, Served
<1>8. \A j \in StoredTabs : j # i => tabAt'[j] = tabAt[j]
  BY <1>3, NamedFields DEF TabsMeet
<1>9. /\ Shown' = Shown /\ known' = known /\ widgetId' = widgetId /\ widgetTab' = widgetTab
      /\ \A T : Leaving(T)' <=> Leaving(T) \/ T = q.tab
      /\ \A w : Moving(w)' = Moving(w)
  BY <1>3, <1>6, <1>7 DEF modelVars, Shown, Leaving, Moving
<1>10. \A w, T : Heads(w, T)' <=> Heads(w, T)
  BY <1>9, HeadsSame
<1>11. \A p \in StoredWidgets : p # NotThere
  BY <1>3, NamedFields
<1>12. \A w \in WidgetObjects :
          \/ place[w] = NotThere /\ place'[w] = NotThere
          \/ place[w] \in StoredWidgets /\ place[w][1] = i /\ place'[w] = NotThere
          \/ place[w] \in StoredWidgets /\ place[w][1] \in StoredTabs \ {i} /\ place'[w] = place[w]
  BY <1>3, <1>4, <1>11, WidgetsElim
<1>13. \A w \in WidgetObjects : place'[w] # NotThere => place'[w] = place[w]
  BY <1>12
<1>14. /\ place' \in [WidgetObjects -> StoredWidgets' \cup {NotThere}]
       /\ \A p \in StoredWidgets' : \E w \in WidgetObjects : place'[w] = p
  BY <1>3, <1>4, WidgetsElim
<1>15. \A v, w \in WidgetObjects : place'[v] = place'[w] /\ place'[v] # NotThere => v = w
  BY <1>3, <1>13, WidgetsElim
<1>16. \A w \in WidgetObjects : place'[w] # NotThere =>
          w \in known' \/ \E a \in Answered("addWidget")' : a.widget = w
  BY <1>3, <1>7, <1>9, <1>13, WidgetsElim
<1>17. ASSUME NEW w \in known'
       PROVE  /\ place'[w] # NotThere => \E T : T = tabAt'[place'[w][1]] /\ Heads(w, T)'
              /\ place'[w] = NotThere => Going(w)'
  <2>1. w \in known /\ w \in WidgetObjects
    BY <1>3, <1>9, <1>17, WidgetsElim
  <2>2. CASE place[w] = NotThere /\ place'[w] = NotThere
    <3>1. Going(w)
      BY <1>3, <2>1, <2>2, WidgetsElim
    <3>. QED
      BY <1>7, <1>9, <2>2, <3>1, GoingSame
  <2>3. CASE place[w] \in StoredWidgets /\ place[w][1] = i /\ place'[w] = NotThere
    <3>1. Heads(w, q.tab)
      BY <1>3, <1>11, <2>1, <2>3, WidgetsElim
    <3>2. Heads(w, q.tab)' /\ Leaving(q.tab)'
      BY <1>9, <1>10, <3>1
    <3>. QED
      BY <1>6, <2>3, <3>2 DEF Going
  <2>4. CASE place[w] \in StoredWidgets /\ place[w][1] \in StoredTabs \ {i} /\ place'[w] = place[w]
    <3>1. PICK T : T = tabAt[place[w][1]]
      OBVIOUS
    <3>2. Heads(w, T) /\ place[w] # NotThere
      BY <1>3, <1>11, <2>1, <2>4, <3>1, WidgetsElim
    <3>3. T = tabAt'[place'[w][1]]
      BY <1>8, <2>4, <3>1
    <3>. QED
      BY <1>10, <2>4, <3>2, <3>3
  <2>. QED
    BY <1>12, <2>1, <2>2, <2>3, <2>4
<1>18. ASSUME NEW a \in Answered("addWidget")'
       PROVE  /\ a.made \in (Server!TabId \X Server!WidgetNo)
              /\ place'[a.widget] # NotThere => tabAt'[place'[a.widget][1]] = a.tab
              /\ place'[a.widget] = NotThere /\ a.tab \in Shown' => Leaving(a.tab)'
  <2>1. /\ a.widget \in WidgetObjects /\ a.made \in (Server!TabId \X Server!WidgetNo)
        /\ place[a.widget] # NotThere => tabAt[place[a.widget][1]] = a.tab
        /\ place[a.widget] = NotThere /\ a.tab \in Shown => Leaving(a.tab)
    BY <1>3, <1>7, RequestsElim
  <2>2. CASE place[a.widget] = NotThere /\ place'[a.widget] = NotThere
    BY <1>9, <2>1, <2>2
  <2>3. CASE place[a.widget] \in StoredWidgets /\ place[a.widget][1] = i /\ place'[a.widget] = NotThere
    BY <1>3, <1>9, <1>11, <2>1, <2>3
  <2>4. CASE place[a.widget] \in StoredWidgets /\ place[a.widget][1] \in StoredTabs \ {i} /\ place'[a.widget] = place[a.widget]
    BY <1>8, <1>11, <2>1, <2>4
  <2>. QED
    BY <1>12, <2>1, <2>2, <2>3, <2>4
<1>19. \A m \in Answered("moveWidget")' :
          /\ place'[m.widget] # widgetId'[m.widget]
          /\ \A p \in Answered("moveWidget")' : p.widget = m.widget => p = m
  BY <1>3, <1>7, <1>9, <1>13, RequestsElim
<1>20. \A d \in Answered("dropWidget")' : place'[d.widget] = NotThere
  BY <1>3, <1>7, <1>13, RequestsElim
<1>21. WidgetsMeet'
  BY <1>14, <1>15, <1>16, <1>17, <1>18, <1>19, <1>20, WidgetsIntro
<1>. QED
  BY <1>1, <1>21 DEF TabsInv

LEMMA StoredNext ==
    ASSUME Stored(document')
    PROVE  \A p \in StoredWidgets' : p \in Server!TabId \X Server!WidgetNo /\ p # NotThere
<1>1. PICK d : d = document'
  OBVIOUS
<1>2. Server!WidgetIds(d) \subseteq Server!TabId \X Server!WidgetNo
  BY <1>1, StoredIds
<1>3. StoredWidgets' = Server!WidgetIds(d)
  BY <1>1 DEF StoredWidgets
<1>4. Server!TabId \X Server!WidgetNo \subseteq Nat \X Nat
  BY TabBounds DEF Server!TabId, Server!WidgetNo
<1>5. NotThere \notin Nat \X Nat
  BY TabBounds
<1>. QED
  BY <1>2, <1>3, <1>4, <1>5

\* A request for a widget is served: the tabs do not change.
LEMMA TabsServed ==
    ASSUME TabsInv, NEW q \in flight, NEW made, q.answer = "none", q.op \notin {"addTab", "dropTab"},
           Done(q, made), Stored(document'), StoredTabs' = StoredTabs, UNCHANGED <<modelVars, tabAt>>
    PROVE  Named' /\ TabsMeet' /\ \A T : Leaving(T)' <=> Leaving(T)
<1>1. /\ Named /\ TabsMeet /\ Addressed(q) /\ UNCHANGED modelVars
      /\ tabAt' = tabAt /\ tabId' = tabId /\ tabList' = tabList
  BY DEF TabsInv, Named, modelVars
<1>2. Named'
  BY <1>1, NamedServed
<1>3. Answered("addTab")' = Answered("addTab") /\ Answered("dropTab")' = Answered("dropTab")
  BY <1>1, Served
<1>4. TabsMeet'
  BY <1>1, <1>3, TabsStay
<1>. QED
  BY <1>2, <1>3, <1>4 DEF Leaving

LEMMA StoreWidgetKeeps ==
    ASSUME TabsInv, NEW q \in flight, StoreWidget(q), ~astray'
    PROVE  TabsInv'
<1>1. PICK i : i = q.at
  OBVIOUS
<1>2. /\ Named /\ TabsMeet /\ WidgetsMeet /\ Stored(document) /\ q.op = "addWidget" /\ q.answer = "none" /\ Addressed(q)
      /\ i \in StoredTabs /\ Server!AddWidget(i) /\ Done(q, Made(StoredWidgets)) /\ UNCHANGED <<modelVars, tabAt>>
      /\ tabAt[i] = q.tab /\ place' = [place EXCEPT ![q.widget] = Made(StoredWidgets)]
  BY <1>1 DEF TabsInv, Named, StoreWidget, Waiting
<1>3. PICK p : /\ p \notin StoredWidgets /\ p[1] = i /\ Made(StoredWidgets) = p
               /\ StoredWidgets' = StoredWidgets \cup {p}
  BY <1>2, WidgetAdded
<1>4. Stored(document') /\ StoredTabs' = StoredTabs /\ Done(q, p) /\ place' = [place EXCEPT ![q.widget] = p]
  BY <1>2, <1>3, WidgetAdded
<1>5. Named' /\ TabsMeet' /\ \A T : Leaving(T)' <=> Leaving(T)
  BY <1>2, <1>4, TabsServed
<1>6. PICK s : s = ServedAs(q, p)
  OBVIOUS
<1>7. s.tab = q.tab /\ s.widget = q.widget /\ s.made = p
  BY <1>2, <1>6, ServedFields
<1>8. /\ Answered("addWidget")' = Answered("addWidget") \cup {s}
      /\ Answered("moveWidget")' = Answered("moveWidget") /\ Answered("dropWidget")' = Answered("dropWidget")
  BY <1>2, <1>4, <1>6, Served
<1>9. /\ Shown' = Shown /\ known' = known /\ widgetId' = widgetId /\ widgetTab' = widgetTab /\ tabAt' = tabAt
      /\ \A w : Moving(w)' = Moving(w)
  BY <1>2, <1>8 DEF modelVars, Shown, Moving
<1>10. \A w, T : Heads(w, T)' <=> Heads(w, T)
  BY <1>9, HeadsSame
<1>11. /\ q.widget \in WidgetObjects /\ widgetId[q.widget] = NotThere /\ q.widget \notin known
       /\ \A a \in flight : a.widget = q.widget => a = q
  BY <1>2, NewWidgets
<1>12. q \notin Answered("addWidget") /\ \A a \in Answered("addWidget") : a.widget # q.widget
  BY <1>2, <1>11, AnsweredElim
<1>13. place[q.widget] = NotThere
  BY <1>2, <1>11, <1>12, WidgetsElim
<1>14. p \in (Server!TabId \X Server!WidgetNo) /\ p # NotThere
  BY <1>3, <1>4, StoredNext
<1>15. /\ place'[q.widget] = p
       /\ \A w \in WidgetObjects : w # q.widget => place'[w] = place[w]
       /\ place' \in [WidgetObjects -> StoredWidgets' \cup {NotThere}]
  <2>1. place \in [WidgetObjects -> StoredWidgets \cup {NotThere}]
    BY <1>2, WidgetsElim
  <2>. QED
    BY <1>3, <1>4, <1>11, <2>1
<1>16. \A w \in WidgetObjects : place[w] # p
  BY <1>2, <1>3, <1>14, WidgetsElim
<1>17. \A v, w \in WidgetObjects : place'[v] = place'[w] /\ place'[v] # NotThere => v = w
  <2>1. \A v, w \in WidgetObjects : place[v] = place[w] /\ place[v] # NotThere => v = w
    BY <1>2, WidgetsElim
  <2>. QED
    BY <1>15, <1>16, <2>1
<1>18. \A x \in StoredWidgets' : \E w \in WidgetObjects : place'[w] = x
  <2>1. ASSUME NEW x \in StoredWidgets PROVE \E w \in WidgetObjects : place'[w] = x
    <3>1. PICK w \in WidgetObjects : place[w] = x
      BY <1>2, <2>1, WidgetsElim
    <3>2. x # NotThere
      BY <1>2, <2>1, NamedFields
    <3>. QED
      BY <1>13, <1>15, <3>1, <3>2
  <2>. QED
    BY <1>3, <1>11, <1>15, <2>1
<1>19. \A w \in WidgetObjects : place'[w] # NotThere =>
          w \in known' \/ \E a \in Answered("addWidget")' : a.widget = w
  <2>1. \A w \in WidgetObjects : place[w] # NotThere => w \in known \/ \E a \in Answered("addWidget") : a.widget = w
    BY <1>2, WidgetsElim
  <2>. QED
    BY <1>7, <1>8, <1>9, <1>15, <2>1
<1>20. ASSUME NEW w \in known'
       PROVE  /\ place'[w] # NotThere => \E T : T = tabAt'[place'[w][1]] /\ Heads(w, T)'
              /\ place'[w] = NotThere => Going(w)'
  <2>1. w \in known /\ w \in WidgetObjects /\ w # q.widget
    BY <1>2, <1>9, <1>11, <1>20, WidgetsElim
  <2>2. place'[w] = place[w]
    BY <1>15, <2>1
  <2>3. place[w] # NotThere => Heads(w, tabAt[place[w][1]])
    BY <1>2, <2>1, WidgetsElim
  <2>4. place[w] = NotThere => Going(w)
    BY <1>2, <2>1, WidgetsElim
  <2>5. place[w] = NotThere => Going(w)'
    BY <1>5, <1>8, <1>9, <2>4, GoingSame
  <2>. QED
    BY <1>9, <1>10, <2>2, <2>3, <2>5
<1>21. ASSUME NEW a \in Answered("addWidget")'
       PROVE  /\ a.made \in (Server!TabId \X Server!WidgetNo)
              /\ place'[a.widget] # NotThere => tabAt'[place'[a.widget][1]] = a.tab
              /\ place'[a.widget] = NotThere /\ a.tab \in Shown' => Leaving(a.tab)'
  <2>1. CASE a = s
    BY <1>2, <1>3, <1>7, <1>9, <1>14, <1>15, <2>1
  <2>2. CASE a \in Answered("addWidget")
    <3>1. /\ a.widget \in WidgetObjects /\ a.made \in (Server!TabId \X Server!WidgetNo)
          /\ place[a.widget] # NotThere => tabAt[place[a.widget][1]] = a.tab
          /\ place[a.widget] = NotThere /\ a.tab \in Shown => Leaving(a.tab)
      BY <1>2, <2>2, RequestsElim
    <3>. QED
      BY <1>5, <1>9, <1>12, <1>15, <2>2, <3>1
  <2>. QED
    BY <1>8, <2>1, <2>2
<1>22. \A m \in Answered("moveWidget")' :
          /\ place'[m.widget] # widgetId'[m.widget]
          /\ \A o \in Answered("moveWidget")' : o.widget = m.widget => o = m
  <2>1. \A m \in Answered("moveWidget") :
          /\ m.widget \in WidgetObjects /\ m.widget # q.widget /\ place[m.widget] # widgetId[m.widget]
          /\ \A o \in Answered("moveWidget") : o.widget = m.widget => o = m
    BY <1>2, <1>11, RequestsElim
  <2>. QED
    BY <1>8, <1>9, <1>15, <2>1
<1>23. \A d \in Answered("dropWidget")' : place'[d.widget] = NotThere
  <2>1. \A d \in Answered("dropWidget") :
           d.widget \in WidgetObjects /\ d.widget # q.widget /\ place[d.widget] = NotThere
    BY <1>2, <1>11, RequestsElim
  <2>. QED
    BY <1>8, <1>15, <2>1
<1>24. WidgetsMeet'
  BY <1>15, <1>17, <1>18, <1>19, <1>20, <1>21, <1>22, <1>23, WidgetsIntro
<1>. QED
  BY <1>5, <1>24 DEF TabsInv

LEMMA DropWidgetKeeps ==
    ASSUME TabsInv, NEW q \in flight, DropWidget(q), ~astray'
    PROVE  TabsInv'
<1>1. PICK o : o = q.at[2]
  OBVIOUS
<1>2. /\ Named /\ TabsMeet /\ WidgetsMeet /\ Stored(document) /\ q.op = "dropWidget" /\ q.answer = "none" /\ Addressed(q)
      /\ o \in StoredWidgets /\ Server!DropWidget(o[1], o[2]) /\ Done(q, NotThere) /\ UNCHANGED <<modelVars, tabAt>>
      /\ place[q.widget] = o /\ place' = [place EXCEPT ![q.widget] = NotThere]
  BY <1>1 DEF TabsInv, Named, DropWidget, Waiting, FoundThere
<1>3. Stored(document') /\ StoredTabs' = StoredTabs /\ StoredWidgets' = StoredWidgets \ {<<o[1], o[2]>>}
  BY <1>2, WidgetTaken
<1>4. o = <<o[1], o[2]>> /\ o # NotThere
  BY <1>2, NamedFields
<1>5. Named' /\ TabsMeet' /\ \A T : Leaving(T)' <=> Leaving(T)
  BY <1>2, <1>3, TabsServed
<1>6. PICK s : s = ServedAs(q, NotThere)
  OBVIOUS
<1>7. s.widget = q.widget
  BY <1>2, <1>6, ServedFields
<1>8. /\ Answered("addWidget")' = Answered("addWidget") /\ Answered("moveWidget")' = Answered("moveWidget")
      /\ Answered("dropWidget")' = Answered("dropWidget") \cup {s}
  BY <1>2, <1>6, Served
<1>9. /\ Shown' = Shown /\ known' = known /\ widgetId' = widgetId /\ widgetTab' = widgetTab /\ tabAt' = tabAt
      /\ \A w : Moving(w)' = Moving(w)
  BY <1>2, <1>8 DEF modelVars, Shown, Moving
<1>10. \A w, T : Heads(w, T)' <=> Heads(w, T)
  BY <1>9, HeadsSame
<1>11. q.widget \in WidgetObjects /\ widgetId[q.widget] # NotThere
  BY <1>2, OldWidgets
<1>12. \A a \in Answered("addWidget") : a.widget # q.widget
  <2>1. \A a \in Answered("addWidget") : widgetId[a.widget] = NotThere
    BY <1>2, AnsweredElim, NewWidgets
  <2>. QED
    BY <1>11, <2>1
<1>13. /\ \A v, w \in WidgetObjects : place[v] = place[w] /\ place[v] # NotThere => v = w
       /\ place \in [WidgetObjects -> StoredWidgets \cup {NotThere}]
  BY <1>2, WidgetsElim
<1>14. /\ place'[q.widget] = NotThere
       /\ \A w \in WidgetObjects : w # q.widget => place'[w] = place[w] /\ place[w] # o
  BY <1>2, <1>4, <1>11, <1>13
<1>15. StoredWidgets' = StoredWidgets \ {o}
  BY <1>3, <1>4
<1>16. place' \in [WidgetObjects -> StoredWidgets' \cup {NotThere}]
  <2>1. \A w \in WidgetObjects : place'[w] \in (StoredWidgets \ {o}) \cup {NotThere}
    BY <1>13, <1>14
  <2>2. place' \in [WidgetObjects -> StoredWidgets \cup {NotThere}]
    BY <1>2, <1>13
  <2>. QED
    BY <1>15, <2>1, <2>2
<1>17. \A v, w \in WidgetObjects : place'[v] = place'[w] /\ place'[v] # NotThere => v = w
  BY <1>13, <1>14
<1>18. \A x \in StoredWidgets' : \E w \in WidgetObjects : place'[w] = x
  <2>1. ASSUME NEW x \in StoredWidgets, x # o PROVE \E w \in WidgetObjects : place'[w] = x
    <3>1. PICK w \in WidgetObjects : place[w] = x
      BY <1>2, <2>1, WidgetsElim
    <3>. QED
      BY <1>2, <1>14, <2>1, <3>1
  <2>. QED
    BY <1>15, <2>1
<1>19. \A w \in WidgetObjects : place'[w] # NotThere =>
          w \in known' \/ \E a \in Answered("addWidget")' : a.widget = w
  <2>1. \A w \in WidgetObjects : place[w] # NotThere => w \in known \/ \E a \in Answered("addWidget") : a.widget = w
    BY <1>2, WidgetsElim
  <2>. QED
    BY <1>8, <1>9, <1>14, <2>1
<1>20. ASSUME NEW w \in known'
       PROVE  /\ place'[w] # NotThere => \E T : T = tabAt'[place'[w][1]] /\ Heads(w, T)'
              /\ place'[w] = NotThere => Going(w)'
  <2>1. /\ w \in known /\ w \in WidgetObjects
        /\ place[w] # NotThere => Heads(w, tabAt[place[w][1]])
        /\ place[w] = NotThere => Going(w)
    BY <1>2, <1>9, <1>20, WidgetsElim
  <2>2. CASE w = q.widget
    <3>1. Going(w)'
      BY <1>7, <1>8, <2>2 DEF Going
    <3>. QED
      BY <1>14, <2>2, <3>1
  <2>3. CASE w # q.widget
    <3>1. place'[w] = place[w]
      BY <1>14, <2>1, <2>3
    <3>2. place[w] = NotThere => Going(w)'
      BY <1>5, <1>8, <1>9, <2>1, GoingSame
    <3>. QED
      BY <1>9, <1>10, <2>1, <3>1, <3>2
  <2>. QED
    BY <2>2, <2>3
<1>21. ASSUME NEW a \in Answered("addWidget")'
       PROVE  /\ a.made \in (Server!TabId \X Server!WidgetNo)
              /\ place'[a.widget] # NotThere => tabAt'[place'[a.widget][1]] = a.tab
              /\ place'[a.widget] = NotThere /\ a.tab \in Shown' => Leaving(a.tab)'
  <2>1. /\ a.widget \in WidgetObjects /\ a.made \in (Server!TabId \X Server!WidgetNo)
        /\ place[a.widget] # NotThere => tabAt[place[a.widget][1]] = a.tab
        /\ place[a.widget] = NotThere /\ a.tab \in Shown => Leaving(a.tab)
        /\ a.widget # q.widget
    BY <1>2, <1>8, <1>12, RequestsElim
  <2>. QED
    BY <1>5, <1>9, <1>14, <2>1
<1>22. \A m \in Answered("moveWidget")' :
          /\ place'[m.widget] # widgetId'[m.widget]
          /\ \A x \in Answered("moveWidget")' : x.widget = m.widget => x = m
  <2>1. \A m \in Answered("moveWidget") :
          /\ m.widget \in WidgetObjects /\ place[m.widget] # widgetId[m.widget] /\ widgetId[m.widget] # NotThere
          /\ \A x \in Answered("moveWidget") : x.widget = m.widget => x = m
    BY <1>2, RequestsElim
  <2>. QED
    BY <1>8, <1>9, <1>14, <2>1
<1>23. \A d \in Answered("dropWidget")' : place'[d.widget] = NotThere
  <2>1. \A d \in Answered("dropWidget") : d.widget \in WidgetObjects /\ place[d.widget] = NotThere
    BY <1>2, RequestsElim
  <2>. QED
    BY <1>7, <1>8, <1>14, <2>1
<1>24. WidgetsMeet'
  BY <1>16, <1>17, <1>18, <1>19, <1>20, <1>21, <1>22, <1>23, WidgetsIntro
<1>. QED
  BY <1>5, <1>24 DEF TabsInv

LEMMA StoreMoveKeeps ==
    ASSUME TabsInv, NEW q \in flight, StoreMove(q), ~astray'
    PROVE  TabsInv'
<1>1. PICK o, j : o = q.at[2] /\ j = tabId[q.tab]
  OBVIOUS
<1>2. /\ Named /\ TabsMeet /\ WidgetsMeet /\ Stored(document) /\ q.op = "moveWidget" /\ q.answer = "none" /\ Addressed(q)
      /\ o \in StoredWidgets /\ Server!MoveWidget(o[1], o[2], j) /\ Done(q, NotThere) /\ UNCHANGED <<modelVars, tabAt>>
      /\ place[q.widget] = o /\ tabAt[j] = q.tab /\ place' = [place EXCEPT ![q.widget] = Made(StoredWidgets)]
  BY <1>1 DEF TabsInv, Named, StoreMove, Waiting, FoundThere
<1>3. PICK p : /\ p \notin StoredWidgets /\ p[1] = j /\ Made(StoredWidgets) = p
               /\ StoredWidgets' = (StoredWidgets \ {<<o[1], o[2]>>}) \cup {p}
  BY <1>2, WidgetRehoused
<1>4. Stored(document') /\ StoredTabs' = StoredTabs
  BY <1>2, WidgetRehoused
<1>5. Named' /\ TabsMeet' /\ \A T : Leaving(T)' <=> Leaving(T)
  BY <1>2, <1>4, TabsServed
<1>6. PICK s : s = ServedAs(q, NotThere)
  OBVIOUS
<1>7. s.widget = q.widget /\ s.tab = q.tab
  BY <1>2, <1>6, ServedFields
<1>8. /\ Answered("addWidget")' = Answered("addWidget") /\ Answered("dropWidget")' = Answered("dropWidget")
      /\ Answered("moveWidget")' = Answered("moveWidget") \cup {s}
  BY <1>2, <1>6, Served
<1>9. /\ Shown' = Shown /\ known' = known /\ widgetId' = widgetId /\ widgetTab' = widgetTab /\ tabAt' = tabAt
      /\ \A w : w # q.widget => Moving(w)' = Moving(w)
      /\ s \in Moving(q.widget)'
  BY <1>2, <1>7, <1>8 DEF modelVars, Shown, Moving
<1>10. \A w, T : w # q.widget => (Heads(w, T)' <=> Heads(w, T))
  BY <1>9, HeadsSame
<1>11. /\ q.widget \in WidgetObjects /\ widgetId[q.widget] # NotThere /\ widgetId[q.widget] = o
       /\ p # NotThere /\ o # NotThere /\ p # o /\ StoredWidgets' = (StoredWidgets \ {o}) \cup {p}
  <2>1. o = <<o[1], o[2]>> /\ o # NotThere
    BY <1>2, NamedFields
  <2>2. p \in StoredWidgets'
    BY <1>3
  <2>3. p # NotThere
    BY <1>4, <2>2, StoredNext
  <2>. QED
    BY <1>1, <1>2, <1>3, <2>1, <2>3, OldWidgets
<1>12. \A a \in Answered("addWidget") : a.widget # q.widget
  <2>1. \A a \in Answered("addWidget") : widgetId[a.widget] = NotThere
    BY <1>2, AnsweredElim, NewWidgets
  <2>. QED
    BY <1>11, <2>1
<1>13. /\ \A v, w \in WidgetObjects : place[v] = place[w] /\ place[v] # NotThere => v = w
       /\ place \in [WidgetObjects -> StoredWidgets \cup {NotThere}]
  BY <1>2, WidgetsElim
<1>14. /\ place'[q.widget] = p
       /\ \A w \in WidgetObjects : w # q.widget => place'[w] = place[w] /\ place[w] # o
       /\ \A w \in WidgetObjects : place[w] # p
  BY <1>2, <1>3, <1>11, <1>13
<1>15. place' \in [WidgetObjects -> StoredWidgets' \cup {NotThere}]
  <2>1. \A w \in WidgetObjects : place'[w] \in (StoredWidgets \ {o}) \cup {p} \cup {NotThere}
    BY <1>13, <1>14
  <2>2. place' = [w \in WidgetObjects |-> place'[w]]
    BY <1>2, <1>13
  <2>. QED
    BY <1>11, <2>1, <2>2
<1>16. \A v, w \in WidgetObjects : place'[v] = place'[w] /\ place'[v] # NotThere => v = w
  BY <1>13, <1>14
<1>17. \A x \in StoredWidgets' : \E w \in WidgetObjects : place'[w] = x
  <2>1. ASSUME NEW x \in StoredWidgets, x # o PROVE \E w \in WidgetObjects : place'[w] = x
    <3>1. PICK w \in WidgetObjects : place[w] = x
      BY <1>2, <2>1, WidgetsElim
    <3>. QED
      BY <1>2, <1>14, <2>1, <3>1
  <2>. QED
    BY <1>11, <1>14, <2>1
<1>18. q.widget \in known
  BY <1>2, <1>11, <1>12, WidgetsElim
<1>19. \A w \in WidgetObjects : place'[w] # NotThere =>
          w \in known' \/ \E a \in Answered("addWidget")' : a.widget = w
  <2>1. \A w \in WidgetObjects : place[w] # NotThere => w \in known \/ \E a \in Answered("addWidget") : a.widget = w
    BY <1>2, WidgetsElim
  <2>. QED
    BY <1>8, <1>9, <1>14, <1>18, <2>1
<1>20. ASSUME NEW w \in known'
       PROVE  /\ place'[w] # NotThere => \E T : T = tabAt'[place'[w][1]] /\ Heads(w, T)'
              /\ place'[w] = NotThere => Going(w)'
  <2>1. /\ w \in known /\ w \in WidgetObjects
        /\ place[w] # NotThere => Heads(w, tabAt[place[w][1]])
        /\ place[w] = NotThere => Going(w)
    BY <1>2, <1>9, <1>20, WidgetsElim
  <2>2. CASE w = q.widget
    <3>1. Heads(w, q.tab)'
      BY <1>7, <1>9, <2>2 DEF Heads
    <3>2. q.tab = tabAt'[place'[w][1]]
      BY <1>2, <1>3, <1>9, <1>14, <2>2
    <3>. QED
      BY <1>11, <1>14, <2>2, <3>1, <3>2
  <2>3. CASE w # q.widget
    <3>1. place'[w] = place[w]
      BY <1>14, <2>1, <2>3
    <3>2. place[w] = NotThere => Going(w)'
      BY <1>5, <1>8, <1>9, <2>1, <2>3, GoingSame
    <3>. QED
      BY <1>9, <1>10, <2>1, <2>3, <3>1, <3>2
  <2>. QED
    BY <2>2, <2>3
<1>21. ASSUME NEW a \in Answered("addWidget")'
       PROVE  /\ a.made \in (Server!TabId \X Server!WidgetNo)
              /\ place'[a.widget] # NotThere => tabAt'[place'[a.widget][1]] = a.tab
              /\ place'[a.widget] = NotThere /\ a.tab \in Shown' => Leaving(a.tab)'
  <2>1. /\ a.widget \in WidgetObjects /\ a.made \in (Server!TabId \X Server!WidgetNo)
        /\ place[a.widget] # NotThere => tabAt[place[a.widget][1]] = a.tab
        /\ place[a.widget] = NotThere /\ a.tab \in Shown => Leaving(a.tab)
        /\ a.widget # q.widget
    BY <1>2, <1>8, <1>12, RequestsElim
  <2>. QED
    BY <1>5, <1>9, <1>14, <2>1
<1>22. \A m \in Answered("moveWidget")' :
          /\ place'[m.widget] # widgetId'[m.widget]
          /\ \A x \in Answered("moveWidget")' : x.widget = m.widget => x = m
  <2>1. \A m \in Answered("moveWidget") :
          /\ m.widget \in WidgetObjects /\ m.widget # q.widget /\ place[m.widget] # widgetId[m.widget]
          /\ \A x \in Answered("moveWidget") : x.widget = m.widget => x = m
    BY <1>2, <1>11, RequestsElim
  <2>. QED
    BY <1>7, <1>8, <1>9, <1>11, <1>14, <2>1
<1>23. \A d \in Answered("dropWidget")' : place'[d.widget] = NotThere
  <2>1. \A d \in Answered("dropWidget") : d.widget \in WidgetObjects /\ d.widget # q.widget /\ place[d.widget] = NotThere
    BY <1>2, <1>11, RequestsElim
  <2>. QED
    BY <1>8, <1>14, <2>1
<1>24. WidgetsMeet'
  BY <1>15, <1>16, <1>17, <1>19, <1>20, <1>21, <1>22, <1>23, WidgetsIntro
<1>. QED
  BY <1>5, <1>24 DEF TabsInv

LEMMA TabRemovedKeeps ==
    ASSUME TabsInv, NEW q \in flight, TabRemoved(q), ~astray'
    PROVE  TabsInv'
<1>1. Named' /\ TabsMeet' /\ Shown' = Shown \ {q.tab} /\ \A T : T # q.tab => (Leaving(T)' <=> Leaving(T))
  BY TabRemovedMeets
<1>2. /\ Named /\ WidgetsMeet /\ q.op = "dropTab" /\ q.answer = "done" /\ flight' = flight \ {q}
      /\ known' = known \ hears[q.tab]
      /\ UNCHANGED <<document, tabId, widgetId, widgetTab, tabAt, place>>
      /\ \A w \in known : /\ w \in hears[q.tab] => place[w] = NotThere
                          /\ w \notin hears[q.tab] => widgetTab[w] # q.tab
  BY DEF TabsInv, TabRemoved, Comes, historyVars
<1>3. /\ Answered("addWidget")' = Answered("addWidget") /\ Answered("moveWidget")' = Answered("moveWidget")
      /\ Answered("dropWidget")' = Answered("dropWidget")
  <2>1. \A op : Answered(op)' = Answered(op) \ {q}
    BY <1>2, Received
  <2>2. \A op : op # "dropTab" => Answered(op) \ {q} = Answered(op)
    BY <1>2, AnsweredElim
  <2>. QED
    BY <2>1, <2>2
<1>4. StoredWidgets' = StoredWidgets /\ \A w : Moving(w)' = Moving(w)
  BY <1>2, <1>3 DEF StoredWidgets, Moving
<1>5. \A w, T : Heads(w, T)' <=> Heads(w, T)
  BY <1>2, <1>4, HeadsSame
<1>6. /\ place' \in [WidgetObjects -> StoredWidgets' \cup {NotThere}]
      /\ \A v, w \in WidgetObjects : place'[v] = place'[w] /\ place'[v] # NotThere => v = w
      /\ \A p \in StoredWidgets' : \E w \in WidgetObjects : place'[w] = p
  BY <1>2, <1>4, WidgetsElim
<1>7. \A w \in WidgetObjects : place'[w] # NotThere =>
         w \in known' \/ \E a \in Answered("addWidget")' : a.widget = w
  <2>1. \A w \in WidgetObjects : place[w] # NotThere => w \in known \/ \E a \in Answered("addWidget") : a.widget = w
    BY <1>2, WidgetsElim
  <2>. QED
    BY <1>2, <1>3, <2>1
<1>8. ASSUME NEW w \in known'
      PROVE  /\ place'[w] # NotThere => \E T : T = tabAt'[place'[w][1]] /\ Heads(w, T)'
             /\ place'[w] = NotThere => Going(w)'
  <2>1. /\ w \in known /\ w \in WidgetObjects /\ widgetTab[w] # q.tab
        /\ place[w] # NotThere => Heads(w, tabAt[place[w][1]])
        /\ place[w] = NotThere => Going(w)
    BY <1>2, <1>8, WidgetsElim
  <2>2. ASSUME Going(w) PROVE Going(w)'
    <3>1. CASE \E d \in Answered("dropWidget") : d.widget = w
      BY <1>3, <3>1 DEF Going
    <3>2. CASE \E T \in Tabs : Heads(w, T) /\ (Leaving(T) \/ (Moving(w) # {} /\ T \notin Shown))
      <4>1. PICK T \in Tabs : Heads(w, T) /\ (Leaving(T) \/ (Moving(w) # {} /\ T \notin Shown))
        BY <3>2
      <4>2. T = q.tab => Moving(w) # {}
        BY <2>1, <4>1 DEF Heads
      <4>3. Heads(w, T)' /\ (Leaving(T)' \/ (Moving(w)' # {} /\ T \notin Shown'))
        BY <1>1, <1>4, <1>5, <4>1, <4>2
      <4>. QED
        BY <4>3 DEF Going
    <3>. QED
      BY <2>2, <3>1, <3>2 DEF Going
  <2>. QED
    BY <1>2, <1>5, <2>1, <2>2
<1>9. ASSUME NEW a \in Answered("addWidget")'
      PROVE  /\ a.made \in (Server!TabId \X Server!WidgetNo)
             /\ place'[a.widget] # NotThere => tabAt'[place'[a.widget][1]] = a.tab
             /\ place'[a.widget] = NotThere /\ a.tab \in Shown' => Leaving(a.tab)'
  <2>1. /\ a.made \in (Server!TabId \X Server!WidgetNo)
        /\ place[a.widget] # NotThere => tabAt[place[a.widget][1]] = a.tab
        /\ place[a.widget] = NotThere /\ a.tab \in Shown => Leaving(a.tab)
    BY <1>2, <1>3, RequestsElim
  <2>. QED
    BY <1>1, <1>2, <2>1
<1>10. \A m \in Answered("moveWidget")' :
          /\ place'[m.widget] # widgetId'[m.widget]
          /\ \A o \in Answered("moveWidget")' : o.widget = m.widget => o = m
  BY <1>2, <1>3, RequestsElim
<1>11. \A d \in Answered("dropWidget")' : place'[d.widget] = NotThere
  BY <1>2, <1>3, RequestsElim
<1>12. WidgetsMeet'
  BY <1>6, <1>7, <1>8, <1>9, <1>10, <1>11, WidgetsIntro
<1>. QED
  BY <1>1, <1>12 DEF TabsInv

\* The answer of a request for a widget: the tabs do not change.
LEMMA TabsAnswered ==
    ASSUME TabsInv, NEW q \in flight, q.op \notin {"addTab", "dropTab"}, flight' = flight \ {q},
           UNCHANGED <<document, tabList, tabId, tabAt>>
    PROVE  /\ TabsMeet' /\ Shown' = Shown /\ StoredWidgets' = StoredWidgets
           /\ \A T : Leaving(T)' <=> Leaving(T)
           /\ \A op : op # q.op => Answered(op)' = Answered(op)
           /\ Answered(q.op)' = Answered(q.op) \ {q}
<1>1. \A op : Answered(op)' = Answered(op) \ {q}
  BY Received
<1>2. \A op : op # q.op => Answered(op)' = Answered(op)
  BY <1>1, AnsweredElim
<1>3. Shown' = Shown /\ StoredTabs' = StoredTabs /\ StoredWidgets' = StoredWidgets
  BY DEF Shown, StoredTabs, StoredWidgets
<1>4. Answered("addTab")' = Answered("addTab") /\ Answered("dropTab")' = Answered("dropTab")
  BY <1>2
<1>5. TabsMeet'
  BY <1>3, <1>4, TabsStay DEF TabsInv
<1>. QED
  BY <1>1, <1>2, <1>3, <1>4, <1>5 DEF Leaving

LEMMA WidgetCreatedKeeps ==
    ASSUME TabsInv, NEW q \in flight, WidgetCreated(q)
    PROVE  TabsInv'
<1>1. /\ Named /\ TabsMeet /\ WidgetsMeet /\ Stored(document)
      /\ q.op = "addWidget" /\ q.answer = "done" /\ Addressed(q) /\ flight' = flight \ {q}
      /\ widgetId' = [widgetId EXCEPT ![q.widget] = q.made]
      /\ widgetTab' = [widgetTab EXCEPT ![q.widget] = q.tab]
      /\ known' = IF q.tab \in Shown THEN known \cup {q.widget} ELSE known
      /\ UNCHANGED <<document, tabList, tabId, tabAt, place>>
  BY DEF TabsInv, Named, WidgetCreated, Comes, historyVars
<1>2. /\ TabsMeet' /\ Shown' = Shown /\ StoredWidgets' = StoredWidgets
      /\ \A T : Leaving(T)' <=> Leaving(T)
      /\ Answered("addWidget")' = Answered("addWidget") \ {q}
      /\ Answered("moveWidget")' = Answered("moveWidget") /\ Answered("dropWidget")' = Answered("dropWidget")
  BY <1>1, TabsAnswered
<1>3. /\ q.widget \in WidgetObjects /\ widgetId[q.widget] = NotThere /\ q.widget \notin known
      /\ \A a \in flight : a.widget = q.widget => a = q
  BY <1>1, NewWidgets
<1>4. q.tab \in Tabs
  BY <1>1 DEF Addressed
<1>5. q \in Answered("addWidget")
  BY <1>1, AnsweredElim
<1>6. /\ q.made \in (Server!TabId \X Server!WidgetNo)
      /\ place[q.widget] # NotThere => tabAt[place[q.widget][1]] = q.tab
      /\ place[q.widget] = NotThere /\ q.tab \in Shown => Leaving(q.tab)
  BY <1>1, <1>5, RequestsElim
<1>7. /\ widgetId' \in [WidgetObjects -> (Server!TabId \X Server!WidgetNo) \cup {NotThere}]
      /\ widgetId'[q.widget] = q.made
      /\ \A w \in WidgetObjects : w # q.widget => widgetId'[w] = widgetId[w]
  BY <1>1, <1>3, <1>6 DEF Named
<1>8. /\ widgetTab' \in [WidgetObjects -> Tabs \cup {NotThere}]
      /\ widgetTab'[q.widget] = q.tab
      /\ \A w \in WidgetObjects : w # q.widget => widgetTab'[w] = widgetTab[w]
  BY <1>1, <1>3, <1>4 DEF Named
<1>9. q.made # NotThere
  BY <1>1, <1>6, NamedFields
<1>10. ASSUME NEW p \in flight' PROVE Addressed(p)'
  <2>1. p \in flight /\ p.widget # q.widget /\ Addressed(p) /\ flight' \subseteq flight
    BY <1>1, <1>3, <1>10 DEF Named
  <2>2. p.widget \in WidgetObjects => widgetId'[p.widget] = widgetId[p.widget]
    BY <1>7, <2>1
  <2>3. /\ p.op = "addTab" => \A x \in flight' : x.tab = p.tab => x = p
        /\ p.op = "addWidget" => \A x \in flight' : x.widget = p.widget => x = p
    BY <2>1 DEF Addressed
  <2>. QED
    BY <1>1, <2>1, <2>2, <2>3, KeepsAddress
<1>11. /\ known' \subseteq WidgetObjects /\ \A w \in known' : widgetId'[w] # NotThere
       /\ \A w \in known' : w \in known \/ (w = q.widget /\ q.tab \in Shown)
       /\ known \subseteq known'
  BY <1>1, <1>3, <1>7, <1>9 DEF Named
<1>12. Named'
  <2>1. Stored(document)'
    BY <1>1 DEF Stored
  <2>. QED
    BY <1>1, <1>2, <1>7, <1>8, <1>10, <1>11, <2>1 DEF Named
<1>13. /\ \A w : Moving(w)' = Moving(w)
       /\ Moving(q.widget) = {}
  <2>1. Moving(q.widget) = {}
    BY <1>1, <1>3, MovingElim, AnsweredElim
  <2>. QED
    BY <1>2, <2>1 DEF Moving
<1>14. \A w \in WidgetObjects : \A T : w # q.widget => (Heads(w, T)' <=> Heads(w, T))
  BY <1>8, <1>13, HeadsSame
<1>15. /\ place' \in [WidgetObjects -> StoredWidgets' \cup {NotThere}]
       /\ \A v, w \in WidgetObjects : place'[v] = place'[w] /\ place'[v] # NotThere => v = w
       /\ \A p \in StoredWidgets' : \E w \in WidgetObjects : place'[w] = p
  BY <1>1, <1>2, WidgetsElim
<1>16. place[q.widget] # NotThere => q.tab \in Shown
  BY <1>1, <1>3, <1>6, WidgetsElim, OneTabEach
<1>17. \A w \in WidgetObjects : place'[w] # NotThere =>
          w \in known' \/ \E a \in Answered("addWidget")' : a.widget = w
  <2>1. \A w \in WidgetObjects : place[w] # NotThere => w \in known \/ \E a \in Answered("addWidget") : a.widget = w
    BY <1>1, WidgetsElim
  <2>. QED
    BY <1>1, <1>2, <1>11, <1>16, <2>1
<1>18. ASSUME NEW w \in known'
       PROVE  /\ place'[w] # NotThere => \E T : T = tabAt'[place'[w][1]] /\ Heads(w, T)'
              /\ place'[w] = NotThere => Going(w)'
  <2>1. CASE w = q.widget
    <3>1. Heads(w, q.tab)' /\ q.tab \in Shown
      BY <1>3, <1>8, <1>11, <1>13, <1>18, <2>1 DEF Heads
    <3>2. place[w] = NotThere => Leaving(q.tab)'
      BY <1>2, <1>6, <2>1, <3>1
    <3>3. place[w] = NotThere => Going(w)'
      BY <1>4, <3>1, <3>2 DEF Going
    <3>. QED
      BY <1>1, <1>6, <2>1, <3>1, <3>3
  <2>2. CASE w # q.widget
    <3>1. /\ w \in known /\ w \in WidgetObjects
          /\ place[w] # NotThere => Heads(w, tabAt[place[w][1]])
          /\ place[w] = NotThere => Going(w)
      BY <1>1, <1>11, <1>18, <2>2, WidgetsElim
    <3>2. place[w] = NotThere => Going(w)'
      BY <1>2, <1>8, <1>13, <2>2, <3>1, GoingSame
    <3>. QED
      BY <1>1, <1>14, <2>2, <3>1, <3>2
  <2>. QED
    BY <2>1, <2>2
<1>19. ASSUME NEW a \in Answered("addWidget")'
       PROVE  /\ a.made \in (Server!TabId \X Server!WidgetNo)
              /\ place'[a.widget] # NotThere => tabAt'[place'[a.widget][1]] = a.tab
              /\ place'[a.widget] = NotThere /\ a.tab \in Shown' => Leaving(a.tab)'
  <2>1. /\ a.made \in (Server!TabId \X Server!WidgetNo)
        /\ place[a.widget] # NotThere => tabAt[place[a.widget][1]] = a.tab
        /\ place[a.widget] = NotThere /\ a.tab \in Shown => Leaving(a.tab)
    BY <1>1, <1>2, RequestsElim
  <2>. QED
    BY <1>1, <1>2, <2>1
<1>20. \A m \in Answered("moveWidget")' :
          /\ place'[m.widget] # widgetId'[m.widget]
          /\ \A o \in Answered("moveWidget")' : o.widget = m.widget => o = m
  <2>1. \A m \in Answered("moveWidget") :
          /\ m.widget \in WidgetObjects /\ m.widget # q.widget /\ place[m.widget] # widgetId[m.widget]
          /\ \A o \in Answered("moveWidget") : o.widget = m.widget => o = m
    BY <1>1, <1>3, RequestsElim
  <2>. QED
    BY <1>1, <1>2, <1>7, <2>1
<1>21. \A d \in Answered("dropWidget")' : place'[d.widget] = NotThere
  BY <1>1, <1>2, RequestsElim
<1>22. WidgetsMeet'
  BY <1>15, <1>17, <1>18, <1>19, <1>20, <1>21, WidgetsIntro
<1>. QED
  BY <1>2, <1>12, <1>22 DEF TabsInv

LEMMA WidgetMovedKeeps ==
    ASSUME TabsInv, NEW q \in flight, WidgetMoved(q), ~astray'
    PROVE  TabsInv'
<1>1. /\ Named /\ TabsMeet /\ WidgetsMeet /\ Stored(document)
      /\ q.op = "moveWidget" /\ q.answer = "done" /\ Addressed(q) /\ flight' = flight \ {q}
      /\ widgetTab' = [widgetTab EXCEPT ![q.widget] = q.tab]
      /\ q.widget \in known => q.tab \in Shown
      /\ UNCHANGED <<document, tabList, tabId, known, widgetId, tabAt, place>>
  BY DEF TabsInv, Named, WidgetMoved, Comes, historyVars
<1>2. /\ TabsMeet' /\ Shown' = Shown /\ StoredWidgets' = StoredWidgets
      /\ \A T : Leaving(T)' <=> Leaving(T)
      /\ Answered("moveWidget")' = Answered("moveWidget") \ {q}
      /\ Answered("addWidget")' = Answered("addWidget") /\ Answered("dropWidget")' = Answered("dropWidget")
  BY <1>1, TabsAnswered
<1>3. q.widget \in WidgetObjects /\ q.tab \in Tabs
  BY <1>1, OldWidgets
<1>4. /\ widgetTab' \in [WidgetObjects -> Tabs \cup {NotThere}]
      /\ widgetTab'[q.widget] = q.tab
      /\ \A w \in WidgetObjects : w # q.widget => widgetTab'[w] = widgetTab[w]
  BY <1>1, <1>3 DEF Named
<1>5. Named'
  <2>1. \A p \in flight' : Addressed(p)'
    BY <1>1, NamedLess
  <2>2. Stored(document)'
    BY <1>1 DEF Stored
  <2>. QED
    BY <1>1, <1>2, <1>4, <2>1, <2>2 DEF Named
<1>6. q \in Answered("moveWidget")
  BY <1>1, AnsweredElim
<1>7. Moving(q.widget) = {q}
  BY <1>1, <1>6, RequestsElim, MovingElim
<1>8. /\ \A w : w # q.widget => Moving(w)' = Moving(w)
      /\ Moving(q.widget)' = {}
  BY <1>2, <1>7 DEF Moving
<1>9. \A w \in WidgetObjects : \A T : w # q.widget => (Heads(w, T)' <=> Heads(w, T))
  BY <1>4, <1>8, HeadsSame
<1>10. \A T : Heads(q.widget, T) => T = q.tab
  BY <1>7 DEF Heads
<1>11. Heads(q.widget, q.tab)'
  BY <1>1, <1>4, <1>8 DEF Heads
<1>12. /\ place' \in [WidgetObjects -> StoredWidgets' \cup {NotThere}]
       /\ \A v, w \in WidgetObjects : place'[v] = place'[w] /\ place'[v] # NotThere => v = w
       /\ \A p \in StoredWidgets' : \E w \in WidgetObjects : place'[w] = p
       /\ \A w \in WidgetObjects : place'[w] # NotThere =>
             w \in known' \/ \E a \in Answered("addWidget")' : a.widget = w
  BY <1>1, <1>2, WidgetsElim
<1>13. ASSUME NEW w \in known'
       PROVE  /\ place'[w] # NotThere => \E T : T = tabAt'[place'[w][1]] /\ Heads(w, T)'
              /\ place'[w] = NotThere => Going(w)'
  <2>1. /\ w \in known /\ w \in WidgetObjects
        /\ place[w] # NotThere => Heads(w, tabAt[place[w][1]])
        /\ place[w] = NotThere => Going(w)
    BY <1>1, <1>13, WidgetsElim
  <2>2. CASE w = q.widget
    <3>1. q.tab \in Shown
      BY <1>1, <2>1, <2>2
    <3>2. ASSUME Going(w) PROVE Going(w)'
      <4>1. CASE \E d \in Answered("dropWidget") : d.widget = w
        BY <1>2, <4>1 DEF Going
      <4>2. CASE \E T \in Tabs : Heads(w, T) /\ (Leaving(T) \/ (Moving(w) # {} /\ T \notin Shown))
        <5>1. Leaving(q.tab)
          BY <1>10, <2>2, <3>1, <4>2
        <5>2. Heads(w, q.tab)' /\ Leaving(q.tab)'
          BY <1>2, <1>11, <2>2, <5>1
        <5>. QED
          BY <1>3, <5>2 DEF Going
      <4>. QED
        BY <3>2, <4>1, <4>2 DEF Going
    <3>. QED
      BY <1>1, <1>10, <1>11, <2>1, <2>2, <3>2
  <2>3. CASE w # q.widget
    <3>1. place[w] = NotThere => Going(w)'
      BY <1>2, <1>4, <1>8, <2>1, <2>3, GoingSame
    <3>. QED
      BY <1>1, <1>9, <2>1, <2>3, <3>1
  <2>. QED
    BY <2>2, <2>3
<1>14. ASSUME NEW a \in Answered("addWidget")'
       PROVE  /\ a.made \in (Server!TabId \X Server!WidgetNo)
              /\ place'[a.widget] # NotThere => tabAt'[place'[a.widget][1]] = a.tab
              /\ place'[a.widget] = NotThere /\ a.tab \in Shown' => Leaving(a.tab)'
  <2>1. /\ a.made \in (Server!TabId \X Server!WidgetNo)
        /\ place[a.widget] # NotThere => tabAt[place[a.widget][1]] = a.tab
        /\ place[a.widget] = NotThere /\ a.tab \in Shown => Leaving(a.tab)
    BY <1>1, <1>2, RequestsElim
  <2>. QED
    BY <1>1, <1>2, <2>1
<1>15. \A m \in Answered("moveWidget")' :
          /\ place'[m.widget] # widgetId'[m.widget]
          /\ \A o \in Answered("moveWidget")' : o.widget = m.widget => o = m
  BY <1>1, <1>2, RequestsElim
<1>16. \A d \in Answered("dropWidget")' : place'[d.widget] = NotThere
  BY <1>1, <1>2, RequestsElim
<1>17. WidgetsMeet'
  BY <1>12, <1>13, <1>14, <1>15, <1>16, WidgetsIntro
<1>. QED
  BY <1>2, <1>5, <1>17 DEF TabsInv

LEMMA WidgetRemovedKeeps ==
    ASSUME TabsInv, NEW q \in flight, WidgetRemoved(q)
    PROVE  TabsInv'
<1>1. /\ Named /\ TabsMeet /\ WidgetsMeet /\ Stored(document)
      /\ q.op = "dropWidget" /\ q.answer = "done" /\ flight' = flight \ {q}
      /\ known' = known \ {q.widget}
      /\ UNCHANGED <<document, tabList, tabId, widgetId, widgetTab, tabAt, place>>
  BY DEF TabsInv, Named, WidgetRemoved, Comes, historyVars
<1>2. /\ TabsMeet' /\ Shown' = Shown /\ StoredWidgets' = StoredWidgets
      /\ \A T : Leaving(T)' <=> Leaving(T)
      /\ Answered("dropWidget")' = Answered("dropWidget") \ {q}
      /\ Answered("addWidget")' = Answered("addWidget") /\ Answered("moveWidget")' = Answered("moveWidget")
  BY <1>1, TabsAnswered
<1>3. Named'
  <2>1. \A p \in flight' : Addressed(p)'
    BY <1>1, NamedLess
  <2>2. Stored(document)'
    BY <1>1 DEF Stored
  <2>. QED
    BY <1>1, <1>2, <2>1, <2>2 DEF Named
<1>4. q \in Answered("dropWidget")
  BY <1>1, AnsweredElim
<1>5. place[q.widget] = NotThere
  BY <1>1, <1>4, RequestsElim
<1>6. \A w : Moving(w)' = Moving(w)
  BY <1>2 DEF Moving
<1>7. \A w, T : Heads(w, T)' <=> Heads(w, T)
  BY <1>1, <1>6, HeadsSame
<1>8. /\ place' \in [WidgetObjects -> StoredWidgets' \cup {NotThere}]
      /\ \A v, w \in WidgetObjects : place'[v] = place'[w] /\ place'[v] # NotThere => v = w
      /\ \A p \in StoredWidgets' : \E w \in WidgetObjects : place'[w] = p
  BY <1>1, <1>2, WidgetsElim
<1>9. \A w \in WidgetObjects : place'[w] # NotThere =>
         w \in known' \/ \E a \in Answered("addWidget")' : a.widget = w
  <2>1. \A w \in WidgetObjects : place[w] # NotThere => w \in known \/ \E a \in Answered("addWidget") : a.widget = w
    BY <1>1, WidgetsElim
  <2>. QED
    BY <1>1, <1>2, <1>5, <2>1
<1>10. ASSUME NEW w \in known'
       PROVE  /\ place'[w] # NotThere => \E T : T = tabAt'[place'[w][1]] /\ Heads(w, T)'
              /\ place'[w] = NotThere => Going(w)'
  <2>1. /\ w \in known /\ w \in WidgetObjects /\ w # q.widget
        /\ place[w] # NotThere => Heads(w, tabAt[place[w][1]])
        /\ place[w] = NotThere => Going(w)
    BY <1>1, <1>10, WidgetsElim
  <2>2. \A d \in Answered("dropWidget") : d.widget = w => d \in Answered("dropWidget")'
    BY <1>2, <2>1
  <2>3. place[w] = NotThere => Going(w)'
    BY <1>1, <1>2, <1>6, <2>1, <2>2, GoingSame
  <2>. QED
    BY <1>1, <1>7, <2>1, <2>3
<1>11. ASSUME NEW a \in Answered("addWidget")'
       PROVE  /\ a.made \in (Server!TabId \X Server!WidgetNo)
              /\ place'[a.widget] # NotThere => tabAt'[place'[a.widget][1]] = a.tab
              /\ place'[a.widget] = NotThere /\ a.tab \in Shown' => Leaving(a.tab)'
  <2>1. /\ a.made \in (Server!TabId \X Server!WidgetNo)
        /\ place[a.widget] # NotThere => tabAt[place[a.widget][1]] = a.tab
        /\ place[a.widget] = NotThere /\ a.tab \in Shown => Leaving(a.tab)
    BY <1>1, <1>2, RequestsElim
  <2>. QED
    BY <1>1, <1>2, <2>1
<1>12. \A m \in Answered("moveWidget")' :
          /\ place'[m.widget] # widgetId'[m.widget]
          /\ \A o \in Answered("moveWidget")' : o.widget = m.widget => o = m
  BY <1>1, <1>2, RequestsElim
<1>13. \A d \in Answered("dropWidget")' : place'[d.widget] = NotThere
  BY <1>1, <1>2, RequestsElim
<1>14. WidgetsMeet'
  BY <1>8, <1>9, <1>10, <1>11, <1>12, <1>13, WidgetsIntro
<1>. QED
  BY <1>2, <1>3, <1>14 DEF TabsInv

-----------------------------------------------------------------------------
(* What MirrorsServer asks, once nothing is in flight.                     *)

LEMMA AllAnswered ==
    ASSUME TabsInv, flight = {}
    PROVE  /\ \A i \in StoredTabs : tabAt[i] \in Shown /\ tabId[tabAt[i]] = i
           /\ \A T \in Shown : tabId[T] \in StoredTabs /\ tabAt[tabId[T]] = T
           /\ \A w \in known : /\ w \in WidgetObjects /\ place[w] \in StoredWidgets
                               /\ widgetTab[w] \in Shown /\ tabId[widgetTab[w]] = place[w][1]
           /\ \A p \in StoredWidgets : \E w \in known : place[w] = p
<1>1. Named /\ TabsMeet /\ WidgetsMeet
  BY DEF TabsInv
<1>2. \A op : Answered(op) = {}
  BY DEF Answered
<1>3. \A T : ~Leaving(T)
  BY <1>2 DEF Leaving
<1>4. \A w : Moving(w) = {}
  BY <1>2 DEF Moving
<1>5. /\ \A w, T : Heads(w, T) => T = widgetTab[w]
      /\ \A w : ~Going(w)
  BY <1>2, <1>3, <1>4 DEF Heads, Going
<1>6. /\ \A i \in StoredTabs : tabAt[i] \in Shown /\ tabId[tabAt[i]] = i
      /\ \A T \in Shown : tabId[T] \in StoredTabs /\ tabAt[tabId[T]] = T
  BY <1>1, <1>2, <1>3 DEF TabsMeet
<1>7. ASSUME NEW w \in known
      PROVE  /\ w \in WidgetObjects /\ place[w] \in StoredWidgets
             /\ widgetTab[w] \in Shown /\ tabId[widgetTab[w]] = place[w][1]
  <2>1. w \in WidgetObjects /\ place[w] # NotThere
    BY <1>1, <1>5, WidgetsElim
  <2>2. place[w] \in StoredWidgets /\ place[w][1] \in StoredTabs /\ Heads(w, tabAt[place[w][1]])
    BY <1>1, <2>1, WidgetsElim
  <2>3. tabAt[place[w][1]] = widgetTab[w]
    BY <1>5, <2>2
  <2>. QED
    BY <1>6, <2>1, <2>2, <2>3
<1>8. ASSUME NEW p \in StoredWidgets PROVE \E w \in known : place[w] = p
  <2>1. PICK w \in WidgetObjects : place[w] = p
    BY <1>1, WidgetsElim
  <2>2. place[w] # NotThere
    BY <1>1, <2>1, NamedFields
  <2>. QED
    BY <1>1, <1>2, <2>1, <2>2, WidgetsElim
<1>. QED
  BY <1>6, <1>7, <1>8

LEMMA FiniteWidgets == Named => IsFiniteSet(StoredWidgets)
<1>1. \A b \in Int : IsFiniteSet(0..b)
  BY FS_Interval
<1>2. TabLimit - 1 \in Int /\ WidgetLimit - 1 \in Int
  BY TabBounds
<1>3. IsFiniteSet(Server!TabId) /\ IsFiniteSet(Server!WidgetNo)
  BY <1>1, <1>2 DEF Server!TabId, Server!WidgetNo
<1>4. IsFiniteSet(Server!TabId \X Server!WidgetNo)
  BY <1>3, FS_Product
<1>. QED
  BY <1>4, NamedFields, FS_Subset

LEMMA Mirrored ==
    ASSUME TabsInv
    PROVE  MirrorsServer
<1>1. SUFFICES ASSUME flight = {}
               PROVE  /\ Len(tabList) = Len(document.tabs) /\ {tabId[T] : T \in Shown} = StoredTabs
                      /\ Cardinality(known) = Cardinality(StoredWidgets) /\ {place[w] : w \in known} = StoredWidgets
                      /\ \A w \in known : widgetTab[w] \in Shown /\ tabId[widgetTab[w]] = place[w][1]
  BY DEF MirrorsServer
<1>2. Named /\ WidgetsMeet /\ Stored(document)
  BY DEF TabsInv, Named
<1>3. {tabId[T] : T \in Shown} = StoredTabs
  BY <1>1, AllAnswered
<1>4. {place[w] : w \in known} = StoredWidgets
  BY <1>1, AllAnswered
<1>5. \A w \in known : widgetTab[w] \in Shown /\ tabId[widgetTab[w]] = place[w][1]
  BY <1>1, AllAnswered
<1>6. Len(tabList) = Len(document.tabs)
  <2>1. PICK n \in Nat : n = Len(tabList) /\ DOMAIN tabList = 1..n
    BY <1>2 DEF Named
  <2>. DEFINE D == 1..n
              f == [k \in D |-> tabId[tabList[k]]]
  <2>2. \A k \in D : tabList[k] \in Shown /\ f[k] \in StoredTabs /\ tabAt[f[k]] = tabList[k]
    <3>1. \A k \in D : tabList[k] \in Shown
      BY <2>1, ShownElim
    <3>. QED
      BY <1>1, <3>1, AllAnswered
  <2>3. \A j, k \in D : f[j] = f[k] => j = k
    <3>1. \A j, k \in D : tabList[j] = tabList[k] => j = k
      BY <1>2, <2>1 DEF Named
    <3>2. \A j, k \in D : f[j] = f[k] => tabList[j] = tabList[k]
      BY <2>2
    <3>. QED
      BY <3>1, <3>2
  <2>4. \A i \in StoredTabs : \E k \in D : f[k] = i
    <3>1. ASSUME NEW i \in StoredTabs PROVE \E k \in D : f[k] = i
      <4>1. tabAt[i] \in Shown /\ tabId[tabAt[i]] = i
        BY <1>1, AllAnswered
      <4>2. PICK k \in D : tabList[k] = tabAt[i]
        BY <2>1, <4>1, ShownElim
      <4>. QED
        BY <4>1, <4>2
    <3>. QED
      BY <3>1
  <2>5. f \in [D -> StoredTabs]
    BY <2>2
  <2>. HIDE DEF f
  <2>6. f \in Bijection(D, StoredTabs)
    <3>. HIDE DEF D
    <3>. QED
      BY <2>3, <2>4, <2>5, Fun_IsBij
  <2>7. ExistsBijection(1..n, StoredTabs)
    BY <2>6 DEF ExistsBijection
  <2>8. Cardinality(StoredTabs) = n
    BY <2>7, FS_CountingElements
  <2>9. Cardinality(StoredTabs) = Len(document.tabs)
    BY <1>2, CountIds DEF StoredTabs
  <2>. QED
    BY <2>1, <2>8, <2>9
<1>7. Cardinality(known) = Cardinality(StoredWidgets)
  <2>. DEFINE f == [w \in known |-> place[w]]
  <2>1. f \in [known -> StoredWidgets]
    BY <1>1, AllAnswered
  <2>2. \A p \in StoredWidgets : \E w \in known : f[w] = p
    BY <1>4
  <2>3. \A v, w \in known : f[v] = f[w] => v = w
    <3>1. \A v \in known : v \in WidgetObjects /\ place[v] # NotThere
      BY <1>1, <1>2, AllAnswered, NamedFields
    <3>. QED
      BY <1>2, <3>1, WidgetsElim
  <2>. HIDE DEF f
  <2>4. f \in Bijection(known, StoredWidgets)
    BY <2>1, <2>2, <2>3, Fun_IsBij
  <2>5. ExistsBijection(StoredWidgets, known)
    BY <2>4, Fun_ExistsBijSymmetric DEF ExistsBijection
  <2>. QED
    BY <1>2, <2>5, FiniteWidgets, FS_Bijection
<1>. QED
  BY <1>3, <1>4, <1>5, <1>6, <1>7

-----------------------------------------------------------------------------
LEMMA FoundStored ==
    ASSUME NEW c \in Server!Blank
    PROVE  Stored(c) /\ \E n \in {1, 2} : DOMAIN c.tabs = 1..n /\ \A k \in 1..n : c.tabs[k].id = k - 1
<1>1. ASSUME NEW names, NEW ws \in Server!WidgetSets, NEW n \in {1, 2}, Len(names) = n,
             \A k \in 1..n : names[k] \in {"one", "two"}
      PROVE  /\ Server!Fresh(names, ws) \in Seq(Server!Tab)
             /\ DOMAIN Server!Fresh(names, ws) = 1..n
             /\ \A k \in 1..n : Server!Fresh(names, ws)[k].id = k - 1
  <2>. DEFINE t(k) == [id |-> k - 1, name |-> names[k], visible |-> k = 1,
                       widgets |-> IF k = 1 THEN ws ELSE Server!NoWidgets]
              s == [k \in 1..n |-> t(k)]
  <2>1. Server!NoWidgets \in Server!WidgetSets
    <3>1. Server!NoWidgets \in [{} -> BOOLEAN]
      BY DEF Server!NoWidgets
    <3>. QED
      BY <3>1 DEF Server!WidgetSets
  <2>2. \A k \in 1..n : k - 1 \in Server!TabId
    BY TabBounds DEF Server!TabId
  <2>3. \A k \in 1..n : t(k) \in Server!Tab /\ t(k).id = k - 1
    <3>1. ASSUME NEW k \in 1..n
          PROVE  t(k) \in Server!Tab /\ t(k).id = k - 1
      <4>1. (k = 1) \in BOOLEAN /\ (IF k = 1 THEN ws ELSE Server!NoWidgets) \in Server!WidgetSets
        BY <2>1
      <4>. QED
        BY <1>1, <2>2, <4>1 DEF Server!Tab
    <3>. QED
      BY <3>1
  <2>4. Server!Fresh(names, ws) = s
    BY <1>1 DEF Server!Fresh
  <2>. HIDE DEF t
  <2>5. s \in Seq(Server!Tab) /\ DOMAIN s = 1..n
    BY <2>3
  <2>6. \A k \in 1..n : s[k].id = k - 1
    BY <2>3
  <2>. QED
    BY <2>4, <2>5, <2>6
<1>. DEFINE Names == {"one", "two"}
            X == {Server!Fresh(<<n>>, ws) : n \in Names, ws \in Server!Found}
                 \cup {Server!Fresh(two, ws) : two \in {n \in Names \X Names : n[1] # n[2]}, ws \in Server!Found}
<1>2. /\ c = [tabs |-> c.tabs, users |-> c.users, public |-> c.public, wiring |-> c.wiring,
              pref |-> c.pref, title |-> c.title]
      /\ c.tabs \in X
      /\ c.users = {} /\ c.public = FALSE /\ c.wiring = {} /\ c.pref \in {"pref"} /\ c.title \in {"title"}
  <2>1. Server!Blank = [tabs : X, users : {{}}, public : {FALSE}, wiring : {{}}, pref : {"pref"}, title : {"title"}]
    BY DEF Server!Blank
  <2>. HIDE DEF X
  <2>. QED
    BY <2>1
<1>3. Server!Found \subseteq Server!WidgetSets
  BY DEF Server!Found
<1>4. PICK n \in {1, 2} : /\ c.tabs \in Seq(Server!Tab) /\ DOMAIN c.tabs = 1..n
                          /\ \A k \in 1..n : c.tabs[k].id = k - 1
  <2>1. CASE \E n \in Names, ws \in Server!Found : c.tabs = Server!Fresh(<<n>>, ws)
    <3>1. PICK m \in Names, ws \in Server!Found : c.tabs = Server!Fresh(<<m>>, ws)
      BY <2>1
    <3>2. PICK names : names = <<m>>
      OBVIOUS
    <3>3. Len(names) = 1 /\ \A k \in 1..1 : names[k] \in {"one", "two"}
      BY <3>2
    <3>4. /\ c.tabs \in Seq(Server!Tab) /\ DOMAIN c.tabs = 1..1
          /\ \A k \in 1..1 : c.tabs[k].id = k - 1
      BY <1>1, <1>3, <3>1, <3>2, <3>3
    <3>. QED
      BY <3>4
  <2>2. CASE \E two \in Names \X Names, ws \in Server!Found : c.tabs = Server!Fresh(two, ws)
    <3>1. PICK two \in Names \X Names, ws \in Server!Found : c.tabs = Server!Fresh(two, ws)
      BY <2>2
    <3>2. Len(two) = 2 /\ \A k \in 1..2 : two[k] \in {"one", "two"}
      BY <3>1
    <3>3. /\ c.tabs \in Seq(Server!Tab) /\ DOMAIN c.tabs = 1..2
          /\ \A k \in 1..2 : c.tabs[k].id = k - 1
      BY <1>1, <1>3, <3>1, <3>2
    <3>. QED
      BY <3>3
  <2>. QED
    BY <1>2, <2>1, <2>2
<1>5. c \in Server!Contents
  <2>. HIDE DEF X, Names
  <2>1. PICK t : t = c.tabs
    OBVIOUS
  <2>2. c = [tabs |-> t, users |-> {}, public |-> FALSE, wiring |-> {}, pref |-> "pref", title |-> "title"]
    BY <1>2, <2>1
  <2>3. Server!Contents = [tabs : Seq(Server!Tab), users : SUBSET {}, public : BOOLEAN,
                           wiring : SUBSET {}, pref : {"pref"}, title : {"title"}]
    BY DEF Server!Contents
  <2>. QED
    BY <1>4, <2>1, <2>2, <2>3
<1>6. \A j, k \in DOMAIN c.tabs : c.tabs[j].id = c.tabs[k].id => j = k
  BY <1>4
<1>. QED
  BY <1>4, <1>5, <1>6 DEF Stored

LEMMA InitTabs == TabsInit => TabsInv
<1>1. SUFFICES ASSUME TabsInit PROVE TabsInv
  OBVIOUS
<1>2. /\ document \in Server!Blank /\ StoredWidgets = {} /\ flight = {} /\ known = {}
      /\ tabList = [k \in DOMAIN document.tabs |-> k]
      /\ tabId = [T \in Tabs |-> IF T \in Shown THEN document.tabs[T].id ELSE NotThere]
      /\ widgetId = [w \in WidgetObjects |-> NotThere] /\ widgetTab = [w \in WidgetObjects |-> NotThere]
      /\ tabAt = [i \in Server!TabId |-> IF i + 1 \in Shown THEN i + 1 ELSE NotThere]
      /\ place = [w \in WidgetObjects |-> NotThere]
  BY <1>1 DEF TabsInit, StoredWidgets
<1>3. PICK n \in {1, 2} : DOMAIN document.tabs = 1..n /\ \A k \in 1..n : document.tabs[k].id = k - 1
  BY <1>2, FoundStored
<1>4. Stored(document)
  BY <1>2, FoundStored
<1>5. Server!TabId \subseteq Nat /\ Tabs = 1..(TabObjects + 2) /\ TabObjects \in Nat
      /\ NotThere \notin Nat \cup WidgetObjects /\ \A k \in 1..n : k \in Tabs /\ k - 1 \in Server!TabId
  BY TabBounds DEF Server!TabId, Tabs
<1>6. tabList = [k \in 1..n |-> k] /\ Shown = 1..n
  BY <1>2, <1>3 DEF Shown, Range
<1>7. StoredTabs = {k - 1 : k \in 1..n}
  BY <1>3 DEF StoredTabs, Server!Ids
<1>8. \A T \in 1..n : tabId[T] = T - 1 /\ tabAt[T - 1] = T
  BY <1>2, <1>3, <1>5, <1>6
<1>9. Named
  <2>1. tabList \in Seq(Tabs) /\ \A j, k \in DOMAIN tabList : tabList[j] = tabList[k] => j = k
    BY <1>5, <1>6
  <2>2. tabId \in [Tabs -> Server!TabId \cup {NotThere}]
    <3>1. \A T \in Tabs : tabId[T] \in Server!TabId \cup {NotThere}
      BY <1>2, <1>3, <1>5, <1>6
    <3>. QED
      BY <1>2, <3>1
  <2>3. \A T \in Shown : tabId[T] # NotThere
    BY <1>5, <1>6, <1>8
  <2>. QED
    BY <1>2, <1>4, <2>1, <2>2, <2>3 DEF Named
<1>10. /\ \A op : Answered(op) = {}
       /\ \A i \in StoredTabs : i + 1 \in 1..n /\ i = (i + 1) - 1
  BY <1>2, <1>7 DEF Answered
<1>11. TabsMeet
  <2>1. tabAt \in [Server!TabId -> Tabs \cup {NotThere}]
    <3>1. \A i \in Server!TabId : tabAt[i] \in Tabs \cup {NotThere}
      BY <1>2, <1>5, <1>6
    <3>. QED
      BY <1>2, <3>1
  <2>2. \A i \in StoredTabs : tabAt[i] \in Shown /\ tabId[tabAt[i]] = i
    BY <1>6, <1>8, <1>10
  <2>3. \A T \in Shown : tabId[T] \in StoredTabs /\ tabAt[tabId[T]] = T
    BY <1>6, <1>7, <1>8
  <2>. QED
    BY <1>10, <2>1, <2>2, <2>3 DEF TabsMeet
<1>12. WidgetsMeet
  <2>1. place \in [WidgetObjects -> StoredWidgets \cup {NotThere}] /\ \A w \in WidgetObjects : place[w] = NotThere
    BY <1>2
  <2>. QED
    BY <1>2, <1>10, <2>1 DEF WidgetsMeet
<1>. QED
  BY <1>9, <1>11, <1>12 DEF TabsInv

LEMMA NextTabs ==
    ASSUME astray \/ TabsInv, [TabsNext]_tabVars
    PROVE  (astray \/ TabsInv)'
<1>1. CASE UNCHANGED tabVars
  <2>1. /\ UNCHANGED <<document, modelVars, historyVars>>
        /\ flight' = flight /\ tabId' = tabId /\ widgetId' = widgetId /\ astray' = astray
    BY <1>1 DEF tabVars, modelVars, historyVars
  <2>2. \A op : Answered(op)' = Answered(op)
    BY <2>1 DEF Answered
  <2>3. ASSUME TabsInv PROVE TabsInv'
    <3>1. \A p \in flight' : Addressed(p)'
      BY <2>1, <2>3, NamedLess DEF TabsInv
    <3>. QED
      BY <2>1, <2>2, <2>3, <3>1, Unmoved
  <2>. QED
    BY <2>1, <2>3
<1>2. CASE Asks
  <2>1. ~astray
    BY <1>2 DEF Asks, CreateTab, RemoveTab, CreateWidget, MoveWidget, RemoveWidget, Send
  <2>. QED
    BY <1>2, <2>1, RequestKeeps
<1>3. ASSUME NEW q \in flight,
             \/ Refuse(q) \/ StoreTab(q) \/ DropTab(q) \/ StoreWidget(q) \/ StoreMove(q) \/ DropWidget(q)
             \/ TabCreated(q) \/ TabRemoved(q) \/ WidgetCreated(q) \/ WidgetMoved(q) \/ WidgetRemoved(q)
      PROVE  (astray \/ TabsInv)'
  <2>1. TabsInv
    BY <1>3 DEF Refuse, StoreTab, DropTab, StoreWidget, StoreMove, DropWidget, TabCreated, TabRemoved,
                WidgetCreated, WidgetMoved, WidgetRemoved, Waiting, Comes
  <2>2. CASE astray'
    BY <2>2
  <2>3. CASE ~astray'
    BY <1>3, <2>1, <2>3, RefuseKeeps, StoreTabKeeps, DropTabKeeps, StoreWidgetKeeps, StoreMoveKeeps,
       DropWidgetKeeps, TabCreatedKeeps, TabRemovedKeeps, WidgetCreatedKeeps, WidgetMovedKeeps,
       WidgetRemovedKeeps
  <2>. QED
    BY <2>2, <2>3
<1>. QED
  BY <1>1, <1>2, <1>3 DEF TabsNext, Asks

\* When nothing is in flight and nothing led the browser astray, Workspace.js
\* has the tabs and the widgets that the server stores, each widget in the tab
\* that stores it, in whatever order the requests were served, refused and
\* answered.
THEOREM AlwaysMirrorsServer == TabsSpec => []MirrorsServer
<1>. DEFINE IInv == astray \/ TabsInv
<1>1. TabsInit => IInv
  BY InitTabs
<1>2. IInv /\ [TabsNext]_tabVars => IInv'
  BY NextTabs
<1>3. IInv => MirrorsServer
  <2>1. astray => MirrorsServer
    BY DEF MirrorsServer
  <2>. QED
    BY <2>1, Mirrored
<1>. QED
  BY <1>1, <1>2, <1>3, PTL DEF TabsSpec
=============================================================================
