---------------------------- MODULE StoreProofs ----------------------------
(***************************************************************************)
(* Proofs about WorkspaceStore, for any number of requests and any         *)
(* contents.  With transactions and without them: the types, the shape of  *)
(* the documents, and that nothing brings a deleted one back.  With        *)
(* transactions: what it promises of the cache, the index and what it      *)
(* created.                                                                *)
(***************************************************************************)
EXTENDS WorkspaceStore, FiniteSetTheorems, WellFoundedInduction, TLAPS

-----------------------------------------------------------------------------
(* Free numbers.                                                           *)

\* The first number that is not in S.
LEMMA FirstFree ==
    ASSUME NEW n \in Nat, NEW S, NEW i \in 0..(n - 1), i \notin S
    PROVE  \E k \in 0..(n - 1) : k \notin S /\ 0..(k - 1) \subseteq S
<1>. DEFINE N == 0..(n - 1)
            T == {0..k : k \in N \ S}
<1>1. IsWellFoundedOn(StrictSubsetOrdering(N), SUBSET N)
  <2>1. IsFiniteSet(N)
    BY FS_Interval
  <2>2. FiniteSubsetsOf(N) = SUBSET N
    BY <2>1, FS_FiniteSubsetsOfFinite
  <2>. QED
    BY <2>2, FS_StrictSubsetOrderingWellFounded
<1>2. T \subseteq SUBSET N /\ T # {}
  OBVIOUS
<1>3. PICK t \in T : \A u \in T : <<u, t>> \notin StrictSubsetOrdering(N)
  <2>. HIDE DEF T, N
  <2>. QED
    BY <1>1, <1>2, WFMin
<1>4. PICK k \in N \ S : t = 0..k
  OBVIOUS
<1>5. ASSUME NEW j \in 0..(k - 1), j \notin S PROVE FALSE
  <2>1. 0..j \in T /\ 0..j \subseteq 0..k /\ k \in 0..k /\ k \notin 0..j
    BY <1>5
  <2>. QED
    BY <1>2, <1>3, <1>4, <2>1 DEF StrictSubsetOrdering
<1>. QED
  BY <1>4, <1>5

-----------------------------------------------------------------------------
(* The inductive invariant.                                                *)

\* A list of tabs as every document has it, and every copy of a handler, and
\* everything a handler has left to save.
Shape(tabs) ==
    /\ Len(tabs) > 0
    /\ \A j, k \in DOMAIN tabs :
          j # k => tabs[j].id # tabs[k].id /\ ~(tabs[j].visible /\ tabs[k].visible)

Sane == {c \in Contents : Shape(c.tabs)}
SaneDoc == [c : Sane, lm : Nat, raw : BOOLEAN]
SaneStep == [do : {"save", "index"}, c : Sane]
            \cup [do : {"users"}, users : SUBSET Users]
            \cup [do : {"commit", "delete", "unindex", "view"}]

Record == [op : Ops, todo : Seq(SaneStep), copy : SaneDoc,
           snap : SaneDoc \cup {None, Gone}, mine : SaneDoc \cup {None, Gone},
           made : MadeIds \cup {None}]

IInv ==
    /\ transactional \in BOOLEAN
    /\ doc \in SaneDoc \cup {Gone}
    /\ index \in Entry \cup {Gone}
    /\ cached \subseteq [user : Requests, lm : Nat, c : Contents]
    /\ now \in Nat
    /\ req \in [Requests -> Record \cup {Idle}]
    /\ ahead \in BOOLEAN
    /\ created \subseteq MadeIds

LEMMA SaneFields ==
    ASSUME NEW c \in Sane
    PROVE  /\ c \in Contents /\ c.tabs \in Seq(Tab) /\ Shape(c.tabs)
           /\ Len(c.tabs) \in Nat /\ Len(c.tabs) > 0 /\ DOMAIN c.tabs = 1..Len(c.tabs)
           /\ \A k \in DOMAIN c.tabs : c.tabs[k] \in Tab
           /\ c.users \subseteq Users /\ c.public \in BOOLEAN /\ c.wiring \subseteq Items
           /\ c.pref \in Prefs /\ c.title \in Titles
BY DEF Sane, Contents, Shape

\* Another list of tabs of the same shape.
LEMMA OtherTabs ==
    ASSUME NEW c \in Sane, NEW tabs \in Seq(Tab), Shape(tabs)
    PROVE  [c EXCEPT !.tabs = tabs] \in Sane
BY DEF Sane, Contents

LEMMA IndexedType ==
    ASSUME NEW c \in Contents
    PROVE  Indexed(c) \in Entry
BY DEF Indexed, Entry, Contents

-----------------------------------------------------------------------------
(* The helpers of the handlers.                                            *)

LEMMA TabAtType ==
    ASSUME NEW c \in Sane, NEW i \in Ids(c)
    PROVE  TabAt(c, i) \in DOMAIN c.tabs /\ c.tabs[TabAt(c, i)].id = i
BY DEF Ids, TabAt

LEMMA FreeIdType ==
    ASSUME NEW c \in Sane, Len(c.tabs) < MaxTabs
    PROVE  FreeId(c) \in TabId /\ FreeId(c) \notin Ids(c)
<1>1. PICK i \in TabId : i \notin Ids(c)
  <2>1. SUFFICES ASSUME TabId \subseteq Ids(c) PROVE FALSE
    OBVIOUS
  <2>. DEFINE D == 1..Len(c.tabs)
              f == [i \in TabId |-> TabAt(c, i)]
  <2>2. f \in [TabId -> D]
    BY <2>1, TabAtType, SaneFields
  <2>3. /\ IsFiniteSet(TabId) /\ IsFiniteSet(D)
        /\ Cardinality(D) < Cardinality(TabId)
    <3>1. Len(c.tabs) \in Nat /\ 0 \in Int /\ 1 \in Int /\ MaxTabs - 1 \in Int /\ MaxTabs > 0
      BY ContentsAssumption, SaneFields
    <3>2. IsFiniteSet(TabId) /\ Cardinality(TabId) = MaxTabs
      <4>1. \A b \in Int : IsFiniteSet(0..b) /\ (b >= 0 => Cardinality(0..b) = b + 1)
        BY FS_Interval
      <4>2. IsFiniteSet(0..(MaxTabs - 1)) /\ Cardinality(0..(MaxTabs - 1)) = (MaxTabs - 1) + 1
        <5>. DEFINE m == MaxTabs - 1
        <5>1. m \in Int /\ m >= 0
          BY <3>1, ContentsAssumption
        <5>. HIDE DEF m
        <5>2. IsFiniteSet(0..m) /\ Cardinality(0..m) = m + 1
          BY <4>1, <5>1
        <5>. QED
          BY <5>2 DEF m
      <4>. QED
        BY <4>2, ContentsAssumption DEF TabId
    <3>3. IsFiniteSet(D) /\ Cardinality(D) = Len(c.tabs)
      <4>1. \A b \in Nat : IsFiniteSet(1..b) /\ Cardinality(1..b) = b
        BY FS_Interval
      <4>. QED
        BY <4>1, <3>1
    <3>. QED
      BY <3>2, <3>3
  <2>4. PICK x, y \in TabId : x # y /\ f[x] = f[y]
    <3>. HIDE DEF D, f
    <3>. QED
      BY <2>2, <2>3, FS_PigeonHole
  <2>. QED
    BY <2>1, <2>4, TabAtType
<1>2. \E k \in TabId : k \notin Ids(c) /\ 0..(k - 1) \subseteq Ids(c)
  BY <1>1, FirstFree, ContentsAssumption DEF TabId
<1>. QED
  BY <1>2 DEF FreeId

LEMMA FreeNoType ==
    ASSUME NEW ws \in WidgetSets, ~Full(ws)
    PROVE  FreeNo(ws) \in WidgetNo /\ FreeNo(ws) \notin DOMAIN ws
<1>1. DOMAIN ws \subseteq WidgetNo
  BY DEF WidgetSets
<1>2. PICK n \in WidgetNo : n \notin DOMAIN ws
  BY <1>1 DEF Full
<1>3. \E k \in WidgetNo : k \notin DOMAIN ws /\ 0..(k - 1) \subseteq DOMAIN ws
  BY <1>2, FirstFree, ContentsAssumption DEF WidgetNo
<1>. QED
  BY <1>3 DEF FreeNo

\* WidgetSets, as a function set by set.
LEMMA WidgetsByDomain ==
    /\ \A ws \in WidgetSets : DOMAIN ws \subseteq WidgetNo /\ ws \in [DOMAIN ws -> BOOLEAN]
    /\ \A S \in SUBSET WidgetNo : [S -> BOOLEAN] \subseteq WidgetSets
BY DEF WidgetSets

LEMMA PutType ==
    ASSUME NEW ws \in WidgetSets, NEW n \in WidgetNo, NEW fixed \in BOOLEAN
    PROVE  Put(ws, n, fixed) \in WidgetSets
<1>. DEFINE S == DOMAIN ws \cup {n}
<1>1. S \in SUBSET WidgetNo /\ \A m \in DOMAIN ws : ws[m] \in BOOLEAN
  BY WidgetsByDomain
<1>2. Put(ws, n, fixed) \in [S -> BOOLEAN]
  BY <1>1 DEF Put
<1>. QED
  BY <1>1, <1>2, WidgetsByDomain

LEMMA TakeType ==
    ASSUME NEW ws \in WidgetSets, NEW n
    PROVE  Take(ws, n) \in WidgetSets
<1>. DEFINE S == DOMAIN ws \ {n}
<1>1. S \in SUBSET WidgetNo /\ \A m \in DOMAIN ws : ws[m] \in BOOLEAN
  BY WidgetsByDomain
<1>2. Take(ws, n) \in [S -> BOOLEAN]
  BY <1>1 DEF Take, Restrict
<1>. QED
  BY <1>1, <1>2, WidgetsByDomain

LEMMA SaveType ==
    ASSUME NEW c \in Sane
    PROVE  Save(c) \in Seq(SaneStep)
BY DEF Save, SaneStep

\* A sequence mapped element by element, and one without an element.
LEMMA MappedSeq ==
    ASSUME NEW S, NEW s \in Seq(S), NEW f \in [DOMAIN s -> S]
    PROVE  f \in Seq(S) /\ Len(f) = Len(s)
OBVIOUS

LEMMA RemoveAtSeq ==
    ASSUME NEW S, NEW s \in Seq(S), NEW i \in 1..Len(s)
    PROVE  /\ RemoveAt(s, i) \in Seq(S) /\ Len(RemoveAt(s, i)) = Len(s) - 1
           /\ \A j \in 1..(Len(s) - 1) :
                 RemoveAt(s, i)[j] = IF j < i THEN s[j] ELSE s[j + 1]
<1>. DEFINE a == SubSeq(s, 1, i - 1)
            b == SubSeq(s, i + 1, Len(s))
<1>1. /\ a \in Seq(S) /\ Len(a) = i - 1
      /\ \A j \in 1..(i - 1) : a[j] = s[j]
  OBVIOUS
<1>2. /\ b \in Seq(S) /\ Len(b) = Len(s) - i
      /\ \A j \in 1..(Len(s) - i) : b[j] = s[j + i]
  OBVIOUS
<1>. HIDE DEF a, b
<1>3. /\ a \o b \in Seq(S) /\ Len(a \o b) = Len(s) - 1
      /\ \A j \in 1..(Len(s) - 1) : (a \o b)[j] = IF j < i THEN s[j] ELSE s[j + 1]
  <2>1. /\ a \o b \in Seq(S) /\ Len(a \o b) = Len(a) + Len(b)
        /\ \A j \in 1..(Len(a) + Len(b)) :
              (a \o b)[j] = IF j <= Len(a) THEN a[j] ELSE b[j - Len(a)]
    <3>1. a \in Seq(S) /\ b \in Seq(S)
      BY <1>1, <1>2
    <3>. QED
      BY <3>1
  <2>2. ASSUME NEW j \in 1..(Len(s) - 1), j >= i
        PROVE  j - (i - 1) \in 1..(Len(s) - i) /\ (j - (i - 1)) + i = j + 1
    BY <2>2
  <2>3. ASSUME NEW j \in 1..(Len(s) - 1), j >= i
        PROVE  b[j - (i - 1)] = s[j + 1]
    BY <1>2, <2>2, <2>3
  <2>. QED
    BY <1>1, <1>2, <2>1, <2>3
<1>. QED
  BY <1>3 DEF RemoveAt, a, b

\* One tab changed, which keeps its id and does not become visible.
LEMMA OtherTab ==
    ASSUME NEW c \in Sane, NEW k \in DOMAIN c.tabs, NEW t \in Tab,
           t.id = c.tabs[k].id, t.visible => c.tabs[k].visible
    PROVE  /\ [c EXCEPT !.tabs = [@ EXCEPT ![k] = t]] \in Sane
           /\ [c EXCEPT !.tabs = [@ EXCEPT ![k] = t]].tabs = [c.tabs EXCEPT ![k] = t]
<1>. DEFINE tabs == [c.tabs EXCEPT ![k] = t]
<1>1. tabs \in Seq(Tab) /\ Len(tabs) = Len(c.tabs) /\ DOMAIN tabs = DOMAIN c.tabs
  BY SaneFields
<1>2. \A j \in DOMAIN tabs : tabs[j] = IF j = k THEN t ELSE c.tabs[j]
  BY SaneFields
<1>3. Shape(tabs)
  BY <1>1, <1>2, SaneFields DEF Shape
<1>4. [c EXCEPT !.tabs = tabs] \in Sane
  BY <1>1, <1>3, OtherTabs
<1>. QED
  BY <1>4, SaneFields DEF Contents

LEMMA SetVisibleType ==
    ASSUME NEW c \in Sane, NEW i
    PROVE  /\ SetVisible(c, i) \in Sane
           /\ DOMAIN SetVisible(c, i).tabs = DOMAIN c.tabs
           /\ \A k \in DOMAIN c.tabs : SetVisible(c, i).tabs[k].id = c.tabs[k].id
<1>. DEFINE tabs == [k \in DOMAIN c.tabs |-> [c.tabs[k] EXCEPT !.visible = (c.tabs[k].id = i)]]
<1>1. \A k \in DOMAIN c.tabs : c.tabs[k] \in Tab
  BY SaneFields
<1>2. \A k \in DOMAIN c.tabs :
        tabs[k] \in Tab /\ tabs[k].id = c.tabs[k].id /\ tabs[k].visible = (c.tabs[k].id = i)
  BY <1>1 DEF Tab
<1>3. tabs \in Seq(Tab) /\ Len(tabs) = Len(c.tabs) /\ DOMAIN tabs = DOMAIN c.tabs
  <2>1. tabs \in [DOMAIN c.tabs -> Tab]
    BY <1>2
  <2>. HIDE DEF tabs
  <2>. QED
    BY <2>1, MappedSeq, SaneFields
<1>4. Shape(tabs)
  <2>1. Shape(c.tabs)
    BY SaneFields
  <2>2. \A k \in DOMAIN c.tabs : tabs[k].visible => c.tabs[k].id = i
    BY <1>2
  <2>. HIDE DEF tabs
  <2>. QED
    BY <1>2, <1>3, <2>1, <2>2 DEF Shape
<1>5. SetVisible(c, i) = [c EXCEPT !.tabs = tabs]
  BY DEF SetVisible
<1>6. SetVisible(c, i).tabs = tabs
  BY <1>5, SaneFields DEF Contents
<1>. QED
  BY <1>2, <1>3, <1>4, <1>5, <1>6, OtherTabs

\* A tab removed from several.
LEMMA RemoveTabType ==
    ASSUME NEW c \in Sane, NEW i \in DOMAIN c.tabs, Len(c.tabs) # 1
    PROVE  [c EXCEPT !.tabs = RemoveAt(@, i)] \in Sane
<1>. DEFINE tabs == RemoveAt(c.tabs, i)
<1>1. i \in 1..Len(c.tabs) /\ Len(c.tabs) \in Nat /\ Len(c.tabs) > 1
  <2>1. Len(c.tabs) \in Nat /\ Len(c.tabs) > 0 /\ DOMAIN c.tabs = 1..Len(c.tabs)
    BY SaneFields
  <2>2. i \in 1..Len(c.tabs)
    BY <2>1, Zenon
  <2>3. Len(c.tabs) > 1
    <3>1. \A n \in Nat : n > 0 /\ n # 1 => n > 1
      OBVIOUS
    <3>. QED
      BY <2>1, <3>1, Zenon
  <2>. QED
    BY <2>1, <2>2, <2>3
<1>2. /\ tabs \in Seq(Tab) /\ Len(tabs) = Len(c.tabs) - 1
      /\ \A j \in 1..(Len(c.tabs) - 1) : tabs[j] = IF j < i THEN c.tabs[j] ELSE c.tabs[j + 1]
  <2>1. c.tabs \in Seq(Tab)
    BY SaneFields
  <2>. QED
    BY <1>1, <2>1, RemoveAtSeq
<1>. HIDE DEF tabs
<1>3. DOMAIN tabs = 1..(Len(c.tabs) - 1)
  BY <1>2
<1>4. Shape(tabs)
  <2>1. Len(tabs) > 0
    BY <1>1, <1>2
  <2>2. ASSUME NEW j \in DOMAIN tabs, NEW k \in DOMAIN tabs, j # k
        PROVE  tabs[j].id # tabs[k].id /\ ~(tabs[j].visible /\ tabs[k].visible)
    <3>. DEFINE at(m) == IF m < i THEN m ELSE m + 1
    <3>1. /\ at(j) \in DOMAIN c.tabs /\ at(k) \in DOMAIN c.tabs /\ at(j) # at(k)
          /\ tabs[j] = c.tabs[at(j)] /\ tabs[k] = c.tabs[at(k)]
      <4>1. DOMAIN c.tabs = 1..Len(c.tabs)
        BY SaneFields
      <4>. DEFINE n == Len(c.tabs)
      <4>2. n \in Nat /\ i \in 1..n /\ j \in 1..(n - 1) /\ k \in 1..(n - 1) /\ j # k
        BY <1>1, <1>3, <2>2
      <4>3. tabs[j] = c.tabs[at(j)] /\ tabs[k] = c.tabs[at(k)]
        BY <1>2, <4>2
      <4>. HIDE DEF n
      <4>4. at(j) \in 1..n /\ at(k) \in 1..n /\ at(j) # at(k)
        BY <4>2
      <4>. QED
        BY <4>1, <4>3, <4>4 DEF n
    <3>2. Shape(c.tabs)
      BY SaneFields
    <3>. QED
      BY <3>1, <3>2 DEF Shape
  <2>. QED
    BY <2>1, <2>2 DEF Shape
<1>. QED
  BY <1>2, <1>4, OtherTabs DEF tabs

-----------------------------------------------------------------------------
(* What the handlers have left to do.                                      *)

LEMMA OpFields ==
    ASSUME NEW op \in Ops
    PROVE  /\ op.kind = "addTab" => op.name \in Names /\ op.named \in BOOLEAN
           /\ op.kind = "editTab" => /\ op.tab \in TabId /\ op.name \in Names \cup {None}
                                     /\ op.visible \in BOOLEAN \cup {None}
           /\ op.kind = "dropTab" => op.tab \in TabId
           /\ op.kind = "addWidget" => op.tab \in TabId
           /\ op.kind = "editWidget" => /\ op.tab \in TabId /\ op.no \in WidgetNo
                                        /\ op.to \in TabId \cup {None}
           /\ op.kind = "dropWidget" => op.tab \in TabId /\ op.no \in WidgetNo
           /\ op.kind = "rewire" => op.wiring \subseteq Items
           /\ op.kind = "patch" => op.item \in Items
           /\ op.kind = "retitle" => op.title \in Titles
           /\ op.kind = "prefs" => /\ op.users \in (SUBSET Users) \cup {None}
                                   /\ op.public \in Publish \cup {None}
                                   /\ op.pref \in Prefs \cup {None}
           /\ op.kind \in {"addTab", "editTab", "dropTab", "addWidget", "editWidget", "dropWidget",
                            "rewire", "patch", "prefs", "retitle", "remove", "view"}
BY DEF Ops

LEMMA AddTabType ==
    ASSUME NEW c \in Sane, NEW op \in Ops, op.kind = "addTab", Len(c.tabs) < MaxTabs
    PROVE  AddTab(op, c) \in Seq(SaneStep)
<1>. DEFINE t == [id |-> FreeId(c), name |-> op.name, visible |-> Len(c.tabs) = 0,
                  widgets |-> NoWidgets]
            tabs == Append(c.tabs, t)
<1>1. NoWidgets \in WidgetSets
  <2>1. NoWidgets \in [{} -> BOOLEAN] /\ {} \in SUBSET WidgetNo
    BY DEF NoWidgets
  <2>. QED
    BY <2>1, WidgetsByDomain
<1>2. t \in Tab /\ t.id \notin Ids(c) /\ t.visible = FALSE
  <2>1. FreeId(c) \in TabId /\ FreeId(c) \notin Ids(c) /\ op.name \in Names /\ Len(c.tabs) # 0
    BY FreeIdType, OpFields, SaneFields
  <2>. QED
    BY <1>1, <2>1 DEF Tab
<1>3. /\ tabs \in Seq(Tab) /\ Len(tabs) = Len(c.tabs) + 1 /\ Len(c.tabs) \in Nat
      /\ \A j \in DOMAIN tabs : tabs[j] = IF j \in DOMAIN c.tabs THEN c.tabs[j] ELSE t
      /\ DOMAIN tabs = DOMAIN c.tabs \cup {Len(c.tabs) + 1}
  BY <1>2, SaneFields
<1>4. Shape(tabs)
  <2>. HIDE DEF t, tabs
  <2>1. \A j \in DOMAIN c.tabs : c.tabs[j].id # t.id
    BY <1>2 DEF Ids
  <2>. QED
    BY <1>2, <1>3, <2>1, SaneFields DEF Shape
<1>5. Save([c EXCEPT !.tabs = tabs]) \in Seq(SaneStep)
  BY <1>3, <1>4, OtherTabs, SaveType
<1>. QED
  BY <1>5 DEF AddTab

LEMMA EditTabType ==
    ASSUME NEW c \in Sane, NEW op \in Ops, op.kind = "editTab"
    PROVE  EditTab(op, c) \in Seq(SaneStep)
<1>. DEFINE k      == TabAt(c, op.tab)
            shown  == IF op.visible = TRUE THEN SetVisible(c, op.tab)
                      ELSE IF op.visible = FALSE THEN [c EXCEPT !.tabs[k].visible = FALSE]
                      ELSE c
            first  == IF op.visible = TRUE THEN Save(shown) ELSE <<>>
            named  == IF op.name = None THEN shown ELSE [shown EXCEPT !.tabs[k].name = op.name]
<1>1. CASE op.tab \notin Ids(c)
  BY <1>1 DEF EditTab
<1>2. CASE op.tab \in Ids(c)
  <2>1. k \in DOMAIN c.tabs /\ c.tabs[k] \in Tab
    BY <1>2, TabAtType, SaneFields
  <2>2. shown \in Sane /\ k \in DOMAIN shown.tabs
    <3>1. CASE op.visible = FALSE
      <4>. DEFINE t == [c.tabs[k] EXCEPT !.visible = FALSE]
      <4>1. t \in Tab /\ t.id = c.tabs[k].id /\ ~t.visible
        BY <2>1 DEF Tab
      <4>2. shown = [c EXCEPT !.tabs = [@ EXCEPT ![k] = t]]
        BY <3>1
      <4>3. DOMAIN [c.tabs EXCEPT ![k] = t] = DOMAIN c.tabs
        OBVIOUS
      <4>. HIDE DEF shown, t
      <4>. QED
        BY <2>1, <4>1, <4>2, <4>3, OtherTab
    <3>. QED
      BY <2>1, <3>1, SetVisibleType
  <2>3. named \in Sane
    <3>1. CASE op.name # None
      <4>. DEFINE t == [shown.tabs[k] EXCEPT !.name = op.name]
      <4>. HIDE DEF shown
      <4>1. t \in Tab /\ t.id = shown.tabs[k].id /\ t.visible = shown.tabs[k].visible
        <5>1. shown.tabs[k] \in Tab /\ op.name \in Names
          BY <2>2, <3>1, OpFields, SaneFields
        <5>. QED
          BY <5>1 DEF Tab
      <4>2. named = [shown EXCEPT !.tabs = [@ EXCEPT ![k] = t]]
        BY <3>1
      <4>. QED
        BY <2>2, <4>1, <4>2, OtherTab
    <3>. QED
      BY <2>2, <3>1
  <2>4. first \in Seq(SaneStep) /\ Save(named) \in Seq(SaneStep)
    BY <2>2, <2>3, SaveType
  <2>5. EditTab(op, c) \in {first, first \o Save(named)}
    BY <1>2 DEF EditTab
  <2>6. first \o Save(named) \in Seq(SaneStep)
    <3>. HIDE DEF first, named
    <3>. QED
      BY <2>4
  <2>. HIDE DEF first, named
  <2>. QED
    BY <2>4, <2>5, <2>6
<1>. QED
  BY <1>1, <1>2

LEMMA DropTabType ==
    ASSUME NEW c \in Sane, NEW op \in Ops, op.kind = "dropTab"
    PROVE  DropTab(op, c) \in Seq(SaneStep)
<1>. DEFINE k     == TabAt(c, op.tab)
            left  == [c EXCEPT !.tabs = RemoveAt(@, k)]
            shown == SetVisible(left, left.tabs[1].id)
<1>1. CASE op.tab \in Ids(c) /\ Len(c.tabs) # 1
  <2>1. left \in Sane
    BY <1>1, TabAtType, RemoveTabType
  <2>2. shown \in Sane
    BY <2>1, SetVisibleType
  <2>3. Save(left) \in Seq(SaneStep) /\ Save(shown) \in Seq(SaneStep)
    BY <2>1, <2>2, SaveType
  <2>4. DropTab(op, c) \in {<<>>, Save(shown) \o Save(shown), Save(left)}
    BY <1>1 DEF DropTab
  <2>. HIDE DEF left, shown
  <2>5. Save(shown) \o Save(shown) \in Seq(SaneStep)
    BY <2>3
  <2>6. <<>> \in Seq(SaneStep)
    OBVIOUS
  <2>. QED
    BY <2>3, <2>4, <2>5, <2>6, Zenon
<1>. QED
  BY <1>1 DEF DropTab

\* The widgets of a tab changed.
LEMMA OtherWidgets ==
    ASSUME NEW c \in Sane, NEW k \in DOMAIN c.tabs, NEW ws \in WidgetSets
    PROVE  /\ [c EXCEPT !.tabs[k].widgets = ws] \in Sane
           /\ DOMAIN [c EXCEPT !.tabs[k].widgets = ws].tabs = DOMAIN c.tabs
<1>. DEFINE t == [c.tabs[k] EXCEPT !.widgets = ws]
<1>1. c.tabs[k] \in Tab
  BY SaneFields
<1>2. t \in Tab /\ t.id = c.tabs[k].id /\ t.visible = c.tabs[k].visible
  BY <1>1 DEF Tab
<1>3. [c EXCEPT !.tabs[k].widgets = ws] = [c EXCEPT !.tabs = [@ EXCEPT ![k] = t]]
  OBVIOUS
<1>4. DOMAIN [c.tabs EXCEPT ![k] = t] = DOMAIN c.tabs
  OBVIOUS
<1>. HIDE DEF t
<1>. QED
  BY <1>2, <1>3, <1>4, OtherTab

LEMMA AddWidgetType ==
    ASSUME NEW c \in Sane, NEW op \in Ops, op.kind = "addWidget", Room(op, c)
    PROVE  AddWidget(op, c) \in Seq(SaneStep)
<1>. DEFINE k == TabAt(c, op.tab)
            ws == Put(c.tabs[k].widgets, FreeNo(c.tabs[k].widgets), FALSE)
            new == [c EXCEPT !.tabs[k].widgets = ws]
<1>1. CASE op.tab \in Ids(c)
  <2>1. k \in DOMAIN c.tabs /\ c.tabs[k].id = op.tab /\ c.tabs[k] \in Tab
    BY <1>1, TabAtType, SaneFields
  <2>2. c.tabs[k].widgets \in WidgetSets /\ ~Full(c.tabs[k].widgets)
    BY <2>1 DEF Tab, Room
  <2>3. ws \in WidgetSets
    BY <2>2, FreeNoType, PutType
  <2>4. Save(new) \in Seq(SaneStep)
    BY <2>1, <2>3, OtherWidgets, SaveType
  <2>. QED
    BY <1>1, <2>4 DEF AddWidget
<1>. QED
  BY <1>1 DEF AddWidget

LEMMA EditWidgetType ==
    ASSUME NEW c \in Sane, NEW op \in Ops, op.kind = "editWidget", Room(op, c)
    PROVE  EditWidget(op, c) \in Seq(SaneStep)
<1>. DEFINE k     == TabAt(c, op.tab)
            j     == TabAt(c, op.to)
            fixed == c.tabs[k].widgets[op.no]
            off   == [c EXCEPT !.tabs[k].widgets = Take(@, op.no)]
            new   == [c EXCEPT !.tabs[k].widgets = Take(@, op.no),
                               !.tabs[j].widgets = Put(@, FreeNo(@), fixed)]
<1>1. CASE /\ HasWidget(c, op.tab, op.no) /\ op.to \in Ids(c)
           /\ op.to \notin {None, op.tab}
  <2>1. /\ k \in DOMAIN c.tabs /\ c.tabs[k] \in Tab /\ c.tabs[k].id = op.tab
        /\ j \in DOMAIN c.tabs /\ c.tabs[j] \in Tab /\ c.tabs[j].id = op.to
    BY <1>1, TabAtType, SaneFields DEF HasWidget
  <2>2. /\ c.tabs[k].widgets \in WidgetSets
        /\ c.tabs[j].widgets \in WidgetSets /\ ~Full(c.tabs[j].widgets)
    BY <1>1, <2>1 DEF Tab, Room
  <2>3. fixed \in BOOLEAN
    BY <1>1, <2>2, WidgetsByDomain DEF HasWidget
  <2>4. off \in Sane /\ j \in DOMAIN off.tabs
    BY <2>1, <2>2, TakeType, OtherWidgets
  <2>5. Put(c.tabs[j].widgets, FreeNo(c.tabs[j].widgets), fixed) \in WidgetSets
    BY <2>2, <2>3, FreeNoType, PutType
  <2>6. new = [off EXCEPT !.tabs[j].widgets = Put(c.tabs[j].widgets, FreeNo(c.tabs[j].widgets), fixed)]
    <3>1. j # k
      BY <1>1, <2>1
    <3>2. off.tabs[j] = c.tabs[j]
      BY <2>1, <3>1, SaneFields DEF Contents
    <3>. QED
      BY <3>2
  <2>7. Save(new) \in Seq(SaneStep)
    BY <2>4, <2>5, <2>6, OtherWidgets, SaveType
  <2>. QED
    BY <1>1, <2>7 DEF EditWidget
<1>2. Save(c) \in Seq(SaneStep)
  BY SaveType
<1>. QED
  BY <1>1, <1>2 DEF EditWidget

LEMMA DropWidgetType ==
    ASSUME NEW c \in Sane, NEW op \in Ops, op.kind = "dropWidget"
    PROVE  DropWidget(op, c) \in Seq(SaneStep)
<1>. DEFINE k == TabAt(c, op.tab)
            ws == Take(c.tabs[k].widgets, op.no)
            new == [c EXCEPT !.tabs[k].widgets = ws]
<1>1. CASE op.tab \in Ids(c)
  <2>1. k \in DOMAIN c.tabs /\ c.tabs[k] \in Tab
    BY <1>1, TabAtType, SaneFields
  <2>2. ws \in WidgetSets
    BY <2>1, TakeType DEF Tab
  <2>3. Save(new) \in Seq(SaneStep)
    BY <2>1, <2>2, OtherWidgets, SaveType
  <2>. QED
    BY <2>3 DEF DropWidget
<1>. QED
  BY <1>1 DEF DropWidget, HasWidget

LEMMA SetPrefsType ==
    ASSUME NEW c \in Sane, NEW op \in Ops, op.kind = "prefs"
    PROVE  SetPrefs(op, c) \in Seq(SaneStep)
<1>. DEFINE listed == IF op.users = None THEN <<>>
                      ELSE <<[do |-> "users", users |-> {}],
                             [do |-> "users", users |-> op.users]>>
            pub    == IF op.public = None THEN c ELSE [c EXCEPT !.public = op.public]
            saved  == IF op.public = None THEN <<>> ELSE Save(pub) \o Save(pub) \o Commit
            all    == IF op.pref = None THEN pub ELSE [pub EXCEPT !.pref = op.pref]
            again  == IF all = pub THEN <<>> ELSE Save(all) \o Commit
<1>1. listed \in Seq(SaneStep)
  <2>1. CASE op.users # None
    <3>1. op.users \in SUBSET Users
      BY <2>1, OpFields
    <3>2. /\ [do |-> "users", users |-> {}] \in SaneStep
          /\ [do |-> "users", users |-> op.users] \in SaneStep
      BY <3>1 DEF SaneStep
    <3>. QED
      BY <2>1, <3>2
  <2>. QED
    BY <2>1
<1>2. pub \in Sane
  <2>1. op.public # None => op.public \in BOOLEAN
    BY OpFields, ContentsAssumption
  <2>. QED
    BY <2>1 DEF Sane, Contents
<1>3. all \in Sane
  <2>1. op.pref # None => op.pref \in Prefs
    BY OpFields
  <2>. HIDE DEF pub
  <2>. QED
    BY <1>2, <2>1 DEF Sane, Contents
<1>4. Save(pub) \in Seq(SaneStep) /\ Save(all) \in Seq(SaneStep) /\ Commit \in Seq(SaneStep)
  <2>1. Commit \in Seq(SaneStep)
    BY DEF Commit, SaneStep
  <2>. QED
    BY <1>2, <1>3, <2>1, SaveType
<1>. HIDE DEF pub, all
<1>5. saved \in Seq(SaneStep) /\ again \in Seq(SaneStep)
  BY <1>4
<1>. HIDE DEF listed, saved, again
<1>6. listed \o saved \o Save(all) \o again \in Seq(SaneStep)
  BY <1>1, <1>4, <1>5
<1>. QED
  BY <1>6 DEF SetPrefs, listed, pub, saved, all, again

LEMMA PlanType ==
    ASSUME NEW c \in Sane, NEW op \in Ops, Room(op, c)
    PROVE  Plan(op, c) \in Seq(SaneStep)
<1>1. CASE op.kind = "addTab"
  <2>1. Len(c.tabs) < MaxTabs
    BY <1>1 DEF Room
  <2>. QED
    BY <1>1, <2>1, AddTabType DEF Plan
<1>2. CASE op.kind = "editTab"
  BY <1>2, EditTabType DEF Plan
<1>3. CASE op.kind = "dropTab"
  BY <1>3, DropTabType DEF Plan
<1>4. CASE op.kind = "addWidget"
  BY <1>4, AddWidgetType DEF Plan
<1>5. CASE op.kind = "editWidget"
  BY <1>5, EditWidgetType DEF Plan
<1>6. CASE op.kind = "dropWidget"
  BY <1>6, DropWidgetType DEF Plan
<1>7. CASE op.kind = "rewire"
  <2>1. [c EXCEPT !.wiring = op.wiring] \in Sane
    BY <1>7, OpFields DEF Sane, Contents
  <2>. QED
    BY <1>7, <2>1, SaveType DEF Plan
<1>8. CASE op.kind = "patch"
  <2>1. [c EXCEPT !.wiring = @ \cup {op.item}] \in Sane
    BY <1>8, OpFields DEF Sane, Contents
  <2>. QED
    BY <1>8, <2>1, SaveType DEF Plan
<1>9. CASE op.kind = "retitle"
  <2>1. [c EXCEPT !.title = op.title] \in Sane
    BY <1>9, OpFields DEF Sane, Contents
  <2>. QED
    BY <1>9, <2>1, SaveType DEF Plan
<1>10. CASE op.kind = "prefs"
  BY <1>10, SetPrefsType DEF Plan
<1>11. CASE op.kind = "remove"
  BY <1>11 DEF Plan, SaneStep
<1>12. CASE op.kind = "view"
  BY <1>12 DEF Plan, SaneStep
<1>. QED
  BY <1>1, <1>2, <1>3, <1>4, <1>5, <1>6, <1>7, <1>8, <1>9, <1>10, <1>11, <1>12, OpFields

LEMMA MadeType ==
    ASSUME NEW c \in Sane, NEW op \in Ops, Room(op, c), Plan(op, c) # <<>>
    PROVE  Made(op, c) \in MadeIds \cup {None}
<1>1. CASE op.kind = "addTab"
  <2>1. FreeId(c) \in TabId
    BY <1>1, FreeIdType DEF Room
  <2>. QED
    BY <1>1, <2>1 DEF Made, MadeIds
<1>2. CASE op.kind = "addWidget"
  <2>. DEFINE k == TabAt(c, op.tab)
  <2>1. op.tab \in Ids(c)
    BY <1>2 DEF Plan, AddWidget
  <2>2. k \in DOMAIN c.tabs /\ c.tabs[k].id = op.tab /\ c.tabs[k] \in Tab
    BY <2>1, TabAtType, SaneFields
  <2>3. FreeNo(c.tabs[k].widgets) \in WidgetNo
    BY <1>2, <2>2, FreeNoType DEF Tab, Room
  <2>. QED
    BY <1>2, <2>3, OpFields DEF Made, MadeIds
<1>. QED
  BY <1>1, <1>2 DEF Made

-----------------------------------------------------------------------------
(* The steps.                                                              *)

LEMMA FreshType ==
    ASSUME NEW names, NEW ws \in WidgetSets, Len(names) \in Nat,
           \A k \in 1..Len(names) : names[k] \in Names,
           Len(names) > 0, Len(names) <= MaxTabs
    PROVE  Fresh(names, ws) \in Seq(Tab) /\ Shape(Fresh(names, ws))
<1>. DEFINE tabs == Fresh(names, ws)
            n == Len(names)
<1>1. NoWidgets \in WidgetSets
  <2>1. NoWidgets \in [{} -> BOOLEAN] /\ {} \in SUBSET WidgetNo
    BY DEF NoWidgets
  <2>. QED
    BY <2>1, WidgetsByDomain
<1>2. \A k \in 1..n : k - 1 \in TabId
  BY ContentsAssumption DEF TabId
<1>3. /\ DOMAIN tabs = 1..n
      /\ \A k \in 1..n : /\ tabs[k] \in Tab
                         /\ tabs[k].id = k - 1 /\ tabs[k].visible = (k = 1)
  BY <1>1, <1>2 DEF Fresh, Tab
<1>4. tabs \in [1..n -> Tab]
  BY <1>3 DEF Fresh
<1>5. n \in Nat /\ n > 0
  OBVIOUS
<1>. HIDE DEF tabs, n
<1>6. tabs \in Seq(Tab) /\ Len(tabs) = n
  BY <1>4, <1>5
<1>7. \A k \in 1..n : tabs[k].visible => k = 1
  BY <1>3
<1>8. \A j, k \in 1..n : j # k => j - 1 # k - 1
  BY <1>5
<1>9. Shape(tabs)
  BY <1>3, <1>5, <1>6, <1>7, <1>8 DEF Shape
<1>. QED
  BY <1>6, <1>9 DEF tabs

LEMMA BlankSane == Blank \subseteq Sane
<1>1. SUFFICES ASSUME NEW c \in Blank PROVE c \in Sane
  OBVIOUS
<1>2. c.tabs \in Seq(Tab) /\ Shape(c.tabs)
  <2>1. \/ \E n \in Names, ws \in Found : c.tabs = Fresh(<<n>>, ws)
        \/ \E two \in Names \X Names, ws \in Found : c.tabs = Fresh(two, ws)
    BY DEF Blank
  <2>2. Found \subseteq WidgetSets
    BY DEF Found
  <2>3. CASE \E n \in Names, ws \in Found : c.tabs = Fresh(<<n>>, ws)
    <3>1. PICK n \in Names, ws \in Found : c.tabs = Fresh(<<n>>, ws)
      BY <2>3
    <3>. DEFINE names == <<n>>
    <3>2. /\ Len(names) \in Nat /\ Len(names) > 0 /\ Len(names) <= MaxTabs
          /\ \A k \in 1..Len(names) : names[k] \in Names
      BY ContentsAssumption
    <3>. HIDE DEF names
    <3>3. Fresh(names, ws) \in Seq(Tab) /\ Shape(Fresh(names, ws))
      BY <2>2, <3>2, FreshType
    <3>. QED
      BY <3>1, <3>3 DEF names
  <2>4. CASE \E two \in Names \X Names, ws \in Found : c.tabs = Fresh(two, ws)
    <3>1. PICK two \in Names \X Names, ws \in Found : c.tabs = Fresh(two, ws)
      BY <2>4
    <3>2. /\ Len(two) \in Nat /\ Len(two) > 0 /\ Len(two) <= MaxTabs
          /\ \A k \in 1..Len(two) : two[k] \in Names
      <4>1. PICK a \in Names, b \in Names : two = <<a, b>>
        OBVIOUS
      <4>. QED
        BY <4>1, ContentsAssumption
    <3>. QED
      BY <2>2, <3>1, <3>2, FreshType
  <2>. QED
    BY <2>1, <2>3, <2>4
<1>3. /\ c = [tabs |-> c.tabs, users |-> c.users, public |-> c.public, wiring |-> c.wiring,
              pref |-> c.pref, title |-> c.title]
      /\ c.users = {} /\ c.public = FALSE /\ c.wiring = {} /\ c.pref \in Prefs /\ c.title \in Titles
  <2>. DEFINE T == {Fresh(<<n>>, ws) : n \in Names, ws \in Found}
                   \cup {Fresh(two, ws) : two \in {n \in Names \X Names : n[1] # n[2]},
                                         ws \in Found}
  <2>1. Blank = [tabs : T, users : {{}}, public : {FALSE}, wiring : {{}},
                 pref : Prefs, title : Titles]
    BY DEF Blank
  <2>. HIDE DEF T
  <2>. QED
    BY <1>1, <2>1
<1>4. c \in Contents
  BY <1>2, <1>3 DEF Contents
<1>. QED
  BY <1>2, <1>4 DEF Sane

LEMMA RecordFields ==
    ASSUME NEW q \in Record
    PROVE  /\ q.op \in Ops /\ q.todo \in Seq(SaneStep) /\ q.copy \in SaneDoc
           /\ q.snap \in SaneDoc \cup {None, Gone} /\ q.mine \in SaneDoc \cup {None, Gone}
           /\ q.made \in MadeIds \cup {None}
BY DEF Record

LEMMA DueType ==
    ASSUME IInv, NEW r \in Requests, NEW kind, Due(r, kind)
    PROVE  /\ req[r] \in Record /\ Rest(r) \in Record
           /\ Rest(r).mine = req[r].mine
           /\ Head(req[r].todo) \in SaneStep /\ Head(req[r].todo).do = kind
<1>1. req[r] \in Record /\ req[r].todo # <<>>
  BY DEF IInv, Due, Busy
<1>2. Head(req[r].todo) \in SaneStep /\ Tail(req[r].todo) \in Seq(SaneStep)
  BY <1>1 DEF Record
<1>. QED
  BY <1>1, <1>2 DEF Rest, Record, Due

LEMMA StepFields ==
    ASSUME NEW s \in SaneStep
    PROVE  /\ s.do \in {"save", "index"} => s.c \in Sane
           /\ s.do = "users" => s.users \subseteq Users
BY DEF SaneStep

\* A request that goes on as q.
LEMMA GoesOn ==
    ASSUME IInv, NEW r \in Requests, NEW q \in Record \cup {Idle},
           req' = [req EXCEPT ![r] = q]
    PROVE  req' \in [Requests -> Record \cup {Idle}]
BY DEF IInv

LEMMA WriteType ==
    ASSUME IInv, NEW r \in Requests, NEW d \in SaneDoc \cup {Gone}, NEW q \in Record,
           Write(r, d, q)
    PROVE  /\ req' \in [Requests -> Record \cup {Idle}]
           /\ doc' \in SaneDoc \cup {Gone}
<1>1. CASE req' = [req EXCEPT ![r] = [q EXCEPT !.mine = d, !.snap = doc]] /\ UNCHANGED doc
  <2>1. [q EXCEPT !.mine = d, !.snap = doc] \in Record
    BY DEF IInv, Record
  <2>. QED
    BY <1>1, <2>1, GoesOn DEF IInv
<1>2. CASE req' = [req EXCEPT ![r] = q] /\ doc' \in {doc, d}
  BY <1>2, GoesOn DEF IInv
<1>. QED
  BY <1>1, <1>2 DEF Write

LEMMA CommittedType ==
    ASSUME IInv, NEW r \in Requests, Busy(r)
    PROVE  Committed(r) \in SaneDoc \cup {Gone}
<1>1. req[r] \in Record
  BY DEF IInv, Busy
<1>. QED
  BY <1>1, RecordFields DEF IInv, Committed

LEMMA InitIInv == Init => IInv
<1>. SUFFICES ASSUME Init PROVE IInv
  OBVIOUS
<1>1. PICK c \in Blank : doc = [c |-> c, lm |-> 0, raw |-> FALSE] /\ index = Indexed(c)
  BY DEF Init
<1>2. c \in Sane /\ c \in Contents
  BY BlankSane DEF Sane
<1>3. doc \in SaneDoc /\ index \in Entry
  BY <1>1, <1>2, IndexedType DEF SaneDoc
<1>4. req \in [Requests -> Record \cup {Idle}]
  BY DEF Init
<1>. QED
  BY <1>3, <1>4 DEF Init, IInv

LEMMA NextIInv == IInv /\ [Next]_vars => IInv'
<1>. SUFFICES ASSUME IInv, [Next]_vars PROVE IInv'
  OBVIOUS
<1>. USE DEF IInv
<1>1. ASSUME NEW r \in Requests, NEW op \in Ops, Read(r, op) PROVE IInv'
  <2>. DEFINE todo == Plan(op, doc.c)
              made == IF todo # <<>> THEN Made(op, doc.c) ELSE None
              q == [op |-> op, todo |-> todo, copy |-> doc, snap |-> doc, mine |-> None,
                    made |-> made]
  <2>1. doc \in SaneDoc /\ doc.c \in Sane /\ Room(op, doc.c)
    BY <1>1 DEF Read, SaneDoc
  <2>2. todo \in Seq(SaneStep) /\ made \in MadeIds \cup {None}
    BY <2>1, PlanType, MadeType
  <2>3. q \in Record
    <3>. HIDE DEF todo, made
    <3>. QED
      BY <2>1, <2>2 DEF Record
  <2>4. req' = [req EXCEPT ![r] = q]
    BY <1>1 DEF Read
  <2>5. req' \in [Requests -> Record \cup {Idle}]
    BY <2>3, <2>4, GoesOn
  <2>. QED
    BY <1>1, <2>5 DEF Read
<1>2. ASSUME NEW r \in Requests, SaveStep(r) PROVE IInv'
  <2>. DEFINE copy == [c |-> Head(req[r].todo).c, lm |-> now + 1, raw |-> FALSE]
              q == [Rest(r) EXCEPT !.copy = copy]
  <2>1. Rest(r) \in Record /\ Head(req[r].todo).c \in Sane
    BY <1>2, DueType, StepFields DEF SaveStep
  <2>2. copy \in SaneDoc
    BY <2>1 DEF SaneDoc
  <2>3. q \in Record
    <3>. HIDE DEF copy
    <3>. QED
      BY <2>1, <2>2 DEF Record
  <2>4. Write(r, copy, q)
    BY <1>2 DEF SaveStep
  <2>5. /\ req' \in [Requests -> Record \cup {Idle}]
        /\ doc' \in SaneDoc \cup {Gone}
    <3>. HIDE DEF copy, q
    <3>. QED
      BY <2>2, <2>3, <2>4, WriteType
  <2>6. /\ cached' \subseteq cached /\ now' = now + 1
        /\ UNCHANGED <<transactional, index, ahead, created>>
    BY <1>2 DEF SaveStep
  <2>. QED
    BY <2>5, <2>6
<1>3. ASSUME NEW r \in Requests, IndexStep(r) PROVE IInv'
  <2>1. Rest(r) \in Record /\ Head(req[r].todo).c \in Sane
    BY <1>3, DueType, StepFields DEF IndexStep
  <2>2. index' \in Entry \cup {Gone}
    BY <1>3, <2>1, SaneFields, IndexedType DEF IndexStep
  <2>3. req' \in [Requests -> Record \cup {Idle}]
    BY <1>3, <2>1, GoesOn DEF IndexStep
  <2>. QED
    BY <1>3, <2>2, <2>3 DEF IndexStep
<1>4. ASSUME NEW r \in Requests, UsersStep(r) PROVE IInv'
  <2>. DEFINE U == Head(req[r].todo).users
              d == [Seen(r) EXCEPT !.c.users = U, !.raw = U # {}]
  <2>1. Rest(r) \in Record /\ req[r] \in Record /\ U \subseteq Users
    BY <1>4, DueType, StepFields DEF UsersStep
  <2>2. Seen(r) \in SaneDoc \cup {Gone}
    BY <2>1, RecordFields DEF Seen
  <2>3. Write(r, d, Rest(r))
    BY <1>4 DEF UsersStep
  <2>4. /\ req' \in [Requests -> Record \cup {Idle}]
        /\ doc' \in SaneDoc \cup {Gone}
    <3>1. CASE Seen(r) = Gone
      BY <2>1, <2>3, <3>1, GoesOn DEF Write
    <3>2. CASE Seen(r) # Gone
      <4>1. Seen(r) \in SaneDoc
        BY <2>2, <3>2
      <4>2. d \in SaneDoc
        BY <2>1, <4>1 DEF SaneDoc, Sane, Contents
      <4>. HIDE DEF d
      <4>. QED
        BY <2>1, <2>3, <4>2, WriteType
    <3>. QED
      BY <3>1, <3>2
  <2>. QED
    BY <1>4, <2>4 DEF UsersStep
<1>5. ASSUME NEW r \in Requests, DeleteStep(r) PROVE IInv'
  <2>1. Rest(r) \in Record /\ Write(r, Gone, Rest(r))
    BY <1>5, DueType DEF DeleteStep
  <2>2. /\ req' \in [Requests -> Record \cup {Idle}]
        /\ doc' \in SaneDoc \cup {Gone}
    BY <2>1, WriteType
  <2>. QED
    BY <1>5, <2>2 DEF DeleteStep
<1>6. ASSUME NEW r \in Requests, UnindexStep(r) PROVE IInv'
  <2>1. req' \in [Requests -> Record \cup {Idle}]
    BY <1>6, DueType, GoesOn DEF UnindexStep
  <2>. QED
    BY <1>6, <2>1 DEF UnindexStep
<1>7. ASSUME NEW r \in Requests, ViewStep(r) PROVE IInv'
  <2>1. req[r] \in Record /\ Rest(r) \in Record
    BY <1>7, DueType DEF ViewStep
  <2>2. req[r].copy.lm \in Nat /\ req[r].copy.c \in Contents
    BY <2>1, RecordFields DEF SaneDoc, Sane
  <2>3. cached' \subseteq [user : Requests, lm : Nat, c : Contents]
    BY <1>7, <2>2 DEF ViewStep
  <2>4. req' \in [Requests -> Record \cup {Idle}]
    BY <1>7, <2>1, GoesOn DEF ViewStep
  <2>. QED
    BY <1>7, <2>3, <2>4 DEF ViewStep
<1>8. ASSUME NEW r \in Requests, CommitStep(r) PROVE IInv'
  <2>1. Rest(r) \in Record /\ Busy(r)
    BY <1>8, DueType DEF CommitStep, Due
  <2>2. [Rest(r) EXCEPT !.mine = None, !.snap = None] \in Record
    BY <2>1 DEF Record
  <2>3. req' \in [Requests -> Record \cup {Idle}]
    BY <1>8, <2>2, GoesOn DEF CommitStep
  <2>. QED
    BY <1>8, <2>1, <2>3, CommittedType DEF CommitStep
<1>9. ASSUME NEW r \in Requests, Finish(r) PROVE IInv'
  <2>1. req[r] \in Record /\ Busy(r)
    BY <1>9 DEF Finish, Finished, Busy
  <2>2. created' \subseteq MadeIds
    BY <1>9, <2>1, RecordFields DEF Finish
  <2>3. req' \in [Requests -> Record \cup {Idle}]
    BY <1>9, GoesOn DEF Finish
  <2>. QED
    BY <1>9, <2>1, <2>2, <2>3, CommittedType DEF Finish
<1>10. ASSUME NEW r \in Requests, Abort(r) PROVE IInv'
  <2>1. req' \in [Requests -> Record \cup {Idle}]
    BY <1>10, GoesOn DEF Abort
  <2>. QED
    BY <1>10, <2>1 DEF Abort
<1>11. CASE UNCHANGED vars
  BY <1>11 DEF vars
<1>. QED
  BY <1>1, <1>2, <1>3, <1>4, <1>5, <1>6, <1>7, <1>8, <1>9, <1>10, <1>11
     DEF Next, Conflict, Fail

-----------------------------------------------------------------------------
(* Types and shape.                                                        *)

LEMMA SpecIInv == Spec => []IInv
BY InitIInv, NextIInv, PTL DEF Spec

LEMMA IInvTypeOK == IInv => TypeOK
<1>. SUFFICES ASSUME IInv PROVE TypeOK
  OBVIOUS
<1>1. SaneDoc \subseteq Doc
  BY DEF SaneDoc, Doc, Sane
<1>2. Seq(SaneStep) \subseteq Seq(Step)
  <2>1. SaneStep \subseteq Step
    BY DEF SaneStep, Step, Sane
  <2>. QED
    BY <2>1
<1>3. ASSUME NEW r \in Requests, Busy(r)
      PROVE  /\ req[r].op \in Ops
             /\ req[r].todo \in Seq(Step)
             /\ req[r].copy \in Doc
             /\ req[r].snap \in Doc \cup {None, Gone}
             /\ req[r].mine \in Doc \cup {None, Gone}
             /\ req[r].made \in MadeIds \cup {None}
  <2>1. req[r] \in Record
    BY <1>3 DEF IInv, Busy
  <2>. QED
    BY <1>1, <1>2, <2>1, RecordFields
<1>. QED
  BY <1>1, <1>3 DEF IInv, TypeOK, Entry

\* Every variable of the store keeps its type: what a request has left to do,
\* and its copy, are documents the model can be built from (database.py,
\* workspace/crud.py).
THEOREM TypesAlwaysOK == Spec => []TypeOK
BY SpecIInv, IInvTypeOK, PTL

\* The document keeps a tab, its tabs have distinct ids and at most one is
\* visible, for any number of requests, tabs and widgets, with transactions or
\* without (workspace/routes.py, workspace/utils.py: every plan starts from a
\* document of that shape and saves documents of that shape only).
THEOREM TabsAlwaysSound == Spec => []TabsSound
<1>1. IInv => TabsSound
  BY DEF IInv, TabsSound, SaneDoc, Sane, Shape
<1>. QED
  BY <1>1, SpecIInv, PTL
-----------------------------------------------------------------------------
(* Who writes: the second inductive invariant.                             *)

HasMine(q) == "mine" \in DOMAIN q
ReqType == /\ DOMAIN req = Requests
           /\ req = [r \in Requests |-> req[r]]
           /\ \A r \in Requests : HasMine(req[r])

\* Whoever has written and not committed is alone in it, in a transaction, and
\* over a document that is there.
OneWriter ==
    \A r \in Requests : req[r].mine # None =>
        /\ transactional /\ doc # Gone
        /\ \A q \in Requests \ {r} : req[q].mine = None

WriterInv == ReqType /\ OneWriter

\* What StaysDeleted says of a step.
NothingBack == (doc = Gone => doc' = Gone) /\ (index = Gone => index' = Gone)

-----------------------------------------------------------------------------
(* What the steps of a request do to its record.                           *)

LEMMA IdleMine == HasMine(Idle) /\ Idle.mine = None
BY DEF HasMine, Idle

LEMMA RestMine ==
    ASSUME ReqType, NEW r \in Requests
    PROVE  HasMine(Rest(r)) /\ Rest(r).mine = req[r].mine
BY DEF ReqType, HasMine, Rest

\* A request that goes on as its record q says, and writes nothing new.
LEMMA NoWriteKeeps ==
    ASSUME WriterInv, NEW r \in Requests, NEW q, HasMine(q),
           q.mine \in {None, req[r].mine},
           req' = [req EXCEPT ![r] = q], UNCHANGED <<transactional, doc>>
    PROVE  WriterInv'
<1>1. /\ req' = [p \in Requests |-> IF p = r THEN q ELSE req[p]]
      /\ DOMAIN req' = Requests
  BY DEF WriterInv, ReqType
<1>2. ReqType'
  BY <1>1 DEF WriterInv, ReqType, HasMine
<1>3. OneWriter'
  BY <1>1 DEF WriterInv, OneWriter
<1>. QED
  BY <1>2, <1>3 DEF WriterInv

\* A write over the document.
LEMMA WriteKeeps ==
    ASSUME WriterInv, NEW r \in Requests, NEW d, NEW q, HasMine(q),
           q.mine = req[r].mine, Writable(r), Write(r, d, q),
           UNCHANGED transactional
    PROVE  WriterInv' /\ (doc = Gone => doc' = Gone)
<1>1. CASE Seen(r) = Gone
  <2>1. req' = [req EXCEPT ![r] = q] /\ UNCHANGED doc
    BY <1>1 DEF Write
  <2>. QED
    BY <2>1, NoWriteKeeps
<1>2. CASE Seen(r) # Gone /\ transactional
  <2>. DEFINE w == [q EXCEPT !.mine = d, !.snap = doc]
  <2>1. req' = [req EXCEPT ![r] = w] /\ UNCHANGED doc
    BY <1>2 DEF Write
  <2>2. HasMine(w)
    BY DEF HasMine
  <2>3. doc # Gone /\ \A p \in Requests \ {r} : req[p].mine = None
    BY <1>2 DEF Seen, WriterInv, OneWriter, Writable
  <2>4. /\ req' = [p \in Requests |-> IF p = r THEN w ELSE req[p]]
        /\ DOMAIN req' = Requests
    BY <2>1 DEF WriterInv, ReqType
  <2>5. ReqType'
    BY <2>2, <2>4 DEF WriterInv, ReqType, HasMine
  <2>6. OneWriter'
    BY <1>2, <2>1, <2>3, <2>4 DEF OneWriter
  <2>. QED
    BY <2>1, <2>5, <2>6 DEF WriterInv
<1>3. CASE Seen(r) # Gone /\ ~transactional
  <2>1. req' = [req EXCEPT ![r] = q] /\ doc' = d
    BY <1>3 DEF Write
  <2>2. \A p \in Requests : req[p].mine = None
    BY <1>3 DEF WriterInv, OneWriter
  <2>3. doc # Gone
    BY <1>3, <2>2 DEF Seen
  <2>4. /\ req' = [p \in Requests |-> IF p = r THEN q ELSE req[p]]
        /\ DOMAIN req' = Requests
    BY <2>1 DEF WriterInv, ReqType
  <2>5. ReqType'
    BY <2>4 DEF WriterInv, ReqType, HasMine
  <2>6. OneWriter'
    BY <2>2, <2>4 DEF OneWriter
  <2>. QED
    BY <2>3, <2>5, <2>6 DEF WriterInv
<1>. QED
  BY <1>1, <1>2, <1>3

\* A commit, after which the request goes on as q says.
LEMMA CommitKeeps ==
    ASSUME WriterInv, NEW r \in Requests, NEW q, HasMine(q), q.mine = None,
           req' = [req EXCEPT ![r] = q], doc' = Committed(r), UNCHANGED transactional
    PROVE  WriterInv' /\ (doc = Gone => doc' = Gone)
<1>1. /\ req' = [p \in Requests |-> IF p = r THEN q ELSE req[p]]
      /\ DOMAIN req' = Requests
  BY DEF WriterInv, ReqType
<1>2. ReqType'
  BY <1>1 DEF WriterInv, ReqType, HasMine
<1>3. CASE req[r].mine = None
  <2>1. UNCHANGED doc
    BY <1>3 DEF Committed
  <2>. QED
    BY <2>1, NoWriteKeeps
<1>4. CASE req[r].mine # None
  <2>1. doc # Gone /\ \A p \in Requests : req'[p].mine = None
    BY <1>1, <1>4 DEF WriterInv, OneWriter
  <2>. QED
    BY <1>2, <2>1 DEF WriterInv, OneWriter
<1>. QED
  BY <1>3, <1>4

\* An exception drops what was not committed.
LEMMA AbortKeeps ==
    ASSUME WriterInv, NEW r \in Requests, Abort(r)
    PROVE  WriterInv' /\ NothingBack
<1>1. req' = [req EXCEPT ![r] = Idle] /\ UNCHANGED <<transactional, doc, index>>
  BY DEF Abort
<1>. QED
  BY <1>1, IdleMine, NoWriteKeeps DEF NothingBack

-----------------------------------------------------------------------------
(* Its steps.                                                              *)

LEMMA InitWriter == Init => WriterInv
<1>. SUFFICES ASSUME Init PROVE WriterInv
  OBVIOUS
<1>1. ReqType
  BY IdleMine DEF Init, ReqType
<1>2. OneWriter
  BY IdleMine DEF Init, OneWriter
<1>. QED
  BY <1>1, <1>2 DEF WriterInv

\* Every step keeps the invariant and brings nothing back.
LEMMA NextWriter == WriterInv /\ [Next]_vars => WriterInv' /\ NothingBack
<1>. SUFFICES ASSUME WriterInv, [Next]_vars PROVE WriterInv' /\ NothingBack
  OBVIOUS
<1>. USE DEF NothingBack
<1>1. ASSUME NEW r \in Requests, NEW op \in Ops, Read(r, op)
      PROVE  WriterInv' /\ NothingBack
  <2>. DEFINE q == [op |-> op, todo |-> Plan(op, doc.c), copy |-> doc, snap |-> doc,
                    mine |-> None,
                    made |-> IF Plan(op, doc.c) # <<>> THEN Made(op, doc.c) ELSE None]
  <2>1. req' = [req EXCEPT ![r] = q] /\ UNCHANGED <<transactional, doc, index>>
    BY <1>1 DEF Read
  <2>2. HasMine(q) /\ q.mine = None
    BY DEF HasMine
  <2>. QED
    BY <2>1, <2>2, NoWriteKeeps
<1>2. ASSUME NEW r \in Requests, SaveStep(r)
      PROVE  WriterInv' /\ NothingBack
  <2>. DEFINE copy == [c |-> Head(req[r].todo).c, lm |-> now + 1, raw |-> FALSE]
              q == [Rest(r) EXCEPT !.copy = copy]
  <2>1. Writable(r) /\ Write(r, copy, q) /\ UNCHANGED <<transactional, index>>
    BY <1>2 DEF SaveStep
  <2>2. HasMine(Rest(r)) /\ Rest(r).mine = req[r].mine
    BY RestMine DEF WriterInv
  <2>3. HasMine(q) /\ q.mine = req[r].mine
    BY <2>2 DEF HasMine
  <2>. QED
    BY <2>1, <2>3, WriteKeeps
<1>3. ASSUME NEW r \in Requests, IndexStep(r)
      PROVE  WriterInv' /\ NothingBack
  <2>1. /\ req' = [req EXCEPT ![r] = Rest(r)] /\ UNCHANGED <<transactional, doc>>
        /\ index = Gone => index' = Gone
    BY <1>3 DEF IndexStep
  <2>. QED
    BY <2>1, RestMine, NoWriteKeeps DEF WriterInv
<1>4. ASSUME NEW r \in Requests, UsersStep(r)
      PROVE  WriterInv' /\ NothingBack
  <2>1. /\ Writable(r) /\ UNCHANGED <<transactional, index>>
        /\ \E d : Write(r, d, Rest(r))
    BY <1>4 DEF UsersStep
  <2>. QED
    BY <2>1, RestMine, WriteKeeps DEF WriterInv
<1>5. ASSUME NEW r \in Requests, DeleteStep(r)
      PROVE  WriterInv' /\ NothingBack
  <2>1. /\ Writable(r) /\ UNCHANGED <<transactional, index>>
        /\ Write(r, Gone, Rest(r))
    BY <1>5 DEF DeleteStep
  <2>. QED
    BY <2>1, RestMine, WriteKeeps DEF WriterInv
<1>6. ASSUME NEW r \in Requests, UnindexStep(r)
      PROVE  WriterInv' /\ NothingBack
  <2>1. /\ req' = [req EXCEPT ![r] = Rest(r)] /\ UNCHANGED <<transactional, doc>>
        /\ index' = Gone
    BY <1>6 DEF UnindexStep
  <2>. QED
    BY <2>1, RestMine, NoWriteKeeps DEF WriterInv
<1>7. ASSUME NEW r \in Requests, ViewStep(r)
      PROVE  WriterInv' /\ NothingBack
  <2>1. /\ req' = [req EXCEPT ![r] = Rest(r)]
        /\ UNCHANGED <<transactional, doc, index>>
    BY <1>7 DEF ViewStep
  <2>. QED
    BY <2>1, RestMine, NoWriteKeeps DEF WriterInv
<1>8. ASSUME NEW r \in Requests, CommitStep(r)
      PROVE  WriterInv' /\ NothingBack
  <2>. DEFINE q == [Rest(r) EXCEPT !.mine = None, !.snap = None]
  <2>1. /\ req' = [req EXCEPT ![r] = q] /\ doc' = Committed(r)
        /\ UNCHANGED <<transactional, index>>
    BY <1>8 DEF CommitStep
  <2>2. HasMine(Rest(r))
    BY RestMine DEF WriterInv
  <2>3. HasMine(q) /\ q.mine = None
    BY <2>2 DEF HasMine
  <2>. QED
    BY <2>1, <2>3, CommitKeeps
<1>9. ASSUME NEW r \in Requests, Finish(r)
      PROVE  WriterInv' /\ NothingBack
  <2>1. /\ req' = [req EXCEPT ![r] = Idle] /\ doc' = Committed(r)
        /\ UNCHANGED <<transactional, index>>
    BY <1>9 DEF Finish
  <2>. QED
    BY <2>1, IdleMine, CommitKeeps
<1>10. ASSUME NEW r \in Requests, Conflict(r) \/ Fail(r)
       PROVE  WriterInv' /\ NothingBack
  BY <1>10, AbortKeeps DEF Conflict, Fail
<1>11. CASE UNCHANGED vars
  BY <1>11 DEF vars, WriterInv, ReqType, OneWriter
<1>. QED
  BY <1>1, <1>2, <1>3, <1>4, <1>5, <1>6, <1>7, <1>8, <1>9, <1>10, <1>11 DEF Next

-----------------------------------------------------------------------------
\* A deleted workspace stays deleted, and so does its index entry, whatever
\* the requests that had read it do (delete_workspace and change_workspace),
\* for any number of requests, with transactions or without them.
THEOREM DeletedForever == Spec => StaysDeleted
<1>1. WriterInv /\ [Next]_vars => [NothingBack]_vars
  BY NextWriter
<1>2. WriterInv /\ [Next]_vars => WriterInv'
  BY NextWriter
<1>3. [NothingBack]_vars => [(doc = Gone => doc' = Gone) /\ (index = Gone => index' = Gone)]_vars
  BY DEF NothingBack
<1>. QED
  BY <1>1, <1>2, <1>3, InitWriter, PTL DEF Spec, StaysDeleted

-----------------------------------------------------------------------------
(* The order of a plan.                                                    *)

\* What two steps of a plan may follow one another.
Follows(a, b) ==
    /\ a.do = "save" <=> b.do = "index"
    /\ a.do = "save" => b.c = a.c
    /\ a.do = "users" => b.do \in {"users", "save"}
    /\ a.do = "delete" <=> b.do = "unindex"
    /\ a.do \notin {"view", "unindex"} /\ b.do \notin {"delete", "view"}
    /\ Publish = {} => a.do # "commit"
Ends == {"index", "commit", "unindex", "view"}
Ordered(t) ==
    /\ \A i \in 1..(Len(t) - 1) : Follows(t[i], t[i + 1])
    /\ t # <<>> => t[Len(t)].do \in Ends
Starts(t, S) == t # <<>> /\ t[1].do \in S

LEMMA TailOf ==
    ASSUME NEW S, NEW t \in Seq(S), t # <<>>
    PROVE  /\ Len(t) \in Nat /\ Len(t) > 0 /\ Head(t) = t[1] /\ Head(t) \in S
           /\ Tail(t) \in Seq(S) /\ Len(Tail(t)) = Len(t) - 1
           /\ \A i \in 1..Len(Tail(t)) : Tail(t)[i] = t[i + 1]
           /\ Tail(t) = <<>> => Len(t) = 1
           /\ Tail(t) # <<>> => Len(t) > 1 /\ Head(Tail(t)) = t[2]
<1>1. Len(t) \in Nat /\ Len(t) > 0 /\ Head(t) = t[1] /\ Head(t) \in S
  OBVIOUS
<1>2. Tail(t) \in Seq(S) /\ Len(Tail(t)) = Len(t) - 1
  OBVIOUS
<1>3. \A i \in 1..Len(Tail(t)) : Tail(t)[i] = t[i + 1]
  OBVIOUS
<1>4. Tail(t) = <<>> => Len(t) = 1
  <2>. DEFINE n == Len(t)
              u == Tail(t)
  <2>1. n \in Nat /\ n > 0 /\ Len(u) = n - 1
    BY <1>1, <1>2
  <2>. HIDE DEF n, u
  <2>2. u = <<>> => Len(u) = 0
    OBVIOUS
  <2>3. u = <<>> => n = 1
    BY <2>1, <2>2
  <2>. QED
    BY <2>3 DEF n, u
<1>5. Tail(t) # <<>> => Len(Tail(t)) > 0 /\ Head(Tail(t)) = Tail(t)[1]
  BY <1>2
<1>6. Tail(t) # <<>> => Len(t) > 1 /\ Head(Tail(t)) = t[2]
  BY <1>1, <1>2, <1>3, <1>5
<1>. QED
  BY <1>1, <1>2, <1>3, <1>4, <1>6

LEMMA OrderedTail ==
    ASSUME NEW t \in Seq(SaneStep), t # <<>>, Ordered(t)
    PROVE  /\ Ordered(Tail(t))
           /\ Tail(t) # <<>> => Follows(Head(t), Head(Tail(t)))
           /\ Tail(t) = <<>> => Head(t).do \in Ends
<1>1. /\ Len(t) \in Nat /\ Len(t) > 0 /\ Len(Tail(t)) = Len(t) - 1
      /\ \A i \in 1..Len(Tail(t)) : Tail(t)[i] = t[i + 1]
      /\ Head(t) = t[1] /\ (Tail(t) # <<>> => Len(t) > 1 /\ Head(Tail(t)) = t[2])
      /\ Tail(t) = <<>> => Len(t) = 1
  BY TailOf
<1>2. ASSUME NEW i \in 1..(Len(Tail(t)) - 1) PROVE Follows(Tail(t)[i], Tail(t)[i + 1])
  <2>1. i \in 1..Len(Tail(t)) /\ i + 1 \in 1..Len(Tail(t)) /\ i + 1 \in 1..(Len(t) - 1)
    BY <1>1
  <2>2. Follows(t[i + 1], t[(i + 1) + 1])
    BY <2>1 DEF Ordered
  <2>. QED
    BY <1>1, <2>1, <2>2
<1>3. Tail(t) # <<>> => Tail(t)[Len(Tail(t))].do \in Ends
  <2>. SUFFICES ASSUME Tail(t) # <<>> PROVE Tail(t)[Len(Tail(t))].do \in Ends
    OBVIOUS
  <2>1. Len(t) > 1 /\ Tail(t)[Len(t) - 1] = t[(Len(t) - 1) + 1]
    BY <1>1
  <2>2. t[Len(t)].do \in Ends
    BY DEF Ordered
  <2>. QED
    BY <1>1, <2>1, <2>2
<1>4. Ordered(Tail(t))
  BY <1>2, <1>3 DEF Ordered
<1>5. Tail(t) # <<>> => Follows(t[1], t[2])
  <2>1. Tail(t) # <<>> => 1 \in 1..(Len(t) - 1)
    BY <1>1
  <2>. QED
    BY <2>1 DEF Ordered
<1>. QED
  BY <1>1, <1>4, <1>5 DEF Ordered

\* A step before a plan, when it may precede the first one.
LEMMA StepThen ==
    ASSUME NEW s \in SaneStep, NEW t \in Seq(SaneStep), Ordered(t),
           IF t = <<>> THEN s.do \in Ends ELSE Follows(s, t[1])
    PROVE  <<s>> \o t \in Seq(SaneStep) /\ Ordered(<<s>> \o t) /\ Starts(<<s>> \o t, {s.do})
<1>. DEFINE u == <<s>> \o t
<1>1. /\ u \in Seq(SaneStep) /\ Len(t) \in Nat /\ Len(u) = 1 + Len(t) /\ u[1] = s
      /\ \A i \in 1..Len(t) : u[i + 1] = t[i]
      /\ u # <<>> /\ (t # <<>> => Len(t) > 0)
  OBVIOUS
<1>. HIDE DEF u
<1>2. ASSUME NEW i \in 1..(Len(u) - 1) PROVE Follows(u[i], u[i + 1])
  <2>1. CASE i = 1
    BY <1>1, <2>1
  <2>2. CASE i # 1
    <3>1. i - 1 \in 1..(Len(t) - 1) /\ i - 1 \in 1..Len(t) /\ i \in 1..Len(t) /\ (i - 1) + 1 = i
      BY <1>1, <2>2
    <3>2. Follows(t[i - 1], t[i])
      BY <3>1 DEF Ordered
    <3>3. u[i] = t[i - 1] /\ u[i + 1] = t[i]
      BY <1>1, <3>1
    <3>. QED
      BY <3>2, <3>3
  <2>. QED
    BY <2>1, <2>2
<1>3. u[Len(u)].do \in Ends
  <2>1. CASE t = <<>>
    BY <1>1, <2>1
  <2>2. CASE t # <<>>
    <3>1. u[Len(u)] = t[Len(t)]
      BY <1>1, <2>2
    <3>. QED
      BY <2>2, <3>1 DEF Ordered
  <2>. QED
    BY <2>1, <2>2
<1>4. Ordered(u) /\ Starts(u, {s.do})
  BY <1>1, <1>2, <1>3 DEF Ordered, Starts
<1>. QED
  BY <1>1, <1>4 DEF u

LEMMA NoSteps == <<>> \in Seq(SaneStep) /\ Ordered(<<>>)
BY DEF Ordered

LEMMA SaveThen ==
    ASSUME NEW c \in Sane, NEW t \in Seq(SaneStep), Ordered(t),
           t # <<>> => Starts(t, {"save", "users", "commit"})
    PROVE  /\ Save(c) \o t \in Seq(SaneStep) /\ Ordered(Save(c) \o t)
           /\ Starts(Save(c) \o t, {"save"})
<1>. DEFINE a == [do |-> "save", c |-> c]
            b == [do |-> "index", c |-> c]
            u == <<b>> \o t
<1>1. a \in SaneStep /\ b \in SaneStep
  BY DEF SaneStep
<1>2. t = <<>> => b.do \in Ends
  BY DEF Ends
<1>3. t # <<>> => Follows(b, t[1])
  BY DEF Follows, Starts
<1>4. u \in Seq(SaneStep) /\ Ordered(u) /\ Starts(u, {b.do}) /\ u[1] = b
  <2>. HIDE DEF b
  <2>1. u \in Seq(SaneStep) /\ Ordered(u) /\ Starts(u, {b.do})
    BY <1>1, <1>2, <1>3, StepThen
  <2>. QED
    BY <1>1, <2>1
<1>5. u # <<>> /\ Follows(a, u[1])
  <2>1. Follows(a, b)
    BY DEF Follows
  <2>. QED
    BY <1>4, <2>1 DEF Starts
<1>6. <<a>> \o u \in Seq(SaneStep) /\ Ordered(<<a>> \o u) /\ Starts(<<a>> \o u, {"save"})
  <2>1. a.do = "save"
    OBVIOUS
  <2>. HIDE DEF a, u
  <2>. QED
    BY <1>1, <1>4, <1>5, <2>1, StepThen
<1>7. Save(c) \o t = <<a>> \o u
  BY <1>1 DEF Save
<1>. QED
  BY <1>6, <1>7

LEMMA SaveOrdered ==
    ASSUME NEW c \in Sane
    PROVE  Save(c) \in Seq(SaneStep) /\ Ordered(Save(c)) /\ Starts(Save(c), {"save"})
<1>1. Save(c) \in Seq(SaneStep) /\ Save(c) \o <<>> = Save(c)
  BY SaveType
<1>. QED
  BY <1>1, NoSteps, SaveThen

LEMMA CommitThen ==
    ASSUME NEW t \in Seq(SaneStep), Ordered(t),
           t # <<>> => Starts(t, {"save", "users", "commit"}) /\ Publish # {}
    PROVE  Commit \o t \in Seq(SaneStep) /\ Ordered(Commit \o t) /\ Starts(Commit \o t, {"commit"})
<1>. DEFINE a == [do |-> "commit"]
<1>1. a \in SaneStep /\ a.do = "commit" /\ Commit = <<a>>
  BY DEF SaneStep, Commit
<1>2. t = <<>> => a.do \in Ends
  BY DEF Ends
<1>3. t # <<>> => Follows(a, t[1])
  BY DEF Follows, Starts
<1>. HIDE DEF a
<1>. QED
  BY <1>1, <1>2, <1>3, StepThen

LEMMA UsersThen ==
    ASSUME NEW U \in SUBSET Users, NEW t \in Seq(SaneStep), Ordered(t), Starts(t, {"save", "users"})
    PROVE  LET u == <<[do |-> "users", users |-> U]>> \o t
           IN  u \in Seq(SaneStep) /\ Ordered(u) /\ Starts(u, {"users"})
<1>. DEFINE a == [do |-> "users", users |-> U]
<1>1. a \in SaneStep /\ a.do = "users"
  BY DEF SaneStep
<1>2. t # <<>> /\ Follows(a, t[1])
  BY DEF Follows, Starts
<1>. HIDE DEF a
<1>. QED
  BY <1>1, <1>2, StepThen DEF a

\* What a handler may begin with.
First == {"save", "users", "delete", "view"}
Planned(t) == t \in Seq(SaneStep) /\ Ordered(t) /\ (t # <<>> => Starts(t, First))

LEMMA SavePlanned ==
    ASSUME NEW c \in Sane
    PROVE  /\ Planned(Save(c)) /\ Planned(<<>>)
           /\ \A d \in Sane : Planned(Save(c) \o Save(d))
<1>1. Planned(Save(c)) /\ Planned(<<>>)
  BY NoSteps, SaveOrdered DEF Planned, Starts, First
<1>2. ASSUME NEW d \in Sane PROVE Planned(Save(c) \o Save(d))
  <2>1. Save(d) \in Seq(SaneStep) /\ Ordered(Save(d)) /\ Starts(Save(d), {"save", "users", "commit"})
    BY SaveOrdered DEF Starts
  <2>2. /\ Save(c) \o Save(d) \in Seq(SaneStep) /\ Ordered(Save(c) \o Save(d))
        /\ Starts(Save(c) \o Save(d), {"save"})
    BY <2>1, SaveThen
  <2>. QED
    BY <2>2 DEF Planned, Starts, First
<1>. QED
  BY <1>1, <1>2

-----------------------------------------------------------------------------
(* What a plan keeps of the tabs and widgets of the document.              *)

\* The ids of a tab and of its widgets, as clients are told of them.
KeptOf(t) == {<<t.id>>} \cup TabWidgets(t)
Kept(c) == UNION {KeptOf(c.tabs[k]) : k \in DOMAIN c.tabs}

\* The contents with what c has but T, and with made.
Keeping(c, T, made) == {d \in Sane : Kept(c) \ T \subseteq Kept(d) /\ (made # None => made \in Kept(d))}
Saves(S) == {<<>>} \cup {Save(d) : d \in S} \cup {Save(d) \o Save(e) : d \in S, e \in S}

LEMMA InSaves ==
    ASSUME NEW S
    PROVE  /\ <<>> \in Saves(S) /\ \A d \in S : Save(d) \in Saves(S)
           /\ \A d \in S, e \in S : Save(d) \o Save(e) \in Saves(S)
BY DEF Saves

LEMMA KeptMeaning ==
    ASSUME NEW c
    PROVE  Kept(c) = {<<i>> : i \in Ids(c)} \cup WidgetIds(c)
BY DEF Kept, KeptOf, Ids, WidgetIds

LEMMA KeptTab ==
    ASSUME NEW c, NEW k \in DOMAIN c.tabs
    PROVE  KeptOf(c.tabs[k]) \subseteq Kept(c)
BY DEF Kept

LEMMA KeepsTabs ==
    ASSUME NEW c \in Sane, NEW d \in Sane, NEW T,
           \A k \in DOMAIN c.tabs : \E j \in DOMAIN d.tabs : KeptOf(c.tabs[k]) \ T \subseteq KeptOf(d.tabs[j])
    PROVE  d \in Keeping(c, T, None)
BY DEF Keeping, Kept

LEMMA SameTabs ==
    ASSUME NEW c \in Sane, NEW d \in Sane, NEW T, d.tabs = c.tabs
    PROVE  d \in Keeping(c, T, None)
BY DEF Keeping, Kept

LEMMA KeptOfMore ==
    ASSUME NEW t, NEW u, u.id = t.id, DOMAIN t.widgets \subseteq DOMAIN u.widgets
    PROVE  KeptOf(t) \subseteq KeptOf(u)
BY DEF KeptOf, TabWidgets

LEMMA KeptOfLess ==
    ASSUME NEW t, NEW u, NEW n, u.id = t.id, DOMAIN t.widgets \ {n} \subseteq DOMAIN u.widgets
    PROVE  KeptOf(t) \ {<<t.id, n>>} \subseteq KeptOf(u)
BY DEF KeptOf, TabWidgets

LEMMA KeptOfTaken ==
    ASSUME NEW t \in Tab
    PROVE  KeptOf(t) \subseteq {<<t.id>>} \cup ({t.id} \X WidgetNo)
<1>1. DOMAIN t.widgets \subseteq WidgetNo
  BY WidgetsByDomain DEF Tab
<1>. QED
  BY <1>1 DEF KeptOf, TabWidgets

\* The tabs of c with one changed.
LEMMA TabChanged ==
    ASSUME NEW c \in Sane, NEW k \in DOMAIN c.tabs, NEW t \in Tab, NEW T, NEW d \in Sane,
           d.tabs = [c.tabs EXCEPT ![k] = t], KeptOf(c.tabs[k]) \ T \subseteq KeptOf(t)
    PROVE  d \in Keeping(c, T, None) /\ KeptOf(t) \subseteq Kept(d)
<1>1. /\ DOMAIN d.tabs = DOMAIN c.tabs
      /\ \A j \in DOMAIN c.tabs : d.tabs[j] = IF j = k THEN t ELSE c.tabs[j]
  BY SaneFields
<1>2. \A j \in DOMAIN c.tabs : KeptOf(c.tabs[j]) \ T \subseteq KeptOf(d.tabs[j])
  BY <1>1
<1>3. KeptOf(d.tabs[k]) \subseteq Kept(d)
  BY <1>1, KeptTab
<1>. QED
  BY <1>1, <1>2, <1>3, KeepsTabs

LEMMA AddTabSaves ==
    ASSUME NEW c \in Sane, NEW op \in Ops, op.kind = "addTab", Len(c.tabs) < MaxTabs
    PROVE  AddTab(op, c) \in Saves(Keeping(c, Taken(op), Made(op, c)))
<1>. DEFINE t == [id |-> FreeId(c), name |-> op.name, visible |-> Len(c.tabs) = 0,
                  widgets |-> NoWidgets]
            d == [c EXCEPT !.tabs = Append(@, t)]
<1>1. CASE AddTab(op, c) = <<>>
  BY <1>1 DEF Saves
<1>2. CASE AddTab(op, c) # <<>>
  <2>1. AddTab(op, c) = Save(d)
    BY <1>2 DEF AddTab
  <2>2. d \in Sane
    <3>. HIDE DEF d
    <3>1. Save(d) \in Seq(SaneStep)
      BY <2>1, AddTabType
    <3>2. Save(d)[1] = [do |-> "save", c |-> d] /\ Len(Save(d)) = 2
      BY DEF Save
    <3>3. \A S : \A u \in Seq(S) : Len(u) = 2 => u[1] \in S
      OBVIOUS
    <3>4. [do |-> "save", c |-> d] \in SaneStep
      BY <3>1, <3>2, <3>3
    <3>. QED
      BY <3>4 DEF SaneStep
  <2>3. d.tabs = Append(c.tabs, t)
    BY SaneFields DEF Sane, Contents
  <2>4. /\ \A k \in DOMAIN c.tabs : k \in DOMAIN d.tabs /\ d.tabs[k] = c.tabs[k]
        /\ Len(c.tabs) + 1 \in DOMAIN d.tabs /\ d.tabs[Len(c.tabs) + 1] = t
    <3>1. c.tabs \in Seq(Tab)
      BY SaneFields
    <3>. HIDE DEF t
    <3>. QED
      BY <2>3, <3>1
  <2>5. <<FreeId(c)>> \in Kept(d)
    <3>1. KeptOf(t) \subseteq Kept(d)
      BY <2>4, KeptTab
    <3>2. <<FreeId(c)>> \in KeptOf(t)
      BY DEF KeptOf
    <3>. QED
      BY <3>1, <3>2
  <2>6. d \in Keeping(c, Taken(op), None)
    <3>. HIDE DEF d
    <3>. QED
      BY <2>2, <2>4, KeepsTabs
  <2>7. d \in Keeping(c, Taken(op), Made(op, c))
    BY <2>5, <2>6 DEF Keeping, Made
  <2>. HIDE DEF d
  <2>. QED
    BY <2>1, <2>7, InSaves
<1>. QED
  BY <1>1, <1>2

\* The tabs of d are those of c, but for what KeptOf does not look at.
LEMMA TabsAlike ==
    ASSUME NEW c \in Sane, NEW d \in Sane, NEW T, DOMAIN c.tabs \subseteq DOMAIN d.tabs,
           \A k \in DOMAIN c.tabs : d.tabs[k].id = c.tabs[k].id /\ d.tabs[k].widgets = c.tabs[k].widgets
    PROVE  d \in Keeping(c, T, None)
<1>1. \A k \in DOMAIN c.tabs : KeptOf(c.tabs[k]) \subseteq KeptOf(d.tabs[k])
  BY DEF KeptOf, TabWidgets
<1>. QED
  BY <1>1, KeepsTabs

LEMMA SetVisibleKeeps ==
    ASSUME NEW c \in Sane, NEW i
    PROVE  /\ SetVisible(c, i) \in Sane /\ DOMAIN SetVisible(c, i).tabs = DOMAIN c.tabs
           /\ \A k \in DOMAIN c.tabs : /\ SetVisible(c, i).tabs[k].id = c.tabs[k].id
                                       /\ SetVisible(c, i).tabs[k].widgets = c.tabs[k].widgets
<1>. DEFINE tabs == [k \in DOMAIN c.tabs |-> [c.tabs[k] EXCEPT !.visible = (c.tabs[k].id = i)]]
<1>1. SetVisible(c, i).tabs = tabs
  BY SaneFields DEF SetVisible, Sane, Contents
<1>2. \A k \in DOMAIN c.tabs : tabs[k].widgets = c.tabs[k].widgets
  BY SaneFields DEF Tab
<1>. HIDE DEF tabs
<1>. QED
  BY <1>1, <1>2, SetVisibleType

\* A tab shown or hidden, as the edit of a tab does it first.
LEMMA ShownKeeps ==
    ASSUME NEW c \in Sane, NEW op \in Ops, op.kind = "editTab", op.tab \in Ids(c)
    PROVE  LET k     == TabAt(c, op.tab)
               shown == IF op.visible = TRUE THEN SetVisible(c, op.tab)
                        ELSE IF op.visible = FALSE THEN [c EXCEPT !.tabs[k].visible = FALSE]
                        ELSE c
           IN  /\ shown \in Sane /\ DOMAIN shown.tabs = DOMAIN c.tabs
               /\ \A j \in DOMAIN c.tabs : /\ shown.tabs[j].id = c.tabs[j].id
                                           /\ shown.tabs[j].widgets = c.tabs[j].widgets
<1>. DEFINE k      == TabAt(c, op.tab)
            shown  == IF op.visible = TRUE THEN SetVisible(c, op.tab)
                      ELSE IF op.visible = FALSE THEN [c EXCEPT !.tabs[k].visible = FALSE]
                      ELSE c
            Alike(d) == /\ d \in Sane /\ DOMAIN d.tabs = DOMAIN c.tabs
                        /\ \A j \in DOMAIN c.tabs : /\ d.tabs[j].id = c.tabs[j].id
                                                    /\ d.tabs[j].widgets = c.tabs[j].widgets
<1>1. k \in DOMAIN c.tabs /\ c.tabs[k] \in Tab
  BY TabAtType, SaneFields
<1>2. Alike(shown)
  <2>1. CASE op.visible = FALSE
    <3>. DEFINE t == [c.tabs[k] EXCEPT !.visible = FALSE]
    <3>1. t \in Tab /\ t.id = c.tabs[k].id /\ ~t.visible /\ t.widgets = c.tabs[k].widgets
      BY <1>1 DEF Tab
    <3>2. shown = [c EXCEPT !.tabs = [@ EXCEPT ![k] = t]]
      BY <2>1
    <3>3. /\ DOMAIN [c.tabs EXCEPT ![k] = t] = DOMAIN c.tabs
          /\ \A j \in DOMAIN c.tabs : [c.tabs EXCEPT ![k] = t][j] = IF j = k THEN t ELSE c.tabs[j]
      OBVIOUS
    <3>. HIDE DEF shown, t
    <3>4. shown \in Sane /\ shown.tabs = [c.tabs EXCEPT ![k] = t]
      BY <1>1, <3>1, <3>2, OtherTab
    <3>. QED
      BY <3>1, <3>3, <3>4
  <2>2. CASE op.visible = TRUE
    <3>1. shown = SetVisible(c, op.tab)
      BY <2>2
    <3>. HIDE DEF shown
    <3>. QED
      BY <3>1, SetVisibleKeeps
  <2>. QED
    BY <2>1, <2>2
<1>. QED
  BY <1>2

LEMMA EditTabSaves ==
    ASSUME NEW c \in Sane, NEW op \in Ops, op.kind = "editTab"
    PROVE  EditTab(op, c) \in Saves(Keeping(c, Taken(op), Made(op, c)))
<1>. DEFINE k      == TabAt(c, op.tab)
            shown  == IF op.visible = TRUE THEN SetVisible(c, op.tab)
                      ELSE IF op.visible = FALSE THEN [c EXCEPT !.tabs[k].visible = FALSE]
                      ELSE c
            first  == IF op.visible = TRUE THEN Save(shown) ELSE <<>>
            named  == IF op.name = None THEN shown ELSE [shown EXCEPT !.tabs[k].name = op.name]
            Alike(d) == /\ d \in Sane /\ DOMAIN d.tabs = DOMAIN c.tabs
                        /\ \A j \in DOMAIN c.tabs : /\ d.tabs[j].id = c.tabs[j].id
                                                    /\ d.tabs[j].widgets = c.tabs[j].widgets
            S == Keeping(c, Taken(op), None)
<1>0. Made(op, c) = None
  BY DEF Made
<1>1. CASE op.tab \notin Ids(c)
  BY <1>1, InSaves DEF EditTab
<1>2. CASE op.tab \in Ids(c)
  <2>1. k \in DOMAIN c.tabs /\ c.tabs[k] \in Tab
    BY <1>2, TabAtType, SaneFields
  <2>2. Alike(shown)
    BY <1>2, ShownKeeps
  <2>. HIDE DEF shown
  <2>3. Alike(named)
    <3>1. CASE op.name # None
      <4>. DEFINE t == [shown.tabs[k] EXCEPT !.name = op.name]
      <4>1. /\ t \in Tab /\ t.id = shown.tabs[k].id /\ t.visible = shown.tabs[k].visible
            /\ t.widgets = shown.tabs[k].widgets
        <5>1. shown.tabs[k] \in Tab /\ op.name \in Names
          BY <2>1, <2>2, <3>1, OpFields, SaneFields
        <5>. QED
          BY <5>1 DEF Tab
      <4>2. named = [shown EXCEPT !.tabs = [@ EXCEPT ![k] = t]]
        BY <3>1
      <4>3. /\ DOMAIN [shown.tabs EXCEPT ![k] = t] = DOMAIN shown.tabs
            /\ \A j \in DOMAIN shown.tabs : [shown.tabs EXCEPT ![k] = t][j] = IF j = k THEN t ELSE shown.tabs[j]
        OBVIOUS
      <4>. HIDE DEF named, t
      <4>4. named \in Sane /\ named.tabs = [shown.tabs EXCEPT ![k] = t]
        BY <2>1, <2>2, <4>1, <4>2, OtherTab
      <4>. QED
        BY <2>2, <4>1, <4>3, <4>4
    <3>2. CASE op.name = None
      BY <2>2, <3>2
    <3>. QED
      BY <3>1, <3>2
  <2>4. shown \in S /\ named \in S
    <3>. HIDE DEF named
    <3>. QED
      BY <2>2, <2>3, TabsAlike
  <2>5. EditTab(op, c) \in {<<>>, Save(shown), <<>> \o Save(named), Save(shown) \o Save(named)}
    BY <1>2 DEF EditTab, shown
  <2>6. <<>> \o Save(named) = Save(named)
    <3>1. Save(named) \in Seq(SaneStep)
      BY <2>3, SaveType
    <3>. HIDE DEF named
    <3>. QED
      BY <3>1
  <2>. HIDE DEF named, S
  <2>7. EditTab(op, c) \in Saves(S)
    BY <2>4, <2>5, <2>6, InSaves
  <2>. QED
    BY <1>0, <2>7 DEF S
<1>. QED
  BY <1>1, <1>2

LEMMA KeepsOn ==
    ASSUME NEW c, NEW T, NEW d \in Keeping(c, T, None), NEW e \in Keeping(d, {}, None)
    PROVE  e \in Keeping(c, T, None)
BY DEF Keeping

LEMMA DropTabSaves ==
    ASSUME NEW c \in Sane, NEW op \in Ops, op.kind = "dropTab"
    PROVE  DropTab(op, c) \in Saves(Keeping(c, Taken(op), Made(op, c)))
<1>. DEFINE k     == TabAt(c, op.tab)
            left  == [c EXCEPT !.tabs = RemoveAt(@, k)]
            shown == SetVisible(left, left.tabs[1].id)
            S     == Keeping(c, Taken(op), None)
            n     == Len(c.tabs)
<1>0. Made(op, c) = None
  BY DEF Made
<1>1. CASE op.tab \in Ids(c) /\ Len(c.tabs) # 1
  <2>1. left \in Sane /\ k \in DOMAIN c.tabs /\ c.tabs[k].id = op.tab /\ c.tabs[k] \in Tab
    BY <1>1, TabAtType, RemoveTabType, SaneFields
  <2>2. c.tabs \in Seq(Tab) /\ n \in Nat /\ n > 0 /\ DOMAIN c.tabs = 1..n
    BY SaneFields
  <2>3. left.tabs = RemoveAt(c.tabs, k)
    BY DEF Sane, Contents
  <2>4. n # 1
    BY <1>1
  <2>. HIDE DEF n
  <2>5. /\ Len(left.tabs) = n - 1 /\ DOMAIN left.tabs = 1..(n - 1)
        /\ \A j \in 1..(n - 1) : left.tabs[j] = IF j < k THEN c.tabs[j] ELSE c.tabs[j + 1]
    <3>. HIDE DEF k, left
    <3>1. k \in 1..Len(c.tabs) /\ n = Len(c.tabs)
      BY <2>1, <2>2 DEF n
    <3>2. /\ Len(left.tabs) = n - 1 /\ left.tabs \in Seq(Tab)
          /\ \A j \in 1..(n - 1) : left.tabs[j] = IF j < k THEN c.tabs[j] ELSE c.tabs[j + 1]
      BY <2>2, <2>3, <3>1, RemoveAtSeq, SMTT(30)
    <3>. QED
      BY <3>2
  <2>. HIDE DEF left
  <2>6. ASSUME NEW m \in DOMAIN c.tabs
        PROVE  \E j \in DOMAIN left.tabs : KeptOf(c.tabs[m]) \ Taken(op) \subseteq KeptOf(left.tabs[j])
    <3>1. CASE m = k
      <4>1. KeptOf(c.tabs[m]) \subseteq Taken(op)
        BY <2>1, <3>1, KeptOfTaken DEF Taken
      <4>2. 1 \in DOMAIN left.tabs
        BY <2>2, <2>4, <2>5
      <4>. QED
        BY <4>1, <4>2
    <3>2. CASE m < k
      <4>. HIDE DEF k
      <4>1. m \in 1..(n - 1) /\ left.tabs[m] = c.tabs[m]
        BY <2>1, <2>2, <2>5, <3>2
      <4>. QED
        BY <2>5, <4>1
    <3>3. CASE m > k
      <4>. HIDE DEF k
      <4>1. m - 1 \in 1..(n - 1) /\ left.tabs[m - 1] = c.tabs[m]
        BY <2>1, <2>2, <2>5, <3>3
      <4>. QED
        BY <2>5, <4>1
    <3>4. m \in Int /\ k \in Int
      BY <2>1, <2>2
    <3>. QED
      BY <3>1, <3>2, <3>3, <3>4
  <2>7. left \in S
    BY <2>1, <2>6, KeepsTabs
  <2>8. shown \in S
    <3>1. shown \in Keeping(left, {}, None)
      BY <2>1, SetVisibleKeeps, TabsAlike
    <3>. QED
      BY <2>7, <3>1, KeepsOn
  <2>9. DropTab(op, c) \in {<<>>, Save(shown) \o Save(shown), Save(left)}
    BY <1>1 DEF DropTab, left
  <2>. HIDE DEF shown, S
  <2>10. DropTab(op, c) \in Saves(S)
    BY <2>7, <2>8, <2>9, InSaves
  <2>. QED
    BY <1>0, <2>10 DEF S
<1>2. CASE ~(op.tab \in Ids(c) /\ Len(c.tabs) # 1)
  <2>1. DropTab(op, c) = <<>>
    BY <1>2 DEF DropTab
  <2>. QED
    BY <2>1, InSaves
<1>. QED
  BY <1>1, <1>2

\* The widgets of a tab changed.
LEMMA WidgetsChanged ==
    ASSUME NEW c \in Sane, NEW k \in DOMAIN c.tabs, NEW ws \in WidgetSets, NEW T,
           LET t == [c.tabs[k] EXCEPT !.widgets = ws] IN KeptOf(c.tabs[k]) \ T \subseteq KeptOf(t)
    PROVE  LET d == [c EXCEPT !.tabs[k].widgets = ws]
           IN  /\ d \in Keeping(c, T, None) /\ DOMAIN d.tabs = DOMAIN c.tabs
               /\ KeptOf([c.tabs[k] EXCEPT !.widgets = ws]) \subseteq Kept(d)
               /\ \A j \in DOMAIN c.tabs : j # k => d.tabs[j] = c.tabs[j]
<1>. DEFINE t == [c.tabs[k] EXCEPT !.widgets = ws]
            d == [c EXCEPT !.tabs[k].widgets = ws]
<1>1. c.tabs[k] \in Tab
  BY SaneFields
<1>2. t \in Tab
  BY <1>1 DEF Tab
<1>3. d \in Sane
  BY OtherWidgets
<1>4. d.tabs = [c.tabs EXCEPT ![k] = t]
  BY DEF Sane, Contents
<1>5. /\ DOMAIN [c.tabs EXCEPT ![k] = t] = DOMAIN c.tabs
      /\ \A j \in DOMAIN c.tabs : j # k => [c.tabs EXCEPT ![k] = t][j] = c.tabs[j]
  OBVIOUS
<1>6. KeptOf(c.tabs[k]) \ T \subseteq KeptOf(t)
  OBVIOUS
<1>7. d \in Keeping(c, T, None) /\ KeptOf(t) \subseteq Kept(d)
  <2>. HIDE DEF d, t
  <2>. QED
    BY <1>2, <1>3, <1>4, <1>6, TabChanged
<1>8. DOMAIN d.tabs = DOMAIN c.tabs /\ \A j \in DOMAIN c.tabs : j # k => d.tabs[j] = c.tabs[j]
  <2>. HIDE DEF d, t
  <2>. QED
    BY <1>4, <1>5
<1>. QED
  BY <1>7, <1>8

\* A widget put in a tab, and one taken from it.
LEMMA PutKeeps ==
    ASSUME NEW c \in Sane, NEW k \in DOMAIN c.tabs, NEW n \in WidgetNo, NEW fixed \in BOOLEAN, NEW T
    PROVE  LET d == [c EXCEPT !.tabs[k].widgets = Put(@, n, fixed)]
           IN  d \in Keeping(c, T, None) /\ <<c.tabs[k].id, n>> \in Kept(d)
<1>. DEFINE ws == Put(c.tabs[k].widgets, n, fixed)
            t == [c.tabs[k] EXCEPT !.widgets = ws]
            d == [c EXCEPT !.tabs[k].widgets = ws]
<1>1. c.tabs[k] \in Tab /\ c.tabs[k].widgets \in WidgetSets
  BY SaneFields DEF Tab
<1>2. ws \in WidgetSets /\ DOMAIN ws = DOMAIN c.tabs[k].widgets \cup {n}
  <2>1. DOMAIN ws = DOMAIN c.tabs[k].widgets \cup {n}
    BY DEF Put
  <2>. QED
    BY <1>1, <2>1, PutType
<1>. HIDE DEF ws
<1>3. t.id = c.tabs[k].id /\ t.widgets = ws
  BY <1>1 DEF Tab
<1>4. KeptOf(c.tabs[k]) \ T \subseteq KeptOf(t)
  BY <1>2, <1>3, KeptOfMore
<1>5. <<c.tabs[k].id, n>> \in KeptOf(t)
  BY <1>2, <1>3 DEF KeptOf, TabWidgets
<1>6. d \in Keeping(c, T, None) /\ KeptOf(t) \subseteq Kept(d)
  BY <1>2, <1>4, WidgetsChanged
<1>. QED
  BY <1>5, <1>6 DEF ws

LEMMA TakeKeeps ==
    ASSUME NEW c \in Sane, NEW k \in DOMAIN c.tabs, NEW n, NEW T, <<c.tabs[k].id, n>> \in T
    PROVE  LET d == [c EXCEPT !.tabs[k].widgets = Take(@, n)]
           IN  /\ d \in Keeping(c, T, None) /\ DOMAIN d.tabs = DOMAIN c.tabs
               /\ \A j \in DOMAIN c.tabs : j # k => d.tabs[j] = c.tabs[j]
<1>. DEFINE ws == Take(c.tabs[k].widgets, n)
            t == [c.tabs[k] EXCEPT !.widgets = ws]
<1>1. c.tabs[k] \in Tab /\ c.tabs[k].widgets \in WidgetSets
  BY SaneFields DEF Tab
<1>2. ws \in WidgetSets /\ DOMAIN ws = DOMAIN c.tabs[k].widgets \ {n}
  BY <1>1, TakeType DEF Take, Restrict
<1>. HIDE DEF ws
<1>3. t.id = c.tabs[k].id /\ t.widgets = ws
  BY <1>1 DEF Tab
<1>4. KeptOf(c.tabs[k]) \ T \subseteq KeptOf(t)
  <2>1. KeptOf(c.tabs[k]) \ {<<c.tabs[k].id, n>>} \subseteq KeptOf(t)
    <3>. HIDE DEF t
    <3>. QED
      BY <1>2, <1>3, KeptOfLess
  <2>. QED
    BY <2>1
<1>. QED
  BY <1>2, <1>4, WidgetsChanged DEF ws

LEMMA AddWidgetSaves ==
    ASSUME NEW c \in Sane, NEW op \in Ops, op.kind = "addWidget", Room(op, c)
    PROVE  AddWidget(op, c) \in Saves(Keeping(c, Taken(op), Made(op, c)))
<1>. DEFINE k == TabAt(c, op.tab)
            n == FreeNo(c.tabs[k].widgets)
            new == [c EXCEPT !.tabs[k].widgets = Put(@, n, FALSE)]
<1>1. CASE op.tab \in Ids(c)
  <2>1. k \in DOMAIN c.tabs /\ c.tabs[k].id = op.tab /\ c.tabs[k] \in Tab
    BY <1>1, TabAtType, SaneFields
  <2>2. n \in WidgetNo
    <3>1. c.tabs[k].widgets \in WidgetSets /\ ~Full(c.tabs[k].widgets)
      BY <2>1 DEF Tab, Room
    <3>. QED
      BY <3>1, FreeNoType
  <2>3. Made(op, c) = <<c.tabs[k].id, n>>
    BY <2>1 DEF Made
  <2>4. AddWidget(op, c) = Save(new)
    BY <1>1 DEF AddWidget
  <2>5. new \in Keeping(c, Taken(op), None) /\ Made(op, c) \in Kept(new)
    <3>. HIDE DEF n, k
    <3>. QED
      BY <2>1, <2>2, <2>3, PutKeeps
  <2>6. new \in Keeping(c, Taken(op), Made(op, c))
    <3>. HIDE DEF new
    <3>. QED
      BY <2>5 DEF Keeping
  <2>. HIDE DEF new
  <2>. QED
    BY <2>4, <2>6, InSaves
<1>2. CASE op.tab \notin Ids(c)
  BY <1>2, InSaves DEF AddWidget
<1>. QED
  BY <1>1, <1>2

LEMMA DropWidgetSaves ==
    ASSUME NEW c \in Sane, NEW op \in Ops, op.kind = "dropWidget"
    PROVE  DropWidget(op, c) \in Saves(Keeping(c, Taken(op), Made(op, c)))
<1>. DEFINE k == TabAt(c, op.tab)
            new == [c EXCEPT !.tabs[k].widgets = Take(@, op.no)]
<1>0. Made(op, c) = None
  BY DEF Made
<1>1. CASE op.tab \in Ids(c)
  <2>1. k \in DOMAIN c.tabs /\ c.tabs[k].id = op.tab
    BY <1>1, TabAtType
  <2>2. <<c.tabs[k].id, op.no>> \in Taken(op)
    BY <2>1 DEF Taken
  <2>3. new \in Keeping(c, Taken(op), None)
    BY <2>1, <2>2, TakeKeeps
  <2>4. DropWidget(op, c) \in {<<>>, Save(new)}
    BY DEF DropWidget
  <2>. HIDE DEF new
  <2>. QED
    BY <1>0, <2>3, <2>4, InSaves
<1>2. CASE op.tab \notin Ids(c)
  BY <1>2, InSaves DEF DropWidget, HasWidget
<1>. QED
  BY <1>1, <1>2

LEMMA EditWidgetSaves ==
    ASSUME NEW c \in Sane, NEW op \in Ops, op.kind = "editWidget", Room(op, c)
    PROVE  EditWidget(op, c) \in Saves(Keeping(c, Taken(op), Made(op, c)))
<1>. DEFINE k     == TabAt(c, op.tab)
            j     == TabAt(c, op.to)
            fixed == c.tabs[k].widgets[op.no]
            n     == FreeNo(c.tabs[j].widgets)
            off   == [c EXCEPT !.tabs[k].widgets = Take(@, op.no)]
            new   == [c EXCEPT !.tabs[k].widgets = Take(@, op.no),
                               !.tabs[j].widgets = Put(@, FreeNo(@), fixed)]
            S     == Keeping(c, Taken(op), None)
<1>0. Made(op, c) = None
  BY DEF Made
<1>1. CASE /\ HasWidget(c, op.tab, op.no) /\ op.to \in Ids(c)
           /\ op.to \notin {None, op.tab}
  <2>1. /\ k \in DOMAIN c.tabs /\ c.tabs[k] \in Tab /\ c.tabs[k].id = op.tab
        /\ j \in DOMAIN c.tabs /\ c.tabs[j] \in Tab /\ c.tabs[j].id = op.to
    BY <1>1, TabAtType, SaneFields DEF HasWidget
  <2>2. n \in WidgetNo
    <3>1. c.tabs[j].widgets \in WidgetSets /\ ~Full(c.tabs[j].widgets)
      BY <1>1, <2>1 DEF Tab, Room
    <3>. QED
      BY <3>1, FreeNoType
  <2>3. fixed \in BOOLEAN
    <3>1. c.tabs[k].widgets \in WidgetSets
      BY <2>1 DEF Tab
    <3>. QED
      BY <1>1, <3>1, WidgetsByDomain DEF HasWidget
  <2>4. <<c.tabs[k].id, op.no>> \in Taken(op) /\ j # k
    BY <1>1, <2>1 DEF Taken
  <2>5. off \in S /\ off \in Sane /\ DOMAIN off.tabs = DOMAIN c.tabs /\ off.tabs[j] = c.tabs[j]
    <3>1. off \in S /\ DOMAIN off.tabs = DOMAIN c.tabs /\ off.tabs[j] = c.tabs[j]
      <4>. HIDE DEF k, j
      <4>. QED
        BY <2>1, <2>4, TakeKeeps
    <3>. HIDE DEF off
    <3>. QED
      BY <3>1 DEF Keeping
  <2>6. new = [off EXCEPT !.tabs[j].widgets = Put(@, n, fixed)]
    BY <2>5
  <2>. HIDE DEF off
  <2>7. new \in Keeping(off, {}, None)
    <3>. HIDE DEF n, fixed, new, j, k
    <3>. QED
      BY <2>1, <2>2, <2>3, <2>5, <2>6, PutKeeps
  <2>. HIDE DEF new
  <2>8. new \in S
    BY <2>5, <2>7, KeepsOn
  <2>9. EditWidget(op, c) = Save(new)
    BY <1>1 DEF EditWidget, new
  <2>. HIDE DEF S
  <2>10. EditWidget(op, c) \in Saves(S)
    BY <2>8, <2>9, InSaves
  <2>. QED
    BY <1>0, <2>10 DEF S
<1>2. CASE ~(/\ HasWidget(c, op.tab, op.no) /\ op.to \in Ids(c)
             /\ op.to \notin {None, op.tab})
  <2>1. c \in S
    BY SameTabs
  <2>2. EditWidget(op, c) \in {<<>>, Save(c)}
    BY <1>2 DEF EditWidget
  <2>. HIDE DEF S
  <2>3. EditWidget(op, c) \in Saves(S)
    BY <2>1, <2>2, InSaves
  <2>. QED
    BY <1>0, <2>3 DEF S
<1>. QED
  BY <1>1, <1>2

LEMMA Joining ==
    ASSUME NEW S, NEW a \in Seq(S), NEW b \in Seq(S), NEW c \in Seq(S)
    PROVE  (a \o b) \o c = a \o (b \o c)
OBVIOUS

LEMMA Joined ==
    ASSUME NEW S, NEW a \in Seq(S), NEW b \in Seq(S), a # <<>>
    PROVE  a \o b \in Seq(S) /\ (a \o b)[1] = a[1]
OBVIOUS

LEMMA SavesPlanned ==
    ASSUME NEW S \in SUBSET Sane, NEW t \in Saves(S)
    PROVE  /\ Planned(t) /\ (t # <<>> => t[1].do = "save")
           /\ \A i \in 1..Len(t) : t[i].do \in {"save", "index"} /\ t[i].c \in S
<1>1. CASE t = <<>>
  BY <1>1, NoSteps DEF Planned
<1>2. ASSUME NEW d \in S, t = Save(d)
      PROVE  /\ Planned(t) /\ t[1].do = "save"
             /\ \A i \in 1..Len(t) : t[i].do \in {"save", "index"} /\ t[i].c \in S
  <2>1. Planned(t)
    BY <1>2, SavePlanned
  <2>. QED
    BY <1>2, <2>1 DEF Save
<1>3. ASSUME NEW d \in S, NEW e \in S, t = Save(d) \o Save(e)
      PROVE  /\ Planned(t) /\ t[1].do = "save"
             /\ \A i \in 1..Len(t) : t[i].do \in {"save", "index"} /\ t[i].c \in S
  <2>1. Planned(t)
    BY <1>3, SavePlanned
  <2>. DEFINE T == [do : {"save", "index"}, c : S]
  <2>2. /\ Save(d) \in Seq(T) /\ Save(e) \in Seq(T) /\ Save(d) # <<>>
        /\ Save(d)[1] = [do |-> "save", c |-> d]
    BY DEF Save
  <2>3. t \in Seq(T) /\ t[1] = Save(d)[1]
    <3>. HIDE DEF T
    <3>. QED
      BY <1>3, <2>2, Joined
  <2>4. \A i \in 1..Len(t) : t[i] \in T
    <3>. HIDE DEF T
    <3>. QED
      BY <2>3
  <2>5. t[1].do = "save"
    BY <2>2, <2>3
  <2>6. \A i \in 1..Len(t) : t[i].do \in {"save", "index"} /\ t[i].c \in S
    BY <2>4
  <2>. QED
    BY <2>1, <2>5, <2>6
<1>. QED
  BY <1>1, <1>2, <1>3 DEF Saves

LEMMA SetPrefsPlanned ==
    ASSUME NEW c \in Sane, NEW op \in Ops, op.kind = "prefs"
    PROVE  Planned(SetPrefs(op, c))
<1>. DEFINE listed == IF op.users = None THEN <<>>
                      ELSE <<[do |-> "users", users |-> {}],
                             [do |-> "users", users |-> op.users]>>
            pub    == IF op.public = None THEN c ELSE [c EXCEPT !.public = op.public]
            saved  == IF op.public = None THEN <<>> ELSE Save(pub) \o Save(pub) \o Commit
            all    == IF op.pref = None THEN pub ELSE [pub EXCEPT !.pref = op.pref]
            again  == IF all = pub THEN <<>> ELSE Save(all) \o Commit
            last   == Save(all) \o again
            rest   == saved \o last
<1>1. pub \in Sane
  <2>1. op.public # None => op.public \in BOOLEAN
    BY OpFields, ContentsAssumption
  <2>. QED
    BY <2>1 DEF Sane, Contents
<1>2. all \in Sane
  <2>1. op.pref # None => op.pref \in Prefs
    BY OpFields
  <2>. HIDE DEF pub
  <2>. QED
    BY <1>1, <2>1 DEF Sane, Contents
<1>3. op.public # None => Publish # {}
  BY OpFields
<1>. HIDE DEF pub, all
<1>4. Commit \in Seq(SaneStep) /\ Ordered(Commit) /\ Starts(Commit, {"commit"})
  <2>1. Commit \o <<>> = Commit
    BY DEF Commit
  <2>. QED
    BY <2>1, NoSteps, CommitThen
<1>5. again \in Seq(SaneStep) /\ Ordered(again) /\ (again # <<>> => Starts(again, {"save", "users", "commit"}))
  <2>1. /\ Save(all) \o Commit \in Seq(SaneStep) /\ Ordered(Save(all) \o Commit)
        /\ Starts(Save(all) \o Commit, {"save"})
    BY <1>2, <1>4, SaveThen DEF Starts
  <2>. QED
    BY <2>1, NoSteps DEF Starts
<1>. HIDE DEF again
<1>6. last \in Seq(SaneStep) /\ Ordered(last) /\ Starts(last, {"save"})
  BY <1>2, <1>5, SaveThen
<1>. HIDE DEF last
<1>7. rest \in Seq(SaneStep) /\ Ordered(rest) /\ Starts(rest, {"save"})
  <2>1. CASE op.public = None
    <3>1. saved = <<>>
      BY <2>1
    <3>2. <<>> \o last = last
      BY <1>6
    <3>. QED
      BY <1>6, <3>1, <3>2
  <2>2. CASE op.public # None
    <3>. DEFINE x == Commit \o last
                y == Save(pub) \o x
    <3>1. x \in Seq(SaneStep) /\ Ordered(x) /\ Starts(x, {"commit"})
      BY <1>3, <1>6, <2>2, CommitThen DEF Starts
    <3>2. y \in Seq(SaneStep) /\ Ordered(y) /\ Starts(y, {"save"})
      <4>. HIDE DEF x
      <4>. QED
        BY <1>1, <3>1, SaveThen DEF Starts
    <3>3. /\ Save(pub) \o y \in Seq(SaneStep) /\ Ordered(Save(pub) \o y)
          /\ Starts(Save(pub) \o y, {"save"})
      <4>. HIDE DEF y
      <4>. QED
        BY <1>1, <3>2, SaveThen DEF Starts
    <3>4. rest = Save(pub) \o y
      <4>1. Save(pub) \in Seq(SaneStep)
        BY <1>1, SaveOrdered
      <4>2. (Save(pub) \o Save(pub)) \o Commit = Save(pub) \o (Save(pub) \o Commit)
        BY <1>4, <4>1, Joining
      <4>3. Save(pub) \o Commit \in Seq(SaneStep)
        BY <1>4, <4>1
      <4>4. (Save(pub) \o (Save(pub) \o Commit)) \o last = Save(pub) \o ((Save(pub) \o Commit) \o last)
        BY <1>6, <4>1, <4>3, Joining
      <4>5. (Save(pub) \o Commit) \o last = Save(pub) \o (Commit \o last)
        BY <1>4, <1>6, <4>1, Joining
      <4>. QED
        BY <2>2, <4>2, <4>4, <4>5
    <3>. QED
      BY <3>3, <3>4
  <2>. QED
    BY <2>1, <2>2
<1>8. saved \in Seq(SaneStep)
  <2>1. Save(pub) \in Seq(SaneStep)
    BY <1>1, SaveOrdered
  <2>. QED
    BY <1>4, <2>1
<1>9. listed \o rest \in Seq(SaneStep) /\ Ordered(listed \o rest) /\ Starts(listed \o rest, {"save", "users"})
  <2>. HIDE DEF rest
  <2>1. CASE op.users = None
    <3>1. <<>> \o rest = rest
      BY <1>7
    <3>. QED
      BY <1>7, <2>1, <3>1 DEF Starts
  <2>2. CASE op.users # None
    <3>. DEFINE a == [do |-> "users", users |-> {}]
                b == [do |-> "users", users |-> op.users]
    <3>1. op.users \in SUBSET Users /\ {} \in SUBSET Users
      BY <2>2, OpFields
    <3>2. <<b>> \o rest \in Seq(SaneStep) /\ Ordered(<<b>> \o rest) /\ Starts(<<b>> \o rest, {"users"})
      BY <1>7, <3>1, UsersThen DEF Starts
    <3>3. /\ <<a>> \o (<<b>> \o rest) \in Seq(SaneStep) /\ Ordered(<<a>> \o (<<b>> \o rest))
          /\ Starts(<<a>> \o (<<b>> \o rest), {"users"})
      <4>. DEFINE y == <<b>> \o rest
      <4>1. y \in Seq(SaneStep) /\ Ordered(y) /\ Starts(y, {"save", "users"})
        BY <3>2 DEF Starts
      <4>. HIDE DEF y
      <4>2. <<a>> \o y \in Seq(SaneStep) /\ Ordered(<<a>> \o y) /\ Starts(<<a>> \o y, {"users"})
        BY <3>1, <4>1, UsersThen
      <4>. QED
        BY <4>2 DEF y
    <3>4. listed \o rest = <<a>> \o (<<b>> \o rest)
      <4>1. a \in SaneStep /\ b \in SaneStep
        BY <3>1 DEF SaneStep
      <4>2. listed = <<a>> \o <<b>>
        BY <2>2, SMTT(30)
      <4>. HIDE DEF a, b, listed
      <4>3. <<a>> \in Seq(SaneStep) /\ <<b>> \in Seq(SaneStep)
        BY <4>1
      <4>. QED
        BY <1>7, <4>2, <4>3, Joining
    <3>. HIDE DEF a, b, listed
    <3>. QED
      BY <3>3, <3>4 DEF Starts
  <2>. QED
    BY <2>1, <2>2
<1>10. SetPrefs(op, c) = listed \o rest
  <2>1. SetPrefs(op, c) = ((listed \o saved) \o Save(all)) \o again
    BY DEF SetPrefs, pub, all, again
  <2>2. listed \in Seq(SaneStep)
    <3>1. CASE op.users # None
      <4>1. op.users \in SUBSET Users
        BY <3>1, OpFields
      <4>2. /\ [do |-> "users", users |-> {}] \in SaneStep
            /\ [do |-> "users", users |-> op.users] \in SaneStep
        BY <4>1 DEF SaneStep
      <4>. QED
        BY <3>1, <4>2
    <3>. QED
      BY <3>1
  <2>3. Save(all) \in Seq(SaneStep)
    BY <1>2, SaveOrdered
  <2>. HIDE DEF listed, saved
  <2>4. listed \o saved \in Seq(SaneStep)
    BY <1>8, <2>2
  <2>5. ((listed \o saved) \o Save(all)) \o again = (listed \o saved) \o last
    <3>. DEFINE x == listed \o saved
    <3>. HIDE DEF x
    <3>1. x \in Seq(SaneStep)
      BY <2>4 DEF x
    <3>2. (x \o Save(all)) \o again = x \o (Save(all) \o again)
      BY <1>5, <2>3, <3>1, Joining, SMTT(30)
    <3>. QED
      BY <3>2 DEF x, last
  <2>6. (listed \o saved) \o last = listed \o (saved \o last)
    BY <1>6, <1>8, <2>2, Joining, SMTT(30)
  <2>. QED
    BY <2>1, <2>5, <2>6
<1>. HIDE DEF listed, rest
<1>. QED
  BY <1>9, <1>10 DEF Planned, Starts, First

\* Preferences are no business of the tabs.
LEMMA SetPrefsKeeps ==
    ASSUME NEW c \in Sane, NEW op \in Ops, op.kind = "prefs"
    PROVE  LET t   == SetPrefs(op, c)
               pub == IF op.public = None THEN c ELSE [c EXCEPT !.public = op.public]
               all == IF op.pref = None THEN pub ELSE [pub EXCEPT !.pref = op.pref]
           IN  /\ pub \in Sane /\ pub.tabs = c.tabs /\ all \in Sane /\ all.tabs = c.tabs
               /\ \A i \in 1..Len(t) : t[i].do = "save" => t[i].c \in {pub, all}
<1>. DEFINE Same == {d \in Sane : d.tabs = c.tabs}
            listed == IF op.users = None THEN <<>>
                      ELSE <<[do |-> "users", users |-> {}],
                             [do |-> "users", users |-> op.users]>>
            pub    == IF op.public = None THEN c ELSE [c EXCEPT !.public = op.public]
            saved  == IF op.public = None THEN <<>> ELSE Save(pub) \o Save(pub) \o Commit
            all    == IF op.pref = None THEN pub ELSE [pub EXCEPT !.pref = op.pref]
            again  == IF all = pub THEN <<>> ELSE Save(all) \o Commit
            Two    == {pub, all}
            K      == {s \in SaneStep : s.do = "save" => s.c \in Two}
<1>1. listed \in Seq(K)
  <2>1. CASE op.users # None
    <3>1. op.users \in SUBSET Users
      BY <2>1, OpFields
    <3>2. /\ [do |-> "users", users |-> {}] \in K
          /\ [do |-> "users", users |-> op.users] \in K
      <4>. HIDE DEF Two
      <4>. QED
        BY <3>1 DEF SaneStep
    <3>. HIDE DEF K
    <3>. QED
      BY <2>1, <3>2
  <2>. QED
    BY <2>1
<1>2. pub \in Same
  <2>1. op.public # None => op.public \in BOOLEAN
    BY OpFields, ContentsAssumption
  <2>. QED
    BY <2>1 DEF Sane, Contents
<1>3. all \in Same
  <2>1. op.pref # None => op.pref \in Prefs
    BY OpFields
  <2>. HIDE DEF pub
  <2>. QED
    BY <1>2, <2>1 DEF Sane, Contents
<1>4. Save(pub) \in Seq(K) /\ Save(all) \in Seq(K) /\ Commit \in Seq(K)
  <2>0. Two \subseteq Sane /\ pub \in Two /\ all \in Two
    <3>. HIDE DEF pub, all
    <3>. QED
      BY <1>2, <1>3
  <2>. HIDE DEF Two
  <2>1. [do |-> "commit"] \in K
    BY DEF SaneStep
  <2>2. ASSUME NEW d \in Two
        PROVE  [do |-> "save", c |-> d] \in K /\ [do |-> "index", c |-> d] \in K
    BY <2>0 DEF SaneStep
  <2>. HIDE DEF K, Same, pub, all
  <2>3. ASSUME NEW d \in Two PROVE Save(d) \in Seq(K)
    <3>. DEFINE a == [do |-> "save", c |-> d]
                b == [do |-> "index", c |-> d]
    <3>1. a \in K /\ b \in K /\ Save(d) = <<a, b>>
      BY <2>2 DEF Save
    <3>. HIDE DEF a, b
    <3>. QED
      BY <3>1
  <2>. QED
    BY <2>0, <2>1, <2>3 DEF Commit
<1>. HIDE DEF pub, all, Two, K
<1>5. saved \in Seq(K) /\ again \in Seq(K)
  BY <1>4
<1>. HIDE DEF listed, saved, again
<1>6. listed \o saved \o Save(all) \o again \in Seq(K)
  BY <1>1, <1>4, <1>5
<1>7. SetPrefs(op, c) \in Seq(K)
  BY <1>6 DEF SetPrefs, listed, pub, saved, all, again
<1>8. \A i \in 1..Len(SetPrefs(op, c)) : SetPrefs(op, c)[i] \in K
  BY <1>7
<1>. QED
  BY <1>2, <1>3, <1>8 DEF K, Two, pub, all

LEMMA PlanKeeps ==
    ASSUME NEW c \in Sane, NEW op \in Ops, Room(op, c)
    PROVE  LET t == Plan(op, c)
               made == Made(op, c)
           IN  /\ Planned(t)
               /\ \A i \in 1..Len(t) : t[i].do = "save" => t[i].c \in Keeping(c, Taken(op), made)
               /\ made # None => /\ t # <<>> => t[1].do = "save"
                                 /\ \A i \in 1..Len(t) : t[i].do \in {"save", "index"}
<1>. DEFINE t == Plan(op, c)
            made == Made(op, c)
            S == Keeping(c, Taken(op), made)
<1>1. ASSUME t \in Saves(S)
      PROVE  /\ Planned(t) /\ (t # <<>> => t[1].do = "save")
             /\ \A i \in 1..Len(t) : t[i].do \in {"save", "index"} /\ t[i].c \in S
  <2>1. S \in SUBSET Sane
    BY DEF Keeping
  <2>. HIDE DEF t, S
  <2>. QED
    BY <1>1, <2>1, SavesPlanned
<1>2. CASE op.kind = "addTab"
  <2>1. Len(c.tabs) < MaxTabs
    BY <1>2 DEF Room
  <2>2. t = AddTab(op, c)
    BY <1>2 DEF Plan
  <2>3. t \in Saves(S)
    <3>. HIDE DEF t
    <3>. QED
      BY <1>2, <2>1, <2>2, AddTabSaves
  <2>. QED
    BY <1>1, <2>3
<1>3. CASE op.kind \in {"editTab", "dropTab", "addWidget", "editWidget", "dropWidget"}
  <2>1. \/ op.kind = "editTab" /\ t = EditTab(op, c)
        \/ op.kind = "dropTab" /\ t = DropTab(op, c)
        \/ op.kind = "addWidget" /\ t = AddWidget(op, c)
        \/ op.kind = "editWidget" /\ t = EditWidget(op, c)
        \/ op.kind = "dropWidget" /\ t = DropWidget(op, c)
    BY <1>3 DEF Plan
  <2>2. t \in Saves(S)
    <3>. HIDE DEF t
    <3>. QED
      BY <2>1, EditTabSaves, DropTabSaves, AddWidgetSaves, EditWidgetSaves, DropWidgetSaves
  <2>. QED
    BY <1>1, <2>2
<1>4. CASE op.kind \in {"rewire", "patch", "retitle"}
  <2>1. PICK d : t = Save(d) /\ d \in Sane /\ d.tabs = c.tabs
    <3>1. CASE op.kind = "rewire"
      <4>1. [c EXCEPT !.wiring = op.wiring] \in Sane /\ [c EXCEPT !.wiring = op.wiring].tabs = c.tabs
        BY <3>1, OpFields DEF Sane, Contents
      <4>. QED
        BY <3>1, <4>1 DEF Plan
    <3>2. CASE op.kind = "patch"
      <4>1. /\ [c EXCEPT !.wiring = @ \cup {op.item}] \in Sane
            /\ [c EXCEPT !.wiring = @ \cup {op.item}].tabs = c.tabs
        BY <3>2, OpFields DEF Sane, Contents
      <4>. QED
        BY <3>2, <4>1 DEF Plan
    <3>3. CASE op.kind = "retitle"
      <4>1. [c EXCEPT !.title = op.title] \in Sane /\ [c EXCEPT !.title = op.title].tabs = c.tabs
        BY <3>3, OpFields DEF Sane, Contents
      <4>. QED
        BY <3>3, <4>1 DEF Plan
    <3>. QED
      BY <1>4, <3>1, <3>2, <3>3
  <2>2. made = None
    BY <1>4 DEF Made
  <2>3. d \in S
    BY <2>1, <2>2, SameTabs
  <2>. HIDE DEF t, S
  <2>4. t \in Saves(S)
    BY <2>1, <2>3, InSaves
  <2>. QED
    BY <1>1, <2>4 DEF t, S
<1>5. CASE op.kind = "prefs"
  <2>1. t = SetPrefs(op, c)
    BY <1>5 DEF Plan
  <2>2. made = None
    BY <1>5 DEF Made
  <2>. HIDE DEF t
  <2>3. \A i \in 1..Len(t) : t[i].do = "save" => t[i].c \in Sane /\ t[i].c.tabs = c.tabs
    <3>. DEFINE pub == IF op.public = None THEN c ELSE [c EXCEPT !.public = op.public]
                all == IF op.pref = None THEN pub ELSE [pub EXCEPT !.pref = op.pref]
    <3>1. /\ pub \in Sane /\ pub.tabs = c.tabs /\ all \in Sane /\ all.tabs = c.tabs
          /\ \A i \in 1..Len(t) : t[i].do = "save" => t[i].c \in {pub, all}
      BY <1>5, <2>1, SetPrefsKeeps
    <3>. HIDE DEF pub, all
    <3>. QED
      BY <3>1
  <2>4. \A i \in 1..Len(t) : t[i].do = "save" => t[i].c \in S
    BY <2>2, <2>3, SameTabs
  <2>5. Planned(t)
    BY <1>5, <2>1, SetPrefsPlanned
  <2>. HIDE DEF S, made
  <2>. QED
    BY <2>2, <2>4, <2>5 DEF t, S, made
<1>6. CASE op.kind = "remove"
  <2>1. t = <<[do |-> "delete"], [do |-> "unindex"]>> /\ made = None
    BY <1>6 DEF Plan, Made
  <2>2. Planned(t)
    BY <2>1 DEF Planned, Ordered, Follows, Ends, Starts, First, SaneStep
  <2>. QED
    BY <2>1, <2>2
<1>7. CASE op.kind = "view"
  <2>1. t = <<[do |-> "view"]>> /\ made = None
    BY <1>7 DEF Plan, Made
  <2>2. Planned(t)
    BY <2>1 DEF Planned, Ordered, Follows, Ends, Starts, First, SaneStep
  <2>. QED
    BY <2>1, <2>2
<1>. QED
  BY <1>2, <1>3, <1>4, <1>5, <1>6, <1>7, OpFields

-----------------------------------------------------------------------------
(* What the steps of a request do, with transactions.                      *)

OrderInv == \A r \in Requests : Ordered(req[r].todo)
Base == IInv /\ WriterInv /\ OrderInv

\* The next step of a request is one of those.
Next1(q, S) == q.todo # <<>> /\ Head(q.todo).do \in S

LEMMA Others ==
    ASSUME IInv, NEW r \in Requests, NEW q, req' = [req EXCEPT ![r] = q]
    PROVE  req'[r] = q /\ \A p \in Requests \ {r} : req'[p] = req[p]
BY DEF IInv

LEMMA IdleFields ==
    /\ Idle.todo = <<>> /\ Idle.snap = None /\ Idle.mine = None /\ Idle.made = None
    /\ \A S : ~Next1(Idle, S)
BY DEF Idle, Next1

LEMMA NotDocs == None \notin SaneDoc /\ Gone \notin SaneDoc /\ Gone # None
<1>1. SaneDoc \subseteq Doc
  BY DEF SaneDoc, Doc, Sane
<1>. QED
  BY <1>1, StoreAssumption

\* A request that has taken a step goes on with the rest of its plan.
LEMMA Resting ==
    ASSUME IInv, NEW r \in Requests, Ordered(req[r].todo), NEW kind, Due(r, kind)
    PROVE  LET q == req[r]
               w == Rest(r)
               s == Head(req[r].todo)
           IN  /\ q \in Record /\ w \in Record /\ Next1(q, {kind})
               /\ s \in SaneStep /\ s.do = kind
               /\ w.todo = Tail(q.todo) /\ w.copy = q.copy /\ w.snap = q.snap
               /\ w.mine = q.mine /\ w.made = q.made /\ w.op = q.op
               /\ Ordered(w.todo)
               /\ kind = "save" => Next1(w, {"index"}) /\ Head(w.todo).c = s.c
               /\ kind = "users" => Next1(w, {"users", "save"})
               /\ kind = "delete" => Next1(w, {"unindex"})
               /\ kind \in {"view", "unindex"} => w.todo = <<>>
               /\ kind # "save" => ~Next1(w, {"index"})
               /\ kind # "delete" => ~Next1(w, {"unindex"})
               /\ ~Next1(w, {"view"})
               /\ Publish = {} /\ kind = "commit" => w.todo = <<>>
<1>. DEFINE q == req[r]
            w == Rest(r)
            s == Head(req[r].todo)
            u == Tail(req[r].todo)
<1>1. /\ q \in Record /\ w \in Record /\ s \in SaneStep /\ s.do = kind /\ Next1(q, {kind})
      /\ q.todo \in Seq(SaneStep) /\ q.todo # <<>>
  BY DueType, RecordFields DEF Due, Next1
<1>2. /\ w.todo = u /\ w.copy = q.copy /\ w.snap = q.snap /\ w.mine = q.mine /\ w.made = q.made
      /\ w.op = q.op
  BY <1>1 DEF Rest, Record
<1>3. /\ Ordered(u) /\ (u # <<>> => Follows(s, Head(u))) /\ (u = <<>> => s.do \in Ends)
  <2>. HIDE DEF q
  <2>. QED
    BY <1>1, OrderedTail DEF q
<1>. HIDE DEF q, w, s, u
<1>4. /\ kind = "save" => Next1(w, {"index"}) /\ Head(w.todo).c = s.c
      /\ kind = "users" => Next1(w, {"users", "save"})
      /\ kind = "delete" => Next1(w, {"unindex"})
      /\ kind \in {"view", "unindex"} => w.todo = <<>>
  BY <1>1, <1>2, <1>3 DEF Follows, Ends, Next1
<1>5. /\ kind # "save" => ~Next1(w, {"index"})
      /\ kind # "delete" => ~Next1(w, {"unindex"})
      /\ ~Next1(w, {"view"})
      /\ Publish = {} /\ kind = "commit" => w.todo = <<>>
  BY <1>1, <1>2, <1>3 DEF Follows, Next1
<1>. QED
  BY <1>1, <1>2, <1>3, <1>4, <1>5 DEF q, w, s, u

\* A step that writes over the document: q is the request after it.
Wrote(r, q, kind) ==
    /\ Due(r, kind) /\ req' = [req EXCEPT ![r] = q]
    /\ q.todo = Tail(req[r].todo) /\ q.made = req[r].made /\ q.op = req[r].op
    /\ UNCHANGED <<doc, index, ahead, created>> /\ cached' \subseteq cached
    /\ now' \in Nat /\ now' >= now
    /\ \A p \in Requests \ {r} : req[p].mine = None
    /\ \/ Seen(r) = Gone /\ q.mine = req[r].mine /\ q.snap = req[r].snap
       \/ /\ Seen(r) \in SaneDoc /\ doc # Gone /\ q.snap = doc /\ req[r].snap \in {None, doc}
          /\ kind = "save" => /\ q.mine \in SaneDoc /\ q.mine.c = Head(req[r].todo).c
                              /\ q.mine.lm = now + 1 /\ now' = now + 1
          /\ kind = "users" => /\ q.mine \in SaneDoc /\ q.mine.c.tabs = Seen(r).c.tabs
                               /\ q.mine.lm = Seen(r).lm
          /\ kind = "delete" => q.mine = Gone

LEMMA WriteWrote ==
    ASSUME Base, transactional, NEW r \in Requests, NEW kind, Due(r, kind), Writable(r),
           NEW d, NEW q \in Record, Write(r, d, q),
           q.todo = Tail(req[r].todo), q.made = req[r].made, q.op = req[r].op,
           q.mine = req[r].mine, q.snap = req[r].snap
    PROVE  \E w : /\ req' = [req EXCEPT ![r] = w] /\ UNCHANGED doc
                  /\ w.todo = q.todo /\ w.made = q.made /\ w.op = q.op
                  /\ \A p \in Requests \ {r} : req[p].mine = None
                  /\ \/ Seen(r) = Gone /\ w.mine = q.mine /\ w.snap = q.snap
                     \/ /\ Seen(r) \in SaneDoc /\ doc # Gone /\ w.mine = d /\ w.snap = doc
                        /\ req[r].snap \in {None, doc}
<1>1. /\ \A p \in Requests \ {r} : req[p].mine = None
      /\ req[r].snap \in {None, doc}
  BY DEF Writable
<1>2. CASE Seen(r) = Gone
  <2>1. req' = [req EXCEPT ![r] = q] /\ UNCHANGED doc
    BY <1>2 DEF Write
  <2>. QED
    BY <1>1, <1>2, <2>1
<1>3. CASE Seen(r) # Gone
  <2>. DEFINE w == [q EXCEPT !.mine = d, !.snap = doc]
  <2>1. req' = [req EXCEPT ![r] = w] /\ UNCHANGED doc
    BY <1>3 DEF Write
  <2>2. w.todo = q.todo /\ w.made = q.made /\ w.op = q.op /\ w.mine = d /\ w.snap = doc
    BY DEF Record
  <2>3. req[r] \in Record
    BY DEF Base, IInv, Due, Busy
  <2>4. Seen(r) \in SaneDoc /\ doc # Gone
    BY <1>3, <2>3, RecordFields DEF Seen, Base, IInv, WriterInv, OneWriter
  <2>. HIDE DEF w
  <2>. QED
    BY <1>1, <2>1, <2>2, <2>4
<1>. QED
  BY <1>2, <1>3

LEMMA WritingSteps ==
    ASSUME Base, transactional, NEW r \in Requests,
           SaveStep(r) \/ UsersStep(r) \/ DeleteStep(r)
    PROVE  \E kind \in {"save", "users", "delete"} : \E q : Wrote(r, q, kind)
<1>. USE DEF Base
<1>0. Ordered(req[r].todo) /\ now \in Nat
  BY DEF OrderInv, IInv
<1>1. CASE SaveStep(r)
  <2>. DEFINE copy == [c |-> Head(req[r].todo).c, lm |-> now + 1, raw |-> FALSE]
              q == [Rest(r) EXCEPT !.copy = copy]
  <2>1. /\ Rest(r) \in Record /\ Head(req[r].todo) \in SaneStep /\ Head(req[r].todo).do = "save"
        /\ Rest(r).todo = Tail(req[r].todo) /\ Rest(r).made = req[r].made /\ Rest(r).op = req[r].op
        /\ Rest(r).mine = req[r].mine /\ Rest(r).snap = req[r].snap
    BY <1>0, <1>1, Resting DEF SaveStep
  <2>2. copy \in SaneDoc
    BY <1>0, <2>1, StepFields DEF SaneDoc
  <2>3. /\ q \in Record /\ q.todo = Tail(req[r].todo) /\ q.made = req[r].made /\ q.op = req[r].op
        /\ q.mine = req[r].mine /\ q.snap = req[r].snap
    <3>. HIDE DEF copy
    <3>. QED
      BY <2>1, <2>2 DEF Record
  <2>4. Due(r, "save") /\ Writable(r) /\ Write(r, copy, q)
    BY <1>1 DEF SaveStep
  <2>5. /\ cached' \subseteq cached /\ now' = now + 1 /\ UNCHANGED <<index, ahead, created>>
    BY <1>1 DEF SaveStep
  <2>6. copy.c = Head(req[r].todo).c /\ copy.lm = now + 1
    OBVIOUS
  <2>. HIDE DEF copy, q
  <2>7. PICK w : /\ req' = [req EXCEPT ![r] = w] /\ UNCHANGED doc
                 /\ w.todo = q.todo /\ w.made = q.made /\ w.op = q.op
                 /\ \A p \in Requests \ {r} : req[p].mine = None
                 /\ \/ Seen(r) = Gone /\ w.mine = q.mine /\ w.snap = q.snap
                    \/ /\ Seen(r) \in SaneDoc /\ doc # Gone /\ w.mine = copy /\ w.snap = doc
                       /\ req[r].snap \in {None, doc}
    BY <2>3, <2>4, WriteWrote
  <2>8. Wrote(r, w, "save")
    BY <1>0, <2>2, <2>3, <2>4, <2>5, <2>6, <2>7 DEF Wrote
  <2>. QED
    BY <2>8
<1>2. CASE UsersStep(r)
  <2>. DEFINE U == Head(req[r].todo).users
              d == [Seen(r) EXCEPT !.c.users = U, !.raw = U # {}]
              q == Rest(r)
  <2>1. /\ q \in Record /\ Head(req[r].todo) \in SaneStep /\ Head(req[r].todo).do = "users"
        /\ q.todo = Tail(req[r].todo) /\ q.made = req[r].made /\ q.op = req[r].op
        /\ q.mine = req[r].mine /\ q.snap = req[r].snap
    BY <1>0, <1>2, Resting DEF UsersStep
  <2>2. Seen(r) \in SaneDoc => /\ d \in SaneDoc /\ d.c.tabs = Seen(r).c.tabs /\ d.lm = Seen(r).lm
    <3>1. U \subseteq Users
      BY <2>1, StepFields
    <3>. QED
      BY <3>1 DEF SaneDoc, Sane, Contents
  <2>4. Due(r, "users") /\ Writable(r) /\ Write(r, d, q)
    BY <1>2 DEF UsersStep
  <2>5. UNCHANGED <<cached, now, index, ahead, created>>
    BY <1>2 DEF UsersStep
  <2>. HIDE DEF d, q
  <2>7. PICK w : /\ req' = [req EXCEPT ![r] = w] /\ UNCHANGED doc
                 /\ w.todo = q.todo /\ w.made = q.made /\ w.op = q.op
                 /\ \A p \in Requests \ {r} : req[p].mine = None
                 /\ \/ Seen(r) = Gone /\ w.mine = q.mine /\ w.snap = q.snap
                    \/ /\ Seen(r) \in SaneDoc /\ doc # Gone /\ w.mine = d /\ w.snap = doc
                       /\ req[r].snap \in {None, doc}
    BY <2>1, <2>4, WriteWrote
  <2>8. Wrote(r, w, "users")
    BY <1>0, <2>1, <2>2, <2>4, <2>5, <2>7 DEF Wrote
  <2>. QED
    BY <2>8
<1>3. CASE DeleteStep(r)
  <2>. DEFINE q == Rest(r)
  <2>1. /\ q \in Record /\ q.todo = Tail(req[r].todo) /\ q.made = req[r].made /\ q.op = req[r].op
        /\ q.mine = req[r].mine /\ q.snap = req[r].snap
    BY <1>0, <1>3, Resting DEF DeleteStep
  <2>4. /\ Due(r, "delete") /\ Writable(r) /\ Write(r, Gone, q)
        /\ UNCHANGED <<cached, now, index, ahead, created>>
    BY <1>3 DEF DeleteStep
  <2>. HIDE DEF q
  <2>7. PICK w : /\ req' = [req EXCEPT ![r] = w] /\ UNCHANGED doc
                 /\ w.todo = q.todo /\ w.made = q.made /\ w.op = q.op
                 /\ \A p \in Requests \ {r} : req[p].mine = None
                 /\ \/ Seen(r) = Gone /\ w.mine = q.mine /\ w.snap = q.snap
                    \/ /\ Seen(r) \in SaneDoc /\ doc # Gone /\ w.mine = Gone /\ w.snap = doc
                       /\ req[r].snap \in {None, doc}
    BY <2>1, <2>4, WriteWrote
  <2>8. Wrote(r, w, "delete")
    BY <1>0, <2>1, <2>4, <2>7 DEF Wrote
  <2>. QED
    BY <2>8
<1>. QED
  BY <1>1, <1>2, <1>3

\* A step that commits: q is the request after it.
Ended(r, q) ==
    /\ Due(r, "commit") \/ Finished(r)
    /\ req' = [req EXCEPT ![r] = q] /\ doc' = Committed(r)
    /\ q.mine = None /\ q.snap = None
    /\ \/ q.todo = <<>>
       \/ Due(r, "commit") /\ q.todo = Tail(req[r].todo)
    /\ \/ q.made = None
       \/ Due(r, "commit") /\ q.made = req[r].made
    /\ ~Next1(q, {"view", "index", "unindex"})
    /\ UNCHANGED <<index, ahead, cached, now>>
    /\ \/ UNCHANGED created
       \/ Finished(r) /\ q = Idle /\ req[r].made # None /\ created' = created \cup {req[r].made}

LEMMA EndingSteps ==
    ASSUME Base, NEW r \in Requests, CommitStep(r) \/ Finish(r)
    PROVE  \E q : Ended(r, q)
<1>1. CASE CommitStep(r)
  <2>. DEFINE q == [Rest(r) EXCEPT !.mine = None, !.snap = None]
  <2>1. /\ Rest(r) \in Record /\ Rest(r).todo = Tail(req[r].todo) /\ Rest(r).made = req[r].made
        /\ ~Next1(Rest(r), {"view"}) /\ ~Next1(Rest(r), {"index"}) /\ ~Next1(Rest(r), {"unindex"})
    <3>1. Due(r, "commit") /\ Ordered(req[r].todo) /\ IInv
      BY <1>1 DEF CommitStep, Base, OrderInv
    <3>2. "commit" # "save" /\ "commit" # "delete"
      OBVIOUS
    <3>. QED
      BY <3>1, <3>2, Resting
  <2>2. /\ q.mine = None /\ q.snap = None /\ q.todo = Rest(r).todo /\ q.made = Rest(r).made
    BY <2>1 DEF Record
  <2>3. ~Next1(q, {"view", "index", "unindex"})
    BY <2>1, <2>2 DEF Next1
  <2>4. /\ Due(r, "commit") /\ req' = [req EXCEPT ![r] = q] /\ doc' = Committed(r)
        /\ UNCHANGED <<index, ahead, cached, now, created>>
    BY <1>1 DEF CommitStep
  <2>. HIDE DEF q
  <2>. QED
    BY <2>1, <2>2, <2>3, <2>4 DEF Ended
<1>2. CASE Finish(r)
  <2>1. /\ Finished(r) /\ req' = [req EXCEPT ![r] = Idle] /\ doc' = Committed(r)
        /\ UNCHANGED <<index, ahead, cached, now>>
        /\ created' = IF req[r].made = None THEN created ELSE created \cup {req[r].made}
    BY <1>2 DEF Finish
  <2>. QED
    <3>1. ~Next1(Idle, {"view", "index", "unindex"})
      BY IdleFields
    <3>2. \/ UNCHANGED created
          \/ req[r].made # None /\ created' = created \cup {req[r].made}
      BY <2>1
    <3>3. Idle.todo = <<>> /\ Idle.snap = None /\ Idle.mine = None /\ Idle.made = None
      BY DEF Idle
    <3>4. \/ UNCHANGED created
          \/ Finished(r) /\ Idle = Idle /\ req[r].made # None /\ created' = created \cup {req[r].made}
      BY <2>1, <3>2
    <3>5. Ended(r, Idle)
      BY <2>1, <3>1, <3>3, <3>4 DEF Ended
    <3>. QED
      BY <3>5
<1>. QED
  BY <1>1, <1>2

\* The steps, by what they do.
LEMMA ByKind ==
    ASSUME Base, transactional, Next
    PROVE  \/ \E r \in Requests : \E op \in Ops : Read(r, op)
           \/ \E r \in Requests : \E kind \in {"save", "users", "delete"} : \E q : Wrote(r, q, kind)
           \/ \E r \in Requests : IndexStep(r) \/ UnindexStep(r) \/ ViewStep(r)
           \/ \E r \in Requests : \E q : Ended(r, q)
           \/ \E r \in Requests : Abort(r)
BY WritingSteps, EndingSteps DEF Next, Conflict, Fail

LEMMA NextOrder == IInv /\ OrderInv /\ [Next]_vars => OrderInv'
<1>. SUFFICES ASSUME IInv, OrderInv, [Next]_vars PROVE OrderInv'
  OBVIOUS
<1>1. ASSUME NEW r \in Requests, NEW q, req' = [req EXCEPT ![r] = q], Ordered(q.todo)
      PROVE  OrderInv'
  BY <1>1, Others DEF OrderInv
<1>2. ASSUME NEW r \in Requests, NEW kind, Due(r, kind), NEW q, req' = [req EXCEPT ![r] = q],
             q.todo = Tail(req[r].todo)
      PROVE  OrderInv'
  <2>1. Ordered(req[r].todo)
    BY DEF OrderInv
  <2>2. Rest(r).todo = q.todo /\ Ordered(Rest(r).todo)
    BY <1>2, <2>1, Resting
  <2>3. Ordered(q.todo)
    BY <2>2
  <2>. QED
    BY <1>1, <1>2, <2>3
<1>3. ASSUME NEW r \in Requests, NEW q \in Record, NEW d, Write(r, d, q), NEW kind, Due(r, kind),
             q.todo = Tail(req[r].todo)
      PROVE  OrderInv'
  <2>1. CASE req' = [req EXCEPT ![r] = q]
    BY <1>2, <1>3, <2>1
  <2>2. CASE req' = [req EXCEPT ![r] = [q EXCEPT !.mine = d, !.snap = doc]]
    <3>1. [q EXCEPT !.mine = d, !.snap = doc].todo = q.todo
      BY DEF Record
    <3>. QED
      BY <1>2, <1>3, <2>2, <3>1
  <2>. QED
    BY <1>3, <2>1, <2>2 DEF Write
<1>4. ASSUME NEW r \in Requests, NEW kind, Due(r, kind)
      PROVE  Rest(r) \in Record /\ Rest(r).todo = Tail(req[r].todo)
  BY <1>4, Resting DEF OrderInv
<1>5. ASSUME NEW r \in Requests, NEW op \in Ops, Read(r, op) PROVE OrderInv'
  <2>. DEFINE q == [op |-> op, todo |-> Plan(op, doc.c), copy |-> doc, snap |-> doc,
                    mine |-> None,
                    made |-> IF Plan(op, doc.c) # <<>> THEN Made(op, doc.c) ELSE None]
  <2>1. req' = [req EXCEPT ![r] = q] /\ doc.c \in Sane /\ Room(op, doc.c)
    BY <1>5 DEF Read, IInv, SaneDoc
  <2>2. Ordered(q.todo)
    BY <2>1, PlanKeeps DEF Planned
  <2>. HIDE DEF q
  <2>. QED
    BY <1>1, <2>1, <2>2
<1>6. ASSUME NEW r \in Requests, SaveStep(r) PROVE OrderInv'
  <2>. DEFINE copy == [c |-> Head(req[r].todo).c, lm |-> now + 1, raw |-> FALSE]
              q == [Rest(r) EXCEPT !.copy = copy]
  <2>1. Due(r, "save") /\ Write(r, copy, q)
    BY <1>6 DEF SaveStep
  <2>2. /\ Head(req[r].todo) \in SaneStep /\ Head(req[r].todo).do = "save"
    BY <2>1, DueType
  <2>3. copy \in SaneDoc
    BY <2>2, StepFields DEF IInv, SaneDoc
  <2>4. q \in Record /\ q.todo = Tail(req[r].todo)
    <3>. HIDE DEF copy
    <3>. QED
      BY <1>4, <2>1, <2>3 DEF Record
  <2>. HIDE DEF copy, q
  <2>. QED
    BY <1>3, <2>1, <2>4
<1>7. ASSUME NEW r \in Requests, UsersStep(r) \/ DeleteStep(r) PROVE OrderInv'
  <2>1. PICK d, kind : Due(r, kind) /\ Write(r, d, Rest(r))
    BY <1>7 DEF UsersStep, DeleteStep
  <2>. QED
    BY <1>3, <1>4, <2>1
<1>8. ASSUME NEW r \in Requests, IndexStep(r) \/ UnindexStep(r) \/ ViewStep(r) PROVE OrderInv'
  <2>1. PICK kind : Due(r, kind) /\ req' = [req EXCEPT ![r] = Rest(r)]
    BY <1>8 DEF IndexStep, UnindexStep, ViewStep
  <2>. QED
    BY <1>2, <1>4, <2>1
<1>9. ASSUME NEW r \in Requests, CommitStep(r) PROVE OrderInv'
  <2>. DEFINE q == [Rest(r) EXCEPT !.mine = None, !.snap = None]
  <2>1. Due(r, "commit") /\ req' = [req EXCEPT ![r] = q]
    BY <1>9 DEF CommitStep
  <2>2. q.todo = Tail(req[r].todo)
    BY <1>4, <2>1 DEF Record
  <2>. HIDE DEF q
  <2>. QED
    BY <1>2, <2>1, <2>2
<1>10. ASSUME NEW r \in Requests, Finish(r) \/ Abort(r) PROVE OrderInv'
  <2>1. req' = [req EXCEPT ![r] = Idle]
    BY <1>10 DEF Finish, Abort
  <2>. QED
    BY <1>1, <2>1, IdleFields, NoSteps
<1>11. CASE UNCHANGED vars
  BY <1>11 DEF vars, OrderInv
<1>. QED
  BY <1>5, <1>6, <1>7, <1>8, <1>9, <1>10, <1>11 DEF Next, Conflict, Fail

LEMMA BaseAlways ==
    /\ Init => Base
    /\ Base /\ [Next]_vars => Base' /\ NothingBack /\ transactional' = transactional
<1>1. Init => OrderInv
  BY IdleFields, NoSteps DEF Init, OrderInv
<1>2. [Next]_vars => transactional' = transactional
  <2>1. \A r, op : Read(r, op) => transactional' = transactional
    BY DEF Read
  <2>2. \A r : \/ SaveStep(r) \/ IndexStep(r) \/ UsersStep(r) \/ DeleteStep(r) \/ UnindexStep(r)
               \/ ViewStep(r) \/ CommitStep(r) \/ Finish(r) \/ Abort(r)
               => transactional' = transactional
    BY DEF SaveStep, IndexStep, UsersStep, DeleteStep, UnindexStep, ViewStep, CommitStep, Finish,
           Abort
  <2>. QED
    BY <2>1, <2>2 DEF Next, Conflict, Fail, vars
<1>. QED
  BY <1>1, <1>2, InitIInv, InitWriter, NextIInv, NextWriter, NextOrder DEF Base

-----------------------------------------------------------------------------
(* The clock: every committed document has a last_modified of its own.     *)

SnapOld(q, d) == q.snap \notin {None, Gone} => q.snap.lm <= d.lm
ViewOld(q, d) ==
    Next1(q, {"view"}) =>
        q.mine = None /\ q.copy.lm <= d.lm /\ (q.copy.lm = d.lm => q.copy.c = d.c)
MineNew(q, d, n) ==
    q.mine \notin {None, Gone} =>
        q.mine.lm <= n /\ (q.mine.lm > d.lm \/ Next1(q, {"users", "save"}))
TimedIn(q, d, n) == SnapOld(q, d) /\ ViewOld(q, d) /\ MineNew(q, d, n)
CacheOld(d) == \A e \in cached : e.lm <= d.lm /\ (e.lm = d.lm => e.c = d.c)
ClockInv ==
    doc # Gone =>
        doc.lm <= now /\ CacheOld(doc) /\ \A r \in Requests : TimedIn(req[r], doc, now)

LEMMA IdleTimed == \A d, n : TimedIn(Idle, d, n)
BY IdleFields DEF TimedIn, SnapOld, ViewOld, MineNew

\* A step of one request under which the document does not change.
LEMMA ClockSame ==
    ASSUME IInv, ClockInv, NEW r \in Requests, NEW q, req' = [req EXCEPT ![r] = q], UNCHANGED doc,
           now' \in Nat, now' >= now, doc # Gone => TimedIn(q, doc, now') /\ CacheOld(doc)'
    PROVE  ClockInv'
<1>. SUFFICES ASSUME doc # Gone PROVE ClockInv'
  BY DEF ClockInv
<1>0. doc \in SaneDoc /\ doc.lm \in Nat /\ now \in Nat
  BY DEF IInv, SaneDoc
<1>1. ASSUME NEW p \in Requests PROVE TimedIn(req'[p], doc, now')
  <2>1. CASE p = r
    BY <2>1, Others
  <2>2. CASE p # r
    <3>1. req'[p] = req[p] /\ TimedIn(req[p], doc, now)
      BY <2>2, Others DEF ClockInv
    <3>2. req[p].mine \in SaneDoc \cup {None, Gone}
      <4>1. req[p] \in Record \cup {Idle}
        BY DEF IInv
      <4>. QED
        BY <4>1, RecordFields, IdleFields
    <3>3. req[p].mine \notin {None, Gone} => req[p].mine.lm \in Nat
      BY <3>2 DEF SaneDoc
    <3>4. MineNew(req[p], doc, now')
      BY <1>0, <3>1, <3>3 DEF MineNew, TimedIn
    <3>. QED
      BY <3>1, <3>4 DEF TimedIn
  <2>. QED
    BY <2>1, <2>2
<1>2. doc.lm <= now'
  BY <1>0 DEF ClockInv
<1>. QED
  BY <1>1, <1>2 DEF ClockInv

LEMMA WroteClock ==
    ASSUME Base, transactional, ClockInv, NEW r \in Requests, NEW kind \in {"save", "users", "delete"},
           NEW q, Wrote(r, q, kind)
    PROVE  ClockInv'
<1>. SUFFICES ASSUME doc # Gone PROVE TimedIn(q, doc, now')
  <2>1. CacheOld(doc) /\ cached' \subseteq cached /\ UNCHANGED doc => CacheOld(doc)'
    BY DEF CacheOld
  <2>2. doc # Gone => CacheOld(doc)
    BY DEF ClockInv
  <2>. QED
    BY <2>1, <2>2, ClockSame DEF Wrote, Base
<1>1. /\ Due(r, kind) /\ Ordered(req[r].todo) /\ q.todo = Tail(req[r].todo)
      /\ IInv /\ now' \in Nat /\ now' >= now /\ now \in Nat
  BY DEF Wrote, Base, OrderInv, IInv
<1>2. /\ req[r] \in Record /\ Rest(r).todo = q.todo /\ ~Next1(Rest(r), {"view"})
      /\ kind = "users" => Next1(Rest(r), {"users", "save"})
      /\ Next1(req[r], {kind})
  BY <1>1, Resting
<1>3. ~Next1(q, {"view"}) /\ (kind = "users" => Next1(q, {"users", "save"}))
  BY <1>2 DEF Next1
<1>4. doc \in SaneDoc /\ doc.lm \in Nat /\ doc.lm <= now /\ TimedIn(req[r], doc, now)
  BY <1>1 DEF ClockInv, IInv, SaneDoc
<1>5. CASE Seen(r) = Gone
  <2>1. q.mine = req[r].mine /\ q.snap = req[r].snap /\ q.mine \in {None, Gone}
    BY <1>5, NotDocs DEF Wrote, Seen
  <2>. QED
    BY <1>3, <1>4, <2>1 DEF TimedIn, SnapOld, ViewOld, MineNew
<1>6. CASE Seen(r) # Gone
  <2>1. q.snap = doc /\ Seen(r) \in SaneDoc
    BY <1>6 DEF Wrote
  <2>2. SnapOld(q, doc)
    BY <1>4, <2>1 DEF SnapOld
  <2>3. CASE kind = "save"
    <3>1. q.mine.lm = now + 1 /\ now' = now + 1
      BY <1>6, <2>3 DEF Wrote
    <3>2. q.mine.lm <= now' /\ q.mine.lm > doc.lm
      BY <1>1, <1>4, <3>1
    <3>. QED
      BY <1>3, <2>2, <3>2 DEF TimedIn, ViewOld, MineNew
  <2>4. CASE kind = "users"
    <3>1. q.mine.lm = Seen(r).lm
      BY <1>6, <2>4 DEF Wrote
    <3>2. Seen(r).lm \in Nat /\ Seen(r).lm <= now
      BY <1>4, <1>6, <2>1 DEF Seen, TimedIn, MineNew, SaneDoc
    <3>3. q.mine.lm <= now'
      BY <1>1, <3>1, <3>2
    <3>. QED
      BY <1>3, <2>2, <2>4, <3>3 DEF TimedIn, ViewOld, MineNew
  <2>5. CASE kind = "delete"
    <3>1. q.mine = Gone
      BY <1>6, <2>5 DEF Wrote
    <3>. QED
      BY <1>3, <2>2, <3>1 DEF TimedIn, ViewOld, MineNew
  <2>. QED
    BY <2>3, <2>4, <2>5
<1>. QED
  BY <1>5, <1>6

LEMMA RestedClock ==
    ASSUME Base, transactional, ClockInv, NEW r \in Requests,
           IndexStep(r) \/ UnindexStep(r) \/ ViewStep(r)
    PROVE  ClockInv'
<1>. DEFINE q == Rest(r)
<1>1. PICK kind \in {"index", "unindex", "view"} : Due(r, kind) /\ (ViewStep(r) => kind = "view")
  BY DEF IndexStep, UnindexStep, ViewStep
<1>2. /\ IInv /\ Ordered(req[r].todo) /\ now \in Nat
      /\ req' = [req EXCEPT ![r] = q] /\ UNCHANGED <<doc, now>>
  BY DEF IndexStep, UnindexStep, ViewStep, Base, OrderInv, IInv
<1>3. /\ q.snap = req[r].snap /\ q.mine = req[r].mine /\ ~Next1(q, {"view"})
      /\ Next1(req[r], {kind})
  BY <1>1, <1>2, Resting
<1>. HIDE DEF q
<1>. SUFFICES ASSUME doc # Gone PROVE TimedIn(q, doc, now) /\ CacheOld(doc)'
  <2>1. now' = now /\ now' \in Nat /\ now' >= now
    BY <1>2
  <2>. QED
    BY <1>2, <2>1, ClockSame
<1>4. TimedIn(req[r], doc, now) /\ CacheOld(doc)
  BY DEF ClockInv
<1>5. ~Next1(req[r], {"users", "save"})
  BY <1>3 DEF Next1
<1>6. TimedIn(q, doc, now)
  BY <1>3, <1>4, <1>5 DEF TimedIn, SnapOld, ViewOld, MineNew
<1>7. CacheOld(doc)'
  <2>1. CASE IndexStep(r) \/ UnindexStep(r)
    BY <1>4, <2>1 DEF CacheOld, IndexStep, UnindexStep
  <2>2. CASE ViewStep(r)
    <3>1. Next1(req[r], {"view"})
      BY <1>1, <1>3, <2>2
    <3>2. req[r].copy.lm <= doc.lm /\ (req[r].copy.lm = doc.lm => req[r].copy.c = doc.c)
      BY <1>4, <3>1 DEF TimedIn, ViewOld
    <3>3. /\ cached' \subseteq cached \cup {[user |-> r, lm |-> req[r].copy.lm, c |-> req[r].copy.c]}
          /\ doc' = doc
      BY <2>2 DEF ViewStep
    <3>. QED
      BY <1>4, <3>2, <3>3 DEF CacheOld
  <2>. QED
    BY <2>1, <2>2
<1>. QED
  BY <1>6, <1>7

\* A commit of something written is newer than all that was read before.
LEMMA CommitNew ==
    ASSUME Base, transactional, ClockInv, NEW r \in Requests, NEW q, Ended(r, q),
           req[r].mine # None, req[r].mine # Gone
    PROVE  /\ doc # Gone /\ doc \in SaneDoc /\ doc.lm \in Nat
           /\ doc' = req[r].mine /\ doc' \in SaneDoc /\ doc'.lm \in Nat
           /\ doc'.lm > doc.lm /\ doc'.lm <= now
           /\ \A p \in Requests \ {r} : req[p].mine = None
<1>1. /\ doc # Gone /\ doc' = req[r].mine /\ \A p \in Requests \ {r} : req[p].mine = None
  BY DEF Ended, Committed, Base, WriterInv, OneWriter
<1>2. doc \in SaneDoc /\ doc.lm \in Nat
  BY <1>1 DEF Base, IInv, SaneDoc
<1>3. doc' \in SaneDoc /\ doc'.lm \in Nat
  <2>1. req[r] \in Record \cup {Idle}
    BY DEF Base, IInv
  <2>2. req[r].mine \in SaneDoc
    BY <2>1, RecordFields, IdleFields
  <2>. QED
    BY <1>1, <2>2 DEF SaneDoc
<1>4. MineNew(req[r], doc, now)
  BY <1>1 DEF ClockInv, TimedIn
<1>5. ~Next1(req[r], {"users", "save"})
  BY DEF Ended, Due, Finished, Next1
<1>. QED
  BY <1>1, <1>2, <1>3, <1>4, <1>5 DEF MineNew

LEMMA EndedClock ==
    ASSUME Base, transactional, ClockInv, NEW r \in Requests, NEW q, Ended(r, q),
           doc = Gone => doc' = Gone
    PROVE  ClockInv'
<1>. USE DEF Base
<1>1. /\ req' = [req EXCEPT ![r] = q] /\ q.mine = None /\ q.snap = None /\ ~Next1(q, {"view"})
      /\ doc' = Committed(r) /\ UNCHANGED <<cached, now>>
  BY DEF Ended, Next1
<1>2. \A d, n : TimedIn(q, d, n)
  BY <1>1 DEF TimedIn, SnapOld, ViewOld, MineNew
<1>3. now \in Nat
  BY DEF IInv
<1>4. CASE req[r].mine = None
  <2>1. UNCHANGED doc
    BY <1>1, <1>4 DEF Committed
  <2>2. doc # Gone => CacheOld(doc)'
    BY <1>1, <2>1 DEF ClockInv, CacheOld
  <2>3. now' \in Nat /\ now' >= now
    BY <1>1, <1>3
  <2>. QED
    BY <1>1, <1>2, <2>1, <2>2, <2>3, ClockSame
<1>5. CASE req[r].mine = Gone
  <2>1. doc' = Gone
    BY <1>1, <1>5, NotDocs DEF Committed
  <2>. QED
    BY <2>1 DEF ClockInv
<1>6. CASE req[r].mine # None /\ req[r].mine # Gone
  <2>1. /\ doc # Gone /\ doc \in SaneDoc /\ doc.lm \in Nat
        /\ doc' \in SaneDoc /\ doc'.lm \in Nat
        /\ doc'.lm > doc.lm /\ doc'.lm <= now
        /\ \A p \in Requests \ {r} : req[p].mine = None
    BY <1>6, CommitNew
  <2>2. doc'.lm <= now'
    BY <1>1, <2>1
  <2>3. CacheOld(doc)'
    <3>1. CacheOld(doc) /\ \A e \in cached : e.lm \in Nat
      BY <2>1 DEF ClockInv, IInv
    <3>2. \A e \in cached : e.lm < doc'.lm
      BY <2>1, <3>1 DEF CacheOld
    <3>3. \A e \in cached : e.lm <= doc'.lm /\ e.lm # doc'.lm
      BY <2>1, <3>1, <3>2
    <3>. QED
      BY <1>1, <3>3 DEF CacheOld
  <2>4. ASSUME NEW p \in Requests PROVE TimedIn(req'[p], doc', now')
    <3>1. CASE p = r
      BY <1>1, <1>2, <3>1, Others
    <3>2. CASE p # r
      <4>1. req'[p] = req[p] /\ req[p].mine = None /\ TimedIn(req[p], doc, now)
        BY <1>1, <2>1, <3>2, Others DEF ClockInv
      <4>2. req[p] \in Record \cup {Idle}
        BY DEF IInv
      <4>3. /\ req[p].snap \notin {None, Gone} => req[p].snap.lm \in Nat
            /\ Next1(req[p], {"view"}) => req[p].copy.lm \in Nat
        BY <4>2, RecordFields, IdleFields DEF SaneDoc
      <4>4. SnapOld(req[p], doc')
        BY <2>1, <4>1, <4>3 DEF TimedIn, SnapOld
      <4>5. ViewOld(req[p], doc')
        BY <2>1, <4>1, <4>3 DEF TimedIn, ViewOld
      <4>6. MineNew(req[p], doc', now')
        BY <4>1 DEF MineNew
      <4>. QED
        BY <4>1, <4>4, <4>5, <4>6 DEF TimedIn
    <3>. QED
      BY <3>1, <3>2
  <2>. QED
    BY <2>2, <2>3, <2>4 DEF ClockInv
<1>. QED
  BY <1>4, <1>5, <1>6

LEMMA NextClock ==
    ASSUME Base, transactional, ClockInv, [Next]_vars
    PROVE  ClockInv'
<1>0. NothingBack /\ IInv /\ now \in Nat
  BY BaseAlways DEF Base, IInv
<1>1. ASSUME NEW r \in Requests, NEW op \in Ops, Read(r, op) PROVE ClockInv'
  <2>. DEFINE q == [op |-> op, todo |-> Plan(op, doc.c), copy |-> doc, snap |-> doc,
                    mine |-> None,
                    made |-> IF Plan(op, doc.c) # <<>> THEN Made(op, doc.c) ELSE None]
  <2>1. req' = [req EXCEPT ![r] = q] /\ UNCHANGED <<doc, now, cached>> /\ doc # Gone
    BY <1>1 DEF Read
  <2>2. q.snap = doc /\ q.copy = doc /\ q.mine = None
    OBVIOUS
  <2>3. doc.lm \in Nat /\ CacheOld(doc)
    BY <1>0, <2>1 DEF IInv, SaneDoc, ClockInv
  <2>. HIDE DEF q
  <2>4. TimedIn(q, doc, now') /\ CacheOld(doc)'
    BY <2>1, <2>2, <2>3 DEF TimedIn, SnapOld, ViewOld, MineNew, CacheOld
  <2>5. now' \in Nat /\ now' >= now
    BY <1>0, <2>1
  <2>. QED
    BY <1>0, <2>1, <2>4, <2>5, ClockSame
<1>2. ASSUME NEW r \in Requests, Abort(r) PROVE ClockInv'
  <2>1. req' = [req EXCEPT ![r] = Idle] /\ UNCHANGED <<doc, now, cached>>
    BY <1>2 DEF Abort
  <2>2. doc # Gone => CacheOld(doc)'
    BY <2>1 DEF ClockInv, CacheOld
  <2>3. now' \in Nat /\ now' >= now
    BY <1>0, <2>1
  <2>. QED
    BY <1>0, <2>1, <2>2, <2>3, IdleTimed, ClockSame
<1>3. CASE UNCHANGED vars
  BY <1>3 DEF vars, ClockInv, CacheOld
<1>4. CASE Next
  BY <1>0, <1>1, <1>2, <1>4, ByKind, WroteClock, RestedClock, EndedClock DEF NothingBack
<1>. QED
  BY <1>3, <1>4

-----------------------------------------------------------------------------
(* The index: it is what the transaction in progress will commit, or the   *)
(* plan of the transaction still tells it.                                 *)

Current(d) == IF d = Gone THEN Gone ELSE Indexed(d.c)

Deleting(q, x) ==
    q.mine = Gone => /\ (x = Gone \/ Next1(q, {"unindex"}))
                     /\ (q.todo = <<>> \/ Next1(q, {"unindex"}))
Telling(q, d) ==
    /\ Next1(q, {"index"}) =>
          d = Gone \/ (q.mine \in SaneDoc /\ Indexed(q.mine.c) = Indexed(Head(q.todo).c))
    /\ Next1(q, {"unindex"}) => d = Gone \/ q.mine = Gone
Told(q, x, a) ==
    ~a /\ q.mine # None =>
        /\ x = Current(q.mine) \/ Next1(q, {"users", "save", "index", "unindex"})
        /\ q.mine # Gone => x # Gone
IndexedIn(q, d, x, a) == Deleting(q, x) /\ Telling(q, d) /\ Told(q, x, a)

NoneWritten == \A r \in Requests : req[r].mine = None
IndexInv ==
    /\ doc = Gone => index = Gone
    /\ \A r \in Requests : IndexedIn(req[r], doc, index, ahead)
    /\ ~ahead /\ NoneWritten => index = Current(doc)

LEMMA CurrentEntry ==
    ASSUME NEW d \in SaneDoc
    PROVE  Current(d) = Indexed(d.c) /\ Current(d) \in Entry /\ Current(d) # Gone
<1>1. d.c \in Contents /\ d # Gone
  BY NotDocs DEF SaneDoc, Sane
<1>. QED
  BY <1>1, IndexedType, StoreAssumption DEF Current

\* A request with nothing written and neither index step next.
LEMMA Unwritten ==
    ASSUME NEW q, q.mine = None, ~Next1(q, {"index"}), ~Next1(q, {"unindex"})
    PROVE  \A d, x, a : IndexedIn(q, d, x, a)
BY StoreAssumption DEF IndexedIn, Deleting, Telling, Told

\* Whoever waits while another one has written is not between its write and
\* the index.
LEMMA OthersUnwritten ==
    ASSUME Base, IndexInv, NEW r \in Requests, req[r].mine # None, NEW p \in Requests \ {r}
    PROVE  \A d, x, a : IndexedIn(req[p], d, x, a)
<1>1. doc # Gone /\ req[p].mine = None
  BY DEF Base, WriterInv, OneWriter
<1>2. ~Next1(req[p], {"index"}) /\ ~Next1(req[p], {"unindex"})
  BY <1>1, NotDocs DEF IndexInv, IndexedIn, Telling
<1>. QED
  BY <1>1, <1>2, Unwritten

LEMMA WroteIndex ==
    ASSUME Base, transactional, IndexInv, NEW r \in Requests,
           NEW kind \in {"save", "users", "delete"}, NEW q, Wrote(r, q, kind)
    PROVE  IndexInv'
<1>0. UNCHANGED <<doc, index, ahead>> /\ req' = [req EXCEPT ![r] = q] /\ IInv
  BY DEF Wrote, Base
<1>1. /\ Due(r, kind) /\ Ordered(req[r].todo) /\ q.todo = Tail(req[r].todo) /\ IInv
      /\ \A p \in Requests \ {r} : req[p].mine = None
  BY DEF Wrote, Base, OrderInv
<1>2. /\ Rest(r).todo = q.todo /\ Next1(req[r], {kind})
      /\ kind = "save" => Next1(Rest(r), {"index"}) /\ Head(Rest(r).todo).c = Head(req[r].todo).c
      /\ kind = "users" => Next1(Rest(r), {"users", "save"})
      /\ kind = "delete" => Next1(Rest(r), {"unindex"})
      /\ kind # "save" => ~Next1(Rest(r), {"index"})
      /\ kind # "delete" => ~Next1(Rest(r), {"unindex"})
  BY <1>1, Resting
<1>3. /\ kind = "save" => Next1(q, {"index"}) /\ Head(q.todo).c = Head(req[r].todo).c
      /\ kind = "users" => Next1(q, {"users", "save"})
      /\ kind = "delete" => Next1(q, {"unindex"})
      /\ kind # "save" => ~Next1(q, {"index"})
      /\ kind # "delete" => ~Next1(q, {"unindex"})
  BY <1>2 DEF Next1
<1>4. IndexedIn(req[r], doc, index, ahead)
  BY DEF IndexInv
<1>5. req[r].mine # Gone
  BY <1>2, <1>4 DEF IndexedIn, Deleting, Next1
<1>6. CASE Seen(r) = Gone
  <2>1. doc = Gone /\ q.mine = None /\ req[r].mine = None /\ index = Gone
    BY <1>5, <1>6 DEF Wrote, Seen, IndexInv
  <2>2. IndexedIn(q, doc, index, ahead)
    BY <2>1, NotDocs DEF IndexedIn, Deleting, Telling, Told
  <2>3. index = Current(doc)
    BY <2>1 DEF Current
  <2>. QED
    BY <1>0, <2>2, <2>3, Others DEF IndexInv, NoneWritten
<1>7. CASE Seen(r) # Gone
  <2>1. doc # Gone /\ doc \in SaneDoc
    BY <1>0, <1>7 DEF Wrote, IInv
  <2>2. ~ahead => index # Gone
    <3>1. CASE req[r].mine # None
      BY <1>4, <1>5, <3>1 DEF IndexedIn, Told
    <3>2. CASE req[r].mine = None
      <4>1. NoneWritten
        BY <1>1, <3>2 DEF NoneWritten
      <4>. QED
        BY <2>1, <4>1, CurrentEntry DEF IndexInv
    <3>. QED
      BY <3>1, <3>2
  <2>3. /\ q.mine # None
        /\ kind = "save" => q.mine \in SaneDoc /\ q.mine.c = Head(req[r].todo).c
        /\ kind = "users" => q.mine \in SaneDoc
        /\ kind = "delete" => q.mine = Gone
    BY <1>7, NotDocs DEF Wrote
  <2>4. IndexedIn(q, doc, index, ahead)
    <3>1. CASE kind = "save"
      <4>1. /\ q.mine \in SaneDoc /\ q.mine # Gone /\ Next1(q, {"index"}) /\ ~Next1(q, {"unindex"})
            /\ q.mine.c = Head(q.todo).c
        BY <1>3, <2>3, <3>1, NotDocs
      <4>2. Next1(q, {"users", "save", "index", "unindex"})
        BY <4>1 DEF Next1
      <4>. QED
        BY <2>2, <4>1, <4>2 DEF IndexedIn, Deleting, Telling, Told
    <3>2. CASE kind = "users"
      <4>1. /\ q.mine \in SaneDoc /\ q.mine # Gone /\ Next1(q, {"users", "save"})
            /\ ~Next1(q, {"index"}) /\ ~Next1(q, {"unindex"})
        BY <1>3, <2>3, <3>2, NotDocs
      <4>2. Next1(q, {"users", "save", "index", "unindex"})
        BY <4>1 DEF Next1
      <4>. QED
        BY <2>2, <4>1, <4>2 DEF IndexedIn, Deleting, Telling, Told
    <3>3. CASE kind = "delete"
      <4>1. q.mine = Gone /\ Next1(q, {"unindex"}) /\ ~Next1(q, {"index"})
        BY <1>3, <2>3, <3>3
      <4>2. Next1(q, {"users", "save", "index", "unindex"})
        BY <4>1 DEF Next1
      <4>. QED
        BY <2>2, <4>1, <4>2 DEF IndexedIn, Deleting, Telling, Told
    <3>. QED
      BY <3>1, <3>2, <3>3
  <2>. QED
    BY <1>0, <2>1, <2>3, <2>4, Others DEF IndexInv, NoneWritten
<1>. QED
  BY <1>6, <1>7

LEMMA ToldIndex ==
    ASSUME Base, transactional, IndexInv, NEW r \in Requests, IndexStep(r)
    PROVE  IndexInv'
<1>. DEFINE q == Rest(r)
            c == Head(req[r].todo).c
<1>1. /\ Due(r, "index") /\ Ordered(req[r].todo) /\ IInv
      /\ req' = [req EXCEPT ![r] = q] /\ UNCHANGED doc
      /\ index' = (IF index = Gone THEN Gone ELSE Indexed(c)) /\ ahead' = (ahead /\ index = Gone)
  BY DEF IndexStep, Base, OrderInv
<1>2. /\ q.mine = req[r].mine /\ Next1(req[r], {"index"}) /\ q.todo = Tail(req[r].todo)
      /\ ~Next1(q, {"index"}) /\ ~Next1(q, {"unindex"})
  <2>1. "index" # "save" /\ "index" # "delete"
    OBVIOUS
  <2>. QED
    BY <1>1, <2>1, Resting
<1>3. \/ doc = Gone
      \/ req[r].mine \in SaneDoc /\ Indexed(req[r].mine.c) = Indexed(c)
  BY <1>2 DEF IndexInv, IndexedIn, Telling
<1>. HIDE DEF q, c
<1>4. CASE doc = Gone
  <2>1. index = Gone /\ index' = Gone /\ ahead' = ahead /\ q.mine = None
    BY <1>1, <1>2, <1>4 DEF IndexInv, IInv, Base, WriterInv, OneWriter
  <2>2. IndexedIn(q, doc', index', ahead')
    BY <1>2, <2>1, Unwritten
  <2>3. index' = Current(doc')
    BY <1>1, <1>4, <2>1 DEF Current
  <2>. QED
    BY <1>1, <2>1, <2>2, <2>3, Others DEF IndexInv
<1>5. CASE doc # Gone
  <2>1. req[r].mine \in SaneDoc /\ req[r].mine # None /\ req[r].mine # Gone
    BY <1>3, <1>5, NotDocs
  <2>2. \A p \in Requests \ {r} : IndexedIn(req[p], doc', index', ahead')
    BY <2>1, OthersUnwritten
  <2>3. IndexedIn(q, doc', index', ahead')
    <3>1. CASE index = Gone
      <4>1. ahead
        BY <2>1, <3>1 DEF IndexInv, IndexedIn, Told
      <4>2. ahead'
        BY <1>1, <3>1, <4>1
      <4>. QED
        BY <1>2, <2>1, <4>2 DEF IndexedIn, Deleting, Telling, Told
    <3>2. CASE index # Gone
      <4>1. index' = Current(q.mine) /\ index' # Gone
        BY <1>1, <1>2, <1>3, <1>5, <2>1, <3>2, CurrentEntry
      <4>. QED
        BY <1>2, <2>1, <4>1 DEF IndexedIn, Deleting, Telling, Told
    <3>. QED
      BY <3>1, <3>2
  <2>4. ~NoneWritten'
    BY <1>1, <1>2, <2>1, Others DEF NoneWritten
  <2>. QED
    BY <1>1, <1>5, <2>2, <2>3, <2>4, Others DEF IndexInv
<1>. QED
  BY <1>4, <1>5

LEMMA UntoldIndex ==
    ASSUME Base, transactional, IndexInv, NEW r \in Requests, UnindexStep(r)
    PROVE  IndexInv'
<1>. DEFINE q == Rest(r)
<1>1. /\ Due(r, "unindex") /\ Ordered(req[r].todo) /\ IInv
      /\ req' = [req EXCEPT ![r] = q] /\ UNCHANGED <<doc, ahead>> /\ index' = Gone
  BY DEF UnindexStep, Base, OrderInv
<1>2. /\ q.mine = req[r].mine /\ Next1(req[r], {"unindex"}) /\ q.todo = <<>>
  BY <1>1, Resting
<1>3. doc = Gone \/ req[r].mine = Gone
  BY <1>2 DEF IndexInv, IndexedIn, Telling
<1>. HIDE DEF q
<1>4. \A S : ~Next1(q, S)
  BY <1>2 DEF Next1
<1>5. CASE doc = Gone
  <2>1. index = Gone /\ q.mine = None
    BY <1>2, <1>5 DEF IndexInv, Base, WriterInv, OneWriter
  <2>2. IndexedIn(q, doc', index', ahead')
    BY <1>4, <2>1, Unwritten
  <2>3. index' = Current(doc')
    BY <1>1, <1>5 DEF Current
  <2>. QED
    BY <1>1, <2>1, <2>2, <2>3, Others DEF IndexInv
<1>6. CASE req[r].mine = Gone
  <2>1. req[r].mine # None
    BY <1>6, NotDocs
  <2>2. \A p \in Requests \ {r} : IndexedIn(req[p], doc', index', ahead')
    BY <2>1, OthersUnwritten
  <2>3. IndexedIn(q, doc', index', ahead')
    BY <1>1, <1>2, <1>4, <1>6 DEF IndexedIn, Deleting, Telling, Told, Current
  <2>4. ~NoneWritten'
    BY <1>1, <1>2, <2>1, Others DEF NoneWritten
  <2>. QED
    BY <1>1, <2>2, <2>3, <2>4, Others DEF IndexInv
<1>. QED
  BY <1>3, <1>5, <1>6

LEMMA ViewedIndex ==
    ASSUME Base, transactional, IndexInv, NEW r \in Requests, ViewStep(r)
    PROVE  IndexInv'
<1>. DEFINE q == Rest(r)
<1>1. /\ Due(r, "view") /\ Ordered(req[r].todo) /\ IInv
      /\ req' = [req EXCEPT ![r] = q] /\ UNCHANGED <<doc, ahead, index>>
  BY DEF ViewStep, Base, OrderInv
<1>2. /\ q.mine = req[r].mine /\ Next1(req[r], {"view"}) /\ q.todo = <<>>
  BY <1>1, Resting
<1>. HIDE DEF q
<1>3. \A S : ~Next1(q, S)
  BY <1>2 DEF Next1
<1>4. IndexedIn(req[r], doc, index, ahead)
  BY DEF IndexInv
<1>5. ~Next1(req[r], {"users", "save", "index", "unindex"}) /\ ~Next1(req[r], {"unindex"})
  BY <1>2 DEF Next1
<1>6. IndexedIn(q, doc, index, ahead)
  BY <1>2, <1>3, <1>4, <1>5 DEF IndexedIn, Deleting, Telling, Told
<1>. QED
  BY <1>1, <1>2, <1>6, Others DEF IndexInv, NoneWritten

LEMMA EndedIndex ==
    ASSUME Base, transactional, IndexInv, NEW r \in Requests, NEW q, Ended(r, q),
           doc = Gone => doc' = Gone
    PROVE  IndexInv'
<1>1. /\ IInv /\ req' = [req EXCEPT ![r] = q] /\ q.mine = None /\ doc' = Committed(r)
      /\ ~Next1(q, {"index"}) /\ ~Next1(q, {"unindex"}) /\ UNCHANGED <<index, ahead>>
  BY DEF Ended, Base, Next1
<1>2. IndexedIn(q, doc', index', ahead')
  BY <1>1, Unwritten
<1>3. CASE req[r].mine = None
  <2>1. UNCHANGED doc
    BY <1>1, <1>3 DEF Committed
  <2>. QED
    BY <1>1, <1>2, <1>3, <2>1, Others DEF IndexInv, NoneWritten
<1>4. CASE req[r].mine # None
  <2>1. doc' = req[r].mine
    BY <1>1, <1>4 DEF Committed
  <2>2. \A p \in Requests \ {r} : IndexedIn(req[p], doc', index', ahead')
    BY <1>4, OthersUnwritten
  <2>3. ~Next1(req[r], {"users", "save", "index", "unindex"}) /\ ~Next1(req[r], {"unindex"})
    BY DEF Ended, Due, Finished, Next1
  <2>4. IndexedIn(req[r], doc, index, ahead)
    BY DEF IndexInv
  <2>5. doc' = Gone => index = Gone
    BY <2>1, <2>3, <2>4 DEF IndexedIn, Deleting
  <2>6. ~ahead => index = Current(doc')
    BY <1>4, <2>1, <2>3, <2>4 DEF IndexedIn, Told
  <2>. QED
    BY <1>1, <1>2, <2>2, <2>5, <2>6, Others DEF IndexInv
<1>. QED
  BY <1>3, <1>4

LEMMA NextIndex ==
    ASSUME Base, transactional, IndexInv, [Next]_vars
    PROVE  IndexInv'
<1>0. NothingBack /\ IInv
  BY BaseAlways DEF Base
<1>1. ASSUME NEW r \in Requests, NEW op \in Ops, Read(r, op) PROVE IndexInv'
  <2>. DEFINE q == [op |-> op, todo |-> Plan(op, doc.c), copy |-> doc, snap |-> doc,
                    mine |-> None,
                    made |-> IF Plan(op, doc.c) # <<>> THEN Made(op, doc.c) ELSE None]
  <2>1. /\ req' = [req EXCEPT ![r] = q] /\ UNCHANGED <<doc, index, ahead>>
        /\ doc.c \in Sane /\ Room(op, doc.c) /\ req[r] = Idle
    BY <1>0, <1>1 DEF Read, IInv, SaneDoc, Busy
  <2>2. q.mine = None /\ q.todo = Plan(op, doc.c) /\ Planned(Plan(op, doc.c))
    BY <2>1, PlanKeeps
  <2>. HIDE DEF q
  <2>3. ~Next1(q, {"index"}) /\ ~Next1(q, {"unindex"})
    <3>1. q.todo # <<>> => Head(q.todo) = q.todo[1]
      BY <2>2, TailOf DEF Planned
    <3>. QED
      BY <2>2, <3>1 DEF Planned, Starts, First, Next1
  <2>4. IndexedIn(q, doc, index, ahead)
    BY <2>2, <2>3, Unwritten
  <2>5. req[r].mine = None
    BY <2>1, IdleFields
  <2>. QED
    BY <1>0, <2>1, <2>2, <2>4, <2>5, Others DEF IndexInv, NoneWritten
<1>2. ASSUME NEW r \in Requests, Abort(r) PROVE IndexInv'
  <2>1. /\ req' = [req EXCEPT ![r] = Idle] /\ UNCHANGED <<doc, index>>
        /\ ahead' = (ahead \/ req[r].mine # None)
    BY <1>2 DEF Abort
  <2>2. \A d, x, a : IndexedIn(Idle, d, x, a)
    BY IdleFields, Unwritten
  <2>3. CASE req[r].mine = None
    BY <1>0, <2>1, <2>2, <2>3, IdleFields, Others DEF IndexInv, NoneWritten, IInv
  <2>4. CASE req[r].mine # None
    <3>1. ahead' /\ doc # Gone
      BY <2>1, <2>4 DEF Base, WriterInv, OneWriter
    <3>2. \A p \in Requests \ {r} : IndexedIn(req[p], doc', index', ahead')
      BY <2>4, OthersUnwritten
    <3>3. ASSUME NEW p \in Requests PROVE IndexedIn(req'[p], doc', index', ahead')
      <4>1. CASE p = r
        <5>1. req'[r] = Idle
          BY <1>0, <2>1, Others
        <5>. QED
          BY <2>2, <4>1, <5>1
      <4>2. CASE p # r
        <5>1. req'[p] = req[p]
          BY <1>0, <2>1, <4>2, Others
        <5>. QED
          BY <3>2, <4>2, <5>1
      <4>. QED
        BY <4>1, <4>2
    <3>4. doc' # Gone
      BY <2>1, <3>1
    <3>. QED
      BY <3>1, <3>3, <3>4 DEF IndexInv
  <2>. QED
    BY <2>3, <2>4
<1>3. CASE UNCHANGED vars
  BY <1>3 DEF vars, IndexInv, NoneWritten
<1>4. CASE Next
  BY <1>0, <1>1, <1>2, <1>4, ByKind, WroteIndex, ToldIndex, UntoldIndex, ViewedIndex, EndedIndex
     DEF NothingBack
<1>. QED
  BY <1>3, <1>4

-----------------------------------------------------------------------------
(* What was created: it is in what will be committed, for every            *)
(* transaction that can still commit.                                      *)

MineKept(q, d, m) == q.mine \in SaneDoc => q.snap = d /\ m \subseteq Kept(q.mine.c)
SavesKept(q, d, m) ==
    \A i \in 1..Len(q.todo) :
        q.todo[i].do = "save" /\ q.snap = d => m \subseteq Kept(q.todo[i].c)
Started(q) ==
    \A i \in 1..Len(q.todo) : q.todo[i].do \in {"save", "users", "delete"} => q.snap # None
MadeSaves(q) ==
    q.made # None =>
        \A i \in 1..Len(q.todo) :
            /\ q.todo[i].do \in {"save", "index"}
            /\ q.todo[i].do = "save" => q.made \in Kept(q.todo[i].c)
MadeThere(q) ==
    q.made # None => Next1(q, {"save"}) \/ (q.mine \in SaneDoc /\ q.made \in Kept(q.mine.c))
KeptIn(q, d, m) ==
    MineKept(q, d, m) /\ SavesKept(q, d, m) /\ Started(q) /\ MadeSaves(q) /\ MadeThere(q)
KeptInv ==
    doc # Gone =>
        created \subseteq Kept(doc.c) /\ \A r \in Requests : KeptIn(req[r], doc, created)

LEMMA NothingLeft ==
    ASSUME NEW q, q.todo = <<>>
    PROVE  (\A d, m : SavesKept(q, d, m)) /\ Started(q) /\ MadeSaves(q)
BY DEF SavesKept, Started, MadeSaves

LEMMA IdleKept == \A d, m : KeptIn(Idle, d, m)
BY IdleFields, NothingLeft, NotDocs DEF KeptIn, MineKept, MadeThere

\* What is left after a step.
LEMMA LeftKept ==
    ASSUME NEW q, q.todo \in Seq(SaneStep), q.todo # <<>>, NEW w, w.todo = Tail(q.todo),
           w.made = q.made, NEW d, NEW m, SavesKept(q, d, m), Started(q), MadeSaves(q),
           w.snap = q.snap \/ (q.snap = d /\ w.snap # None)
    PROVE  SavesKept(w, d, m) /\ Started(w) /\ MadeSaves(w)
<1>1. ASSUME NEW i \in 1..Len(w.todo)
      PROVE  i + 1 \in 1..Len(q.todo) /\ w.todo[i] = q.todo[i + 1]
  BY TailOf
<1>2. SavesKept(w, d, m)
  BY <1>1 DEF SavesKept
<1>3. Started(w)
  BY <1>1 DEF Started
<1>4. MadeSaves(w)
  BY <1>1 DEF MadeSaves
<1>. QED
  BY <1>2, <1>3, <1>4

LEMMA NextOf ==
    ASSUME IInv, NEW r \in Requests, NEW kind, Due(r, kind)
    PROVE  /\ req[r].todo \in Seq(SaneStep) /\ req[r].todo # <<>> /\ 1 \in 1..Len(req[r].todo)
           /\ req[r].todo[1] = Head(req[r].todo) /\ req[r].todo[1].do = kind
<1>1. req[r].todo \in Seq(SaneStep) /\ req[r].todo # <<>> /\ Head(req[r].todo).do = kind
  BY DueType, RecordFields DEF Due
<1>. DEFINE t == req[r].todo
<1>2. Len(t) \in Nat /\ Len(t) > 0 /\ Head(t) = t[1]
  <2>. HIDE DEF t
  <2>. QED
    BY <1>1, TailOf DEF t
<1>. QED
  BY <1>1, <1>2

\* A step of one request under which the document does not change.
LEMMA KeptSame ==
    ASSUME IInv, KeptInv, NEW r \in Requests, NEW q, req' = [req EXCEPT ![r] = q],
           UNCHANGED <<doc, created>>, doc # Gone => KeptIn(q, doc, created)
    PROVE  KeptInv'
BY Others DEF KeptInv

LEMMA WroteKept ==
    ASSUME Base, transactional, IndexInv, KeptInv, NEW r \in Requests,
           NEW kind \in {"save", "users", "delete"}, NEW q, Wrote(r, q, kind)
    PROVE  KeptInv'
<1>0. UNCHANGED <<doc, created>> /\ req' = [req EXCEPT ![r] = q] /\ IInv
  BY DEF Wrote, Base
<1>. SUFFICES ASSUME doc # Gone PROVE KeptIn(q, doc, created)
  BY <1>0, KeptSame
<1>1. /\ Due(r, kind) /\ Ordered(req[r].todo) /\ q.todo = Tail(req[r].todo) /\ q.made = req[r].made
  BY DEF Wrote, Base, OrderInv
<1>2. /\ Next1(req[r], {kind}) /\ req[r].todo \in Seq(SaneStep) /\ req[r].todo # <<>>
      /\ 1 \in 1..Len(req[r].todo) /\ req[r].todo[1] = Head(req[r].todo)
      /\ req[r].todo[1].do = kind
  BY <1>0, <1>1, Resting, NextOf
<1>3. KeptIn(req[r], doc, created) /\ created \subseteq Kept(doc.c) /\ doc \in SaneDoc
  BY <1>0 DEF KeptInv, IInv
<1>4. req[r].mine # Gone
  BY <1>2 DEF IndexInv, IndexedIn, Deleting, Next1
<1>5. Seen(r) # Gone
  BY <1>4 DEF Seen
<1>6. /\ Seen(r) \in SaneDoc /\ q.snap = doc /\ req[r].snap \in {None, doc}
      /\ kind = "save" => q.mine \in SaneDoc /\ q.mine.c = Head(req[r].todo).c
      /\ kind = "users" => q.mine \in SaneDoc /\ q.mine.c.tabs = Seen(r).c.tabs
      /\ kind = "delete" => q.mine = Gone
  BY <1>5 DEF Wrote
<1>7. req[r].snap = doc
  BY <1>2, <1>3, <1>6 DEF KeptIn, Started
<1>8. SavesKept(q, doc, created) /\ Started(q) /\ MadeSaves(q)
  <2>1. q.snap # None
    BY <1>3, <1>6, NotDocs
  <2>2. SavesKept(req[r], doc, created) /\ Started(req[r]) /\ MadeSaves(req[r])
    BY <1>3 DEF KeptIn
  <2>. QED
    BY <1>1, <1>2, <1>7, <2>1, <2>2, LeftKept
<1>9. CASE kind = "save"
  <2>1. created \subseteq Kept(req[r].todo[1].c)
    BY <1>2, <1>3, <1>7, <1>9 DEF KeptIn, SavesKept
  <2>2. req[r].made # None => req[r].made \in Kept(req[r].todo[1].c)
    BY <1>2, <1>3, <1>9 DEF KeptIn, MadeSaves
  <2>3. q.mine \in SaneDoc /\ q.mine.c = req[r].todo[1].c
    BY <1>2, <1>6, <1>9
  <2>. QED
    BY <1>1, <1>6, <1>8, <2>1, <2>2, <2>3 DEF KeptIn, MineKept, MadeThere
<1>10. CASE kind # "save"
  <2>1. q.made = None
    BY <1>1, <1>2, <1>3, <1>10 DEF KeptIn, MadeSaves
  <2>2. MineKept(q, doc, created)
    <3>1. CASE kind = "users"
      <4>1. created \subseteq Kept(Seen(r).c)
        BY <1>3, <1>6 DEF Seen, KeptIn, MineKept
      <4>2. Kept(q.mine.c) = Kept(Seen(r).c)
        BY <1>6, <3>1 DEF Kept
      <4>. QED
        BY <1>6, <4>1, <4>2 DEF MineKept
    <3>2. CASE kind = "delete"
      BY <1>6, <3>2, NotDocs DEF MineKept
    <3>. QED
      BY <1>10, <3>1, <3>2
  <2>. QED
    BY <1>8, <2>1, <2>2 DEF KeptIn, MadeThere
<1>. QED
  BY <1>9, <1>10

LEMMA RestedKept ==
    ASSUME Base, transactional, KeptInv, NEW r \in Requests,
           IndexStep(r) \/ UnindexStep(r) \/ ViewStep(r)
    PROVE  KeptInv'
<1>. DEFINE q == Rest(r)
<1>1. PICK kind \in {"index", "unindex", "view"} : Due(r, kind)
  BY DEF IndexStep, UnindexStep, ViewStep
<1>2. /\ IInv /\ Ordered(req[r].todo)
      /\ req' = [req EXCEPT ![r] = q] /\ UNCHANGED <<doc, created>>
  BY DEF IndexStep, UnindexStep, ViewStep, Base, OrderInv
<1>3. /\ q.snap = req[r].snap /\ q.mine = req[r].mine /\ q.made = req[r].made
      /\ q.todo = Tail(req[r].todo) /\ Next1(req[r], {kind})
  BY <1>1, <1>2, Resting
<1>. HIDE DEF q
<1>4. req[r].todo \in Seq(SaneStep) /\ req[r].todo # <<>>
  BY <1>1, <1>2, NextOf
<1>5. doc # Gone => KeptIn(q, doc, created)
  <2>. SUFFICES ASSUME doc # Gone PROVE KeptIn(q, doc, created)
    OBVIOUS
  <2>1. KeptIn(req[r], doc, created)
    BY DEF KeptInv
  <2>2. SavesKept(q, doc, created) /\ Started(q) /\ MadeSaves(q)
    BY <1>3, <1>4, <2>1, LeftKept DEF KeptIn
  <2>3. ~Next1(req[r], {"save"})
    BY <1>3 DEF Next1
  <2>. QED
    BY <1>3, <2>1, <2>2, <2>3 DEF KeptIn, MineKept, MadeThere
<1>. QED
  BY <1>2, <1>5, KeptSame

LEMMA EndedKept ==
    ASSUME Publish = {}, Base, transactional, ClockInv, KeptInv, NEW r \in Requests, NEW q,
           Ended(r, q), doc = Gone => doc' = Gone
    PROVE  KeptInv'
<1>. SUFFICES ASSUME doc' # Gone PROVE KeptInv'
  BY DEF KeptInv
<1>1. /\ IInv /\ req' = [req EXCEPT ![r] = q] /\ q.mine = None /\ q.snap = None
      /\ doc' = Committed(r) /\ doc # Gone
      /\ q.made = None \/ (Due(r, "commit") /\ q.made = req[r].made)
      /\ created' = created \/ (q = Idle /\ req[r].made # None /\ created' = created \cup {req[r].made})
  BY DEF Ended, Base
<1>2. KeptIn(req[r], doc, created) /\ created \subseteq Kept(doc.c)
  BY <1>1 DEF KeptInv
<1>3. q.todo = <<>>
  BY Resting DEF Ended, Base, OrderInv
<1>4. Due(r, "commit") => req[r].made = None
  BY <1>1, <1>2, NextOf DEF KeptIn, MadeSaves
<1>5. q.made = None
  BY <1>1, <1>4
<1>6. \A d, m : KeptIn(q, d, m)
  BY <1>1, <1>3, <1>5, NothingLeft, NotDocs DEF KeptIn, MineKept, MadeThere
<1>7. created' = created \/ (req[r].mine \in SaneDoc /\ req[r].made \in Kept(req[r].mine.c)
                              /\ created' = created \cup {req[r].made})
  <2>1. ~Next1(req[r], {"save"})
    BY DEF Ended, Due, Finished, Next1
  <2>. QED
    BY <1>1, <1>2, <2>1 DEF KeptIn, MadeThere
<1>8. CASE req[r].mine = None
  <2>1. UNCHANGED <<doc, created>>
    BY <1>1, <1>7, <1>8, NotDocs DEF Committed
  <2>. QED
    BY <1>1, <1>6, <2>1, KeptSame
<1>9. CASE req[r].mine # None
  <2>1. req[r].mine # Gone
    BY <1>1, <1>9 DEF Committed
  <2>2. /\ doc' = req[r].mine /\ doc' \in SaneDoc /\ doc.lm \in Nat /\ doc'.lm \in Nat
        /\ doc'.lm > doc.lm /\ \A p \in Requests \ {r} : req[p].mine = None
    BY <1>9, <2>1, CommitNew
  <2>3. created' \subseteq Kept(doc'.c)
    BY <1>2, <1>7, <2>2 DEF KeptIn, MineKept
  <2>4. ASSUME NEW p \in Requests \ {r} PROVE KeptIn(req'[p], doc', created')
    <3>1. /\ req'[p] = req[p] /\ req[p].mine = None /\ SnapOld(req[p], doc)
          /\ KeptIn(req[p], doc, created)
      BY <1>1, <2>2, Others DEF KeptInv, ClockInv, TimedIn
    <3>2. req[p] \in Record \cup {Idle}
      BY <1>1 DEF IInv
    <3>3. req[p].snap \in SaneDoc \cup {None, Gone}
      BY <3>2, RecordFields, IdleFields
    <3>4. req[p].snap # doc'
      BY <2>2, <3>1, <3>3, NotDocs DEF SnapOld, SaneDoc
    <3>5. MineKept(req[p], doc', created') /\ SavesKept(req[p], doc', created')
      BY <3>1, <3>4, NotDocs DEF MineKept, SavesKept
    <3>. QED
      BY <3>1, <3>5 DEF KeptIn
  <2>5. KeptIn(req'[r], doc', created')
    <3>1. req'[r] = q
      BY <1>1, Others
    <3>. QED
      BY <1>6, <3>1
  <2>. QED
    BY <2>3, <2>4, <2>5 DEF KeptInv
<1>. QED
  BY <1>8, <1>9

LEMMA NextKept ==
    ASSUME Publish = {}, Base, transactional, ClockInv, IndexInv, KeptInv, [Next]_vars
    PROVE  KeptInv'
<1>0. NothingBack /\ IInv
  BY BaseAlways DEF Base
<1>1. ASSUME NEW r \in Requests, NEW op \in Ops, Read(r, op) PROVE KeptInv'
  <2>. DEFINE t == Plan(op, doc.c)
              made == IF t # <<>> THEN Made(op, doc.c) ELSE None
              q == [op |-> op, todo |-> t, copy |-> doc, snap |-> doc, mine |-> None,
                    made |-> made]
  <2>1. /\ req' = [req EXCEPT ![r] = q] /\ UNCHANGED doc /\ created' = created \ Taken(op)
        /\ doc # Gone /\ doc \in SaneDoc /\ doc.c \in Sane /\ Room(op, doc.c)
    BY <1>0, <1>1 DEF Read, IInv, SaneDoc
  <2>2. q.mine = None /\ q.todo = t /\ q.snap = doc /\ q.made = made
    OBVIOUS
  <2>. HIDE DEF q
  <2>3. /\ Planned(t)
        /\ \A i \in 1..Len(t) :
              t[i].do = "save" => t[i].c \in Keeping(doc.c, Taken(op), Made(op, doc.c))
        /\ Made(op, doc.c) # None =>
              /\ t # <<>> => t[1].do = "save"
              /\ \A i \in 1..Len(t) : t[i].do \in {"save", "index"}
    BY <2>1, PlanKeeps
  <2>. HIDE DEF t
  <2>4. created \subseteq Kept(doc.c)
    BY <2>1 DEF KeptInv
  <2>5. SavesKept(q, doc, created')
    BY <2>1, <2>2, <2>3, <2>4 DEF SavesKept, Keeping
  <2>6. Started(q)
    BY <2>1, <2>2, NotDocs DEF Started
  <2>7. MadeSaves(q)
    BY <2>2, <2>3 DEF MadeSaves, Keeping
  <2>8. MadeThere(q)
    <3>1. t # <<>> => Head(t) = t[1]
      BY <2>3, TailOf DEF Planned
    <3>. QED
      BY <2>2, <2>3, <3>1 DEF MadeThere, Next1
  <2>9. MineKept(q, doc, created')
    BY <2>2, NotDocs DEF MineKept
  <2>10. KeptIn(q, doc, created')
    BY <2>5, <2>6, <2>7, <2>8, <2>9 DEF KeptIn
  <2>11. ASSUME NEW p \in Requests \ {r} PROVE KeptIn(req'[p], doc, created')
    <3>1. req'[p] = req[p] /\ KeptIn(req[p], doc, created)
      BY <1>0, <2>1, Others DEF KeptInv
    <3>2. MineKept(req[p], doc, created') /\ SavesKept(req[p], doc, created')
      BY <2>1, <3>1 DEF KeptIn, MineKept, SavesKept
    <3>. QED
      BY <3>1, <3>2 DEF KeptIn
  <2>12. created' \subseteq Kept(doc.c)
    BY <2>1, <2>4
  <2>13. req'[r] = q
    BY <1>0, <2>1, Others
  <2>. QED
    BY <2>1, <2>10, <2>11, <2>12, <2>13 DEF KeptInv
<1>2. ASSUME NEW r \in Requests, Abort(r) PROVE KeptInv'
  <2>1. req' = [req EXCEPT ![r] = Idle] /\ UNCHANGED <<doc, created>>
    BY <1>2 DEF Abort
  <2>. QED
    BY <1>0, <2>1, IdleKept, KeptSame
<1>3. CASE UNCHANGED vars
  BY <1>3 DEF vars, KeptInv
<1>4. CASE Next
  BY <1>0, <1>1, <1>2, <1>4, ByKind, WroteKept, RestedKept, EndedKept DEF NothingBack
<1>. QED
  BY <1>3, <1>4

-----------------------------------------------------------------------------
(* The theorems.                                                           *)

Promises == Base /\ (transactional => ClockInv /\ IndexInv)

LEMMA PromisesAlways ==
    /\ Init => Promises
    /\ Promises /\ [Next]_vars => Promises' /\ transactional' = transactional
<1>1. ASSUME Init PROVE ClockInv /\ IndexInv
  <2>1. /\ req = [r \in Requests |-> Idle] /\ cached = {} /\ now = 0
        /\ \E c \in Blank : doc = [c |-> c, lm |-> 0, raw |-> FALSE] /\ index = Indexed(c)
    BY <1>1 DEF Init
  <2>2. ClockInv
    BY <2>1, IdleTimed DEF ClockInv, CacheOld
  <2>3. doc \in SaneDoc
    BY <2>1, BlankSane DEF SaneDoc
  <2>4. doc # Gone /\ index = Current(doc)
    <3>1. index = Indexed(doc.c)
      BY <2>1
    <3>. QED
      BY <2>3, <3>1, NotDocs, CurrentEntry
  <2>5. \A d, x, a : IndexedIn(Idle, d, x, a)
    BY IdleFields, Unwritten
  <2>. QED
    BY <2>1, <2>2, <2>4, <2>5 DEF IndexInv
<1>. QED
  BY <1>1, BaseAlways, NextClock, NextIndex DEF Promises

\* With transactions, no entry of the cache answers for the current document
\* with anything but what it says: each committed document has a last_modified
\* of its own, for any number of requests (change_workspace,
\* get_global_workspace_data).
THEOREM CacheAlwaysFresh == Spec => []CacheFresh
<1>1. Promises => CacheFresh
  BY DEF Promises, ClockInv, CacheOld, CacheFresh
<1>. QED
  BY <1>1, PromisesAlways, PTL DEF Spec

\* With transactions, the search index has the workspace as it is whenever
\* nobody is at work, unless an abort left it ahead: the index is told before
\* the commit, and nobody else can write in between
\* (update_workspace_in_index, delete_workspace_from_index).
THEOREM IndexAlwaysCurrent == Spec => []IndexCurrent
<1>1. Promises => IndexCurrent
  <2>1. (\A r \in Requests : ~Busy(r)) => NoneWritten
    BY IdleFields DEF Busy, NoneWritten
  <2>. QED
    BY <2>1 DEF Promises, IndexInv, IndexCurrent, Current
<1>. QED
  BY <1>1, PromisesAlways, PTL DEF Spec

\* With transactions, what the server said it created stays until a request
\* takes it away, for any number of requests that publish nothing: a request
\* that sets "public" commits in the middle, and starts again from a copy that
\* others may have left behind (create_workspace_preferences).
THEOREM CreatedAlwaysKept == ASSUME Publish = {} PROVE Spec => []CreatedKept
<1>. DEFINE Inv == Promises /\ (transactional => KeptInv)
<1>1. Init => Inv
  <2>1. Init => KeptInv
    BY IdleKept DEF Init, KeptInv
  <2>. QED
    BY <2>1, PromisesAlways
<1>2. Inv /\ [Next]_vars => Inv'
  BY PromisesAlways, NextKept DEF Promises
<1>3. Inv => CreatedKept
  BY KeptMeaning DEF KeptInv, CreatedKept
<1>. QED
  BY <1>1, <1>2, <1>3, PTL DEF Spec
=============================================================================
