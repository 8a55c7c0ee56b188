----------------------------- MODULE TaskProofs -----------------------------
(***************************************************************************)
(* Proofs about TaskPromise and EventDispatch, for any values of their     *)
(* constants: a task that is settled stays as it is, nobody is left        *)
(* waiting for what is over, an abort reaches all that was done for the    *)
(* task, a dispatch passes over no handler, and the failure of an input is *)
(* logged to its own connection.                                           *)
(***************************************************************************)
EXTENDS TaskPromise, EventDispatch, WellFoundedInduction, SequenceTheorems, FiniteSetTheorems, TLAPS

-----------------------------------------------------------------------------
(* The inductive invariant of TaskPromise: what is where on the stack, and *)
(* what each group says of its subtasks.                                    *)

Hows == {"then", "group", "adopt"}
Link == [to : Created, how : Hows]
Frame == UNION {[op : {"settle"}, t : Created, s : {"resolved", "rejected"}],
                [op : {"abort"}, t : Created],
                [op : {"abortSub"}, t : Created, i : Nat \ {0}, n : Nat],
                [op : {"notify"}, t : Created, e : Events, i : Nat \ {0}],
                [op : {"deliver"}, to : Created, how : Hows, t : Created, e : Events],
                [op : {"run"}, t : Created, e : Events],
                [op : {"up"}, t : Created]}
Going == Range(calls)

TaskTypes ==
    /\ \E n \in 0..MaxTasks : Created = 1..n
    /\ kind \in [Tasks -> Kinds \cup {"none"}]
    /\ status \in [Tasks -> Settled \cup {"pending"}]
    /\ subtasks \in [Tasks -> Seq(Created)]
    /\ parent \in [Tasks -> Created \cup {0}]
    /\ chain \in [Tasks -> SUBSET Created]
    /\ links \in [Tasks -> Seq(Link)]
    /\ calls \in Seq(Frame)

\* What is not created is as it was.
Blank == \A t \in Tasks \ Created : status[t] = "pending" /\ subtasks[t] = <<>> /\ parent[t] = 0 /\ chain[t] = {}

\* Who may listen as what.
Suits(t, how) ==
    /\ how = "group" => kind[t] = "group"
    /\ how = "then" => kind[t] = "then"
    /\ how = "adopt" => kind[t] \in {"then", "wrap"}

Suited(f) ==
    /\ f.op = "settle" => kind[f.t] \in {"root", "then", "wrap"}
    /\ f.op = "run" => kind[f.t] = "then"
    /\ f.op = "deliver" => Suits(f.to, f.how)
    /\ f.op = "abortSub" => f.n <= Len(subtasks[f.t])

Fits ==
    /\ \A t \in Tasks : \A i \in DOMAIN links[t] : Suits(links[t][i].to, links[t][i].how)
    /\ \A f \in Going : Suited(f)
    /\ calls # <<>> => ~Over(Head(calls))
    /\ \A t \in Tasks : /\ parent[t] < t
                        /\ chain[t] # {} => kind[t] = "wrap"
                        /\ kind[t] = "group" => \A s \in Range(subtasks[t]) : s < t

\* A group that counts itself settled, but aborted, says what its subtasks do.
Agreed(t) == kind[t] = "group" /\ status[t] \in {"resolved", "rejected"} => Overall(subtasks[t]) = status[t]

TaskInv == TaskTypes /\ Blank /\ Fits /\ \A t \in Tasks : Agreed(t)

-----------------------------------------------------------------------------
(* Who is still to be told.                                                *)

Listens(t, how, p) == \E j \in DOMAIN links[p] : links[p][j] = [to |-> t, how |-> how]

\* The frame f tells t, as what it listens as.
Brings(f, t, how) ==
    \/ f.op = "deliver" /\ f.to = t /\ f.how = how
    \/ f.op = "notify" /\ \E j \in DOMAIN links[f.t] : j >= f.i /\ links[f.t][j] = [to |-> t, how |-> how]

Due(t) == \E f \in Going : f.op \in {"settle", "abort"} /\ f.t = t
Adopting(t, r) == \E f \in Going : Brings(f, t, "adopt") /\ f.t = r /\ f.e # "abort"
Continuing(t) == \E f \in Going : Brings(f, t, "then") \/ (f.op = "run" /\ f.t = t)
Grouping(t) == \E f \in Going : Brings(f, t, "group")

\* What a task that adopts r waits for.
AwaitsAnswer(t, r) ==
    \/ status[r] = "pending" /\ Listens(t, "adopt", r)
    \/ status[r] = "aborted"
    \/ Adopting(t, r)

ThenWaits(t) ==
    /\ kind[t] = "then" => \A r \in Range(subtasks[t]) : kind[r] = "root"
    /\ kind[t] = "then" /\ status[t] = "pending" /\ ~Due(t) =>
          /\ \/ status[parent[t]] = "pending" /\ Listens(t, "then", parent[t])
             \/ Continuing(t)
             \/ subtasks[t] # <<>>
          /\ \A r \in Range(subtasks[t]) : AwaitsAnswer(t, r)

GroupWaits(t) ==
    kind[t] = "group" =>
        /\ \A p \in Tasks : p \in Range(subtasks[t]) <=> Listens(t, "group", p)
        /\ status[t] = "pending" /\ ~Due(t) =>
              \/ \E s \in Range(subtasks[t]) : status[s] = "pending"
              \/ Grouping(t)
        /\ status[t] = "aborted" =>
              \A k \in DOMAIN subtasks[t] :
                  \/ status[subtasks[t][k]] # "pending"
                  \/ \E f \in Going : f.op = "abort" /\ f.t = subtasks[t][k]
                  \/ \E f \in Going : f.op = "abortSub" /\ f.t = t /\ f.i <= k /\ k <= f.n

\* Groups that nothing will change any more.
Asleep(D) ==
    \A g \in D : /\ kind[g] = "group" /\ status[g] # "pending"
                 /\ \A s \in Range(subtasks[g]) : status[s] # "pending" /\ (kind[s] = "group" => s \in D)
                 /\ ~Grouping(g)

\* What a wrapper follows.
Follows(t, u) ==
    /\ IF kind[u] = "then" THEN u \in chain[t] ELSE chain[t] = {} /\ subtasks[t] = <<u>>
    /\ status[t] = "pending" /\ ~Due(t) =>
          \/ status[u] = "pending" /\ Listens(t, "adopt", u)
          \/ status[u] = "aborted" /\ Listens(t, "adopt", u)
          \/ status[u] = "aborted" /\ (kind[u] # "group" \/ \E D \in SUBSET Created : u \in D /\ Asleep(D))
          \/ Adopting(t, u)

WrapWaits(t) == kind[t] = "wrap" => \E u \in Created : Follows(t, u)

\* It is continuations that have a parent.
Rooted == \A t \in Tasks : kind[t] = "then" <=> parent[t] # 0

WaitInv == TaskInv /\ Rooted /\ \A t \in Tasks : ThenWaits(t) /\ GroupWaits(t) /\ WrapWaits(t)

-----------------------------------------------------------------------------
(* The stack of calls.                                                     *)

LEMMA LeastOf ==
    ASSUME NEW S \in SUBSET Nat, S # {}
    PROVE  Min(S) \in S /\ \A y \in S : Min(S) <= y
<1>1. PICK x \in S : \A y \in S : ~ (<<y, x>> \in OpToRel(<, Nat))
  BY NatLessThanWellFounded, WFMin
<1>2. \A y \in S : ~(y < x)
  BY <1>1, Zenon DEF OpToRel
<1>3. \A y \in S : x <= y
  BY <1>2
<1>. QED
  BY <1>3 DEF Min

\* What is left of a stack: its calls, but for walks that are over.
LEMMA StackLeft ==
    ASSUME NEW S, NEW cs \in Seq(S)
    PROVE  LET left == FromFirstLive(cs)
           IN  /\ left \in Seq(S) /\ Range(left) \subseteq Range(cs)
               /\ \A f \in Range(cs) : ~Over(f) => f \in Range(left)
               /\ left # <<>> => ~Over(Head(left))
<1>. DEFINE live == {i \in DOMAIN cs : ~Over(cs[i])}
            left == FromFirstLive(cs)
            m == Min(live)
<1>1. left = IF live = {} THEN <<>> ELSE SubSeq(cs, m, Len(cs))
  BY DEF FromFirstLive
<1>2. CASE live = {}
  <2>1. left = <<>> /\ Range(left) = {} /\ left \in Seq(S)
    BY <1>1, <1>2 DEF Range
  <2>2. \A f \in Range(cs) : Over(f)
    BY <1>2 DEF Range
  <2>. HIDE DEF left
  <2>. QED
    BY <2>1, <2>2 DEF left
<1>3. CASE live # {}
  <2>1. m \in live /\ \A i \in live : m <= i
    <3>1. live \in SUBSET Nat
      OBVIOUS
    <3>. HIDE DEF live
    <3>. QED
      BY <3>1, <1>3, LeastOf
  <2>2. m \in 1..Len(cs) /\ ~Over(cs[m]) /\ \A i \in 1..Len(cs) : ~Over(cs[i]) => m <= i
    BY <2>1
  <2>. HIDE DEF m, live
  <2>3. \A i \in m..Len(cs) : cs[i] \in S
    BY <2>2
  <2>4. /\ left \in Seq(S) /\ Len(left) = Len(cs) - m + 1
        /\ \A i \in 1..(Len(cs) - m + 1) : left[i] = cs[m + i - 1]
    BY <1>1, <1>3, <2>2, <2>3, SubSeqProperties
  <2>. HIDE DEF left
  <2>. DEFINE n == Len(cs)
  <2>d. DOMAIN left = 1..(n - m + 1) /\ n \in Nat /\ m \in 1..n /\ \A i \in 1..(n - m + 1) : left[i] = cs[m + i - 1]
    BY <2>2, <2>4
  <2>h. \A i \in 1..n : ~Over(cs[i]) => m <= i
    BY <2>2
  <2>. HIDE DEF n
  <2>5. \A i \in 1..n : ~Over(cs[i]) => i - m + 1 \in DOMAIN left /\ left[i - m + 1] = cs[i]
    <3>1. ASSUME NEW i \in 1..n, ~Over(cs[i]) PROVE i - m + 1 \in 1..(n - m + 1) /\ m + (i - m + 1) - 1 = i
      BY <3>1, <2>d, <2>h
    <3>. QED
      BY <3>1, <2>d
  <2>6. \A i \in DOMAIN left : m + i - 1 \in 1..n /\ left[i] = cs[m + i - 1]
    BY <2>d
  <2>7. left[1] = cs[m] /\ Head(left) = left[1]
    BY <2>2, <2>4
  <2>8. Range(left) \subseteq Range(cs)
    BY <2>6 DEF Range, n
  <2>9. \A f \in Range(cs) : ~Over(f) => f \in Range(left)
    BY <2>5 DEF Range, n
  <2>. QED
    BY <2>2, <2>4, <2>7, <2>8, <2>9 DEF left
<1>. QED
  BY <1>2, <1>3

LEMMA InRange ==
    ASSUME NEW S, NEW s \in Seq(S)
    PROVE  Range(s) \subseteq S /\ \A i \in 1..Len(s) : s[i] \in Range(s)
BY DEF Range

LEMMA RangeOfConcat ==
    ASSUME NEW S, NEW s \in Seq(S), NEW t \in Seq(S)
    PROVE  Range(s \o t) = Range(s) \cup Range(t)
<1>. DEFINE st == s \o t
<1>1. /\ st \in Seq(S) /\ Len(st) = Len(s) + Len(t)
      /\ \A i \in 1..Len(st) : st[i] = IF i <= Len(s) THEN s[i] ELSE t[i - Len(s)]
  BY ConcatProperties
<1>. HIDE DEF st
<1>2. Range(st) \subseteq Range(s) \cup Range(t)
  <2>1. ASSUME NEW i \in 1..Len(st) PROVE st[i] \in Range(s) \cup Range(t)
    <3>1. CASE i <= Len(s)
      <4>1. i \in 1..Len(s) /\ st[i] = s[i]
        BY <1>1, <3>1
      <4>. QED
        BY <4>1, InRange
    <3>2. CASE ~(i <= Len(s))
      <4>1. i - Len(s) \in 1..Len(t) /\ st[i] = t[i - Len(s)]
        BY <1>1, <3>2
      <4>. QED
        BY <4>1, InRange
    <3>. QED
      BY <3>1, <3>2
  <2>. QED
    BY <1>1, <2>1 DEF Range
<1>3. Range(s) \subseteq Range(st)
  <2>1. ASSUME NEW i \in 1..Len(s) PROVE s[i] \in Range(st)
    <3>1. i \in 1..Len(st) /\ st[i] = s[i]
      BY <1>1
    <3>. QED
      BY <3>1, <1>1, InRange
  <2>. QED
    BY <2>1 DEF Range
<1>4. Range(t) \subseteq Range(st)
  <2>1. ASSUME NEW i \in 1..Len(t) PROVE t[i] \in Range(st)
    <3>1. i + Len(s) \in 1..Len(st) /\ ~(i + Len(s) <= Len(s)) /\ i + Len(s) - Len(s) = i
      BY <1>1
    <3>2. st[i + Len(s)] = t[i]
      BY <1>1, <3>1
    <3>. QED
      BY <3>1, <3>2, <1>1, InRange
  <2>. QED
    BY <2>1 DEF Range
<1>. QED
  BY <1>2, <1>3, <1>4 DEF st

LEMMA RangeOfStack ==
    ASSUME NEW S, NEW s \in Seq(S), s # <<>>
    PROVE  Range(s) = {Head(s)} \cup Range(Tail(s)) /\ Head(s) \in S /\ Tail(s) \in Seq(S)
<1>1. /\ Head(s) = s[1] /\ Head(s) \in S /\ Tail(s) \in Seq(S) /\ Len(Tail(s)) = Len(s) - 1
      /\ \A i \in 1..Len(Tail(s)) : Tail(s)[i] = s[i + 1]
  BY HeadTailProperties
<1>2. \A i \in 1..Len(s) : i # 1 => i - 1 \in 1..Len(Tail(s)) /\ Tail(s)[i - 1] = s[i]
  BY <1>1
<1>3. \A i \in 1..Len(Tail(s)) : i + 1 \in 1..Len(s)
  BY <1>1
<1>4. 1 \in 1..Len(s) /\ DOMAIN s = 1..Len(s) /\ DOMAIN Tail(s) = 1..Len(Tail(s))
  BY <1>1
<1>. DEFINE t == Tail(s)
<1>. HIDE DEF t
<1>5. Range(s) \subseteq {Head(s)} \cup Range(t)
  <2>1. ASSUME NEW i \in 1..Len(s) PROVE s[i] \in {Head(s)} \cup Range(t)
    <3>1. CASE i = 1
      BY <3>1, <1>1
    <3>2. CASE i # 1
      <4>1. i - 1 \in 1..Len(t) /\ t[i - 1] = s[i] /\ t \in Seq(S)
        BY <3>2, <1>1, <1>2 DEF t
      <4>. QED
        BY <4>1, InRange
    <3>. QED
      BY <3>1, <3>2
  <2>. QED
    BY <2>1, <1>4 DEF Range
<1>6. Range(t) \subseteq Range(s) /\ Head(s) \in Range(s)
  BY <1>1, <1>3, <1>4 DEF Range, t
<1>. QED
  BY <1>1, <1>5, <1>6 DEF t

-----------------------------------------------------------------------------
(* Tasks, listeners and calls.                                             *)

LEMMA SeqGrows ==
    ASSUME NEW S, NEW T, S \subseteq T, NEW s \in Seq(S)
    PROVE  s \in Seq(T)
OBVIOUS

LEMMA CallFields ==
    ASSUME NEW f \in Frame
    PROVE  /\ f.op \in {"settle", "abort", "abortSub", "notify", "deliver", "run", "up"}
           /\ f.t \in Created
           /\ f.op = "settle" => f.s \in {"resolved", "rejected"}
           /\ f.op = "abortSub" => f.i \in Nat \ {0} /\ f.n \in Nat
           /\ f.op = "notify" => f.e \in Events /\ f.i \in Nat \ {0}
           /\ f.op = "deliver" => f.to \in Created /\ f.how \in Hows /\ f.e \in Events
           /\ f.op = "run" => f.e \in Events
BY DEF Frame

LEMMA Calls ==
    /\ \A t \in Created : /\ \A s \in {"resolved", "rejected"} : Settle(t, s) \in Frame
                          /\ Abort(t) \in Frame /\ Up(t) \in Frame
                          /\ \A i \in Nat \ {0}, n \in Nat : AbortSub(t, i, n) \in Frame
                          /\ \A e \in Events, i \in Nat \ {0} : Notify(t, e, i) \in Frame
                          /\ \A e \in Events : Running(t, e) \in Frame
    /\ \A to, t \in Created, how \in Hows, e \in Events : Deliver(to, how, t, e) \in Frame
BY DEF Frame, Settle, Abort, Up, AbortSub, Notify, Running, Deliver

LEMMA OneCall ==
    ASSUME NEW S, NEW f \in S
    PROVE  <<f>> \in Seq(S) /\ Range(<<f>>) = {f}
BY DEF Range

LEMMA TwoCalls ==
    ASSUME NEW S, NEW f \in S, NEW g \in S
    PROVE  <<f, g>> \in Seq(S) /\ Range(<<f, g>>) = {f, g}
<1>1. <<f, g>> \in Seq(S) /\ DOMAIN <<f, g>> = {1, 2} /\ <<f, g>>[1] = f /\ <<f, g>>[2] = g
  OBVIOUS
<1>. QED
  BY <1>1 DEF Range

LEMMA NoCalls ==
    ASSUME NEW S
    PROVE  <<>> \in Seq(S) /\ Range(<<>>) = {}
BY DEF Range

\* A call on top of the others.
LEMMA Called ==
    ASSUME TaskTypes, NEW S, Frame \subseteq S, NEW f \in S, calls' = <<f>> \o calls
    PROVE  calls' \in Seq(S) /\ Going' = Going \cup {f} /\ calls' # <<>> /\ Head(calls') = f
<1>1. calls \in Seq(S)
  BY SeqGrows DEF TaskTypes
<1>. DEFINE top == <<f>>
<1>2. top \in Seq(S) /\ Range(top) = {f} /\ Len(top) = 1 /\ top[1] = f /\ calls' = top \o calls
  BY OneCall
<1>. HIDE DEF top
<1>3. calls' \in Seq(S) /\ Range(calls') = {f} \cup Range(calls)
  BY <1>1, <1>2, RangeOfConcat, ConcatProperties
<1>4. Len(calls') = 1 + Len(calls) /\ calls'[1] = f
  BY <1>1, <1>2, ConcatProperties
<1>. QED
  BY <1>3, <1>4, <1>1 DEF Going

\* The head of the stack gives way to what it causes.
Went(new) ==
    /\ Going' \subseteq Going \cup new
    /\ \A f \in (Going \ {Head(calls)}) \cup new : ~Over(f) => f \in Going'

LEMMA GivesWay ==
    ASSUME TaskTypes, calls # <<>>, NEW new \in Seq(Frame), Return(new)
    PROVE  /\ calls' \in Seq(Frame) /\ Went(Range(new))
           /\ calls' # <<>> => ~Over(Head(calls'))
           /\ Head(calls) \in Going /\ Head(calls) \in Frame
<1>1. calls \in Seq(Frame)
  BY DEF TaskTypes
<1>2. Going = {Head(calls)} \cup Range(Tail(calls)) /\ Head(calls) \in Frame /\ Tail(calls) \in Seq(Frame)
  BY <1>1, RangeOfStack DEF Going
<1>. DEFINE cs == new \o Tail(calls)
<1>3. cs \in Seq(Frame) /\ Range(cs) = Range(new) \cup Range(Tail(calls))
  <2>1. PICK tl : tl = Tail(calls)
    OBVIOUS
  <2>2. tl \in Seq(Frame) /\ cs = new \o tl
    BY <1>2, <2>1
  <2>. HIDE DEF cs
  <2>3. new \o tl \in Seq(Frame) /\ Range(new \o tl) = Range(new) \cup Range(tl)
    BY <2>2, RangeOfConcat
  <2>. QED
    BY <2>1, <2>2, <2>3
<1>4. calls' = FromFirstLive(cs)
  BY DEF Return
<1>. HIDE DEF cs
<1>5. /\ calls' \in Seq(Frame) /\ Range(calls') \subseteq Range(cs)
      /\ \A f \in Range(cs) : ~Over(f) => f \in Range(calls')
      /\ calls' # <<>> => ~Over(Head(calls'))
  BY <1>3, <1>4, StackLeft
<1>. QED
  BY <1>2, <1>3, <1>5 DEF Going, Went

-----------------------------------------------------------------------------
(* The tasks a task hangs from.                                            *)

\* g is Line for the tasks up to n.
LineUpTo(g, n) ==
    /\ g \in [1..n -> Seq(Tasks)]
    /\ \A t \in 1..n : g[t] = IF parent[t] = 0 THEN <<t>> ELSE Append(g[parent[t]], t)

LEMMA LineMeaning ==
    ASSUME TaskTypes, \A t \in Tasks : parent[t] < t
    PROVE  /\ Line \in [Tasks -> Seq(Tasks)]
           /\ \A t \in Tasks : Line[t] = IF parent[t] = 0 THEN <<t>> ELSE Append(Line[parent[t]], t)
<1>. DEFINE Bad == {n \in 0..MaxTasks : ~ \E g : LineUpTo(g, n)}
<1>1. MaxTasks \in Nat /\ \A t \in Tasks : parent[t] \in Nat /\ parent[t] < t
  BY TaskBounds DEF TaskTypes, Created, Tasks
<1>2. Bad = {}
  <2>1. SUFFICES ASSUME Bad # {} PROVE FALSE
    OBVIOUS
  <2>. DEFINE n == Min(Bad)
  <2>2. n \in Bad /\ \A m \in Bad : n <= m
    <3>1. Bad \in SUBSET Nat
      OBVIOUS
    <3>. HIDE DEF Bad
    <3>. QED
      BY <2>1, <3>1, LeastOf
  <2>3. n \in 0..MaxTasks /\ ~ \E g : LineUpTo(g, n)
    BY <2>2
  <2>4. CASE n = 0
    <3>1. LineUpTo([t \in 1..0 |-> <<t>>], 0)
      BY DEF LineUpTo
    <3>. QED
      BY <2>3, <2>4, <3>1
  <2>5. CASE n # 0
    <3>. HIDE DEF n
    <3>1. n - 1 \in 0..MaxTasks /\ n - 1 \notin Bad /\ n \in Tasks /\ n \in Nat
      BY <1>1, <2>2, <2>3, <2>5 DEF Tasks
    <3>2. PICK g : LineUpTo(g, n - 1)
      BY <3>1
    <3>. HIDE DEF Bad
    <3>. DEFINE h == [t \in 1..n |-> IF t < n THEN g[t]
                                     ELSE IF parent[n] = 0 THEN <<n>> ELSE Append(g[parent[n]], n)]
    <3>3. \A t \in 1..n : t < n => t \in 1..(n - 1) /\ t \in Tasks
      BY <3>1, <1>1 DEF Tasks
    <3>4. parent[n] # 0 => parent[n] \in 1..(n - 1)
      BY <1>1, <3>1
    <3>5. ASSUME NEW t \in 1..n PROVE h[t] \in Seq(Tasks)
      <4>1. CASE t < n
        BY <4>1, <3>2, <3>3 DEF LineUpTo
      <4>2. CASE ~(t < n) /\ parent[n] = 0
        BY <4>2, <3>1
      <4>3. CASE ~(t < n) /\ parent[n] # 0
        <5>1. g[parent[n]] \in Seq(Tasks)
          BY <4>3, <3>2, <3>4 DEF LineUpTo
        <5>. QED
          BY <4>3, <5>1, <3>1, AppendProperties
      <4>. QED
        BY <4>1, <4>2, <4>3
    <3>6. ASSUME NEW t \in 1..n PROVE h[t] = IF parent[t] = 0 THEN <<t>> ELSE Append(h[parent[t]], t)
      <4>1. parent[t] # 0 => parent[t] \in 1..n /\ parent[t] < n /\ parent[t] \in 1..(n - 1)
        BY <1>1, <3>1, <3>3, <3>4
      <4>2. parent[t] # 0 => h[parent[t]] = g[parent[t]]
        BY <4>1
      <4>3. CASE t < n
        <5>1. h[t] = g[t] /\ g[t] = IF parent[t] = 0 THEN <<t>> ELSE Append(g[parent[t]], t)
          BY <4>3, <3>2, <3>3 DEF LineUpTo
        <5>. QED
          BY <5>1, <4>2
      <4>4. CASE ~(t < n)
        <5>1. t = n
          BY <4>4, <3>1
        <5>2. h[t] = IF parent[n] = 0 THEN <<n>> ELSE Append(g[parent[n]], n)
          BY <4>4
        <5>. QED
          BY <5>1, <5>2, <4>2
      <4>. QED
        BY <4>3, <4>4
    <3>7. h \in [1..n -> Seq(Tasks)]
      BY <3>5
    <3>. HIDE DEF h
    <3>8. LineUpTo(h, n)
      BY <3>6, <3>7 DEF LineUpTo
    <3>. QED
      BY <2>3, <3>8
  <2>. QED
    BY <2>4, <2>5
<1>3. PICK g : LineUpTo(g, MaxTasks)
  BY <1>1, <1>2
<1>4. g = [t \in Tasks |-> IF parent[t] = 0 THEN <<t>> ELSE Append(g[parent[t]], t)]
  BY <1>3 DEF LineUpTo, Tasks
<1>5. Line = [t \in Tasks |-> IF parent[t] = 0 THEN <<t>> ELSE Append(Line[parent[t]], t)]
  BY <1>4 DEF Line
<1>6. ASSUME NEW t \in Tasks PROVE Line[t] = g[t]
  <2>. DEFINE Off == {u \in Tasks : Line[u] # g[u]}
  <2>1. SUFFICES ASSUME Off # {} PROVE FALSE
    OBVIOUS
  <2>. DEFINE u == Min(Off)
  <2>2. u \in Off /\ \A v \in Off : u <= v
    <3>1. Off \in SUBSET Nat
      BY DEF Tasks
    <3>. HIDE DEF Off
    <3>. QED
      BY <2>1, <3>1, LeastOf
  <2>3. u \in Tasks /\ Line[u] # g[u] /\ \A v \in Tasks : v < u => Line[v] = g[v]
    BY <2>2, <1>1 DEF Tasks
  <2>. HIDE DEF u, Off
  <2>4. /\ Line[u] = IF parent[u] = 0 THEN <<u>> ELSE Append(Line[parent[u]], u)
        /\ g[u] = IF parent[u] = 0 THEN <<u>> ELSE Append(g[parent[u]], u)
    BY <2>3, <1>4, <1>5
  <2>5. parent[u] # 0 => parent[u] \in Tasks /\ parent[u] < u
    BY <2>3, <1>1 DEF Tasks
  <2>. QED
    BY <2>3, <2>4, <2>5
<1>7. Line = g
  BY <1>4, <1>5, <1>6
<1>. QED
  BY <1>3, <1>5, <1>7 DEF LineUpTo, Tasks

LEMMA LineType ==
    ASSUME TaskTypes, \A t \in Tasks : parent[t] < t, NEW t \in Created
    PROVE  /\ Line[t] \in Seq(Created) /\ t \in Range(Line[t])
           /\ parent[t] = 0 => Line[t] = <<t>>
<1>1. \A u \in Tasks : /\ parent[u] \in Created \cup {0} /\ parent[u] < u
                       /\ Line[u] = IF parent[u] = 0 THEN <<u>> ELSE Append(Line[parent[u]], u)
  BY LineMeaning DEF TaskTypes
<1>. DEFINE Bad == {u \in Created : Line[u] \notin Seq(Created)}
<1>2. Bad = {}
  <2>1. SUFFICES ASSUME Bad # {} PROVE FALSE
    OBVIOUS
  <2>. DEFINE u == Min(Bad)
  <2>2. u \in Bad /\ \A v \in Bad : u <= v
    <3>1. Bad \in SUBSET Nat
      BY DEF Created, Tasks
    <3>. HIDE DEF Bad
    <3>. QED
      BY <2>1, <3>1, LeastOf
  <2>. HIDE DEF u
  <2>3. u \in Created /\ Line[u] \notin Seq(Created) /\ \A v \in Created : v < u => Line[v] \in Seq(Created)
    BY <2>2 DEF Created, Tasks
  <2>. HIDE DEF Bad
  <2>4. u \in Tasks
    BY <2>3 DEF Created
  <2>5. CASE parent[u] = 0
    <3>1. Line[u] = <<u>>
      BY <1>1, <2>4, <2>5
    <3>. QED
      BY <3>1, <2>3, OneCall
  <2>6. CASE parent[u] # 0
    <3>1. Line[parent[u]] \in Seq(Created) /\ Line[u] = Append(Line[parent[u]], u)
      BY <1>1, <2>3, <2>4, <2>6
    <3>. QED
      BY <3>1, <2>3, AppendProperties
  <2>. QED
    BY <2>5, <2>6
<1>3. t \in Tasks /\ Line[t] \in Seq(Created)
  BY <1>2 DEF Created
<1>4. CASE parent[t] = 0
  <2>1. Line[t] = <<t>> /\ Range(<<t>>) = {t}
    BY <1>1, <1>3, <1>4, OneCall
  <2>. QED
    BY <2>1, <1>3
<1>5. CASE parent[t] # 0
  <2>. DEFINE s == Line[parent[t]]
  <2>1. s \in Seq(Created) /\ Line[t] = Append(s, t)
    BY <1>1, <1>2, <1>3, <1>5
  <2>. HIDE DEF s
  <2>. DEFINE l == Line[t]
  <2>2. Len(s) + 1 \in 1..Len(l) /\ l[Len(s) + 1] = t /\ l \in Seq(Created)
    BY <1>3, <2>1, AppendProperties
  <2>. HIDE DEF l
  <2>3. t \in Range(l)
    BY <2>2, InRange
  <2>. QED
    BY <1>3, <1>5, <2>3 DEF l
<1>. QED
  BY <1>3, <1>4, <1>5

-----------------------------------------------------------------------------
(* A task is created.                                                      *)

LEMMA Creates ==
    ASSUME TaskTypes, NEW k \in Kinds, CanMake(k), kind' = [kind EXCEPT ![Fresh] = k]
    PROVE  /\ Fresh \in Tasks \ Created /\ Created' = Created \cup {Fresh}
           /\ \E n \in 0..MaxTasks : Created' = 1..n
           /\ \A t \in Created : t < Fresh
           /\ kind' \in [Tasks -> Kinds \cup {"none"}] /\ kind'[Fresh] = k
           /\ \A t \in Tasks \ {Fresh} : kind'[t] = kind[t]
           /\ Link \subseteq Link' /\ Frame \subseteq Frame'
<1>1. PICK n \in 0..MaxTasks : Created = 1..n
  BY DEF TaskTypes
<1>2. MaxTasks \in Nat /\ n \in Nat
  BY <1>1, TaskBounds
<1>3. Cardinality(1..n) = n
  BY <1>2, FS_Interval
<1>4. Fresh = n + 1 /\ Fresh \in Tasks
  BY <1>1, <1>3 DEF Fresh, CanMake
<1>. HIDE DEF Fresh
<1>5. kind' \in [Tasks -> Kinds \cup {"none"}] /\ kind'[Fresh] = k /\ \A t \in Tasks \ {Fresh} : kind'[t] = kind[t]
  BY <1>4 DEF TaskTypes
<1>6. Created' = Created \cup {Fresh}
  BY <1>4, <1>5 DEF Created, Kinds
<1>7. Created' = 1..(n + 1) /\ n + 1 \in 0..MaxTasks /\ Fresh \notin Created /\ \A t \in Created : t < Fresh
  BY <1>1, <1>2, <1>4, <1>6 DEF Tasks
<1>8. Link \subseteq Link'
  BY <1>6 DEF Link
<1>9. Frame \subseteq Frame'
  BY <1>6 DEF Frame
<1>. QED
  BY <1>4, <1>5, <1>6, <1>7, <1>8, <1>9

\* What is asked of the rest, and of the new task.
LEMMA Creating ==
    ASSUME TaskInv, NEW k \in Kinds, CanMake(k), kind' = [kind EXCEPT ![Fresh] = k], status' = status,
           subtasks' \in [Tasks -> Seq(Created')], parent' \in [Tasks -> Created' \cup {0}],
           chain' \in [Tasks -> SUBSET Created'], links' \in [Tasks -> Seq(Link')],
           \A t \in Tasks \ {Fresh} : subtasks'[t] = subtasks[t] /\ parent'[t] = parent[t] /\ chain'[t] = chain[t],
           parent'[Fresh] \in Created \cup {0}, Range(subtasks'[Fresh]) \subseteq Created,
           chain'[Fresh] # {} => k = "wrap",
           \A t \in Tasks : \A i \in DOMAIN links'[t] :
               \/ i \in DOMAIN links[t] /\ links'[t][i] = links[t][i]
               \/ Suits(links[t][i].to, links[t][i].how)',
           calls' = calls \/ \E f \in Frame' : calls' = <<f>> \o calls /\ f.op = "deliver" /\ Suits(f.to, f.how)'
    PROVE  TaskInv'
<1>1. TaskTypes /\ Blank /\ Fits /\ \A t \in Tasks : Agreed(t)
  BY DEF TaskInv
<1>2. /\ Fresh \in Tasks \ Created /\ Created' = Created \cup {Fresh}
      /\ \E n \in 0..MaxTasks : Created' = 1..n
      /\ \A t \in Created : t < Fresh
      /\ kind' \in [Tasks -> Kinds \cup {"none"}] /\ kind'[Fresh] = k
      /\ \A t \in Tasks \ {Fresh} : kind'[t] = kind[t]
      /\ Link \subseteq Link' /\ Frame \subseteq Frame'
  BY <1>1, Creates
<1>. DEFINE new == Fresh
<1>3. /\ new \in Tasks \ Created /\ Created' = Created \cup {new} /\ \A t \in Created : t < new
      /\ kind'[new] = k /\ \A t \in Tasks \ {new} : kind'[t] = kind[t]
      /\ \A t \in Tasks \ {new} : subtasks'[t] = subtasks[t] /\ parent'[t] = parent[t] /\ chain'[t] = chain[t]
      /\ parent'[new] \in Created \cup {0} /\ Range(subtasks'[new]) \subseteq Created /\ (chain'[new] # {} => k = "wrap")
      /\ status'[new] = "pending" /\ new \in Nat /\ 0 < new
  BY <1>1, <1>2 DEF Blank, Tasks
<1>. HIDE DEF new
<1>4. calls = <<>>
  BY DEF CanMake, Quiet
<1>5. /\ calls' \in Seq(Frame')
      /\ \A f \in Going' : Suited(f)'
      /\ calls' # <<>> => (~Over(Head(calls)))'
  <2>1. CASE calls' = calls
    BY <2>1, <1>4 DEF Going, Range
  <2>2. CASE calls' # calls
    <3>1. PICK f \in Frame' : calls' = <<f>> \o calls /\ f.op = "deliver" /\ Suits(f.to, f.how)'
      BY <2>2
    <3>2. calls' \in Seq(Frame') /\ Going' = Going \cup {f} /\ Head(calls') = f
      BY <1>1, <1>2, <3>1, Called
    <3>3. Going = {}
      BY <1>4 DEF Going, Range
    <3>. QED
      BY <3>1, <3>2, <3>3 DEF Suited, Over
  <2>. QED
    BY <2>1, <2>2
<1>6. TaskTypes'
  BY <1>1, <1>2, <1>5 DEF TaskTypes
<1>7. Blank'
  BY <1>1, <1>3 DEF Blank, TaskTypes
<1>8. Fits'
  <2>1. ASSUME NEW t \in Tasks, NEW i \in DOMAIN links'[t] PROVE Suits(links[t][i].to, links[t][i].how)'
    <3>1. CASE i \in DOMAIN links[t] /\ links'[t][i] = links[t][i]
      <4>1. links[t] \in Seq(Link) /\ links[t][i] \in Link
        BY <1>1, <3>1 DEF TaskTypes
      <4>2. links[t][i].to \in Created /\ Suits(links[t][i].to, links[t][i].how)
        BY <4>1, <1>1, <3>1 DEF Fits, Link
      <4>3. links[t][i].to \in Tasks \ {new}
        BY <4>2, <1>3 DEF Created
      <4>. QED
        BY <3>1, <4>2, <4>3, <1>3 DEF Suits
    <3>. QED
      BY <3>1
  <2>2. ASSUME NEW t \in Tasks
        PROVE  /\ parent'[t] < t
               /\ chain'[t] # {} => kind'[t] = "wrap"
               /\ kind'[t] = "group" => \A s \in Range(subtasks'[t]) : s < t
    <3>1. CASE t = new
      BY <3>1, <1>3
    <3>2. CASE t # new
      BY <3>2, <1>1, <1>3 DEF Fits
    <3>. QED
      BY <3>1, <3>2
  <2>. QED
    BY <1>5, <2>1, <2>2 DEF Fits
<1>9. ASSUME NEW t \in Tasks PROVE Agreed(t)'
  <2>1. CASE t = new
    BY <2>1, <1>3 DEF Agreed
  <2>2. CASE t # new
    <3>1. kind'[t] = kind[t] /\ subtasks'[t] = subtasks[t]
      BY <2>2, <1>3
    <3>2. Overall(subtasks[t])' = Overall(subtasks[t])
      BY <3>1 DEF Overall
    <3>. QED
      BY <3>1, <3>2, <1>1 DEF Agreed
  <2>. QED
    BY <2>1, <2>2
<1>. QED
  BY <1>6, <1>7, <1>8, <1>9 DEF TaskInv

-----------------------------------------------------------------------------
(* A call is made.                                                         *)

\* What does not change while calls are in progress, and what only grows.
Carried ==
    /\ UNCHANGED <<kind, parent, chain>>
    /\ status' \in [Tasks -> Settled \cup {"pending"}]
    /\ subtasks' \in [Tasks -> Seq(Created)] /\ links' \in [Tasks -> Seq(Link)]
    /\ \A t \in Tasks : /\ Len(subtasks[t]) <= Len(subtasks'[t])
                        /\ t \notin Created => status'[t] = status[t]
                        /\ t \notin Created \/ kind[t] = "group" => subtasks'[t] = subtasks[t]
                        /\ \A i \in DOMAIN links[t] : i \in DOMAIN links'[t] /\ links'[t][i] = links[t][i]
                        /\ \A i \in DOMAIN links'[t] \ DOMAIN links[t] : Suits(links'[t][i].to, links'[t][i].how)

LEMMA CarriedOver ==
    ASSUME Carried, links \in [Tasks -> Seq(Link)]
    PROVE  \A f \in Frame : ~Over(f) => ~Over(f)'
<1>1. SUFFICES ASSUME NEW f \in Frame, ~Over(f) PROVE ~Over(f)'
  OBVIOUS
<1>2. CASE f.op = "notify"
  <2>1. f.t \in Tasks /\ f.i \in Nat \ {0} /\ f.i <= Len(links[f.t]) /\ links[f.t] \in Seq(Link) /\ links'[f.t] \in Seq(Link)
    BY <1>1, <1>2, CallFields DEF Over, Created, Carried
  <2>2. f.i \in DOMAIN links'[f.t]
    BY <2>1 DEF Carried
  <2>. QED
    BY <1>2, <2>1, <2>2 DEF Over
<1>. QED
  BY <1>1, <1>2 DEF Over

LEMMA CarriedFits ==
    ASSUME TaskTypes, Blank, Fits, Carried, calls' \in Seq(Frame), \A f \in Going' \ Going : Suited(f),
           calls' # <<>> => Head(calls') \in Frame /\ ~Over(Head(calls'))
    PROVE  TaskTypes' /\ Blank' /\ Fits'
<1>1. Created' = Created /\ Link' = Link /\ Frame' = Frame
  BY DEF Created, Link, Frame, Carried
<1>2. TaskTypes'
  BY <1>1 DEF TaskTypes, Carried
<1>3. Blank'
  BY <1>1 DEF Blank, Carried
<1>4. ASSUME NEW t \in Tasks, NEW i \in DOMAIN links'[t] PROVE Suits(links[t][i].to, links[t][i].how)'
  <2>1. Suits(links'[t][i].to, links'[t][i].how)
    BY DEF Fits, Carried
  <2>. QED
    BY <2>1 DEF Suits, Carried
<1>5. ASSUME NEW f \in Going' PROVE Suited(f)'
  <2>1. Suited(f)
    BY DEF Fits
  <2>2. f \in Frame
    BY InRange DEF Going
  <2>3. f.t \in Tasks /\ (f.op = "abortSub" => f.n \in Nat)
    BY <2>2, CallFields DEF Created
  <2>4. Len(subtasks[f.t]) \in Nat /\ Len(subtasks'[f.t]) \in Nat /\ Len(subtasks[f.t]) <= Len(subtasks'[f.t])
    BY <2>3 DEF Carried, TaskTypes
  <2>5. f.op = "abortSub" /\ f.n <= Len(subtasks[f.t]) => f.n <= Len(subtasks'[f.t])
    BY <2>3, <2>4
  <2>. QED
    BY <2>1, <2>5 DEF Suited, Suits, Carried
<1>6. calls' # <<>> => (~Over(Head(calls)))'
  BY CarriedOver DEF TaskTypes
<1>7. \A t \in Tasks : /\ parent'[t] < t
                       /\ chain'[t] # {} => kind'[t] = "wrap"
                       /\ kind'[t] = "group" => \A s \in Range(subtasks'[t]) : s < t
  BY DEF Fits, Carried
<1>. QED
  BY <1>2, <1>3, <1>4, <1>5, <1>6, <1>7 DEF Fits

LEMMA StepFits ==
    ASSUME TaskInv, Carried, calls # <<>>, NEW new \in Seq(Frame), Return(new), \A f \in Range(new) : Suited(f)
    PROVE  /\ TaskTypes' /\ Blank' /\ Fits' /\ Went(Range(new))
           /\ Head(calls) \in Going /\ Head(calls) \in Frame
<1>1. TaskTypes /\ Blank /\ Fits
  BY DEF TaskInv
<1>2. /\ calls' \in Seq(Frame) /\ Went(Range(new))
      /\ calls' # <<>> => ~Over(Head(calls'))
      /\ Head(calls) \in Going /\ Head(calls) \in Frame
  BY <1>1, GivesWay
<1>3. calls' # <<>> => Head(calls') \in Frame
  BY <1>2, HeadTailProperties
<1>4. \A f \in Going' \ Going : Suited(f)
  BY <1>2 DEF Went
<1>. QED
  BY <1>1, <1>2, <1>3, <1>4, CarriedFits

LEMMA PushFits ==
    ASSUME TaskInv, Carried, NEW f \in Frame, calls' = <<f>> \o calls, Suited(f), f.op \notin {"notify", "abortSub"}
    PROVE  TaskTypes' /\ Blank' /\ Fits' /\ Going' = Going \cup {f}
<1>1. TaskTypes /\ Blank /\ Fits
  BY DEF TaskInv
<1>2. calls' \in Seq(Frame) /\ Going' = Going \cup {f} /\ Head(calls') = f
  BY <1>1, Called
<1>3. ~Over(f)
  BY DEF Over
<1>. QED
  BY <1>1, <1>2, <1>3, CarriedFits

LEMMA OverallIs ==
    ASSUME TaskTypes, NEW t \in Tasks
    PROVE  LET ts == subtasks[t]
           IN  /\ Overall(ts) \in Settled \cup {"pending"}
               /\ Overall(ts) = "pending" <=> \E p \in Range(ts) : status[p] = "pending"
               /\ Overall(ts) \in {"resolved", "rejected"} <=> \A p \in Range(ts) : status[p] \in {"resolved", "rejected"}
               /\ Overall(ts) = "rejected" <=> /\ \A p \in Range(ts) : status[p] \in {"resolved", "rejected"}
                                               /\ \E p \in Range(ts) : status[p] = "rejected"
<1>. DEFINE ts == subtasks[t]
            is == {status[ts[i]] : i \in DOMAIN ts}
<1>1. ts \in Seq(Created) /\ \A p \in Created : status[p] \in Settled \cup {"pending"}
  BY DEF TaskTypes, Created
<1>2. \A p \in Range(ts) : p \in Created
  BY <1>1, InRange
<1>3. is = {status[p] : p \in Range(ts)} /\ is \subseteq Settled \cup {"pending"}
  BY <1>1, <1>2 DEF Range
<1>4. Overall(ts) = CASE "pending" \in is -> "pending"
                      [] "pending" \notin is /\ "aborted" \in is -> "aborted"
                      [] is \cap {"pending", "aborted"} = {} /\ "rejected" \in is -> "rejected"
                      [] OTHER -> "resolved"
  BY DEF Overall
<1>. HIDE DEF ts, is
<1>5. CASE "pending" \in is
  BY <1>3, <1>4, <1>5 DEF ts, Settled
<1>6. CASE "pending" \notin is /\ "aborted" \in is
  BY <1>3, <1>4, <1>6 DEF ts, Settled
<1>7. CASE "pending" \notin is /\ "aborted" \notin is /\ "rejected" \in is
  <2>1. Overall(ts) = "rejected"
    BY <1>4, <1>7
  <2>. QED
    BY <1>3, <2>1, <1>7 DEF ts, Settled
<1>8. CASE "pending" \notin is /\ "aborted" \notin is /\ "rejected" \notin is
  <2>1. Overall(ts) = "resolved"
    BY <1>4, <1>8
  <2>. QED
    BY <1>3, <2>1, <1>8 DEF ts, Settled
<1>. QED
  BY <1>5, <1>6, <1>7, <1>8

LEMMA OverallStays ==
    ASSUME TaskTypes, TaskTypes', NEW t \in Tasks, subtasks'[t] = subtasks[t],
           \A p \in Range(subtasks[t]) : status'[p] = status[p]
    PROVE  Overall(subtasks[t])' = Overall(subtasks[t])
<1>. DEFINE ts == subtasks[t]
<1>1. ts \in Seq(Created)
  BY DEF TaskTypes
<1>2. \A i \in DOMAIN ts : ts[i] \in Range(ts)
  BY DEF Range
<1>. DEFINE is == {status[ts[i]] : i \in DOMAIN ts}
<1>3. {status'[ts[i]] : i \in DOMAIN ts} = is
  BY <1>2
<1>4. Overall(subtasks[t]) = CASE "pending" \in is -> "pending"
                      [] "pending" \notin is /\ "aborted" \in is -> "aborted"
                      [] is \cap {"pending", "aborted"} = {} /\ "rejected" \in is -> "rejected"
                      [] OTHER -> "resolved"
  BY DEF Overall
<1>5. Overall(subtasks[t])' = LET jj == {status'[ts[i]] : i \in DOMAIN ts} IN
                      CASE "pending" \in jj -> "pending"
                      [] "pending" \notin jj /\ "aborted" \in jj -> "aborted"
                      [] jj \cap {"pending", "aborted"} = {} /\ "rejected" \in jj -> "rejected"
                      [] OTHER -> "resolved"
  BY DEF Overall
<1>. HIDE DEF is
<1>. QED
  BY <1>3, <1>4, <1>5

\* A task counts itself settled, and nothing else changes.
LEMMA MoveFits ==
    ASSUME TaskInv, calls # <<>>, UNCHANGED <<kind, subtasks, parent, chain, links>>,
           NEW new \in Seq(Frame), Return(new), \A f \in Range(new) : Suited(f),
           NEW u \in Created, NEW s \in Settled, status' = [status EXCEPT ![u] = s],
           status[u] \in {"resolved", "rejected"} => s = status[u],
           kind[u] = "group" /\ s \in {"resolved", "rejected"} => Overall(subtasks[u]) = s
    PROVE  TaskInv' /\ Carried /\ Went(Range(new))
<1>1. TaskTypes /\ Blank /\ Fits /\ \A t \in Tasks : Agreed(t)
  BY DEF TaskInv
<1>2. u \in Tasks /\ Created \subseteq Tasks
  BY DEF Created
<1>3. Carried
  BY <1>1, <1>2 DEF Carried, TaskTypes
<1>4. TaskTypes' /\ Blank' /\ Fits' /\ Went(Range(new))
  BY <1>3, StepFits
<1>5. ASSUME NEW t \in Tasks PROVE Agreed(t)'
  <2>1. SUFFICES ASSUME kind[t] = "group", status'[t] \in {"resolved", "rejected"}
                 PROVE  Overall(subtasks[t])' = status'[t]
    BY DEF Agreed
  <2>2. Overall(subtasks[t]) = status'[t]
    <3>1. CASE t = u
      BY <3>1, <2>1, <1>1, <1>2 DEF TaskTypes
    <3>2. CASE t # u
      BY <3>2, <2>1, <1>1 DEF Agreed
    <3>. QED
      BY <3>1, <3>2
  <2>3. \A p \in Range(subtasks[t]) : status[p] \in {"resolved", "rejected"}
    BY <1>1, <2>1, <2>2, OverallIs
  <2>4. \A p \in Range(subtasks[t]) : status'[p] = status[p]
    <3>1. \A p \in Range(subtasks[t]) : p \in Tasks
      BY <1>1, <1>2, InRange DEF TaskTypes
    <3>. QED
      BY <3>1, <2>3, <1>1 DEF TaskTypes
  <2>5. Overall(subtasks[t])' = Overall(subtasks[t])
    BY <1>1, <1>4, <2>4, OverallStays
  <2>. QED
    BY <2>2, <2>5
<1>. QED
  BY <1>3, <1>4, <1>5 DEF TaskInv

LEMMA StayFits ==
    ASSUME TaskInv, calls # <<>>, UNCHANGED <<kind, status, subtasks, parent, chain, links>>,
           NEW new \in Seq(Frame), Return(new), \A f \in Range(new) : Suited(f)
    PROVE  TaskInv' /\ Carried /\ Went(Range(new))
<1>1. TaskTypes /\ \A t \in Tasks : Agreed(t)
  BY DEF TaskInv
<1>2. Carried
  BY <1>1 DEF Carried, TaskTypes
<1>3. TaskTypes' /\ Blank' /\ Fits' /\ Went(Range(new))
  BY <1>2, StepFits
<1>4. ASSUME NEW t \in Tasks PROVE Agreed(t)'
  <2>1. Overall(subtasks[t])' = Overall(subtasks[t])
    BY <1>1, <1>3, OverallStays
  <2>. QED
    BY <1>1, <2>1 DEF Agreed
<1>. QED
  BY <1>2, <1>3, <1>4 DEF TaskInv

-----------------------------------------------------------------------------
(* Every step.                                                             *)

LEMMA HeadFits ==
    ASSUME TaskInv, calls # <<>>
    PROVE  LET f == Head(calls)
           IN  f \in Frame /\ f \in Going /\ Suited(f) /\ ~Over(f) /\ f.t \in Created /\ f.t \in Tasks
<1>1. calls \in Seq(Frame)
  BY DEF TaskInv, TaskTypes
<1>2. Head(calls) \in Frame /\ Head(calls) \in Going
  BY <1>1, RangeOfStack DEF Going
<1>. QED
  BY <1>2, CallFields DEF TaskInv, Fits, Created

\* What StatusFinal asks of a step.
Final == \A t \in Tasks : status[t] \in Settled =>
            \/ status'[t] = status[t]
            \/ kind[t] = "group" /\ status[t] = "aborted" /\ status'[t] # "pending"

LEMMA SettleFits ==
    ASSUME TaskInv, calls # <<>>, SettleStep
    PROVE  LET f == Head(calls)
           IN  /\ TaskInv' /\ Carried /\ Final
               /\ Went(IF status[f.t] # "pending" THEN {} ELSE {Notify(f.t, EventOf(f.s), 1)})
<1>. DEFINE f == Head(calls)
<1>1. f \in Frame /\ Suited(f) /\ f.t \in Created /\ f.t \in Tasks /\ f.op = "settle"
  BY HeadFits DEF SettleStep
<1>2. f.s \in {"resolved", "rejected"} /\ kind[f.t] # "group"
  BY <1>1, CallFields DEF Suited
<1>3. UNCHANGED <<kind, subtasks, parent, chain, callback, links, returned>>
  BY DEF SettleStep
<1>4. CASE status[f.t] # "pending"
  <2>1. Return(<<>>) /\ status' = status
    BY <1>4 DEF SettleStep
  <2>2. <<>> \in Seq(Frame) /\ Range(<<>>) = {}
    BY NoCalls
  <2>3. TaskInv' /\ Carried /\ Went(Range(<<>>))
    BY <1>3, <2>1, <2>2, StayFits
  <2>. QED
    BY <1>4, <2>1, <2>2, <2>3 DEF Final
<1>5. CASE status[f.t] = "pending"
  <2>. DEFINE g == Notify(f.t, EventOf(f.s), 1)
              new == <<g>>
  <2>1. Return(new) /\ status' = [status EXCEPT ![f.t] = f.s]
    BY <1>5 DEF SettleStep
  <2>2. g \in Frame /\ g.op = "notify"
    BY <1>1, <1>2, Calls DEF EventOf, Events, Notify
  <2>. HIDE DEF g
  <2>3. new \in Seq(Frame) /\ Range(new) = {g} /\ Suited(g)
    BY <2>2, OneCall DEF Suited
  <2>. HIDE DEF new
  <2>. DEFINE u == f.t
              s == f.s
  <2>4. /\ u \in Created /\ s \in Settled /\ status' = [status EXCEPT ![u] = s] /\ kind[u] # "group"
        /\ status[u] = "pending" /\ \A h \in Range(new) : Suited(h)
    BY <1>1, <1>2, <1>5, <2>1, <2>3 DEF Settled
  <2>. HIDE DEF u, s, f
  <2>5. TaskInv' /\ Carried /\ Went(Range(new))
    BY <1>3, <2>1, <2>3, <2>4, MoveFits
  <2>6. Final
    BY <2>4 DEF Final, TaskInv, TaskTypes, Settled
  <2>. QED
    BY <1>5, <2>3, <2>5, <2>6 DEF f, g
<1>. QED
  BY <1>4, <1>5

LEMMA AbortFits ==
    ASSUME TaskInv, calls # <<>>, AbortStep
    PROVE  LET f == Head(calls)
           IN  /\ TaskInv' /\ Carried /\ Final
               /\ Went(IF status[f.t] # "pending" THEN {}
                       ELSE {AbortSub(f.t, 1, Len(subtasks[f.t])), Notify(f.t, "abort", 1)})
<1>. DEFINE f == Head(calls)
<1>1. f \in Frame /\ f.t \in Created /\ f.t \in Tasks /\ f.op = "abort"
  BY HeadFits DEF AbortStep
<1>3. UNCHANGED <<kind, subtasks, parent, chain, callback, links, returned>>
  BY DEF AbortStep
<1>4. CASE status[f.t] # "pending"
  <2>1. Return(<<>>) /\ status' = status
    BY <1>4 DEF AbortStep
  <2>2. <<>> \in Seq(Frame) /\ Range(<<>>) = {}
    BY NoCalls
  <2>3. TaskInv' /\ Carried /\ Went(Range(<<>>))
    BY <1>3, <2>1, <2>2, StayFits
  <2>. QED
    BY <1>4, <2>1, <2>2, <2>3 DEF Final
<1>5. CASE status[f.t] = "pending"
  <2>. DEFINE g == AbortSub(f.t, 1, Len(subtasks[f.t]))
              h == Notify(f.t, "abort", 1)
              new == <<g, h>>
  <2>1. Return(new) /\ status' = [status EXCEPT ![f.t] = "aborted"]
    BY <1>5 DEF AbortStep
  <2>2. g \in Frame /\ h \in Frame /\ Suited(g) /\ Suited(h)
    <3>1. subtasks[f.t] \in Seq(Created)
      BY <1>1 DEF TaskInv, TaskTypes
    <3>2. Len(subtasks[f.t]) \in Nat
      BY <3>1
    <3>. QED
      BY <1>1, <3>2, Calls DEF Events, Notify, AbortSub, Suited
  <2>. HIDE DEF g, h
  <2>3. new \in Seq(Frame) /\ Range(new) = {g, h}
    BY <2>2, TwoCalls
  <2>. HIDE DEF new
  <2>. DEFINE u == f.t
              s == "aborted"
  <2>4. /\ u \in Created /\ s \in Settled /\ status' = [status EXCEPT ![u] = s] /\ s = "aborted"
        /\ status[u] = "pending" /\ \A e \in Range(new) : Suited(e)
    BY <1>1, <1>5, <2>1, <2>2, <2>3 DEF Settled
  <2>. HIDE DEF u, s, f
  <2>5. TaskInv' /\ Carried /\ Went(Range(new))
    BY <1>3, <2>1, <2>3, <2>4, MoveFits
  <2>6. Final
    BY <2>4 DEF Final, TaskInv, TaskTypes, Settled
  <2>. QED
    BY <1>5, <2>3, <2>5, <2>6 DEF f, g, h
<1>. QED
  BY <1>4, <1>5

LEMMA GroupFits ==
    ASSUME TaskInv, calls # <<>>, DeliverGroup
    PROVE  LET f == Head(calls)  s == Overall(subtasks[f.to])
           IN  /\ TaskInv' /\ Carried /\ Final
               /\ kind[f.to] = "group" /\ f.to \in Created
               /\ Went(IF s = "pending" THEN {} ELSE {Notify(f.to, EventOf(s), 1)})
<1>. DEFINE f == Head(calls)
            u == f.to
            s == Overall(subtasks[u])
<1>1. f \in Frame /\ Suited(f) /\ f.op = "deliver" /\ f.how = "group"
  BY HeadFits DEF DeliverGroup
<1>2. u \in Created /\ u \in Tasks /\ kind[u] = "group"
  BY <1>1, CallFields DEF Suited, Suits, Created
<1>3. UNCHANGED <<kind, subtasks, parent, chain, callback, links, returned>>
  BY DEF DeliverGroup
<1>t. TaskTypes /\ Agreed(u)
  BY <1>2 DEF TaskInv
<1>o. s \in Settled \cup {"pending"}
  BY <1>t, <1>2, OverallIs
<1>4. CASE s = "pending"
  <2>1. Return(<<>>) /\ status' = status
    BY <1>4 DEF DeliverGroup
  <2>2. <<>> \in Seq(Frame) /\ Range(<<>>) = {}
    BY NoCalls
  <2>3. TaskInv' /\ Carried /\ Went(Range(<<>>))
    BY <1>3, <2>1, <2>2, StayFits
  <2>. QED
    BY <1>2, <1>4, <2>1, <2>2, <2>3 DEF Final
<1>5. CASE s # "pending"
  <2>. DEFINE g == Notify(u, EventOf(s), 1)
              new == <<g>>
  <2>1. Return(new) /\ status' = [status EXCEPT ![u] = s]
    BY <1>5 DEF DeliverGroup
  <2>2. g \in Frame /\ g.op = "notify"
    BY <1>2, Calls DEF EventOf, Events, Notify
  <2>. HIDE DEF g
  <2>3. new \in Seq(Frame) /\ Range(new) = {g} /\ Suited(g)
    BY <2>2, OneCall DEF Suited
  <2>. HIDE DEF new
  <2>4. /\ s \in Settled /\ (status[u] \in {"resolved", "rejected"} => s = status[u])
        /\ \A h \in Range(new) : Suited(h)
    BY <1>2, <1>o, <1>5, <1>t, <2>3 DEF Agreed
  <2>s. s = Overall(subtasks[u])
    OBVIOUS
  <2>. HIDE DEF s, u, f
  <2>5. TaskInv' /\ Carried /\ Went(Range(new))
    BY <1>2, <1>3, <2>1, <2>3, <2>4, <2>s, MoveFits
  <2>6. Final
    BY <1>2, <1>t, <2>1, <2>4 DEF Final, TaskTypes, Settled
  <2>. QED
    BY <1>2, <1>5, <2>3, <2>5, <2>6 DEF f, g, s, u
<1>. QED
  BY <1>4, <1>5

\* The steps that only make calls.
Passes(new) == UNCHANGED <<kind, status, subtasks, parent, chain, links>> /\ Return(new)

LEMMA PassFits ==
    ASSUME TaskInv, calls # <<>>, NEW new \in Seq(Frame), Passes(new), \A f \in Range(new) : Suited(f)
    PROVE  TaskInv' /\ Carried /\ Final /\ Went(Range(new))
<1>1. TaskInv' /\ Carried /\ Went(Range(new))
  BY StayFits DEF Passes
<1>. QED
  BY <1>1 DEF Final, Passes

LEMMA AbortSubFits ==
    ASSUME TaskInv, calls # <<>>, AbortSubStep
    PROVE  LET f == Head(calls)
           IN  /\ TaskInv' /\ Carried /\ Final /\ status' = status /\ subtasks' = subtasks
               /\ Went({Abort(subtasks[f.t][f.i]), AbortSub(f.t, f.i + 1, f.n)})
               /\ f.i \in 1..f.n /\ f.n \in Nat /\ f.n <= Len(subtasks[f.t])
<1>. DEFINE f == Head(calls)
            ts == subtasks[f.t]
<1>1. f \in Frame /\ Suited(f) /\ f.op = "abortSub" /\ ~Over(f) /\ f.t \in Created /\ f.t \in Tasks
  BY HeadFits DEF AbortSubStep
<1>2. ts \in Seq(Created) /\ f.i \in Nat \ {0} /\ f.n \in Nat /\ f.i <= f.n /\ f.n <= Len(ts)
  BY <1>1, CallFields DEF TaskInv, TaskTypes, Over, Suited
<1>. DEFINE g == Abort(ts[f.i])
            h == AbortSub(f.t, f.i + 1, f.n)
            new == <<g, h>>
<1>3. ts[f.i] \in Created /\ f.i + 1 \in Nat \ {0}
  BY <1>2
<1>4. g \in Frame /\ h \in Frame /\ Suited(g) /\ Suited(h)
  <2>1. g \in Frame /\ h \in Frame
    BY <1>1, <1>2, <1>3, Calls
  <2>. QED
    BY <2>1, <1>2 DEF Suited, Abort, AbortSub
<1>5. Passes(new) /\ status' = status /\ subtasks' = subtasks
  BY DEF AbortSubStep, Passes
<1>. HIDE DEF g, h
<1>6. new \in Seq(Frame) /\ Range(new) = {g, h}
  BY <1>4, TwoCalls
<1>. HIDE DEF new
<1>7. TaskInv' /\ Carried /\ Final /\ Went(Range(new))
  BY <1>4, <1>5, <1>6, PassFits
<1>. QED
  BY <1>2, <1>5, <1>6, <1>7 DEF g, h

LEMMA UpFits ==
    ASSUME TaskInv, calls # <<>>, UpStep
    PROVE  /\ TaskInv' /\ Carried /\ Final /\ status' = status /\ subtasks' = subtasks
           /\ \E new : Went(new) /\ \A f \in new : f.op \in {"abort", "up"}
<1>. DEFINE f == Head(calls)
            p == parent[f.t]
<1>1. f.t \in Tasks /\ p \in Created \cup {0}
  BY HeadFits DEF TaskInv, TaskTypes
<1>. DEFINE new == IF p # 0 /\ status[p] = "pending" THEN <<Abort(p), Up(p)>> ELSE <<>>
<1>2. Passes(new) /\ status' = status /\ subtasks' = subtasks
  BY DEF UpStep, Passes
<1>3. new \in Seq(Frame) /\ \A g \in Range(new) : g.op \in {"abort", "up"}
  <2>1. CASE p # 0 /\ status[p] = "pending"
    <3>. DEFINE g == Abort(p)
                h == Up(p)
    <3>1. g \in Frame /\ h \in Frame /\ g.op = "abort" /\ h.op = "up" /\ new = <<g, h>>
      BY <1>1, <2>1, Calls DEF Abort, Up
    <3>. HIDE DEF g, h, new
    <3>. QED
      BY <3>1, TwoCalls
  <2>2. CASE ~(p # 0 /\ status[p] = "pending")
    BY <2>2, NoCalls
  <2>. QED
    BY <2>1, <2>2
<1>. HIDE DEF new
<1>4. TaskInv' /\ Carried /\ Final /\ Went(Range(new))
  BY <1>2, <1>3, PassFits DEF Suited
<1>. QED
  BY <1>2, <1>3, <1>4

LEMMA NotifyFits ==
    ASSUME TaskInv, calls # <<>>, NotifyStep
    PROVE  LET f == Head(calls)  l == links[f.t][f.i]
           IN  /\ TaskInv' /\ Carried /\ Final /\ status' = status /\ subtasks' = subtasks
               /\ Went({Deliver(l.to, l.how, f.t, f.e), Notify(f.t, f.e, f.i + 1)})
               /\ f.i \in DOMAIN links[f.t] /\ l \in Link /\ f.i \in Nat
<1>. DEFINE f == Head(calls)
            ls == links[f.t]
            l == ls[f.i]
<1>1. f \in Frame /\ f.op = "notify" /\ ~Over(f) /\ f.t \in Created /\ f.t \in Tasks
  BY HeadFits DEF NotifyStep
<1>2. ls \in Seq(Link) /\ f.i \in Nat \ {0} /\ f.i <= Len(ls) /\ f.e \in Events
  BY <1>1, CallFields DEF TaskInv, TaskTypes, Over
<1>3. f.i \in DOMAIN ls /\ l \in Link /\ f.i + 1 \in Nat \ {0}
  BY <1>2
<1>4. Suits(l.to, l.how) /\ l.to \in Created /\ l.how \in Hows
  BY <1>1, <1>3 DEF TaskInv, Fits, Link
<1>. DEFINE g == Deliver(l.to, l.how, f.t, f.e)
            h == Notify(f.t, f.e, f.i + 1)
            new == <<g, h>>
<1>5. Passes(new) /\ status' = status /\ subtasks' = subtasks
  BY DEF NotifyStep, Passes
<1>. HIDE DEF l
<1>6. g \in Frame /\ h \in Frame /\ Suited(g) /\ Suited(h)
  <2>1. g \in Frame /\ h \in Frame
    BY <1>1, <1>2, <1>3, <1>4, Calls
  <2>. QED
    BY <2>1, <1>4 DEF Suited, Deliver, Notify
<1>. HIDE DEF g, h
<1>7. new \in Seq(Frame) /\ Range(new) = {g, h}
  BY <1>6, TwoCalls
<1>. HIDE DEF new
<1>8. TaskInv' /\ Carried /\ Final /\ Went(Range(new))
  BY <1>5, <1>6, <1>7, PassFits
<1>. QED
  BY <1>2, <1>3, <1>5, <1>7, <1>8 DEF g, h, l

LEMMA ThenFits ==
    ASSUME TaskInv, calls # <<>>, DeliverThen
    PROVE  LET f == Head(calls)
           IN  /\ TaskInv' /\ Carried /\ Final /\ status' = status /\ subtasks' = subtasks
               /\ kind[f.to] = "then" /\ f.to \in Created
               /\ IF status[f.to] = "aborted" THEN Went({})
                  ELSE \E g : /\ Went({g}) /\ g.t = f.to /\ g.op \in {"run", "settle", "abort"}
<1>. DEFINE f == Head(calls)
            c == f.to
<1>1. f \in Frame /\ Suited(f) /\ f.op = "deliver" /\ f.how = "then"
  BY HeadFits DEF DeliverThen
<1>2. c \in Created /\ f.e \in Events /\ kind[c] = "then"
  BY <1>1, CallFields DEF Suited, Suits
<1>. DEFINE g == IF callback[c][f.e] # "none" THEN Running(c, f.e)
                 ELSE CASE f.e = "finish" -> Settle(c, "resolved")
                        [] f.e = "fail" -> Settle(c, "rejected")
                        [] f.e = "abort" -> Abort(c)
            new == IF status[c] = "aborted" THEN <<>> ELSE <<g>>
<1>3. Passes(new) /\ status' = status /\ subtasks' = subtasks
  BY DEF DeliverThen, Passes
<1>4. g \in Frame /\ Suited(g) /\ g.t = c /\ g.op \in {"run", "settle", "abort"}
  <2>1. CASE callback[c][f.e] # "none"
    BY <2>1, <1>2, Calls DEF Suited, Running
  <2>2. CASE callback[c][f.e] = "none" /\ f.e = "finish"
    BY <2>2, <1>2, Calls DEF Suited, Settle
  <2>3. CASE callback[c][f.e] = "none" /\ f.e = "fail"
    BY <2>3, <1>2, Calls DEF Suited, Settle
  <2>4. CASE callback[c][f.e] = "none" /\ f.e = "abort"
    BY <2>4, <1>2, Calls DEF Suited, Abort
  <2>. QED
    BY <2>1, <2>2, <2>3, <2>4, <1>2 DEF Events
<1>. HIDE DEF g
<1>5. new \in Seq(Frame) /\ Range(new) = IF status[c] = "aborted" THEN {} ELSE {g}
  BY <1>4, OneCall, NoCalls
<1>. HIDE DEF new
<1>6. TaskInv' /\ Carried /\ Final /\ Went(Range(new))
  BY <1>3, <1>4, <1>5, PassFits
<1>. QED
  BY <1>2, <1>3, <1>4, <1>5, <1>6

LEMMA AdoptFits ==
    ASSUME TaskInv, calls # <<>>, DeliverAdopt
    PROVE  LET f == Head(calls)
           IN  /\ TaskInv' /\ Carried /\ Final /\ status' = status /\ subtasks' = subtasks
               /\ kind[f.to] \in {"then", "wrap"} /\ f.to \in Created
               /\ IF f.e = "abort" THEN Went({})
                  ELSE \E g : /\ Went({g}) /\ g.t = f.to /\ g.op = "settle"
<1>. DEFINE f == Head(calls)
            c == f.to
<1>1. f \in Frame /\ Suited(f) /\ f.op = "deliver" /\ f.how = "adopt"
  BY HeadFits DEF DeliverAdopt
<1>2. c \in Created /\ f.e \in Events /\ kind[c] \in {"then", "wrap"}
  BY <1>1, CallFields DEF Suited, Suits
<1>. DEFINE g == Settle(c, IF f.e = "finish" THEN "resolved" ELSE "rejected")
            new == IF f.e = "abort" THEN <<>> ELSE <<g>>
<1>3. Passes(new) /\ status' = status /\ subtasks' = subtasks
  BY <1>2 DEF DeliverAdopt, Passes, Events
<1>4. g \in Frame /\ Suited(g) /\ g.t = c /\ g.op = "settle"
  BY <1>2, Calls DEF Suited, Settle
<1>. HIDE DEF g
<1>5. new \in Seq(Frame) /\ Range(new) = IF f.e = "abort" THEN {} ELSE {g}
  BY <1>4, OneCall, NoCalls
<1>. HIDE DEF new
<1>6. TaskInv' /\ Carried /\ Final /\ Went(Range(new))
  BY <1>3, <1>4, <1>5, PassFits
<1>. QED
  BY <1>2, <1>3, <1>4, <1>5, <1>6

LEMMA CallbackEndsFits ==
    ASSUME TaskInv, calls # <<>>, CallbackEnds
    PROVE  LET f == Head(calls)
           IN  /\ TaskInv' /\ Carried /\ Final /\ status' = status /\ subtasks' = subtasks
               /\ f.t \in Created
               /\ \E g : Went({g}) /\ g.t = f.t /\ g.op = "settle"
<1>. DEFINE f == Head(calls)
            g == Settle(f.t, IF callback[f.t][f.e] = "value" THEN "resolved" ELSE "rejected")
            new == <<g>>
<1>1. f \in Frame /\ Suited(f) /\ f.op = "run" /\ f.t \in Created
  BY HeadFits DEF CallbackEnds
<1>2. g \in Frame /\ Suited(g) /\ g.t = f.t /\ g.op = "settle"
  BY <1>1, Calls DEF Suited, Settle
<1>3. Passes(new) /\ status' = status /\ subtasks' = subtasks
  BY DEF CallbackEnds, Passes
<1>. HIDE DEF g
<1>4. new \in Seq(Frame) /\ Range(new) = {g}
  BY <1>2, OneCall
<1>. HIDE DEF new
<1>5. TaskInv' /\ Carried /\ Final /\ Went(Range(new))
  BY <1>2, <1>3, <1>4, PassFits
<1>. QED
  BY <1>1, <1>2, <1>3, <1>4, <1>5

\* A sequence that holds r instead of some element.
LEMMA Replaced ==
    ASSUME NEW S, NEW s \in Seq(S), NEW r \in S, NEW z \in [1..Len(s) -> S], \A i \in 1..Len(s) : z[i] \in {s[i], r}
    PROVE  z \in Seq(S) /\ Len(z) = Len(s) /\ Range(z) \subseteq Range(s) \cup {r}
<1>1. z \in Seq(S) /\ Len(z) = Len(s)
  OBVIOUS
<1>2. \A i \in 1..Len(z) : z[i] \in Range(s) \cup {r}
  BY <1>1 DEF Range
<1>. QED
  BY <1>1, <1>2 DEF Range

\* A task is returned: it goes to its continuation, and in its place in the wrappers.
LEMMA NextTaskIs ==
    ASSUME TaskInv, NEW c \in Created, kind[c] = "then", NEW r \in Created, subtasks' = NextTask(subtasks, c, r)
    PROVE  /\ subtasks' \in [Tasks -> Seq(Created)]
           /\ subtasks'[c] = Append(subtasks[c], r)
           /\ \A t \in Tasks : /\ Len(subtasks[t]) <= Len(subtasks'[t])
                               /\ t # c /\ chain[t] = {} => subtasks'[t] = subtasks[t]
                               /\ t \notin Created \/ kind[t] = "group" => subtasks'[t] = subtasks[t]
<1>1. /\ c \in Tasks /\ subtasks \in [Tasks -> Seq(Created)]
      /\ \A t \in Tasks : /\ chain[t] # {} => kind[t] = "wrap"
                          /\ t \notin Created => chain[t] = {}
  BY DEF TaskInv, TaskTypes, Fits, Blank, Created
<1>2. ASSUME NEW t \in Tasks
      PROVE  /\ subtasks'[t] \in Seq(Created) /\ Len(subtasks[t]) <= Len(subtasks'[t])
             /\ t # c /\ chain[t] = {} => subtasks'[t] = subtasks[t]
  <2>. DEFINE s == subtasks[t]
  <2>1. s \in Seq(Created) /\ Len(s) \in Nat
    BY <1>1
  <2>2. CASE t = c
    <3>1. subtasks'[t] = Append(s, r)
      BY <2>2 DEF NextTask
    <3>. HIDE DEF s
    <3>. QED
      BY <3>1, <2>1, <2>2, AppendProperties DEF s
  <2>3. CASE t # c /\ c \in chain[t] /\ c \in Range(s)
    <3>. DEFINE k == FirstIndex(s, c)
                z == [s EXCEPT ![k] = r]
    <3>1. subtasks'[t] = z
      BY <2>3 DEF NextTask
    <3>. HIDE DEF k
    <3>2. z \in Seq(Created) /\ Len(z) = Len(s)
      <4>. HIDE DEF s, z
      <4>1. z = [s EXCEPT ![k] = r] /\ s \in [1..Len(s) -> Created]
        BY <2>1 DEF z
      <4>. DEFINE n == Len(s)
      <4>2. z \in [1..n -> Created] /\ \A i \in 1..n : z[i] \in {s[i], r}
        <5>. HIDE DEF n
        <5>. QED
          BY <4>1 DEF n
      <4>. QED
        BY <2>1, <4>2, Replaced, SMTT(30)
    <3>. HIDE DEF z, s
    <3>. QED
      BY <3>1, <3>2, <2>1, <2>3 DEF s
  <2>4. CASE t # c /\ ~(c \in chain[t] /\ c \in Range(s))
    <3>1. subtasks'[t] = s
      BY <2>4 DEF NextTask
    <3>. QED
      BY <3>1, <2>1, <2>4
  <2>. QED
    BY <2>2, <2>3, <2>4
<1>3. subtasks'[c] = Append(subtasks[c], r) /\ subtasks' = [t \in Tasks |-> subtasks'[t]]
  BY <1>1 DEF NextTask
<1>. QED
  BY <1>1, <1>2, <1>3

LEMMA ReturnsFits ==
    ASSUME TaskInv, calls # <<>>, CallbackReturnsTask
    PROVE  LET c == Head(calls).t
           IN  /\ TaskInv' /\ Carried /\ Final /\ status' = status
               /\ c \in Created /\ c \in Tasks /\ kind[c] = "then"
               /\ \E r \in Created :
                    /\ kind[r] = "root"
                    /\ subtasks'[c] = Append(subtasks[c], r)
                    /\ \A t \in Tasks : t # c /\ chain[t] = {} => subtasks'[t] = subtasks[t]
                    /\ IF status[r] = "pending"
                       THEN links' = [links EXCEPT ![r] = Append(@, [to |-> c, how |-> "adopt"])] /\ Went({})
                       ELSE links' = links /\ Went(IF status[r] = "aborted" THEN {} ELSE {Settle(c, status[r])})
<1>. DEFINE c == Head(calls).t
<1>1. c \in Created /\ c \in Tasks /\ kind[c] = "then"
  BY HeadFits DEF CallbackReturnsTask, Suited
<1>2. PICK r \in {t \in Created : kind[t] = "root"} :
         /\ subtasks' = NextTask(subtasks, c, r)
         /\ IF status[r] = "pending"
            THEN /\ links' = [links EXCEPT ![r] = Append(@, [to |-> c, how |-> "adopt"])]
                 /\ Return(<<>>)
            ELSE /\ links' = links
                 /\ Return(IF status[r] = "aborted" THEN <<>> ELSE <<Settle(c, status[r])>>)
  BY DEF CallbackReturnsTask
<1>u. UNCHANGED <<kind, status, parent, chain>>
  BY DEF CallbackReturnsTask
<1>. HIDE DEF c
<1>t. TaskTypes /\ \A t \in Tasks : Agreed(t)
  BY DEF TaskInv
<1>r. r \in Created /\ r \in Tasks /\ status[r] \in Settled \cup {"pending"}
  BY <1>t DEF Created, TaskTypes
<1>3. /\ subtasks' \in [Tasks -> Seq(Created)]
      /\ subtasks'[c] = Append(subtasks[c], r)
      /\ \A t \in Tasks : /\ Len(subtasks[t]) <= Len(subtasks'[t])
                          /\ t # c /\ chain[t] = {} => subtasks'[t] = subtasks[t]
                          /\ t \notin Created \/ kind[t] = "group" => subtasks'[t] = subtasks[t]
  BY <1>1, <1>2, NextTaskIs
<1>4. /\ links' \in [Tasks -> Seq(Link)]
      /\ \A t \in Tasks : /\ \A i \in DOMAIN links[t] : i \in DOMAIN links'[t] /\ links'[t][i] = links[t][i]
                          /\ \A i \in DOMAIN links'[t] \ DOMAIN links[t] : Suits(links'[t][i].to, links'[t][i].how)
  <2>1. CASE status[r] # "pending"
    BY <2>1, <1>2, <1>t DEF TaskTypes
  <2>2. CASE status[r] = "pending"
    <3>. DEFINE l == [to |-> c, how |-> "adopt"]
    <3>1. l \in Link /\ Suits(l.to, l.how)
      BY <1>1 DEF Link, Hows, Suits
    <3>2. links' = [links EXCEPT ![r] = Append(@, l)] /\ links[r] \in Seq(Link) /\ links \in [Tasks -> Seq(Link)]
      BY <1>2, <1>t, <1>r, <2>2 DEF TaskTypes
    <3>. HIDE DEF l
    <3>. DEFINE ls == Append(links[r], l)
    <3>3. ls \in Seq(Link) /\ Len(ls) = Len(links[r]) + 1 /\ ls[Len(links[r]) + 1] = l /\ \A i \in 1..Len(links[r]) : ls[i] = links[r][i]
      BY <3>1, <3>2, AppendProperties
    <3>4. links'[r] = ls /\ links' = [links EXCEPT ![r] = ls] /\ \A t \in Tasks \ {r} : links'[t] = links[t]
      BY <3>2, <1>r
    <3>. HIDE DEF ls
    <3>. DEFINE n == Len(links[r])
    <3>d. DOMAIN links[r] = 1..n /\ DOMAIN ls = 1..(n + 1) /\ n \in Nat
      BY <3>2, <3>3
    <3>5. links' \in [Tasks -> Seq(Link)]
      BY <3>2, <3>3, <3>4
    <3>6. \A i \in DOMAIN links[r] : i \in DOMAIN ls /\ ls[i] = links[r][i]
      BY <3>3, <3>d
    <3>7. \A i \in DOMAIN ls \ DOMAIN links[r] : ls[i] = l
      <4>1. \A i \in DOMAIN ls \ DOMAIN links[r] : i = n + 1
        <5>. HIDE DEF n
        <5>. QED
          BY <3>d
      <4>. QED
        BY <4>1, <3>3
    <3>. QED
      BY <3>1, <3>4, <3>5, <3>6, <3>7
  <2>. QED
    BY <2>1, <2>2
<1>5. Carried
  BY <1>u, <1>3, <1>4, <1>t DEF Carried, TaskTypes
<1>. DEFINE g == Settle(c, status[r])
            new == IF status[r] \in {"pending", "aborted"} THEN <<>> ELSE <<g>>
<1>6. Return(new)
  BY <1>2
<1>7. new \in Seq(Frame) /\ Range(new) = IF status[r] \in {"pending", "aborted"} THEN {} ELSE {g}
  <2>1. CASE status[r] \in {"pending", "aborted"}
    BY <2>1, NoCalls
  <2>2. CASE status[r] \in {"resolved", "rejected"}
    <3>1. g \in Frame
      BY <1>1, <2>2, Calls
    <3>. HIDE DEF g
    <3>. QED
      BY <3>1, <2>2, OneCall
  <2>. QED
    BY <2>1, <2>2, <1>r DEF Settled
<1>8. \A f \in Range(new) : Suited(f)
  BY <1>1, <1>7 DEF Suited, Settle
<1>. HIDE DEF new
<1>9. TaskTypes' /\ Blank' /\ Fits' /\ Went(Range(new))
  BY <1>5, <1>6, <1>7, <1>8, StepFits
<1>10. ASSUME NEW t \in Tasks PROVE Agreed(t)'
  <2>1. SUFFICES ASSUME kind[t] = "group" PROVE Agreed(t)'
    BY <1>u DEF Agreed
  <2>2. subtasks'[t] = subtasks[t]
    BY <2>1, <1>3
  <2>3. Overall(subtasks[t])' = Overall(subtasks[t])
    BY <1>t, <1>9, <1>u, <2>2, OverallStays
  <2>. QED
    BY <2>1, <2>3, <1>u, <1>t DEF Agreed
<1>11. TaskInv' /\ Final
  BY <1>9, <1>10, <1>u DEF TaskInv, Final
<1>12. Went(IF status[r] \in {"pending", "aborted"} THEN {} ELSE {g})
  BY <1>7, <1>9
<1>. HIDE DEF g
<1>13. /\ r \in Created /\ kind[r] = "root"
       /\ IF status[r] = "pending"
          THEN links' = [links EXCEPT ![r] = Append(@, [to |-> c, how |-> "adopt"])] /\ Went({})
          ELSE links' = links /\ Went(IF status[r] = "aborted" THEN {} ELSE {g})
  BY <1>2, <1>12
<1>. QED
  BY <1>1, <1>3, <1>5, <1>11, <1>13, <1>u DEF g, c

LEMMA Appended ==
    ASSUME NEW S, NEW s \in Seq(S), NEW l \in S
    PROVE  LET z == Append(s, l)
           IN  /\ z \in Seq(S) /\ Range(z) = Range(s) \cup {l}
               /\ \A i \in DOMAIN s : i \in DOMAIN z /\ z[i] = s[i]
               /\ \A i \in DOMAIN z \ DOMAIN s : z[i] = l
               /\ \E i \in DOMAIN z : z[i] = l
<1>. DEFINE z == Append(s, l)
            n == Len(s)
<1>1. z \in Seq(S) /\ Len(z) = n + 1 /\ z[n + 1] = l /\ n \in Nat /\ \A i \in 1..n : z[i] = s[i]
  BY AppendProperties
<1>2. DOMAIN z = 1..(n + 1) /\ DOMAIN s = 1..n
  BY <1>1
<1>. HIDE DEF z, n
<1>3. 1..(n + 1) = 1..n \cup {n + 1}
  BY <1>1
<1>4. \A x : x \in Range(z) <=> x \in Range(s) \cup {l}
  BY <1>1, <1>2, <1>3 DEF Range
<1>5. /\ \A i \in DOMAIN s : i \in DOMAIN z /\ z[i] = s[i]
      /\ \A i \in DOMAIN z \ DOMAIN s : z[i] = l
      /\ \E i \in DOMAIN z : z[i] = l
  BY <1>1, <1>2, <1>3
<1>. QED
  BY <1>1, <1>4, <1>5 DEF z

\* A listener is added at the end.
LEMMA LinkGrows ==
    ASSUME NEW S, NEW l \in S, NEW ls, NEW T, ls \in [T -> Seq(S)], NEW p \in T, NEW after, after = [ls EXCEPT ![p] = Append(@, l)]
    PROVE  /\ after \in [T -> Seq(S)]
           /\ \A t \in T \ {p} : after[t] = ls[t]
           /\ \A i \in DOMAIN ls[p] : i \in DOMAIN after[p] /\ after[p][i] = ls[p][i]
           /\ \A i \in DOMAIN after[p] \ DOMAIN ls[p] : after[p][i] = l
           /\ \E i \in DOMAIN after[p] : after[p][i] = l
<1>. DEFINE s == ls[p]
            new == Append(s, l)
<1>1. s \in Seq(S) /\ after[p] = new /\ after = [ls EXCEPT ![p] = new] /\ \A t \in T \ {p} : after[t] = ls[t]
  OBVIOUS
<1>. HIDE DEF s
<1>2. /\ new \in Seq(S)
      /\ \A i \in DOMAIN s : i \in DOMAIN new /\ new[i] = s[i]
      /\ \A i \in DOMAIN new \ DOMAIN s : new[i] = l
      /\ \E i \in DOMAIN new : new[i] = l
  BY <1>1, Appended
<1>. HIDE DEF new
<1>3. after \in [T -> Seq(S)]
  BY <1>1, <1>2
<1>. QED
  BY <1>1, <1>2, <1>3 DEF s

LEMMA JoinFits ==
    ASSUME TaskTypes, Link \subseteq Link', NEW c \in Created', NEW how \in Hows, NEW p \in Created, p \in Created',
           Joined(c, how, p, links), Suits(c, how)'
    PROVE  /\ links' \in [Tasks -> Seq(Link')]
           /\ \A t \in Tasks : \A i \in DOMAIN links'[t] :
               \/ i \in DOMAIN links[t] /\ links'[t][i] = links[t][i]
               \/ Suits(links[t][i].to, links[t][i].how)'
           /\ calls' = calls \/ \E f \in Frame' : calls' = <<f>> \o calls /\ f.op = "deliver" /\ Suits(f.to, f.how)'
<1>1. p \in Tasks /\ status[p] \in Settled \cup {"pending"} /\ links \in [Tasks -> Seq(Link')]
  BY SeqGrows DEF TaskTypes, Created
<1>2. CASE status[p] = "pending"
  <2>. DEFINE l == [to |-> c, how |-> how]
  <2>1. l \in Link' /\ l.to = c /\ l.how = how
    BY DEF Link
  <2>2. calls' = calls /\ links' = [links EXCEPT ![p] = Append(@, l)]
    BY <1>2 DEF Joined
  <2>. HIDE DEF l
  <2>3. /\ links' \in [Tasks -> Seq(Link')]
        /\ \A t \in Tasks \ {p} : links'[t] = links[t]
        /\ \A i \in DOMAIN links'[p] \ DOMAIN links[p] : links'[p][i] = l
        /\ \A i \in DOMAIN links[p] : links'[p][i] = links[p][i]
    BY <1>1, <2>1, <2>2, LinkGrows, SMTT(30)
  <2>. QED
    BY <2>1, <2>2, <2>3
<1>3. CASE status[p] # "pending"
  <2>. DEFINE e == CASE status[p] = "resolved" -> "finish"
                     [] status[p] = "rejected" -> "fail"
                     [] status[p] = "aborted" -> "abort"
              f == Deliver(c, how, p, e)
  <2>1. links' = links /\ calls' = <<f>> \o calls
    BY <1>3 DEF Joined
  <2>2. e \in Events
    BY <1>1, <1>3 DEF Settled, Events
  <2>3. f \in Frame' /\ f.op = "deliver" /\ f.to = c /\ f.how = how
    <3>. HIDE DEF e
    <3>. QED
      BY <2>2 DEF Deliver, Frame
  <2>. HIDE DEF f
  <2>. QED
    BY <1>1, <2>1, <2>3
<1>. QED
  BY <1>2, <1>3

LEMMA NewTaskFits ==
    ASSUME TaskInv, NewTask
    PROVE  TaskInv' /\ Final
<1>1. /\ CanMake("root") /\ kind' = [kind EXCEPT ![Fresh] = "root"] /\ "root" \in Kinds
      /\ UNCHANGED <<status, subtasks, parent, chain, links, calls>>
  BY DEF NewTask, Kinds
<1>t. TaskTypes /\ Blank
  BY DEF TaskInv
<1>2. Fresh \in Tasks \ Created /\ Created' = Created \cup {Fresh} /\ Link \subseteq Link'
  BY <1>t, <1>1, Creates
<1>3. /\ subtasks' \in [Tasks -> Seq(Created')] /\ parent' \in [Tasks -> Created' \cup {0}]
      /\ chain' \in [Tasks -> SUBSET Created'] /\ links' \in [Tasks -> Seq(Link')]
      /\ parent'[Fresh] = 0 /\ chain'[Fresh] = {} /\ subtasks'[Fresh] = <<>>
  <2>1. subtasks' \in [Tasks -> Seq(Created')]
    BY <1>1, <1>2, <1>t, SeqGrows DEF TaskTypes
  <2>2. links' \in [Tasks -> Seq(Link')]
    BY <1>1, <1>2, <1>t, SeqGrows DEF TaskTypes
  <2>. QED
    BY <1>1, <1>2, <1>t, <2>1, <2>2 DEF TaskTypes, Blank
<1>4. TaskInv'
  BY <1>1, <1>2, <1>3, NoCalls, Creating
<1>. QED
  BY <1>1, <1>4 DEF Final

LEMMA NewThenFits ==
    ASSUME TaskInv, NEW p \in Tasks, NEW cb \in Profiles, Then(p, cb)
    PROVE  TaskInv' /\ Final
<1>1. /\ CanMake("then") /\ kind' = [kind EXCEPT ![Fresh] = "then"] /\ "then" \in Kinds
      /\ UNCHANGED <<status, subtasks, chain>> /\ p \in Created
      /\ parent' = [parent EXCEPT ![Fresh] = p] /\ Joined(Fresh, "then", p, links)
  BY DEF Then, Kinds
<1>t. TaskTypes /\ Blank
  BY DEF TaskInv
<1>2. Fresh \in Tasks \ Created /\ Created' = Created \cup {Fresh} /\ Link \subseteq Link' /\ kind'[Fresh] = "then"
  BY <1>t, <1>1, Creates
<1>n. PICK new : new = Fresh
  OBVIOUS
<1>3. /\ new \in Tasks \ Created /\ Created' = Created \cup {new} /\ kind'[new] = "then"
      /\ parent' = [parent EXCEPT ![new] = p] /\ Joined(new, "then", p, links) /\ new \in Created'
  BY <1>1, <1>2, <1>n
<1>4. Suits(new, "then")' /\ "then" \in Hows
  BY <1>3 DEF Suits, Hows
<1>5. /\ links' \in [Tasks -> Seq(Link')]
      /\ \A t \in Tasks : \A i \in DOMAIN links'[t] :
               \/ i \in DOMAIN links[t] /\ links'[t][i] = links[t][i]
               \/ Suits(links[t][i].to, links[t][i].how)'
      /\ calls' = calls \/ \E f \in Frame' : calls' = <<f>> \o calls /\ f.op = "deliver" /\ Suits(f.to, f.how)'
  BY <1>1, <1>2, <1>3, <1>4, <1>t, JoinFits
<1>6. /\ parent' \in [Tasks -> Created' \cup {0}] /\ parent'[new] = p /\ \A t \in Tasks \ {new} : parent'[t] = parent[t]
      /\ chain' \in [Tasks -> SUBSET Created'] /\ chain'[new] = {} /\ subtasks'[new] = <<>>
  BY <1>1, <1>3, <1>t DEF TaskTypes, Blank
<1>7. subtasks' \in [Tasks -> Seq(Created')]
  BY <1>1, <1>2, <1>t, SeqGrows DEF TaskTypes
<1>8. TaskInv'
  BY <1>1, <1>5, <1>6, <1>7, <1>n, NoCalls, Creating
<1>. QED
  BY <1>1, <1>8 DEF Final

LEMMA NewGroupFits ==
    ASSUME TaskInv, NEW n \in 1..MaxGroup, NEW ts \in [1..n -> Tasks], NewGroup(ts)
    PROVE  TaskInv' /\ Final
<1>n. PICK new : new = Fresh
  OBVIOUS
<1>1. /\ CanMake("group") /\ kind' = [kind EXCEPT ![Fresh] = "group"] /\ "group" \in Kinds
      /\ UNCHANGED <<status, parent, chain>> /\ Range(ts) \subseteq Created
      /\ subtasks' = [subtasks EXCEPT ![new] = ts]
      /\ links' = [t \in Tasks |-> IF t \in Range(ts) THEN Append(links[t], [to |-> new, how |-> "group"]) ELSE links[t]]
      /\ calls' = <<Deliver(new, "group", new, "finish")>> \o calls
  BY <1>n DEF NewGroup, Kinds
<1>t. TaskTypes /\ Blank
  BY DEF TaskInv
<1>2. Fresh \in Tasks \ Created /\ Created' = Created \cup {Fresh} /\ Link \subseteq Link' /\ kind'[Fresh] = "group"
  BY <1>t, <1>1, Creates
<1>3. /\ new \in Tasks \ Created /\ Created' = Created \cup {new} /\ kind'[new] = "group" /\ new \in Created'
  BY <1>1, <1>2, <1>n
<1>4. ts \in Seq(Created')
  <2>1. n \in Nat /\ \A i \in 1..n : ts[i] \in Range(ts)
    BY TaskBounds DEF Range
  <2>. QED
    BY <2>1, <1>1, <1>3
<1>5. /\ subtasks' \in [Tasks -> Seq(Created')] /\ subtasks'[new] = ts
      /\ \A t \in Tasks \ {new} : subtasks'[t] = subtasks[t]
  <2>1. subtasks \in [Tasks -> Seq(Created')]
    BY <1>3, <1>t, SeqGrows DEF TaskTypes
  <2>. QED
    BY <2>1, <1>1, <1>3, <1>4
<1>. DEFINE l == [to |-> new, how |-> "group"]
<1>6. l \in Link' /\ l.to = new /\ l.how = "group" /\ (Suits(new, "group"))'
  BY <1>3 DEF Link, Hows, Suits
<1>7. links \in [Tasks -> Seq(Link')]
  BY <1>2, <1>t, SeqGrows DEF TaskTypes
<1>8. links' = [t \in Tasks |-> IF t \in Range(ts) THEN Append(links[t], l) ELSE links[t]]
  BY <1>1
<1>. HIDE DEF l
<1>9. ASSUME NEW t \in Tasks
      PROVE  /\ links'[t] \in Seq(Link')
             /\ \A i \in DOMAIN links'[t] : (i \in DOMAIN links[t] /\ links'[t][i] = links[t][i]) \/ links'[t][i] = l
  <2>1. CASE t \in Range(ts)
    <3>. DEFINE s == links[t]
                z == Append(s, l)
    <3>1. s \in Seq(Link') /\ links'[t] = z
      BY <1>7, <1>8, <2>1
    <3>. HIDE DEF s
    <3>2. z \in Seq(Link') /\ \A i \in DOMAIN z : (i \in DOMAIN s /\ z[i] = s[i]) \/ z[i] = l
      BY <3>1, <1>6, Appended
    <3>. HIDE DEF z
    <3>. QED
      BY <3>1, <3>2 DEF s
  <2>2. CASE t \notin Range(ts)
    BY <2>2, <1>7, <1>8
  <2>. QED
    BY <2>1, <2>2
<1>10. links' \in [Tasks -> Seq(Link')]
  BY <1>8, <1>9
<1>11. \A t \in Tasks : \A i \in DOMAIN links'[t] :
               \/ i \in DOMAIN links[t] /\ links'[t][i] = links[t][i]
               \/ Suits(links[t][i].to, links[t][i].how)'
  BY <1>6, <1>9
<1>12. /\ parent' \in [Tasks -> Created' \cup {0}] /\ parent'[new] = 0
       /\ chain' \in [Tasks -> SUBSET Created'] /\ chain'[new] = {}
  BY <1>1, <1>3, <1>t DEF TaskTypes, Blank
<1>. DEFINE f == Deliver(new, "group", new, "finish")
<1>13. f \in Frame' /\ f.op = "deliver" /\ f.to = new /\ f.how = "group"
  BY <1>3 DEF Deliver, Frame, Hows, Events
<1>14. calls' = <<f>> \o calls
  BY <1>1
<1>. HIDE DEF f
<1>15. \E g \in Frame' : calls' = <<g>> \o calls /\ g.op = "deliver" /\ Suits(g.to, g.how)'
  BY <1>6, <1>13, <1>14
<1>16. TaskInv'
  BY <1>1, <1>5, <1>10, <1>11, <1>12, <1>15, <1>n, Creating
<1>. QED
  BY <1>1, <1>16 DEF Final

LEMMA ToTaskFits ==
    ASSUME TaskInv, NEW t \in Tasks, ToTask(t)
    PROVE  TaskInv' /\ Final
<1>n. PICK new : new = Fresh
  OBVIOUS
<1>1. /\ CanMake("wrap") /\ kind' = [kind EXCEPT ![Fresh] = "wrap"] /\ "wrap" \in Kinds
      /\ UNCHANGED <<status, parent>> /\ t \in Created
      /\ subtasks' = [subtasks EXCEPT ![new] = Line[t]]
      /\ chain' = [chain EXCEPT ![new] = IF kind[t] = "then" THEN Range(Line[t]) ELSE {}]
      /\ Joined(new, "adopt", t, links)
  BY <1>n DEF ToTask, Kinds
<1>t. TaskTypes /\ Blank
  BY DEF TaskInv
<1>2. Fresh \in Tasks \ Created /\ Created' = Created \cup {Fresh} /\ Link \subseteq Link' /\ kind'[Fresh] = "wrap"
  BY <1>t, <1>1, Creates
<1>3. /\ new \in Tasks \ Created /\ Created' = Created \cup {new} /\ kind'[new] = "wrap" /\ new \in Created'
  BY <1>1, <1>2, <1>n
<1>4. Suits(new, "adopt")' /\ "adopt" \in Hows
  BY <1>3 DEF Suits, Hows
<1>5. /\ links' \in [Tasks -> Seq(Link')]
      /\ \A u \in Tasks : \A i \in DOMAIN links'[u] :
               \/ i \in DOMAIN links[u] /\ links'[u][i] = links[u][i]
               \/ Suits(links[u][i].to, links[u][i].how)'
      /\ calls' = calls \/ \E f \in Frame' : calls' = <<f>> \o calls /\ f.op = "deliver" /\ Suits(f.to, f.how)'
  BY <1>1, <1>2, <1>3, <1>4, <1>t, JoinFits
<1>. DEFINE line == Line[t]
<1>6. line \in Seq(Created) /\ Range(line) \subseteq Created
  BY <1>1, <1>t, LineType, InRange DEF TaskInv, Fits
<1>7. subtasks' = [subtasks EXCEPT ![new] = line] /\ chain' = [chain EXCEPT ![new] = IF kind[t] = "then" THEN Range(line) ELSE {}]
  BY <1>1
<1>. HIDE DEF line
<1>8. /\ subtasks' \in [Tasks -> Seq(Created')] /\ Range(subtasks'[new]) \subseteq Created
      /\ \A u \in Tasks \ {new} : subtasks'[u] = subtasks[u]
  <2>1. subtasks \in [Tasks -> Seq(Created')] /\ line \in Seq(Created')
    BY <1>3, <1>6, <1>t, SeqGrows DEF TaskTypes
  <2>. QED
    BY <2>1, <1>3, <1>6, <1>7
<1>9. /\ chain' \in [Tasks -> SUBSET Created'] /\ \A u \in Tasks \ {new} : chain'[u] = chain[u]
      /\ parent' \in [Tasks -> Created' \cup {0}] /\ parent'[new] = 0
  <2>. DEFINE ch == IF kind[t] = "then" THEN Range(line) ELSE {}
  <2>1. ch \in SUBSET Created' /\ chain' = [chain EXCEPT ![new] = ch]
    BY <1>3, <1>6, <1>7
  <2>. HIDE DEF ch
  <2>2. chain \in [Tasks -> SUBSET Created'] /\ parent \in [Tasks -> Created' \cup {0}] /\ parent[new] = 0
    BY <1>3, <1>t DEF TaskTypes, Blank
  <2>. QED
    BY <1>1, <1>3, <2>1, <2>2
<1>10. TaskInv'
  BY <1>1, <1>5, <1>8, <1>9, <1>n, Creating
<1>. QED
  BY <1>1, <1>10 DEF Final

LEMMA AnswerFits ==
    ASSUME TaskInv, NEW t \in Tasks, NEW s \in {"resolved", "rejected"}, Answer(t, s)
    PROVE  /\ TaskInv' /\ Carried /\ Final /\ status' = status /\ subtasks' = subtasks /\ links' = links
           /\ Going' = Going \cup {Settle(t, s)}
<1>. DEFINE f == Settle(t, s)
<1>1. /\ UNCHANGED <<kind, status, subtasks, parent, chain, links>> /\ kind[t] = "root" /\ calls' = <<f>> \o calls
  BY DEF Answer
<1>2. f \in Frame /\ Suited(f) /\ f.op = "settle"
  BY <1>1, Calls DEF Created, Settle, Suited
<1>t. TaskTypes /\ \A u \in Tasks : Agreed(u)
  BY DEF TaskInv
<1>. HIDE DEF f
<1>3. Carried
  BY <1>1, <1>t DEF Carried, TaskTypes
<1>4. TaskTypes' /\ Blank' /\ Fits' /\ Going' = Going \cup {f}
  BY <1>1, <1>2, <1>3, PushFits
<1>5. ASSUME NEW u \in Tasks PROVE Agreed(u)'
  <2>1. Overall(subtasks[u])' = Overall(subtasks[u])
    BY <1>1, <1>t, <1>4, OverallStays
  <2>. QED
    BY <1>1, <1>t, <2>1 DEF Agreed
<1>. QED
  BY <1>1, <1>3, <1>4, <1>5 DEF TaskInv, Final, f

LEMMA UserAbortFits ==
    ASSUME TaskInv, NEW t \in Tasks, NEW retroactive \in BOOLEAN, UserAbort(t, retroactive)
    PROVE  /\ TaskInv' /\ Carried /\ Final /\ status' = status /\ subtasks' = subtasks /\ links' = links
           /\ \E new : Going' = Going \cup new /\ \A f \in new : f.op \in {"abort", "up"}
<1>. DEFINE f == Abort(t)
            g == Up(t)
            new == IF retroactive THEN <<f, g>> ELSE <<f>>
<1>1. /\ UNCHANGED <<kind, status, subtasks, parent, chain, links>> /\ t \in Created /\ calls' = new \o calls
  BY DEF UserAbort
<1>2. f \in Frame /\ g \in Frame /\ f.op = "abort" /\ g.op = "up"
  BY <1>1, Calls DEF Abort, Up
<1>t. TaskTypes /\ Blank /\ Fits /\ \A u \in Tasks : Agreed(u)
  BY DEF TaskInv
<1>. HIDE DEF f, g
<1>3. new \in Seq(Frame) /\ Range(new) = (IF retroactive THEN {f, g} ELSE {f}) /\ new # <<>> /\ new[1] = f /\ Len(new) \in Nat \ {0}
  <2>1. <<f, g>> \in Seq(Frame) /\ Range(<<f, g>>) = {f, g} /\ <<f>> \in Seq(Frame) /\ Range(<<f>>) = {f}
    BY <1>2, OneCall, TwoCalls
  <2>. QED
    BY <2>1
<1>. HIDE DEF new
<1>4. calls \in Seq(Frame)
  BY <1>t DEF TaskTypes
<1>5. calls' \in Seq(Frame) /\ Going' = Range(new) \cup Going /\ Head(calls') = f /\ calls' # <<>>
  <2>1. calls' \in Seq(Frame) /\ Range(calls') = Range(new) \cup Range(calls)
    BY <1>1, <1>3, <1>4, RangeOfConcat, ConcatProperties
  <2>2. Len(calls') = Len(new) + Len(calls) /\ Len(calls) \in Nat /\ calls'[1] = f
    BY <1>1, <1>3, <1>4, ConcatProperties
  <2>3. Len(calls') # 0
    BY <1>3, <2>2
  <2>4. calls' # <<>> /\ Head(calls') = calls'[1]
    BY <2>1, <2>3
  <2>. QED
    BY <2>1, <2>2, <2>4 DEF Going
<1>6. Carried
  BY <1>1, <1>t DEF Carried, TaskTypes
<1>7. TaskTypes' /\ Blank' /\ Fits'
  <2>1. \A h \in Going' \ Going : Suited(h)
    BY <1>2, <1>3, <1>5 DEF Suited
  <2>2. Head(calls') \in Frame /\ ~Over(Head(calls'))
    BY <1>2, <1>5 DEF Over
  <2>. QED
    BY <1>t, <1>5, <1>6, <2>1, <2>2, CarriedFits
<1>8. ASSUME NEW u \in Tasks PROVE Agreed(u)'
  <2>1. Overall(subtasks[u])' = Overall(subtasks[u])
    BY <1>1, <1>t, <1>7, OverallStays
  <2>. QED
    BY <1>1, <1>t, <2>1 DEF Agreed
<1>9. Going' = Going \cup Range(new) /\ \A h \in Range(new) : h.op \in {"abort", "up"}
  BY <1>2, <1>3, <1>5
<1>10. TaskInv' /\ Final
  BY <1>1, <1>7, <1>8 DEF TaskInv, Final
<1>. QED
  BY <1>1, <1>6, <1>9, <1>10

LEMMA InvHolds == TaskInit => TaskInv
<1>. SUFFICES ASSUME TaskInit PROVE TaskInv
  OBVIOUS
<1>1. Created = {} /\ MaxTasks \in Nat
  BY TaskBounds DEF TaskInit, Created
<1>2. \E n \in 0..MaxTasks : Created = 1..n
  <2>1. 0 \in 0..MaxTasks /\ Created = 1..0
    BY <1>1
  <2>. QED
    BY <2>1
<1>3. TaskTypes
  <2>1. kind \in [Tasks -> Kinds \cup {"none"}] /\ status \in [Tasks -> Settled \cup {"pending"}]
    BY DEF TaskInit
  <2>2. subtasks \in [Tasks -> Seq(Created)] /\ parent \in [Tasks -> Created \cup {0}]
    BY DEF TaskInit
  <2>3. chain \in [Tasks -> SUBSET Created] /\ links \in [Tasks -> Seq(Link)]
    BY DEF TaskInit
  <2>4. calls \in Seq(Frame)
    BY DEF TaskInit
  <2>. QED
    BY <1>2, <2>1, <2>2, <2>3, <2>4 DEF TaskTypes
<1>4. Range(<<>>) = {} /\ Going = {}
  BY DEF TaskInit, Going, Range
<1>5. Blank /\ Fits /\ \A t \in Tasks : Agreed(t)
  BY <1>4 DEF TaskInit, Blank, Fits, Agreed, Tasks
<1>. QED
  BY <1>3, <1>5 DEF TaskInv

LEMMA InvKept == TaskInv /\ [TaskNext]_taskVars => TaskInv' /\ (Final \/ UNCHANGED status)
<1>. SUFFICES ASSUME TaskInv, [TaskNext]_taskVars PROVE TaskInv' /\ (Final \/ UNCHANGED status)
  OBVIOUS
<1>1. CASE NewTask
  BY <1>1, NewTaskFits
<1>2. CASE \E p \in Tasks, cb \in Profiles : Then(p, cb)
  BY <1>2, NewThenFits
<1>3. CASE \E n \in 1..MaxGroup : \E ts \in [1..n -> Tasks] : NewGroup(ts)
  BY <1>3, NewGroupFits
<1>4. CASE \E t \in Tasks : ToTask(t)
  BY <1>4, ToTaskFits
<1>5. CASE \E t \in Tasks, s \in {"resolved", "rejected"} : Answer(t, s)
  BY <1>5, AnswerFits
<1>6. CASE \E t \in Tasks, retroactive \in BOOLEAN : UserAbort(t, retroactive)
  BY <1>6, UserAbortFits
<1>7. CASE Step
  <2>1. calls # <<>>
    BY <1>7 DEF Step
  <2>. QED
    BY <1>7, <2>1, SettleFits, AbortFits, AbortSubFits, UpFits, NotifyFits, ThenFits, AdoptFits, GroupFits,
       CallbackEndsFits, ReturnsFits DEF Step
<1>8. CASE UNCHANGED taskVars
  <2>1. UNCHANGED <<kind, status, subtasks, parent, chain, links, calls>>
    BY <1>8 DEF taskVars
  <2>2. TaskTypes' /\ Blank' /\ Fits'
    BY <2>1 DEF TaskInv, TaskTypes, Blank, Fits, Created, Link, Frame, Suits, Suited, Going, Over
  <2>3. \A t \in Tasks : Agreed(t)'
    <3>1. \A t \in Tasks : Overall(subtasks[t])' = Overall(subtasks[t])
      BY <2>1, <2>2, OverallStays DEF TaskInv
    <3>. QED
      BY <2>1, <3>1 DEF TaskInv, Agreed
  <2>. QED
    BY <2>1, <2>2, <2>3 DEF TaskInv
<1>. QED
  BY <1>1, <1>2, <1>3, <1>4, <1>5, <1>6, <1>7, <1>8 DEF TaskNext

LEMMA TaskInvAlways == TaskSpec => []TaskInv
<1>1. TaskInit => TaskInv
  BY InvHolds
<1>2. TaskInv /\ [TaskNext]_taskVars => TaskInv'
  BY InvKept
<1>. QED
  BY <1>1, <1>2, PTL DEF TaskSpec

-----------------------------------------------------------------------------
\* StatusFinal: a settled task never changes its mind (resolve, reject and
\* abort of Task.js look at the status first), but for a group aborted while
\* its last subtask was reporting.
THEOREM StatusAlwaysFinal == TaskSpec => StatusFinal
<1>1. TaskInv /\ [TaskNext]_taskVars =>
        [\A t \in Tasks : status[t] \in Settled =>
            \/ status'[t] = status[t]
            \/ kind[t] = "group" /\ status[t] = "aborted" /\ status'[t] # "pending"]_status
  BY InvKept DEF Final
<1>. QED
  BY <1>1, TaskInvAlways, PTL DEF TaskSpec, StatusFinal

-----------------------------------------------------------------------------
(* What a call leaves to be told.                                          *)

LEMMA StepIs ==
    ASSUME TaskInv, Step
    PROVE  /\ TaskInv' /\ Carried /\ Final /\ calls # <<>> /\ (\E new : Went(new))
           /\ \A f \in Going : f # Head(calls) /\ ~Over(f) => f \in Going'
           /\ \A t \in Tasks : status[t] # "pending" => status'[t] # "pending"
<1>1. calls # <<>>
  BY DEF Step
<1>2. TaskInv' /\ Carried /\ Final /\ (\E new : Went(new))
  <2>1. CASE SettleStep
    BY <1>1, <2>1, SettleFits
  <2>2. CASE AbortStep
    BY <1>1, <2>2, AbortFits
  <2>3. CASE AbortSubStep
    BY <1>1, <2>3, AbortSubFits
  <2>4. CASE UpStep
    BY <1>1, <2>4, UpFits
  <2>5. CASE NotifyStep
    BY <1>1, <2>5, NotifyFits
  <2>6. CASE DeliverThen
    BY <1>1, <2>6, ThenFits
  <2>7. CASE DeliverAdopt
    BY <1>1, <2>7, AdoptFits
  <2>8. CASE DeliverGroup
    BY <1>1, <2>8, GroupFits
  <2>9. CASE CallbackEnds
    BY <1>1, <2>9, CallbackEndsFits
  <2>10. CASE CallbackReturnsTask
    BY <1>1, <2>10, ReturnsFits
  <2>. QED
    BY <2>1, <2>2, <2>3, <2>4, <2>5, <2>6, <2>7, <2>8, <2>9, <2>10 DEF Step
<1>3. \A f \in Going : f # Head(calls) /\ ~Over(f) => f \in Going'
  BY <1>2 DEF Went
<1>4. \A t \in Tasks : status[t] # "pending" => status'[t] # "pending"
  BY <1>2 DEF Final, TaskInv, TaskTypes, Settled
<1>. QED
  BY <1>1, <1>2, <1>3, <1>4

\* A task changes its status by an event that all its listeners will get.
LEMMA Announced ==
    ASSUME TaskInv, Step, NEW p \in Created, status'[p] # status[p]
    PROVE  /\ \E e \in Events : /\ links[p] # <<>> => Notify(p, e, 1) \in Going'
                                /\ e = "abort" => status'[p] = "aborted"
           /\ \/ Head(calls).op \in {"settle", "abort"} /\ Head(calls).t = p /\ status[p] = "pending"
              \/ Head(calls).op = "deliver" /\ Head(calls).how = "group" /\ Head(calls).to = p
           /\ links' = links
<1>. DEFINE h == Head(calls)
<1>0. calls # <<>> /\ p \in Tasks /\ status \in [Tasks -> Settled \cup {"pending"}] /\ links \in [Tasks -> Seq(Link)]
  BY DEF Step, Created, TaskInv, TaskTypes
<1>h. h \in Frame
  BY <1>0, HeadFits
<1>n. ASSUME NEW e \in Events, Went({Notify(p, e, 1)}), links[p] # <<>> PROVE Notify(p, e, 1) \in Going'
  <2>1. ~Over(Notify(p, e, 1))
    <3>. DEFINE ls == links[p]
    <3>1. ls \in Seq(Link) /\ ls # <<>>
      BY <1>0, <1>n
    <3>. HIDE DEF ls
    <3>2. Len(ls) \in Nat /\ Len(ls) # 0
      BY <3>1
    <3>. QED
      BY <3>2 DEF Over, Notify, ls
  <2>. QED
    BY <1>n, <2>1 DEF Went
<1>1. CASE SettleStep
  <2>1. p = h.t /\ status[p] = "pending" /\ links' = links /\ h.op = "settle" /\ h.s \in {"resolved", "rejected"}
    BY <1>0, <1>1, <1>h, CallFields DEF SettleStep
  <2>2. Went({Notify(p, EventOf(h.s), 1)})
    BY <1>0, <1>1, <2>1, SettleFits
  <2>3. EventOf(h.s) \in Events /\ EventOf(h.s) # "abort"
    BY DEF EventOf, Events
  <2>. QED
    BY <1>n, <2>1, <2>2, <2>3
<1>2. CASE AbortStep
  <2>1. p = h.t /\ status[p] = "pending" /\ links' = links /\ h.op = "abort" /\ status'[p] = "aborted"
    BY <1>0, <1>2 DEF AbortStep
  <2>2. Went({AbortSub(p, 1, Len(subtasks[p])), Notify(p, "abort", 1)})
    BY <1>0, <1>2, <2>1, AbortFits
  <2>3. links[p] # <<>> => Notify(p, "abort", 1) \in Going'
    <3>1. SUFFICES ASSUME links[p] # <<>> PROVE ~Over(Notify(p, "abort", 1))
      BY <2>2 DEF Went
    <3>. DEFINE ls == links[p]
    <3>2. ls \in Seq(Link) /\ ls # <<>>
      BY <1>0, <3>1
    <3>. HIDE DEF ls
    <3>3. Len(ls) \in Nat /\ Len(ls) # 0
      BY <3>2
    <3>. QED
      BY <3>3 DEF Over, Notify, ls
  <2>. QED
    BY <2>1, <2>3 DEF Events
<1>3. CASE DeliverGroup
  <2>. DEFINE s == Overall(subtasks[h.to])
  <2>1. p = h.to /\ s # "pending" /\ links' = links /\ h.op = "deliver" /\ h.how = "group"
    BY <1>0, <1>3 DEF DeliverGroup
  <2>2. Went({Notify(p, EventOf(s), 1)})
    BY <1>0, <1>3, <2>1, GroupFits
  <2>3. EventOf(s) \in Events /\ EventOf(s) # "abort"
    BY DEF EventOf, Events
  <2>. HIDE DEF s
  <2>. QED
    BY <1>n, <2>1, <2>2, <2>3
<1>4. CASE AbortSubStep \/ UpStep \/ NotifyStep \/ DeliverThen \/ DeliverAdopt \/ CallbackEnds \/ CallbackReturnsTask
  BY <1>4 DEF AbortSubStep, UpStep, NotifyStep, DeliverThen, DeliverAdopt, CallbackEnds, CallbackReturnsTask
<1>. QED
  BY <1>1, <1>2, <1>3, <1>4 DEF Step

\* Who is to be settled or aborted stays so until it is.
LEMMA DueStays ==
    ASSUME TaskInv, Step, NEW t \in Tasks, Due(t), status'[t] = "pending"
    PROVE  Due(t)' /\ status[t] = "pending"
<1>1. /\ calls # <<>> /\ status[t] = "pending"
      /\ \A f \in Going : f # Head(calls) /\ ~Over(f) => f \in Going'
  BY StepIs
<1>2. PICK f \in Going : f.op \in {"settle", "abort"} /\ f.t = t
  BY DEF Due
<1>3. ~Over(f)
  BY <1>2 DEF Over
<1>4. f # Head(calls)
  <2>1. SUFFICES ASSUME f = Head(calls) PROVE status'[t] # "pending"
    OBVIOUS
  <2>2. f \in Frame /\ status \in [Tasks -> Settled \cup {"pending"}]
    BY <1>1, <2>1, HeadFits DEF TaskInv, TaskTypes
  <2>3. CASE SettleStep
    BY <1>1, <1>2, <2>1, <2>2, <2>3, CallFields DEF SettleStep
  <2>4. CASE AbortStep
    BY <1>1, <1>2, <2>1, <2>2, <2>4 DEF AbortStep
  <2>. QED
    BY <1>2, <2>1, <2>3, <2>4 DEF Step, AbortSubStep, UpStep, NotifyStep, DeliverThen, DeliverAdopt, DeliverGroup,
       CallbackEnds, CallbackReturnsTask
<1>. QED
  BY <1>1, <1>2, <1>3, <1>4 DEF Due

\* Who is to be told stays so, until the listener is called.
LEMMA BringsOn ==
    ASSUME TaskInv, Step, NEW f \in Going, NEW t, NEW how, Brings(f, t, how), ~(f = Head(calls) /\ f.op = "deliver")
    PROVE  \E g \in Going' : Brings(g, t, how)' /\ g.t = f.t /\ g.e = f.e
<1>1. /\ calls # <<>> /\ Carried
      /\ \A g \in Going : g # Head(calls) /\ ~Over(g) => g \in Going'
  BY StepIs
<1>2. f \in Frame /\ links \in [Tasks -> Seq(Link)] /\ links' \in [Tasks -> Seq(Link)]
  BY <1>1, InRange DEF Going, TaskInv, TaskTypes, Carried
<1>3. CASE f.op = "deliver"
  <2>1. f \in Going' /\ Brings(f, t, how)'
    BY <1>1, <1>3 DEF Brings, Over
  <2>. QED
    BY <2>1
<1>4. CASE f.op = "notify"
  <2>1. PICK j \in DOMAIN links[f.t] : j >= f.i /\ links[f.t][j] = [to |-> t, how |-> how]
    BY <1>4 DEF Brings
  <2>2. f.t \in Tasks /\ f.i \in Nat \ {0}
    BY <1>2, <1>4, CallFields DEF Created
  <2>3. links[f.t] \in Seq(Link) /\ j \in 1..Len(links[f.t]) /\ f.i <= Len(links[f.t])
    BY <1>2, <2>1, <2>2
  <2>4. j \in DOMAIN links'[f.t] /\ links'[f.t][j] = [to |-> t, how |-> how]
    BY <1>1, <2>1, <2>2 DEF Carried
  <2>5. CASE f # Head(calls)
    <3>0. ~Over(f)
      BY <1>4, <2>2, <2>3 DEF Over
    <3>1. f \in Going'
      BY <1>1, <2>5, <3>0
    <3>2. Brings(f, t, how)'
      BY <1>4, <2>1, <2>4 DEF Brings
    <3>. QED
      BY <3>1, <3>2
  <2>6. CASE f = Head(calls)
    <3>1. NotifyStep
      BY <1>4, <2>6 DEF Step, SettleStep, AbortStep, AbortSubStep, UpStep, NotifyStep, DeliverThen, DeliverAdopt,
         DeliverGroup, CallbackEnds, CallbackReturnsTask
    <3>2. Went({Deliver(links[f.t][f.i].to, links[f.t][f.i].how, f.t, f.e), Notify(f.t, f.e, f.i + 1)})
      BY <1>1, <2>6, <3>1, NotifyFits
    <3>3. CASE j = f.i
      <4>1. Deliver(t, how, f.t, f.e) \in Going'
        <5>1. Went({Deliver(t, how, f.t, f.e), Notify(f.t, f.e, f.i + 1)})
          BY <2>1, <3>2, <3>3
        <5>2. ~Over(Deliver(t, how, f.t, f.e))
          BY DEF Over, Deliver
        <5>. QED
          BY <5>1, <5>2 DEF Went
      <4>2. Brings(Deliver(t, how, f.t, f.e), t, how)'
        BY DEF Brings, Deliver
      <4>. QED
        BY <4>1, <4>2 DEF Deliver
    <3>4. CASE j # f.i
      <4>. DEFINE g == Notify(f.t, f.e, f.i + 1)
      <4>1. g.op = "notify" /\ g.t = f.t /\ g.e = f.e /\ g.i = f.i + 1
        BY DEF Notify
      <4>2. g.i <= j /\ j <= Len(links[f.t]) /\ g.i <= Len(links[f.t])
        BY <2>1, <2>2, <2>3, <3>4, <4>1
      <4>3. Went({Deliver(links[f.t][f.i].to, links[f.t][f.i].how, f.t, f.e), g})
        BY <3>2
      <4>. HIDE DEF g
      <4>4. g \in Going'
        <5>1. ~Over(g)
          BY <2>2, <2>3, <4>1, <4>2 DEF Over
        <5>. QED
          BY <4>3, <5>1 DEF Went
      <4>5. Brings(g, t, how)'
        BY <2>4, <4>1, <4>2 DEF Brings
      <4>. QED
        BY <4>1, <4>4, <4>5
    <3>. QED
      BY <3>3, <3>4
  <2>. QED
    BY <2>5, <2>6
<1>. QED
  BY <1>3, <1>4 DEF Brings

\* A step adds no listening group.
LEMMA GroupLinks ==
    ASSUME TaskInv, Step, NEW p \in Tasks, NEW j \in DOMAIN links'[p], links'[p][j].how = "group"
    PROVE  j \in DOMAIN links[p] /\ links'[p][j] = links[p][j]
<1>1. CASE links' = links
  BY <1>1
<1>2. CASE CallbackReturnsTask
  <2>1. PICK c, r \in Created : \/ links' = [links EXCEPT ![r] = Append(@, [to |-> c, how |-> "adopt"])] /\ c \in Created
                                \/ links' = links
    BY <1>2, ReturnsFits DEF Step
  <2>2. CASE links' = [links EXCEPT ![r] = Append(@, [to |-> c, how |-> "adopt"])] /\ c \in Created
    <3>. DEFINE l == [to |-> c, how |-> "adopt"]
    <3>1. l \in Link /\ l.how = "adopt" /\ links \in [Tasks -> Seq(Link)] /\ r \in Tasks
      BY <2>2 DEF Link, Hows, TaskInv, TaskTypes, Created
    <3>2. links' = [links EXCEPT ![r] = Append(@, l)]
      BY <2>2
    <3>. HIDE DEF l
    <3>3. /\ \A t \in Tasks \ {r} : links'[t] = links[t]
          /\ \A i \in DOMAIN links[r] : links'[r][i] = links[r][i]
          /\ \A i \in DOMAIN links'[r] \ DOMAIN links[r] : links'[r][i] = l
      BY <3>1, <3>2, LinkGrows
    <3>. QED
      BY <3>1, <3>3
  <2>. QED
    BY <1>1, <2>1, <2>2
<1>. QED
  BY <1>1, <1>2 DEF Step, SettleStep, AbortStep, AbortSubStep, UpStep, NotifyStep, DeliverThen, DeliverAdopt,
       DeliverGroup, CallbackEnds

LEMMA GroupListens ==
    ASSUME TaskInv, Step, NEW p \in Tasks, NEW t
    PROVE  Listens(t, "group", p)' <=> Listens(t, "group", p)
<1>1. Listens(t, "group", p)' => Listens(t, "group", p)
  BY GroupLinks DEF Listens
<1>2. Carried
  BY StepIs
<1>. QED
  BY <1>1, <1>2 DEF Listens, Carried

\* A group hears of what it heard of before, or of a task that changes now.
LEMMA GroupNews ==
    ASSUME TaskInv, Step, NEW f \in Going', NEW t, Brings(f, t, "group")'
    PROVE  \/ Grouping(t)
           \/ \E p \in Created : /\ Listens(t, "group", p)
                                 /\ (status[p] = "pending" \/ (kind[p] = "group" /\ Grouping(p)))
<1>. DEFINE h == Head(calls)
<1>0. calls # <<>> /\ h \in Going /\ h.t \in Created
  BY HeadFits DEF Step
<1>i. TaskInv'
  BY StepIs
<1>f. f.op = "notify" => f.t \in Tasks /\ f.i \in Nat \ {0} /\ f.e \in Events
  <2>1. f \in Frame'
    BY <1>i, InRange DEF Going, TaskInv, TaskTypes
  <2>. QED
    BY <2>1 DEF Frame, Created
<1>1. CASE f \in Going
  <2>1. Brings(f, t, "group")
    <3>1. CASE f.op = "deliver"
      BY <3>1 DEF Brings
    <3>2. CASE f.op = "notify"
      BY <3>2, <1>f, GroupLinks DEF Brings
    <3>. QED
      BY <3>1, <3>2 DEF Brings
  <2>. QED
    BY <1>1, <2>1 DEF Grouping
<1>2. CASE \E p \in Created : /\ \E e : f = Notify(p, e, 1)
                              /\ status[p] = "pending" \/ (kind[p] = "group" /\ Grouping(p))
  <2>1. PICK p \in Created : /\ \E e : f = Notify(p, e, 1)
                             /\ status[p] = "pending" \/ (kind[p] = "group" /\ Grouping(p))
    BY <1>2
  <2>2. f.op = "notify" /\ f.t = p /\ p \in Tasks
    BY <2>1 DEF Notify, Created
  <2>3. Listens(t, "group", p)'
    BY <2>2 DEF Brings, Listens
  <2>4. Listens(t, "group", p)
    BY <2>2, <2>3, GroupListens
  <2>. QED
    BY <2>1, <2>4
<1>3. CASE f \notin Going /\ SettleStep
  <2>1. f = Notify(h.t, EventOf(h.s), 1) /\ status[h.t] = "pending"
    BY <1>0, <1>3, SettleFits DEF Went
  <2>. QED
    BY <1>0, <1>2, <2>1
<1>4. CASE f \notin Going /\ AbortStep
  <2>1. f \in {AbortSub(h.t, 1, Len(subtasks[h.t])), Notify(h.t, "abort", 1)} /\ status[h.t] = "pending"
    BY <1>0, <1>4, AbortFits DEF Went
  <2>2. f = Notify(h.t, "abort", 1)
    BY <2>1 DEF Brings, AbortSub
  <2>. QED
    BY <1>0, <1>2, <2>1, <2>2
<1>5. CASE f \notin Going /\ DeliverGroup
  <2>1. f = Notify(h.to, EventOf(Overall(subtasks[h.to])), 1) /\ kind[h.to] = "group" /\ h.to \in Created
    BY <1>0, <1>5, GroupFits DEF Went
  <2>2. Grouping(h.to)
    BY <1>0, <1>5 DEF DeliverGroup, Grouping, Brings
  <2>. QED
    BY <1>2, <2>1, <2>2
<1>6. CASE f \notin Going /\ NotifyStep
  <2>. DEFINE l == links[h.t][h.i]
  <2>1. /\ f \in {Deliver(l.to, l.how, h.t, h.e), Notify(h.t, h.e, h.i + 1)}
        /\ h.i \in DOMAIN links[h.t] /\ l \in Link /\ h.i \in Nat /\ h.op = "notify"
    BY <1>0, <1>6, NotifyFits DEF Went, NotifyStep
  <2>2. CASE f = Deliver(l.to, l.how, h.t, h.e)
    <3>1. l.to = t /\ l.how = "group"
      <4>. HIDE DEF l
      <4>. QED
        BY <2>2 DEF Brings, Deliver
    <3>2. l = [to |-> t, how |-> "group"]
      <4>. HIDE DEF l
      <4>. QED
        BY <2>1, <3>1 DEF Link
    <3>3. h.i >= h.i
      BY <2>1
    <3>4. Brings(h, t, "group")
      BY <2>1, <3>2, <3>3 DEF Brings
    <3>. QED
      BY <1>0, <3>4 DEF Grouping
  <2>3. CASE f = Notify(h.t, h.e, h.i + 1)
    <3>. HIDE DEF l
    <3>1. f.op = "notify" /\ f.t = h.t /\ f.i = h.i + 1 /\ f.t \in Tasks
      BY <2>3, <1>0 DEF Notify, Created
    <3>. HIDE DEF h
    <3>2. PICK j \in DOMAIN links'[f.t] : j >= f.i /\ links'[f.t][j] = [to |-> t, how |-> "group"]
      BY <3>1 DEF Brings
    <3>3. j \in DOMAIN links[f.t] /\ links[f.t][j] = [to |-> t, how |-> "group"]
      BY <3>1, <3>2, GroupLinks
    <3>4. links[f.t] \in Seq(Link) /\ j \in Nat
      BY <3>1, <3>3 DEF TaskInv, TaskTypes
    <3>5. j >= h.i
      BY <2>1, <3>1, <3>2, <3>4
    <3>6. Brings(h, t, "group")
      BY <2>1, <3>1, <3>3, <3>5 DEF Brings
    <3>. QED
      BY <1>0, <3>6 DEF Grouping
  <2>. QED
    BY <2>1, <2>2, <2>3
<1>7. CASE AbortSubStep \/ UpStep \/ DeliverThen \/ DeliverAdopt \/ CallbackEnds \/ CallbackReturnsTask
  <2>1. SUFFICES ASSUME f \notin Going PROVE f.op \in {"abort", "abortSub", "up", "run", "settle"}
    BY <1>1 DEF Brings
  <2>2. CASE AbortSubStep
    BY <1>0, <2>1, <2>2, AbortSubFits DEF Went, Abort, AbortSub
  <2>3. CASE UpStep
    BY <1>0, <2>1, <2>3, UpFits DEF Went
  <2>4. CASE DeliverThen
    BY <1>0, <2>1, <2>4, ThenFits DEF Went
  <2>5. CASE DeliverAdopt
    BY <1>0, <2>1, <2>5, AdoptFits DEF Went
  <2>6. CASE CallbackEnds
    BY <1>0, <2>1, <2>6, CallbackEndsFits DEF Went
  <2>7. CASE CallbackReturnsTask
    BY <1>0, <2>1, <2>7, ReturnsFits DEF Went, Settle
  <2>. QED
    BY <1>7, <2>2, <2>3, <2>4, <2>5, <2>6, <2>7
<1>. QED
  BY <1>1, <1>3, <1>4, <1>5, <1>6, <1>7 DEF Step

LEMMA AsleepStays ==
    ASSUME WaitInv, Step, NEW D \in SUBSET Created, Asleep(D)
    PROVE  Asleep(D)' /\ \A g \in D : status'[g] = status[g]
<1>0. TaskInv /\ calls # <<>> /\ D \subseteq Tasks /\ \A t \in Tasks : GroupWaits(t)
  BY DEF WaitInv, Step, Created
<1>1. Carried /\ \A t \in Tasks : status[t] # "pending" => status'[t] # "pending"
  BY <1>0, StepIs
<1>2. Head(calls) \in Going
  BY <1>0, HeadFits
<1>3. ASSUME NEW g \in D PROVE status'[g] = status[g]
  <2>1. SUFFICES ASSUME status'[g] # status[g] PROVE Grouping(g)
    BY DEF Asleep
  <2>2. Head(calls).op = "deliver" /\ Head(calls).how = "group" /\ Head(calls).to = g
    BY <1>0, <2>1, Announced DEF Asleep
  <2>. QED
    BY <1>2, <2>2 DEF Grouping, Brings
<1>4. ASSUME NEW g \in D, NEW f \in Going', Brings(f, g, "group")' PROVE FALSE
  <2>1. ~Grouping(g) /\ kind[g] = "group" /\ \A s \in Range(subtasks[g]) : status[s] # "pending" /\ (kind[s] = "group" => s \in D)
    BY DEF Asleep
  <2>2. PICK p \in Created : /\ Listens(g, "group", p)
                             /\ (status[p] = "pending" \/ (kind[p] = "group" /\ Grouping(p)))
    BY <1>0, <1>4, <2>1, GroupNews
  <2>3. p \in Range(subtasks[g])
    BY <1>0, <2>1, <2>2 DEF GroupWaits, Created
  <2>4. p \in D /\ Grouping(p)
    BY <2>1, <2>2, <2>3
  <2>. QED
    BY <2>4 DEF Asleep
<1>5. \A g \in D : ~Grouping(g)'
  BY <1>4 DEF Grouping
<1>6. ASSUME NEW g \in D
      PROVE  /\ kind'[g] = "group" /\ status'[g] # "pending"
             /\ \A s \in Range(subtasks'[g]) : status'[s] # "pending" /\ (kind'[s] = "group" => s \in D)
  <2>1. kind' = kind /\ subtasks'[g] = subtasks[g] /\ status[g] # "pending" /\ kind[g] = "group"
    BY <1>0, <1>1 DEF Carried, Asleep
  <2>2. \A s \in Range(subtasks[g]) : s \in Tasks
    <3>1. subtasks[g] \in Seq(Created)
      BY <1>0 DEF TaskInv, TaskTypes
    <3>. QED
      BY <3>1, InRange DEF Created
  <2>. QED
    BY <1>0, <1>1, <2>1, <2>2 DEF Asleep
<1>. QED
  BY <1>3, <1>5, <1>6 DEF Asleep

-----------------------------------------------------------------------------
(* Nobody is forgotten by a call.                                          *)

LEMMA Hears ==
    ASSUME TaskInv, Step, NEW p \in Created, status'[p] # status[p], NEW t, NEW how, Listens(t, how, p)
    PROVE  \E g \in Going' : Brings(g, t, how)' /\ g.t = p /\ (g.e = "abort" => status'[p] = "aborted")
<1>1. PICK e \in Events : /\ links[p] # <<>> => Notify(p, e, 1) \in Going'
                          /\ e = "abort" => status'[p] = "aborted"
  BY Announced
<1>2. links' = links
  BY Announced
<1>3. PICK j \in DOMAIN links[p] : links[p][j] = [to |-> t, how |-> how]
  BY DEF Listens
<1>4. links[p] \in Seq(Link)
  BY DEF TaskInv, TaskTypes, Created
<1>5. links[p] # <<>> /\ j >= 1
  BY <1>3, <1>4
<1>. DEFINE g == Notify(p, e, 1)
<1>6. g \in Going' /\ g.op = "notify" /\ g.t = p /\ g.e = e /\ g.i = 1
  BY <1>1, <1>5 DEF Notify
<1>. HIDE DEF g
<1>7. Brings(g, t, how)'
  BY <1>2, <1>3, <1>5, <1>6 DEF Brings
<1>. QED
  BY <1>1, <1>6, <1>7

LEMMA AnswerStays ==
    ASSUME TaskInv, Step, NEW t \in Tasks, NEW r \in Created, kind[r] # "group", AwaitsAnswer(t, r), ~Due(t)'
    PROVE  AwaitsAnswer(t, r)'
<1>1. /\ Carried /\ Final /\ calls # <<>> /\ r \in Tasks
  BY StepIs DEF Created
<1>2. CASE status[r] = "pending" /\ Listens(t, "adopt", r)
  <2>1. CASE status'[r] = status[r]
    <3>1. Listens(t, "adopt", r)'
      BY <1>1, <1>2 DEF Listens, Carried
    <3>. QED
      BY <1>2, <2>1, <3>1 DEF AwaitsAnswer
  <2>2. CASE status'[r] # status[r]
    <3>1. PICK g \in Going' : Brings(g, t, "adopt")' /\ g.t = r /\ (g.e = "abort" => status'[r] = "aborted")
      BY <1>2, <2>2, Hears
    <3>. QED
      BY <3>1 DEF AwaitsAnswer, Adopting
  <2>. QED
    BY <2>1, <2>2
<1>3. CASE status[r] = "aborted"
  BY <1>1, <1>3 DEF Final, Settled, AwaitsAnswer
<1>4. CASE Adopting(t, r)
  <2>1. PICK f \in Going : Brings(f, t, "adopt") /\ f.t = r /\ f.e # "abort"
    BY <1>4 DEF Adopting
  <2>2. CASE ~(f = Head(calls) /\ f.op = "deliver")
    <3>1. \E g \in Going' : Brings(g, t, "adopt")' /\ g.t = f.t /\ g.e = f.e
      BY <2>1, <2>2, BringsOn
    <3>. QED
      BY <2>1, <3>1 DEF Adopting, AwaitsAnswer
  <2>3. CASE f = Head(calls) /\ f.op = "deliver"
    <3>1. f.to = t /\ f.how = "adopt"
      BY <2>1, <2>3 DEF Brings
    <3>2. DeliverAdopt
      BY <2>3, <3>1 DEF Step, SettleStep, AbortStep, AbortSubStep, UpStep, NotifyStep, DeliverThen, DeliverAdopt,
         DeliverGroup, CallbackEnds, CallbackReturnsTask
    <3>3. PICK g : Went({g}) /\ g.t = t /\ g.op = "settle"
      BY <1>1, <2>1, <2>3, <3>1, <3>2, AdoptFits
    <3>4. g \in Going'
      BY <3>3 DEF Went, Over
    <3>. QED
      BY <3>3, <3>4 DEF Due
  <2>. QED
    BY <2>2, <2>3
<1>. QED
  BY <1>2, <1>3, <1>4 DEF AwaitsAnswer

LEMMA ContinuingStays ==
    ASSUME TaskInv, Step, NEW t \in Tasks, Continuing(t), status[t] = "pending", ~Due(t)'
    PROVE  Continuing(t)' \/ subtasks'[t] # <<>>
<1>1. /\ calls # <<>>
      /\ \A f \in Going : f # Head(calls) /\ ~Over(f) => f \in Going'
  BY StepIs
<1>2. PICK f \in Going : Brings(f, t, "then") \/ (f.op = "run" /\ f.t = t)
  BY DEF Continuing
<1>3. CASE Brings(f, t, "then") /\ ~(f = Head(calls) /\ f.op = "deliver")
  <2>1. \E g \in Going' : Brings(g, t, "then")' /\ g.t = f.t /\ g.e = f.e
    BY <1>3, BringsOn
  <2>. QED
    BY <2>1 DEF Continuing
<1>4. CASE Brings(f, t, "then") /\ f = Head(calls) /\ f.op = "deliver"
  <2>1. f.to = t /\ f.how = "then"
    BY <1>4 DEF Brings
  <2>2. DeliverThen
    BY <1>4, <2>1 DEF Step, SettleStep, AbortStep, AbortSubStep, UpStep, NotifyStep, DeliverThen, DeliverAdopt,
       DeliverGroup, CallbackEnds, CallbackReturnsTask
  <2>3. PICK g : Went({g}) /\ g.t = t /\ g.op \in {"run", "settle", "abort"}
    BY <1>1, <1>4, <2>1, <2>2, ThenFits
  <2>4. g \in Going'
    BY <2>3 DEF Went, Over
  <2>. QED
    BY <2>3, <2>4 DEF Due, Continuing
<1>5. CASE f.op = "run" /\ f.t = t /\ f # Head(calls)
  <2>1. f \in Going'
    BY <1>1, <1>5 DEF Over
  <2>. QED
    BY <1>5, <2>1 DEF Continuing
<1>6. CASE f.op = "run" /\ f.t = t /\ f = Head(calls)
  <2>1. CASE CallbackEnds
    <3>1. PICK g : Went({g}) /\ g.t = t /\ g.op = "settle"
      BY <1>1, <1>6, <2>1, CallbackEndsFits
    <3>2. g \in Going'
      BY <3>1 DEF Went, Over
    <3>. QED
      BY <3>1, <3>2 DEF Due
  <2>2. CASE CallbackReturnsTask
    <3>1. \E r \in Created : subtasks'[t] = Append(subtasks[t], r)
      BY <1>1, <1>6, <2>2, ReturnsFits
    <3>2. subtasks[t] \in Seq(Created)
      BY DEF TaskInv, TaskTypes
    <3>. QED
      BY <3>1, <3>2, AppendProperties
  <2>. QED
    BY <1>6, <2>1, <2>2 DEF Step, SettleStep, AbortStep, AbortSubStep, UpStep, NotifyStep, DeliverThen, DeliverAdopt,
       DeliverGroup
<1>. QED
  BY <1>2, <1>3, <1>4, <1>5, <1>6

LEMMA ThenKept ==
    ASSUME WaitInv, Step, NEW t \in Tasks
    PROVE  ThenWaits(t)'
<1>0. TaskInv /\ ThenWaits(t) /\ Rooted
  BY DEF WaitInv
<1>1. /\ Carried /\ Final /\ calls # <<>>
      /\ status[t] # "pending" => status'[t] # "pending"
  BY <1>0, StepIs
<1>2. SUFFICES ASSUME kind[t] = "then" PROVE ThenWaits(t)'
  BY <1>1 DEF ThenWaits, Carried
<1>p. parent[t] \in Created /\ parent[t] \in Tasks /\ parent'[t] = parent[t] /\ kind' = kind /\ subtasks[t] \in Seq(Created)
  BY <1>0, <1>1, <1>2 DEF Rooted, TaskInv, TaskTypes, Created, Carried
<1>s. \A r \in Range(subtasks[t]) : r \in Created
  BY <1>p, InRange
<1>3. /\ ~Due(t)' /\ status'[t] = "pending" =>
           /\ \/ status'[parent[t]] = "pending" /\ Listens(t, "then", parent[t])'
              \/ Continuing(t)'
              \/ subtasks'[t] # <<>>
           /\ \A r \in Range(subtasks[t]) : AwaitsAnswer(t, r)'
  <2>1. SUFFICES ASSUME ~Due(t)', status'[t] = "pending"
                 PROVE  /\ \/ status'[parent[t]] = "pending" /\ Listens(t, "then", parent[t])'
                           \/ Continuing(t)'
                           \/ subtasks'[t] # <<>>
                        /\ \A r \in Range(subtasks[t]) : AwaitsAnswer(t, r)'
    OBVIOUS
  <2>2. status[t] = "pending" /\ ~Due(t)
    BY <1>0, <1>1, <2>1, DueStays
  <2>3. /\ \/ status[parent[t]] = "pending" /\ Listens(t, "then", parent[t])
           \/ Continuing(t)
           \/ subtasks[t] # <<>>
        /\ \A r \in Range(subtasks[t]) : AwaitsAnswer(t, r) /\ kind[r] = "root"
    BY <1>0, <1>2, <2>2 DEF ThenWaits
  <2>7. \A r \in Range(subtasks[t]) : AwaitsAnswer(t, r)'
    BY <1>0, <1>s, <2>1, <2>3, AnswerStays
  <2>8. SUFFICES \/ status'[parent[t]] = "pending" /\ Listens(t, "then", parent[t])'
                 \/ Continuing(t)'
                 \/ subtasks'[t] # <<>>
    BY <2>7
  <2>4. CASE status[parent[t]] = "pending" /\ Listens(t, "then", parent[t])
    <3>1. PICK p \in Created : p = parent[t]
      BY <1>p
    <3>2. CASE status'[p] = status[p]
      <4>1. Listens(t, "then", p)'
        BY <1>1, <1>p, <2>4, <3>1 DEF Listens, Carried
      <4>2. Listens(t, "then", parent[t])'
        BY <1>p, <3>1, <4>1
      <4>. QED
        BY <2>4, <3>1, <3>2, <4>2
    <3>3. CASE status'[p] # status[p]
      <4>1. \E g \in Going' : Brings(g, t, "then")'
        BY <1>0, <2>4, <3>1, <3>3, Hears
      <4>. QED
        BY <4>1 DEF Continuing
    <3>. QED
      BY <3>2, <3>3
  <2>5. CASE Continuing(t)
    BY <1>0, <2>1, <2>2, <2>5, ContinuingStays
  <2>6. CASE subtasks[t] # <<>>
    <3>1. Len(subtasks[t]) <= Len(subtasks'[t]) /\ subtasks'[t] \in Seq(Created)
      BY <1>1 DEF Carried
    <3>2. Len(subtasks[t]) # 0 /\ Len(subtasks[t]) \in Nat
      BY <1>p, <2>6
    <3>3. Len(subtasks'[t]) # 0
      BY <3>1, <3>2
    <3>. QED
      BY <3>3
  <2>. QED
    BY <2>3, <2>4, <2>5, <2>6
<1>4. CASE subtasks'[t] = subtasks[t]
  <2>1. \A r \in Range(subtasks'[t]) : kind'[r] = "root"
    BY <1>0, <1>2, <1>p, <1>4 DEF ThenWaits
  <2>. QED
    BY <1>3, <1>4, <1>p, <2>1 DEF ThenWaits
<1>5. CASE subtasks'[t] # subtasks[t]
  <2>1. CallbackReturnsTask
    BY <1>5 DEF Step, SettleStep, AbortStep, AbortSubStep, UpStep, NotifyStep, DeliverThen, DeliverAdopt,
       DeliverGroup, CallbackEnds
  <2>. DEFINE c == Head(calls).t
  <2>2. PICK r \in Created :
           /\ kind[r] = "root"
           /\ subtasks'[c] = Append(subtasks[c], r)
           /\ \A u \in Tasks : u # c /\ chain[u] = {} => subtasks'[u] = subtasks[u]
           /\ IF status[r] = "pending"
              THEN links' = [links EXCEPT ![r] = Append(@, [to |-> c, how |-> "adopt"])] /\ Went({})
              ELSE links' = links /\ Went(IF status[r] = "aborted" THEN {} ELSE {Settle(c, status[r])})
    BY <1>0, <1>1, <2>1, ReturnsFits
  <2>3. chain[t] = {} /\ status' = status
    BY <1>0, <1>1, <1>2, <2>1, ReturnsFits DEF TaskInv, Fits
  <2>4. c = t
    BY <1>5, <2>2, <2>3
  <2>5. Range(subtasks'[t]) = Range(subtasks[t]) \cup {r}
    <3>. DEFINE s == subtasks[t]
    <3>1. s \in Seq(Created) /\ subtasks'[t] = Append(s, r)
      BY <1>p, <2>2, <2>4
    <3>. HIDE DEF s
    <3>2. Range(Append(s, r)) = Range(s) \cup {r}
      BY <3>1, Appended
    <3>. QED
      BY <3>1, <3>2 DEF s
  <2>6. ~Due(t)' => AwaitsAnswer(t, r)'
    <3>1. CASE status[r] = "pending"
      <4>. DEFINE l == [to |-> t, how |-> "adopt"]
      <4>1. l \in Link /\ links \in [Tasks -> Seq(Link)] /\ r \in Tasks
        BY <1>0, <1>2 DEF Link, Hows, TaskInv, TaskTypes, Created
      <4>2. links' = [links EXCEPT ![r] = Append(@, l)]
        BY <2>2, <2>4, <3>1
      <4>3. \E i \in DOMAIN links'[r] : links'[r][i] = l
        <5>. HIDE DEF l
        <5>. QED
          BY <4>1, <4>2, LinkGrows
      <4>. QED
        BY <2>3, <3>1, <4>3 DEF AwaitsAnswer, Listens
    <3>2. CASE status[r] = "aborted"
      BY <2>3, <3>2 DEF AwaitsAnswer
    <3>3. CASE status[r] \notin {"pending", "aborted"}
      <4>1. Went({Settle(t, status[r])})
        BY <2>2, <2>4, <3>3
      <4>2. Settle(t, status[r]) \in Going'
        BY <4>1 DEF Went, Over, Settle
      <4>. QED
        BY <4>2 DEF Due, Settle
    <3>. QED
      BY <3>1, <3>2, <3>3
  <2>. HIDE DEF c
  <2>7. \A q \in Range(subtasks'[t]) : kind'[q] = "root"
    BY <1>0, <1>2, <1>p, <2>2, <2>5 DEF ThenWaits
  <2>8. ~Due(t)' /\ status'[t] = "pending" => \A q \in Range(subtasks'[t]) : AwaitsAnswer(t, q)'
    BY <1>3, <2>5, <2>6
  <2>. QED
    BY <1>3, <1>p, <2>7, <2>8 DEF ThenWaits
<1>. QED
  BY <1>4, <1>5

LEMMA GroupKept ==
    ASSUME WaitInv, Step, NEW t \in Tasks
    PROVE  GroupWaits(t)'
<1>0. TaskInv /\ GroupWaits(t) /\ TaskTypes
  BY DEF WaitInv, TaskInv
<1>1. /\ Carried /\ Final /\ calls # <<>>
      /\ \A p \in Tasks : status[p] # "pending" => status'[p] # "pending"
      /\ \A f \in Going : f # Head(calls) /\ ~Over(f) => f \in Going'
  BY <1>0, StepIs
<1>2. SUFFICES ASSUME kind[t] = "group" PROVE GroupWaits(t)'
  BY <1>1 DEF GroupWaits, Carried
<1>3. subtasks'[t] = subtasks[t] /\ kind' = kind /\ subtasks[t] \in Seq(Created)
  BY <1>0, <1>1, <1>2 DEF Carried, TaskTypes
<1>s. \A p \in Range(subtasks[t]) : p \in Created /\ p \in Tasks
  BY <1>3, InRange DEF Created
<1>4. \A p \in Tasks : p \in Range(subtasks[t]) <=> Listens(t, "group", p)
  BY <1>0, <1>2 DEF GroupWaits
<1>5. \A p \in Tasks : p \in Range(subtasks'[t]) <=> Listens(t, "group", p)'
  BY <1>0, <1>3, <1>4, GroupListens
<1>6. status'[t] = "pending" /\ ~Due(t)' =>
              \/ \E s \in Range(subtasks[t]) : status'[s] = "pending"
              \/ Grouping(t)'
  <2>1. SUFFICES ASSUME status'[t] = "pending", ~Due(t)'
                 PROVE  \/ \E s \in Range(subtasks[t]) : status'[s] = "pending"
                        \/ Grouping(t)'
    OBVIOUS
  <2>2. status[t] = "pending" /\ ~Due(t)
    BY <1>0, <1>1, <2>1, DueStays
  <2>3. CASE \E s \in Range(subtasks[t]) : status[s] = "pending"
    <3>1. PICK s \in Range(subtasks[t]) : status[s] = "pending"
      BY <2>3
    <3>2. SUFFICES ASSUME status'[s] # status[s] PROVE Grouping(t)'
      BY <3>1
    <3>3. \E g \in Going' : Brings(g, t, "group")'
      BY <1>0, <1>s, <1>4, <3>1, <3>2, Hears
    <3>. QED
      BY <3>3 DEF Grouping
  <2>4. CASE Grouping(t)
    <3>1. PICK f \in Going : Brings(f, t, "group")
      BY <2>4 DEF Grouping
    <3>2. CASE ~(f = Head(calls) /\ f.op = "deliver")
      <4>1. \E g \in Going' : Brings(g, t, "group")'
        BY <1>0, <3>1, <3>2, BringsOn
      <4>. QED
        BY <4>1 DEF Grouping
    <3>3. CASE f = Head(calls) /\ f.op = "deliver"
      <4>1. f.to = t /\ f.how = "group"
        BY <3>1, <3>3 DEF Brings
      <4>2. DeliverGroup
        BY <3>3, <4>1 DEF Step, SettleStep, AbortStep, AbortSubStep, UpStep, NotifyStep, DeliverThen, DeliverAdopt,
           DeliverGroup, CallbackEnds, CallbackReturnsTask
      <4>3. Overall(subtasks[t]) = "pending" /\ status' = status
        BY <1>0, <2>1, <3>3, <4>1, <4>2 DEF DeliverGroup, TaskTypes
      <4>. QED
        BY <1>0, <4>3, OverallIs
    <3>. QED
      BY <3>2, <3>3
  <2>. QED
    BY <1>0, <1>2, <2>2, <2>3, <2>4 DEF GroupWaits
<1>7. ASSUME status'[t] = "aborted", NEW k \in DOMAIN subtasks[t]
      PROVE  \/ status'[subtasks[t][k]] # "pending"
             \/ \E f \in Going' : f.op = "abort" /\ f.t = subtasks[t][k]
             \/ \E f \in Going' : f.op = "abortSub" /\ f.t = t /\ f.i <= k /\ k <= f.n
  <2>. DEFINE s == subtasks[t][k]
  <2>k. k \in 1..Len(subtasks[t]) /\ s \in Range(subtasks[t]) /\ s \in Tasks /\ Len(subtasks[t]) \in Nat
    BY <1>3, <1>s, InRange
  <2>1. CASE status[t] = "aborted"
    <3>1. \/ status[s] # "pending"
          \/ \E f \in Going : f.op = "abort" /\ f.t = s
          \/ \E f \in Going : f.op = "abortSub" /\ f.t = t /\ f.i <= k /\ k <= f.n
      BY <1>0, <1>2, <2>1 DEF GroupWaits
    <3>. HIDE DEF s
    <3>2. CASE status[s] # "pending"
      BY <1>1, <2>k, <3>2 DEF s
    <3>3. CASE \E f \in Going : f.op = "abort" /\ f.t = s
      <4>1. PICK f \in Going : f.op = "abort" /\ f.t = s
        BY <3>3
      <4>2. CASE f # Head(calls)
        BY <1>1, <4>1, <4>2 DEF Over, s
      <4>3. CASE f = Head(calls)
        <5>1. AbortStep
          BY <4>1, <4>3 DEF Step, SettleStep, AbortStep, AbortSubStep, UpStep, NotifyStep, DeliverThen, DeliverAdopt,
             DeliverGroup, CallbackEnds, CallbackReturnsTask
        <5>2. status'[s] # "pending"
          BY <1>0, <2>k, <4>1, <4>3, <5>1 DEF AbortStep, TaskTypes
        <5>. QED
          BY <5>2 DEF s
      <4>. QED
        BY <4>2, <4>3
    <3>4. CASE \E f \in Going : f.op = "abortSub" /\ f.t = t /\ f.i <= k /\ k <= f.n
      <4>1. PICK f \in Going : f.op = "abortSub" /\ f.t = t /\ f.i <= k /\ k <= f.n
        BY <3>4
      <4>2. f \in Frame
        BY <1>0, InRange DEF Going, TaskTypes
      <4>3. f.i \in Nat \ {0} /\ f.n \in Nat /\ ~Over(f)
        BY <2>k, <4>1, <4>2, CallFields DEF Over
      <4>4. CASE f # Head(calls)
        BY <1>1, <4>1, <4>3, <4>4
      <4>5. CASE f = Head(calls)
        <5>1. AbortSubStep
          BY <4>1, <4>5 DEF Step, SettleStep, AbortStep, AbortSubStep, UpStep, NotifyStep, DeliverThen, DeliverAdopt,
             DeliverGroup, CallbackEnds, CallbackReturnsTask
        <5>2. Went({Abort(subtasks[f.t][f.i]), AbortSub(f.t, f.i + 1, f.n)})
          BY <1>0, <1>1, <4>5, <5>1, AbortSubFits
        <5>3. CASE k = f.i
          <6>1. Abort(subtasks[t][k]) \in Going'
            BY <4>1, <5>2, <5>3 DEF Went, Over, Abort
          <6>. QED
            BY <6>1 DEF Abort
        <5>4. CASE k # f.i
          <6>. DEFINE g == AbortSub(f.t, f.i + 1, f.n)
          <6>1. g.op = "abortSub" /\ g.t = t /\ g.i = f.i + 1 /\ g.n = f.n
            BY <4>1 DEF AbortSub
          <6>2. Went({Abort(subtasks[f.t][f.i]), g})
            BY <5>2
          <6>. HIDE DEF g
          <6>3. g.i <= k /\ k <= g.n /\ g.i <= g.n
            BY <2>k, <4>1, <4>3, <5>4, <6>1
          <6>4. ~Over(g)
            BY <4>3, <6>1, <6>3 DEF Over
          <6>5. g \in Going'
            BY <6>2, <6>4 DEF Went
          <6>. QED
            BY <6>1, <6>3, <6>5
        <5>. QED
          BY <5>3, <5>4
      <4>. QED
        BY <4>4, <4>5
    <3>. QED
      BY <3>1, <3>2, <3>3, <3>4
  <2>2. CASE status[t] # "aborted"
    <3>. HIDE DEF s
    <3>1. CASE Head(calls).op = "abort" /\ Head(calls).t = t /\ status[t] = "pending"
      <4>1. AbortStep
        BY <3>1 DEF Step, SettleStep, AbortStep, AbortSubStep, UpStep, NotifyStep, DeliverThen, DeliverAdopt,
           DeliverGroup, CallbackEnds, CallbackReturnsTask
      <4>. DEFINE g == AbortSub(t, 1, Len(subtasks[t]))
      <4>2. Went({g, Notify(t, "abort", 1)})
        BY <1>0, <1>1, <3>1, <4>1, AbortFits
      <4>3. g.op = "abortSub" /\ g.t = t /\ g.i = 1 /\ g.n = Len(subtasks[t])
        BY DEF AbortSub
      <4>. HIDE DEF g
      <4>4. g.i <= k /\ k <= g.n /\ ~Over(g)
        BY <2>k, <4>3 DEF Over
      <4>5. g \in Going'
        BY <4>2, <4>4 DEF Went
      <4>. QED
        BY <4>3, <4>4, <4>5
    <3>2. CASE Head(calls).op = "settle" /\ Head(calls).t = t
      <4>1. SettleStep
        BY <3>2 DEF Step, SettleStep, AbortStep, AbortSubStep, UpStep, NotifyStep, DeliverThen, DeliverAdopt,
           DeliverGroup, CallbackEnds, CallbackReturnsTask
      <4>2. kind[t] # "group"
        BY <1>0, <1>1, <3>2, HeadFits DEF Suited
      <4>. QED
        BY <1>2, <4>2
    <3>3. CASE Head(calls).op = "deliver" /\ Head(calls).how = "group" /\ Head(calls).to = t
      <4>1. DeliverGroup
        BY <3>3 DEF Step, SettleStep, AbortStep, AbortSubStep, UpStep, NotifyStep, DeliverThen, DeliverAdopt,
           DeliverGroup, CallbackEnds, CallbackReturnsTask
      <4>2. Overall(subtasks[t]) = "aborted"
        BY <1>0, <1>7, <2>2, <3>3, <4>1 DEF DeliverGroup, TaskTypes
      <4>3. \A p \in Range(subtasks[t]) : status[p] # "pending"
        BY <1>0, <4>2, OverallIs
      <4>4. status[s] # "pending" /\ s \in Tasks
        BY <2>k, <4>3 DEF s
      <4>5. status'[s] # "pending"
        BY <1>1, <4>4
      <4>. QED
        BY <4>5 DEF s
    <3>4. t \in Created /\ status'[t] # status[t]
      BY <1>2, <1>7, <2>2 DEF Created
    <3>. QED
      BY <1>0, <3>1, <3>2, <3>3, <3>4, Announced
  <2>. QED
    BY <2>1, <2>2
<1>. QED
  BY <1>3, <1>5, <1>6, <1>7 DEF GroupWaits

LEMMA WrapKept ==
    ASSUME WaitInv, Step, NEW t \in Tasks
    PROVE  WrapWaits(t)'
<1>0. TaskInv /\ WrapWaits(t) /\ TaskTypes
  BY DEF WaitInv, TaskInv
<1>1. /\ Carried /\ Final /\ calls # <<>>
      /\ status[t] # "pending" => status'[t] # "pending"
      /\ kind' = kind /\ chain' = chain /\ Created' = Created
  BY <1>0, StepIs DEF Carried, Created
<1>2. SUFFICES ASSUME kind[t] = "wrap" PROVE WrapWaits(t)'
  BY <1>1 DEF WrapWaits
<1>3. PICK u \in Created : Follows(t, u)
  BY <1>0, <1>2 DEF WrapWaits
<1>u. u \in Tasks
  BY DEF Created
<1>4. IF kind[u] = "then" THEN u \in chain[t] ELSE chain[t] = {} /\ subtasks'[t] = <<u>>
  <2>1. CASE kind[u] = "then"
    BY <1>3, <2>1 DEF Follows
  <2>2. CASE kind[u] # "then"
    <3>1. chain[t] = {} /\ subtasks[t] = <<u>>
      BY <1>3, <2>2 DEF Follows
    <3>2. subtasks'[t] = subtasks[t]
      <4>1. CASE CallbackReturnsTask
        BY <1>0, <1>1, <1>2, <3>1, <4>1, ReturnsFits
      <4>2. CASE ~CallbackReturnsTask
        BY <4>2 DEF Step, SettleStep, AbortStep, AbortSubStep, UpStep, NotifyStep, DeliverThen, DeliverAdopt,
           DeliverGroup, CallbackEnds
      <4>. QED
        BY <4>1, <4>2
    <3>. QED
      BY <2>2, <3>1, <3>2
  <2>. QED
    BY <2>1, <2>2
<1>5. ASSUME status'[t] = "pending", ~Due(t)'
      PROVE  \/ status'[u] = "pending" /\ Listens(t, "adopt", u)'
             \/ status'[u] = "aborted" /\ Listens(t, "adopt", u)'
             \/ status'[u] = "aborted" /\ (kind[u] # "group" \/ \E D \in SUBSET Created : u \in D /\ Asleep(D)')
             \/ Adopting(t, u)'
  <2>1. status[t] = "pending" /\ ~Due(t)
    BY <1>0, <1>1, <1>5, DueStays
  <2>2. \/ status[u] = "pending" /\ Listens(t, "adopt", u)
        \/ status[u] = "aborted" /\ Listens(t, "adopt", u)
        \/ status[u] = "aborted" /\ (kind[u] # "group" \/ \E D \in SUBSET Created : u \in D /\ Asleep(D))
        \/ Adopting(t, u)
    BY <1>3, <2>1 DEF Follows
  <2>3. CASE status[u] \in {"pending", "aborted"} /\ Listens(t, "adopt", u)
    <3>1. Listens(t, "adopt", u)'
      BY <1>1, <1>u, <2>3 DEF Listens, Carried
    <3>2. CASE status'[u] = status[u]
      BY <2>3, <3>1, <3>2
    <3>3. CASE status'[u] # status[u]
      <4>1. PICK g \in Going' : Brings(g, t, "adopt")' /\ g.t = u /\ (g.e = "abort" => status'[u] = "aborted")
        BY <1>0, <2>3, <3>3, Hears
      <4>2. CASE g.e = "abort"
        BY <3>1, <4>1, <4>2
      <4>3. CASE g.e # "abort"
        BY <4>1, <4>3 DEF Adopting
      <4>. QED
        BY <4>2, <4>3
    <3>. QED
      BY <3>2, <3>3
  <2>4. CASE status[u] = "aborted" /\ kind[u] # "group"
    BY <1>1, <1>u, <2>4 DEF Final, Settled
  <2>5. CASE status[u] = "aborted" /\ \E D \in SUBSET Created : u \in D /\ Asleep(D)
    BY <2>5, AsleepStays
  <2>6. CASE Adopting(t, u)
    <3>1. PICK f \in Going : Brings(f, t, "adopt") /\ f.t = u /\ f.e # "abort"
      BY <2>6 DEF Adopting
    <3>2. CASE ~(f = Head(calls) /\ f.op = "deliver")
      <4>1. \E g \in Going' : Brings(g, t, "adopt")' /\ g.t = f.t /\ g.e = f.e
        BY <1>0, <3>1, <3>2, BringsOn
      <4>. QED
        BY <3>1, <4>1 DEF Adopting
    <3>3. CASE f = Head(calls) /\ f.op = "deliver"
      <4>1. f.to = t /\ f.how = "adopt"
        BY <3>1, <3>3 DEF Brings
      <4>2. DeliverAdopt
        BY <3>3, <4>1 DEF Step, SettleStep, AbortStep, AbortSubStep, UpStep, NotifyStep, DeliverThen, DeliverAdopt,
           DeliverGroup, CallbackEnds, CallbackReturnsTask
      <4>3. PICK g : Went({g}) /\ g.t = t /\ g.op = "settle"
        BY <1>0, <1>1, <3>1, <3>3, <4>1, <4>2, AdoptFits
      <4>4. g \in Going'
        BY <4>3 DEF Went, Over
      <4>. QED
        BY <1>5, <4>3, <4>4 DEF Due
    <3>. QED
      BY <3>2, <3>3
  <2>. QED
    BY <2>2, <2>3, <2>4, <2>5, <2>6
<1>6. Follows(t, u)'
  BY <1>1, <1>4, <1>5 DEF Follows
<1>. QED
  BY <1>1, <1>6 DEF WrapWaits

-----------------------------------------------------------------------------
(* Nobody is forgotten by the outside.                                     *)

\* Only a new task is told of, or listens, more than before.
Grown ==
    /\ Going \subseteq Going' /\ status' = status /\ Created \subseteq Created'
    /\ \A f \in Going' \ Going : f.op # "notify" /\ (f.op = "deliver" => f.to \notin Created)
    /\ \A t \in Created : /\ kind'[t] = kind[t] /\ subtasks'[t] = subtasks[t]
                          /\ parent'[t] = parent[t] /\ chain'[t] = chain[t]
    /\ \A p \in Tasks : /\ \A j \in DOMAIN links[p] : j \in DOMAIN links'[p] /\ links'[p][j] = links[p][j]
                        /\ \A j \in DOMAIN links'[p] \ DOMAIN links[p] : links'[p][j].to \notin Created

LEMMA GrownTells ==
    ASSUME TaskTypes, Grown, NEW t \in Created, NEW how
    PROVE  /\ \A p \in Tasks : Listens(t, how, p)' <=> Listens(t, how, p)
           /\ \A f \in Going : Brings(f, t, how)' <=> Brings(f, t, how)
           /\ \A f \in Going' \ Going : ~Brings(f, t, how)'
<1>1. \A p \in Tasks : Listens(t, how, p)' <=> Listens(t, how, p)
  BY DEF Listens, Grown
<1>2. ASSUME NEW f \in Going PROVE Brings(f, t, how)' <=> Brings(f, t, how)
  <2>1. CASE f.op = "notify"
    <3>1. f \in Frame
      BY InRange DEF Going, TaskTypes
    <3>2. f.t \in Tasks
      BY <3>1, CallFields DEF Created
    <3>. QED
      BY <2>1, <3>2 DEF Brings, Grown
  <2>2. CASE f.op # "notify"
    BY <2>2 DEF Brings
  <2>. QED
    BY <2>1, <2>2
<1>3. \A f \in Going' \ Going : ~Brings(f, t, how)'
  BY DEF Brings, Grown
<1>. QED
  BY <1>1, <1>2, <1>3

LEMMA GrownAsleep ==
    ASSUME TaskTypes, Grown, NEW D \in SUBSET Created, Asleep(D)
    PROVE  Asleep(D)'
<1>1. ASSUME NEW g \in D PROVE ~Grouping(g)'
  BY GrownTells DEF Grouping, Asleep
<1>2. ASSUME NEW g \in D
      PROVE  /\ kind'[g] = "group" /\ status'[g] # "pending"
             /\ \A s \in Range(subtasks'[g]) : status'[s] # "pending" /\ (kind'[s] = "group" => s \in D)
  <2>1. g \in Created /\ subtasks'[g] = subtasks[g] /\ kind'[g] = kind[g] /\ status' = status
    BY DEF Grown
  <2>2. \A s \in Range(subtasks[g]) : s \in Created /\ kind'[s] = kind[s]
    <3>1. subtasks[g] \in Seq(Created)
      BY <2>1 DEF TaskTypes, Created
    <3>. QED
      BY <3>1, InRange DEF Grown
  <2>. QED
    BY <2>1, <2>2 DEF Asleep
<1>. QED
  BY <1>1, <1>2 DEF Asleep

LEMMA GrownKept ==
    ASSUME WaitInv, Grown, NEW t \in Created
    PROVE  ThenWaits(t)' /\ GroupWaits(t)' /\ WrapWaits(t)'
<1>0. TaskTypes /\ TaskInv /\ Rooted /\ t \in Tasks /\ ThenWaits(t) /\ GroupWaits(t) /\ WrapWaits(t)
  BY DEF WaitInv, TaskInv, Created
<1>1. /\ kind'[t] = kind[t] /\ subtasks'[t] = subtasks[t] /\ status' = status
      /\ parent'[t] = parent[t] /\ chain'[t] = chain[t]
      /\ subtasks[t] \in Seq(Created) /\ Going \subseteq Going'
  BY <1>0 DEF Grown, TaskTypes
<1>2. \A r \in Range(subtasks[t]) : r \in Created /\ r \in Tasks /\ kind'[r] = kind[r]
  BY <1>1, InRange DEF Created, Grown
<1>3. /\ Due(t) => Due(t)'
      /\ Continuing(t) => Continuing(t)'
      /\ Grouping(t) => Grouping(t)'
      /\ \A r \in Tasks : Adopting(t, r) => Adopting(t, r)'
  <2>1. Due(t) => Due(t)'
    BY <1>1 DEF Due
  <2>2. Continuing(t) => Continuing(t)'
    BY <1>0, <1>1, GrownTells DEF Continuing
  <2>3. Grouping(t) => Grouping(t)'
    BY <1>0, <1>1, GrownTells DEF Grouping
  <2>4. \A r \in Tasks : Adopting(t, r) => Adopting(t, r)'
    BY <1>0, <1>1, GrownTells DEF Adopting
  <2>. QED
    BY <2>1, <2>2, <2>3, <2>4
<1>4. \A p \in Tasks : \A how : Listens(t, how, p)' <=> Listens(t, how, p)
  BY <1>0, GrownTells
<1>5. \A r \in Tasks : AwaitsAnswer(t, r) => AwaitsAnswer(t, r)'
  BY <1>1, <1>3, <1>4 DEF AwaitsAnswer
<1>6. ThenWaits(t)'
  <2>1. SUFFICES ASSUME kind[t] = "then" PROVE ThenWaits(t)'
    BY <1>1 DEF ThenWaits
  <2>2. PICK p \in Tasks : p = parent[t]
    BY <1>0, <2>1 DEF Rooted, TaskTypes, Created
  <2>3. Listens(t, "then", p)' <=> Listens(t, "then", p)
    BY <1>4
  <2>4. Listens(t, "then", parent[t])' <=> Listens(t, "then", parent[t])
    BY <1>1, <2>2, <2>3
  <2>. QED
    BY <1>0, <1>1, <1>2, <1>3, <1>5, <2>4 DEF ThenWaits
<1>7. GroupWaits(t)'
  <2>1. SUFFICES ASSUME kind[t] = "group" PROVE GroupWaits(t)'
    BY <1>1 DEF GroupWaits
  <2>2. \A p \in Tasks : p \in Range(subtasks'[t]) <=> Listens(t, "group", p)'
    BY <1>0, <1>1, <1>4, <2>1 DEF GroupWaits
  <2>3. status'[t] = "pending" /\ ~Due(t)' =>
              \/ \E s \in Range(subtasks'[t]) : status'[s] = "pending"
              \/ Grouping(t)'
    BY <1>0, <1>1, <1>3, <2>1 DEF GroupWaits
  <2>4. status'[t] = "aborted" =>
              \A k \in DOMAIN subtasks'[t] :
                  \/ status'[subtasks'[t][k]] # "pending"
                  \/ \E f \in Going' : f.op = "abort" /\ f.t = subtasks'[t][k]
                  \/ \E f \in Going' : f.op = "abortSub" /\ f.t = t /\ f.i <= k /\ k <= f.n
    BY <1>0, <1>1, <2>1 DEF GroupWaits
  <2>. QED
    BY <2>2, <2>3, <2>4 DEF GroupWaits
<1>8. WrapWaits(t)'
  <2>1. SUFFICES ASSUME kind[t] = "wrap" PROVE WrapWaits(t)'
    BY <1>1 DEF WrapWaits
  <2>2. PICK u \in Created : Follows(t, u)
    BY <1>0, <2>1 DEF WrapWaits
  <2>3. u \in Tasks /\ kind'[u] = kind[u] /\ u \in Created'
    BY DEF Created, Grown
  <2>4. \A D \in SUBSET Created : Asleep(D) => Asleep(D)' /\ D \in SUBSET Created'
    BY <1>0, GrownAsleep DEF Grown
  <2>5. Listens(t, "adopt", u)' <=> Listens(t, "adopt", u)
    BY <1>4, <2>3
  <2>6. Follows(t, u)'
    BY <1>1, <1>3, <2>2, <2>3, <2>4, <2>5 DEF Follows
  <2>. QED
    BY <2>3, <2>6 DEF WrapWaits
<1>. QED
  BY <1>6, <1>7, <1>8

\* An answer or an abort from outside.
LEMMA PushKept ==
    ASSUME WaitInv, TaskInv', Carried, status' = status, subtasks' = subtasks, links' = links,
           NEW new, Going' = Going \cup new, \A f \in new : f.op \in {"settle", "abort", "up"}
    PROVE  WaitInv'
<1>1. kind' = kind /\ parent' = parent /\ chain' = chain /\ Created' = Created
  BY DEF Carried, Created
<1>2. Grown
  BY <1>1 DEF Grown
<1>3. ASSUME NEW t \in Tasks PROVE ThenWaits(t)' /\ GroupWaits(t)' /\ WrapWaits(t)'
  <2>1. CASE t \in Created
    BY <1>2, <2>1, GrownKept
  <2>2. CASE t \notin Created
    <3>1. kind'[t] = "none"
      BY <1>1, <2>2 DEF Created
    <3>. QED
      BY <3>1 DEF ThenWaits, GroupWaits, WrapWaits
  <2>. QED
    BY <2>1, <2>2
<1>. QED
  BY <1>1, <1>3 DEF WaitInv, Rooted

\* A task is created.
Adds(k, new) ==
    /\ CanMake(k) /\ new = Fresh
    /\ kind' = [kind EXCEPT ![Fresh] = k] /\ status' = status
    /\ \A t \in Tasks \ {new} : subtasks'[t] = subtasks[t] /\ parent'[t] = parent[t] /\ chain'[t] = chain[t]
    /\ k = "then" <=> parent'[new] # 0
    /\ \A p \in Tasks : /\ \A j \in DOMAIN links[p] : j \in DOMAIN links'[p] /\ links'[p][j] = links[p][j]
                        /\ \A j \in DOMAIN links'[p] \ DOMAIN links[p] : links'[p][j].to = new
    /\ Going' \subseteq {f \in Frame' : f.op = "deliver" /\ f.to = new}
    /\ ThenWaits(new)' /\ GroupWaits(new)' /\ WrapWaits(new)'

LEMMA CreatedKept ==
    ASSUME WaitInv, TaskInv', NEW k \in Kinds, NEW new, Adds(k, new)
    PROVE  WaitInv'
<1>0. TaskTypes /\ Blank /\ Rooted
  BY DEF WaitInv, TaskInv
<1>. USE DEF Adds
<1>1. /\ new \in Tasks \ Created /\ Created' = Created \cup {new}
      /\ kind'[new] = k
      /\ \A t \in Tasks \ {new} : kind'[t] = kind[t]
  BY <1>0, Creates
<1>2. Going = {}
  BY DEF CanMake, Quiet, Going, Range
<1>3. Grown
  BY <1>1, <1>2 DEF Grown, Created
<1>4. ASSUME NEW t \in Tasks PROVE ThenWaits(t)' /\ GroupWaits(t)' /\ WrapWaits(t)'
  <2>1. CASE t \in Created
    BY <1>3, <2>1, GrownKept
  <2>2. CASE t \notin Created /\ t # new
    <3>1. kind'[t] = "none"
      BY <1>1, <2>2 DEF Created
    <3>. QED
      BY <3>1 DEF ThenWaits, GroupWaits, WrapWaits
  <2>. QED
    BY <2>1, <2>2
<1>5. Rooted'
  BY <1>0, <1>1 DEF Rooted
<1>. QED
  BY <1>4, <1>5 DEF WaitInv

\* The new task listens, or what happened already is on its way to it.
LEMMA JoinTells ==
    ASSUME TaskTypes, Quiet, NEW c \in Created', NEW how \in Hows, NEW p \in Created, p \in Created',
           Link \subseteq Link', Frame \subseteq Frame', status' = status, Joined(c, how, p, links)
    PROVE  /\ \A q \in Tasks : /\ \A j \in DOMAIN links[q] : j \in DOMAIN links'[q] /\ links'[q][j] = links[q][j]
                               /\ \A j \in DOMAIN links'[q] \ DOMAIN links[q] : links'[q][j].to = c
           /\ Going' \subseteq {f \in Frame' : f.op = "deliver" /\ f.to = c}
           /\ \/ status'[p] = "pending" /\ Listens(c, how, p)'
              \/ \E f \in Going' : /\ Brings(f, c, how)' /\ f.t = p
                                   /\ f.e = "abort" => status'[p] = "aborted"
<1>1. p \in Tasks /\ status[p] \in Settled \cup {"pending"} /\ links \in [Tasks -> Seq(Link')]
  BY SeqGrows DEF TaskTypes, Created
<1>2. calls = <<>> /\ Going = {}
  BY DEF Quiet, Going, Range
<1>3. CASE status[p] = "pending"
  <2>. DEFINE l == [to |-> c, how |-> how]
  <2>1. l \in Link' /\ l.to = c
    BY DEF Link
  <2>2. calls' = calls /\ links' = [links EXCEPT ![p] = Append(@, l)]
    BY <1>3 DEF Joined
  <2>h. l = [to |-> c, how |-> how]
    OBVIOUS
  <2>. HIDE DEF l
  <2>3. /\ \A t \in Tasks \ {p} : links'[t] = links[t]
        /\ \A i \in DOMAIN links[p] : i \in DOMAIN links'[p] /\ links'[p][i] = links[p][i]
        /\ \A i \in DOMAIN links'[p] \ DOMAIN links[p] : links'[p][i] = l
        /\ \E i \in DOMAIN links'[p] : links'[p][i] = l
    BY <1>1, <2>1, <2>2, LinkGrows, SMTT(30)
  <2>4. Going' = {}
    BY <1>2, <2>2 DEF Going
  <2>5. Listens(c, how, p)'
    BY <2>3, <2>h DEF Listens
  <2>. QED
    BY <1>3, <2>1, <2>3, <2>4, <2>5
<1>4. CASE status[p] # "pending"
  <2>1. links' = links
    BY <1>4 DEF Joined
  <2>2. PICK e \in Events : calls' = <<Deliver(c, how, p, e)>> \o calls /\ (e = "abort" => status[p] = "aborted")
    <3>. DEFINE ee == CASE status[p] = "resolved" -> "finish"
                        [] status[p] = "rejected" -> "fail"
                        [] status[p] = "aborted" -> "abort"
    <3>1. calls' = <<Deliver(c, how, p, ee)>> \o calls
      BY <1>4 DEF Joined
    <3>2. ee \in Events /\ (ee = "abort" => status[p] = "aborted")
      BY <1>1, <1>4 DEF Settled, Events
    <3>. HIDE DEF ee
    <3>. QED
      BY <3>1, <3>2
  <2>. DEFINE f == Deliver(c, how, p, e)
  <2>3. f \in Frame' /\ f.op = "deliver" /\ f.to = c /\ f.how = how /\ f.t = p /\ f.e = e /\ calls' = <<f>> \o calls
    BY <2>2 DEF Deliver, Frame
  <2>. HIDE DEF f
  <2>4. Going' = {f}
    BY <1>2, <2>3, Called
  <2>5. Brings(f, c, how)'
    BY <2>3 DEF Brings, f
  <2>. QED
    BY <2>1, <2>2, <2>3, <2>4, <2>5
<1>. QED
  BY <1>3, <1>4

LEMMA NewTaskKept ==
    ASSUME WaitInv, NewTask
    PROVE  WaitInv'
<1>0. TaskInv /\ TaskInv' /\ TaskTypes /\ Blank
  BY NewTaskFits DEF WaitInv, TaskInv
<1>1. /\ CanMake("root") /\ kind' = [kind EXCEPT ![Fresh] = "root"] /\ "root" \in Kinds
      /\ UNCHANGED <<status, subtasks, parent, chain, links, calls>>
  BY DEF NewTask, Kinds
<1>n. PICK new : new = Fresh
  OBVIOUS
<1>2. new \in Tasks \ Created /\ kind'[new] = "root" /\ parent'[new] = 0
  BY <1>0, <1>1, <1>n, Creates DEF Blank
<1>3. Going' = {}
  BY <1>1 DEF CanMake, Quiet, Going, Range
<1>4. ThenWaits(new)' /\ GroupWaits(new)' /\ WrapWaits(new)'
  BY <1>2 DEF ThenWaits, GroupWaits, WrapWaits
<1>5. Adds("root", new)
  BY <1>0, <1>1, <1>2, <1>3, <1>4, <1>n DEF Adds
<1>. QED
  BY <1>0, <1>1, <1>5, CreatedKept

LEMMA NewThenKept ==
    ASSUME WaitInv, NEW p \in Tasks, NEW cb \in Profiles, Then(p, cb)
    PROVE  WaitInv'
<1>0. TaskInv /\ TaskInv' /\ TaskTypes /\ Blank
  BY NewThenFits DEF WaitInv, TaskInv
<1>1. /\ CanMake("then") /\ kind' = [kind EXCEPT ![Fresh] = "then"] /\ "then" \in Kinds
      /\ UNCHANGED <<status, subtasks, chain>> /\ p \in Created
      /\ parent' = [parent EXCEPT ![Fresh] = p] /\ Joined(Fresh, "then", p, links)
  BY DEF Then, Kinds
<1>n. PICK new : new = Fresh
  OBVIOUS
<1>2. /\ new \in Tasks \ Created /\ Created' = Created \cup {new} /\ kind'[new] = "then"
      /\ Link \subseteq Link' /\ Frame \subseteq Frame'
  BY <1>0, <1>1, <1>n, Creates
<1>3. /\ parent'[new] = p /\ \A t \in Tasks \ {new} : parent'[t] = parent[t]
      /\ subtasks'[new] = <<>> /\ p # 0
  BY <1>0, <1>1, <1>2, <1>n DEF TaskTypes, Blank, Tasks
<1>4. Joined(new, "then", p, links) /\ Quiet /\ "then" \in Hows
  BY <1>1, <1>n DEF CanMake, Hows
<1>5. /\ \A q \in Tasks : /\ \A j \in DOMAIN links[q] : j \in DOMAIN links'[q] /\ links'[q][j] = links[q][j]
                          /\ \A j \in DOMAIN links'[q] \ DOMAIN links[q] : links'[q][j].to = new
      /\ Going' \subseteq {f \in Frame' : f.op = "deliver" /\ f.to = new}
      /\ \/ status'[p] = "pending" /\ Listens(new, "then", p)'
         \/ \E f \in Going' : Brings(f, new, "then")'
  BY <1>0, <1>1, <1>2, <1>4, JoinTells
<1>6. ThenWaits(new)'
  <2>1. Range(subtasks'[new]) = {}
    BY <1>3, NoCalls
  <2>2. Continuing(new)' \/ (status'[p] = "pending" /\ Listens(new, "then", parent[new])')
    BY <1>3, <1>5 DEF Continuing, Listens
  <2>. QED
    BY <1>3, <2>1, <2>2 DEF ThenWaits
<1>7. GroupWaits(new)' /\ WrapWaits(new)'
  BY <1>2 DEF GroupWaits, WrapWaits
<1>8. Adds("then", new)
  BY <1>1, <1>3, <1>5, <1>6, <1>7, <1>n DEF Adds
<1>. QED
  BY <1>0, <1>1, <1>8, CreatedKept

LEMMA NewGroupKept ==
    ASSUME WaitInv, NEW n \in 1..MaxGroup, NEW ts \in [1..n -> Tasks], NewGroup(ts)
    PROVE  WaitInv'
<1>0. TaskInv /\ TaskInv' /\ TaskTypes /\ Blank /\ TaskTypes'
  BY NewGroupFits DEF WaitInv, TaskInv
<1>n. PICK new : new = Fresh
  OBVIOUS
<1>1. /\ CanMake("group") /\ kind' = [kind EXCEPT ![Fresh] = "group"] /\ "group" \in Kinds
      /\ UNCHANGED <<status, parent, chain>> /\ Range(ts) \subseteq Created
      /\ subtasks' = [subtasks EXCEPT ![new] = ts]
      /\ links' = [t \in Tasks |-> IF t \in Range(ts) THEN Append(links[t], [to |-> new, how |-> "group"]) ELSE links[t]]
      /\ calls' = <<Deliver(new, "group", new, "finish")>> \o calls
  BY <1>n DEF NewGroup, Kinds
<1>2. /\ new \in Tasks \ Created /\ Created' = Created \cup {new} /\ kind'[new] = "group"
      /\ Link \subseteq Link' /\ Frame \subseteq Frame'
  BY <1>0, <1>1, <1>n, Creates
<1>3. /\ parent'[new] = 0 /\ status'[new] = "pending" /\ subtasks'[new] = ts
      /\ \A t \in Tasks \ {new} : subtasks'[t] = subtasks[t]
  BY <1>0, <1>1, <1>2 DEF TaskTypes, Blank
<1>. DEFINE l == [to |-> new, how |-> "group"]
<1>4. l \in Link' /\ l.to = new
  BY <1>2 DEF Link, Hows
<1>g. links \in [Tasks -> Seq(Link')]
  BY <1>0, <1>2, SeqGrows DEF TaskTypes
<1>5. links' = [t \in Tasks |-> IF t \in Range(ts) THEN Append(links[t], l) ELSE links[t]]
  BY <1>1
<1>h. l = [to |-> new, how |-> "group"]
  OBVIOUS
<1>. HIDE DEF l
<1>6. ASSUME NEW q \in Tasks
      PROVE  /\ \A j \in DOMAIN links[q] : j \in DOMAIN links'[q] /\ links'[q][j] = links[q][j]
             /\ \A j \in DOMAIN links'[q] \ DOMAIN links[q] : links'[q][j].to = new
             /\ q \in Range(ts) <=> \E j \in DOMAIN links'[q] : links'[q][j] = l
  <2>o. \A j \in DOMAIN links[q] : links[q][j] # l
    <3>1. links[q] \in Seq(Link)
      BY <1>0 DEF TaskTypes
    <3>2. \A j \in DOMAIN links[q] : links[q][j] \in Link
      BY <3>1
    <3>. QED
      BY <1>2, <1>4, <3>2 DEF Link
  <2>1. CASE q \in Range(ts)
    <3>. DEFINE ls == links[q]
                z == Append(ls, l)
    <3>1. ls \in Seq(Link') /\ links'[q] = z
      BY <1>g, <1>5, <2>1
    <3>. HIDE DEF ls
    <3>2. /\ \A i \in DOMAIN ls : i \in DOMAIN z /\ z[i] = ls[i]
          /\ \A i \in DOMAIN z \ DOMAIN ls : z[i] = l
          /\ \E i \in DOMAIN z : z[i] = l
      BY <1>4, <3>1, Appended
    <3>. HIDE DEF z
    <3>. QED
      BY <1>4, <2>1, <3>1, <3>2 DEF ls
  <2>2. CASE q \notin Range(ts)
    BY <1>5, <2>2, <2>o
  <2>. QED
    BY <2>1, <2>2
<1>. DEFINE f == Deliver(new, "group", new, "finish")
<1>7. f \in Frame' /\ f.op = "deliver" /\ f.to = new /\ f.how = "group"
  BY <1>2 DEF Deliver, Frame, Hows, Events
<1>8. Going' = {f}
  <2>1. calls' = <<f>> \o calls /\ Going = {}
    BY <1>1 DEF CanMake, Quiet, Going, Range
  <2>. HIDE DEF f
  <2>. QED
    BY <1>0, <1>2, <1>7, <2>1, Called
<1>. HIDE DEF f
<1>9. Grouping(new)'
  BY <1>7, <1>8 DEF Grouping, Brings
<1>10. \A p \in Tasks : p \in Range(subtasks'[new]) <=> Listens(new, "group", p)'
  BY <1>3, <1>6, <1>h DEF Listens
<1>11. GroupWaits(new)'
  BY <1>3, <1>9, <1>10 DEF GroupWaits
<1>12. ThenWaits(new)' /\ WrapWaits(new)'
  BY <1>2 DEF ThenWaits, WrapWaits
<1>13. Going' \subseteq {g \in Frame' : g.op = "deliver" /\ g.to = new}
  BY <1>7, <1>8
<1>14. \A t \in Tasks \ {Fresh} : subtasks'[t] = subtasks[t] /\ parent'[t] = parent[t] /\ chain'[t] = chain[t]
  BY <1>1, <1>3, <1>n
<1>15. \A p \in Tasks : /\ \A j \in DOMAIN links[p] : j \in DOMAIN links'[p] /\ links'[p][j] = links[p][j]
                        /\ \A j \in DOMAIN links'[p] \ DOMAIN links[p] : links'[p][j].to = new
  BY <1>6
<1>16. CanMake("group") /\ kind' = [kind EXCEPT ![Fresh] = "group"] /\ "group" \in Kinds /\ status' = status
  BY <1>1
<1>17. Adds("group", new)
  BY <1>16, <1>3, <1>11, <1>12, <1>13, <1>14, <1>15, <1>n DEF Adds
<1>. QED
  BY <1>0, <1>16, <1>17, CreatedKept

LEMMA ToTaskKept ==
    ASSUME WaitInv, NEW t \in Tasks, ToTask(t)
    PROVE  WaitInv'
<1>0. TaskInv /\ TaskInv' /\ TaskTypes /\ Blank /\ Rooted /\ \A g \in Tasks : GroupWaits(g) /\ Agreed(g)
  BY ToTaskFits DEF WaitInv, TaskInv
<1>n. PICK new : new = Fresh
  OBVIOUS
<1>1. /\ CanMake("wrap") /\ kind' = [kind EXCEPT ![Fresh] = "wrap"] /\ "wrap" \in Kinds
      /\ UNCHANGED <<status, parent>> /\ t \in Created
      /\ subtasks' = [subtasks EXCEPT ![new] = Line[t]]
      /\ chain' = [chain EXCEPT ![new] = IF kind[t] = "then" THEN Range(Line[t]) ELSE {}]
      /\ Joined(new, "adopt", t, links)
  BY <1>n DEF ToTask, Kinds
<1>2. /\ new \in Tasks \ Created /\ Created' = Created \cup {new} /\ kind'[new] = "wrap"
      /\ Link \subseteq Link' /\ Frame \subseteq Frame' /\ kind'[t] = kind[t]
  BY <1>0, <1>1, <1>n, Creates
<1>3. /\ parent'[new] = 0 /\ subtasks'[new] = Line[t] /\ chain'[new] = IF kind[t] = "then" THEN Range(Line[t]) ELSE {}
      /\ \A u \in Tasks \ {new} : subtasks'[u] = subtasks[u] /\ chain'[u] = chain[u]
  BY <1>0, <1>1, <1>2 DEF TaskTypes, Blank
<1>4. t \in Range(Line[t]) /\ (parent[t] = 0 => Line[t] = <<t>>)
  BY <1>0, <1>1, LineType DEF TaskInv, Fits
<1>5. IF kind'[t] = "then" THEN t \in chain'[new] ELSE chain'[new] = {} /\ subtasks'[new] = <<t>>
  BY <1>0, <1>2, <1>3, <1>4 DEF Rooted
<1>q. Quiet /\ "adopt" \in Hows /\ t \in Created' /\ Going = {}
  BY <1>1, <1>2 DEF CanMake, Hows, Quiet, Going, Range
<1>6. /\ \A q \in Tasks : /\ \A j \in DOMAIN links[q] : j \in DOMAIN links'[q] /\ links'[q][j] = links[q][j]
                          /\ \A j \in DOMAIN links'[q] \ DOMAIN links[q] : links'[q][j].to = new
      /\ Going' \subseteq {f \in Frame' : f.op = "deliver" /\ f.to = new}
      /\ \/ status'[t] = "pending" /\ Listens(new, "adopt", t)'
         \/ \E f \in Going' : /\ Brings(f, new, "adopt")' /\ f.t = t
                              /\ f.e = "abort" => status'[t] = "aborted"
  BY <1>0, <1>1, <1>2, <1>q, JoinTells
<1>7. kind[t] = "group" /\ status[t] = "aborted" => \E D \in SUBSET Created' : t \in D /\ Asleep(D)'
  <2>. DEFINE D == {g \in Created : kind[g] = "group" /\ status[g] # "pending"}
  <2>1. Asleep(D)
    <3>1. SUFFICES ASSUME NEW g \in D
                   PROVE  /\ \A s \in Range(subtasks[g]) : status[s] # "pending" /\ (kind[s] = "group" => s \in D)
                          /\ ~Grouping(g)
      BY DEF Asleep
    <3>2. ~Grouping(g)
      BY <1>q DEF Grouping
    <3>3. g \in Tasks /\ kind[g] = "group" /\ status[g] \in Settled /\ subtasks[g] \in Seq(Created)
      BY <1>0 DEF TaskTypes, Created
    <3>4. \A s \in Range(subtasks[g]) : status[s] # "pending"
      <4>1. CASE status[g] = "aborted"
        BY <1>0, <1>q, <3>3, <4>1 DEF GroupWaits, Range
      <4>2. CASE status[g] # "aborted"
        <5>1. Overall(subtasks[g]) \in {"resolved", "rejected"}
          BY <1>0, <3>3, <4>2 DEF Agreed, Settled
        <5>2. \A p \in Range(subtasks[g]) : status[p] \in {"resolved", "rejected"}
          BY <1>0, <3>3, <5>1, OverallIs
        <5>. QED
          BY <5>2
      <4>. QED
        BY <4>1, <4>2
    <3>5. \A s \in Range(subtasks[g]) : s \in Created
      BY <3>3, InRange
    <3>. QED
      BY <3>2, <3>4, <3>5
  <2>2. Grown
    <3>1. \A u \in Created : kind'[u] = kind[u] /\ subtasks'[u] = subtasks[u] /\ parent'[u] = parent[u] /\ chain'[u] = chain[u]
      BY <1>0, <1>1, <1>2, <1>3, <1>n, Creates DEF Created
    <3>. QED
      BY <1>1, <1>2, <1>6, <1>q, <3>1 DEF Grown
  <2>. DEFINE Ds == {E \in SUBSET Created : Asleep(E)}
  <2>3. PICK E : E = D
    OBVIOUS
  <2>4. E \in SUBSET Created /\ Asleep(E) /\ (kind[t] = "group" /\ status[t] = "aborted" => t \in E)
    <3>1. E \in SUBSET Created /\ (kind[t] = "group" /\ status[t] = "aborted" => t \in E)
      BY <1>1, <2>3
    <3>. HIDE DEF D
    <3>. QED
      BY <2>1, <2>3, <3>1
  <2>5. Asleep(E)'
    BY <1>0, <2>2, <2>4, GrownAsleep
  <2>. QED
    BY <1>2, <2>4, <2>5
<1>8. Follows(new, t)'
  <2>1. \/ status'[t] = "pending" /\ Listens(new, "adopt", t)'
        \/ status'[t] = "aborted" /\ (kind'[t] # "group" \/ \E D \in SUBSET Created' : t \in D /\ Asleep(D)')
        \/ Adopting(new, t)'
    <3>1. CASE status'[t] = "aborted"
      BY <1>1, <1>2, <1>7, <3>1
    <3>2. CASE status'[t] # "aborted"
      BY <1>6, <3>2 DEF Adopting
    <3>. QED
      BY <3>1, <3>2
  <2>. QED
    BY <1>5, <2>1 DEF Follows
<1>9. WrapWaits(new)'
  BY <1>8, <1>q DEF WrapWaits
<1>10. ThenWaits(new)' /\ GroupWaits(new)'
  BY <1>2 DEF ThenWaits, GroupWaits
<1>11. \A u \in Tasks \ {new} : subtasks'[u] = subtasks[u] /\ parent'[u] = parent[u] /\ chain'[u] = chain[u]
  BY <1>1, <1>3
<1>12. Adds("wrap", new)
  BY <1>1, <1>3, <1>6, <1>9, <1>10, <1>11, <1>n DEF Adds
<1>. QED
  BY <1>0, <1>1, <1>12, CreatedKept

LEMMA WaitKept == WaitInv /\ [TaskNext]_taskVars => WaitInv'
<1>. SUFFICES ASSUME WaitInv, [TaskNext]_taskVars PROVE WaitInv'
  OBVIOUS
<1>0. TaskInv /\ TaskInv' /\ Rooted
  BY InvKept DEF WaitInv
<1>1. CASE NewTask
  BY <1>1, NewTaskKept
<1>2. CASE \E p \in Tasks, cb \in Profiles : Then(p, cb)
  BY <1>2, NewThenKept
<1>3. CASE \E n \in 1..MaxGroup : \E ts \in [1..n -> Tasks] : NewGroup(ts)
  BY <1>3, NewGroupKept
<1>4. CASE \E t \in Tasks : ToTask(t)
  BY <1>4, ToTaskKept
<1>5. CASE \E t \in Tasks, s \in {"resolved", "rejected"} : Answer(t, s)
  <2>1. PICK t \in Tasks, s \in {"resolved", "rejected"} : Answer(t, s)
    BY <1>5
  <2>2. /\ Carried /\ status' = status /\ subtasks' = subtasks /\ links' = links
        /\ Going' = Going \cup {Settle(t, s)}
    BY <1>0, <2>1, AnswerFits
  <2>3. PICK new : new = {Settle(t, s)}
    OBVIOUS
  <2>4. Going' = Going \cup new /\ \A f \in new : f.op \in {"settle", "abort", "up"}
    BY <2>2, <2>3 DEF Settle
  <2>. QED
    BY <1>0, <2>2, <2>4, PushKept
<1>6. CASE \E t \in Tasks, retroactive \in BOOLEAN : UserAbort(t, retroactive)
  <2>1. PICK t \in Tasks, retroactive \in BOOLEAN : UserAbort(t, retroactive)
    BY <1>6
  <2>2. /\ Carried /\ status' = status /\ subtasks' = subtasks /\ links' = links
        /\ \E new : Going' = Going \cup new /\ \A f \in new : f.op \in {"abort", "up"}
    BY <1>0, <2>1, UserAbortFits
  <2>3. PICK new : Going' = Going \cup new /\ \A f \in new : f.op \in {"abort", "up"}
    BY <2>2
  <2>. QED
    BY <1>0, <2>2, <2>3, PushKept
<1>7. CASE Step
  <2>1. \A t \in Tasks : ThenWaits(t)' /\ GroupWaits(t)' /\ WrapWaits(t)'
    BY <1>7, ThenKept, GroupKept, WrapKept
  <2>2. kind' = kind /\ parent' = parent
    BY <1>0, <1>7, StepIs DEF Carried
  <2>. QED
    BY <1>0, <2>1, <2>2 DEF WaitInv, Rooted
<1>8. CASE UNCHANGED taskVars
  <2>1. UNCHANGED <<kind, status, subtasks, parent, chain, links, calls>>
    BY <1>8 DEF taskVars
  <2>2. Carried
    BY <1>0, <2>1 DEF Carried, TaskInv, TaskTypes
  <2>3. PICK new : new = {}
    OBVIOUS
  <2>4. Going' = Going \cup new /\ \A f \in new : f.op \in {"settle", "abort", "up"}
    BY <2>1, <2>3 DEF Going
  <2>. QED
    BY <1>0, <2>1, <2>2, <2>4, PushKept
<1>. QED
  BY <1>1, <1>2, <1>3, <1>4, <1>5, <1>6, <1>7, <1>8 DEF TaskNext

LEMMA WaitAlways == TaskSpec => []WaitInv
<1>1. TaskInit => WaitInv
  <2>1. SUFFICES ASSUME TaskInit PROVE WaitInv
    OBVIOUS
  <2>2. \A t \in Tasks : kind[t] = "none" /\ parent[t] = 0
    BY <2>1 DEF TaskInit
  <2>. QED
    BY <2>1, <2>2, InvHolds DEF WaitInv, Rooted, ThenWaits, GroupWaits, WrapWaits
<1>2. WaitInv /\ [TaskNext]_taskVars => WaitInv'
  BY WaitKept
<1>. QED
  BY <1>1, <1>2, PTL DEF TaskSpec

\* NobodyForgotten: between calls every pending task but a root hangs from a
\* task that is still pending, or adopted one that was aborted, however deep
\* the listeners of Task.js called each other and whatever was created, answered
\* or aborted from inside their callbacks.
THEOREM NobodyEverForgotten == TaskSpec => []NobodyForgotten
<1>1. WaitInv => NobodyForgotten
  <2>1. SUFFICES ASSUME WaitInv, Quiet, NEW t \in Created, status[t] = "pending"
                 PROVE  CASE kind[t] = "root" -> TRUE
                          [] kind[t] = "group" -> Overall(subtasks[t]) = "pending"
                          [] kind[t] = "wrap" -> \E p \in Range(subtasks[t]) \cup chain[t] : status[p] \in {"pending", "aborted"}
                          [] kind[t] = "then" ->
                                \/ status[parent[t]] = "pending"
                                \/ /\ subtasks[t] # <<>>
                                   /\ \A r \in Range(subtasks[t]) : status[r] \in {"pending", "aborted"}
    BY DEF NobodyForgotten
  <2>2. Going = {}
    BY <2>1 DEF Quiet, Going, Range
  <2>3. ~Due(t) /\ ~Continuing(t) /\ ~Grouping(t) /\ \A u : ~Adopting(t, u)
    BY <2>2 DEF Due, Continuing, Grouping, Adopting
  <2>4. /\ t \in Tasks /\ TaskTypes /\ ThenWaits(t) /\ GroupWaits(t) /\ WrapWaits(t)
        /\ kind[t] \in Kinds
    BY <2>1 DEF WaitInv, TaskInv, TaskTypes, Created
  <2>5. CASE kind[t] = "root"
    BY <2>5
  <2>6. CASE kind[t] = "group"
    <3>1. \E s \in Range(subtasks[t]) : status[s] = "pending"
      BY <2>1, <2>3, <2>4, <2>6 DEF GroupWaits
    <3>2. Overall(subtasks[t]) = "pending"
      BY <2>4, <3>1, OverallIs
    <3>. QED
      BY <2>6, <3>2
  <2>7. CASE kind[t] = "wrap"
    <3>1. PICK u \in Created : Follows(t, u)
      BY <2>4, <2>7 DEF WrapWaits
    <3>2. status[u] \in {"pending", "aborted"}
      BY <2>1, <2>3, <3>1 DEF Follows
    <3>3. u \in Range(subtasks[t]) \cup chain[t]
      <4>1. CASE kind[u] = "then"
        BY <3>1, <4>1 DEF Follows
      <4>2. CASE kind[u] # "then"
        <5>1. subtasks[t] = <<u>> /\ Range(<<u>>) = {u}
          BY <3>1, <4>2, OneCall DEF Follows
        <5>. QED
          BY <5>1
      <4>. QED
        BY <4>1, <4>2
    <3>. QED
      BY <2>7, <3>2, <3>3
  <2>8. CASE kind[t] = "then"
    <3>1. status[parent[t]] = "pending" \/ subtasks[t] # <<>>
      BY <2>1, <2>3, <2>4, <2>8 DEF ThenWaits
    <3>2. \A r \in Range(subtasks[t]) : status[r] \in {"pending", "aborted"}
      BY <2>1, <2>3, <2>4, <2>8 DEF ThenWaits, AwaitsAnswer
    <3>. QED
      BY <2>8, <3>1, <3>2
  <2>. QED
    BY <2>4, <2>5, <2>6, <2>7, <2>8 DEF Kinds
<1>. QED
  BY <1>1, WaitAlways, PTL

-----------------------------------------------------------------------------
(* What an abort still has to reach.                                       *)

\* The subtask at a position is over, is about to be aborted or will be by the
\* walk of its task.
Told(t, k) ==
    \/ status[subtasks[t][k]] # "pending"
    \/ \E f \in Going : f.op = "abort" /\ f.t = subtasks[t][k]
    \/ \E f \in Going : f.op = "abortSub" /\ f.t = t /\ f.i <= k /\ k <= f.n

\* Nothing is called from above a call to abort.
AbortOnTop == \A i \in DOMAIN calls : i > 1 => calls[i].op # "abort"

\* Returned by the callback of a continuation that was over.
Late(r) == \E c \in Tasks, s \in Settled : <<c, r, s>> \in returned

\* What a callback returned is among the subtasks of its continuation.
Holds(c, r, k) == k \in DOMAIN subtasks[c] /\ subtasks[c][k] = r

Held(c, r, s) ==
    /\ kind[c] = "then" /\ kind[r] = "root"
    /\ \E k \in Nat : Holds(c, r, k) /\ (s = "pending" /\ status[c] = "aborted" => Told(c, k))

ReturnedHeld ==
    /\ returned \subseteq Created \X Created \X (Settled \cup {"pending"})
    /\ \A e \in returned : Held(e[1], e[2], e[3])

SubtasksTold ==
    \A t \in Tasks : status[t] = "aborted" =>
        \A k \in DOMAIN subtasks[t] : Told(t, k) \/ Late(subtasks[t][k])

ReachInv == TaskInv /\ AbortOnTop /\ ReturnedHeld /\ SubtasksTold

-----------------------------------------------------------------------------
(* The calls to abort.                                                     *)

\* What the head of the stack gives way to.
Short(new) == new = <<>> \/ (\E f : new = <<f>>) \/ (\E f, g : new = <<f, g>> /\ g.op # "abort")

LEMMA LeavesShort ==
    ASSUME TaskInv, Step
    PROVE  \E new : Short(new) /\ Return(new)
<1>1. calls # <<>>
  BY DEF Step
<1>. DEFINE h == Head(calls)
<1>2. h \in Frame
  BY <1>1, HeadFits
<1>. SUFFICES \/ Return(<<>>) \/ (\E f : Return(<<f>>)) \/ (\E f, g : Return(<<f, g>>) /\ g.op # "abort")
  BY DEF Short
<1>3. CASE SettleStep
  BY <1>3, Zenon DEF SettleStep
<1>4. CASE AbortStep
  <2>1. Notify(h.t, "abort", 1).op # "abort"
    BY DEF Notify
  <2>. QED
    BY <1>4, <2>1, Zenon DEF AbortStep
<1>5. CASE AbortSubStep
  <2>1. AbortSub(h.t, h.i + 1, h.n).op # "abort"
    BY DEF AbortSub
  <2>. QED
    BY <1>5, <2>1, Zenon DEF AbortSubStep
<1>6. CASE UpStep
  <2>1. Up(parent[h.t]).op # "abort"
    BY DEF Up
  <2>2. Return(<<Abort(parent[h.t]), Up(parent[h.t])>>) \/ Return(<<>>)
    BY <1>6, Zenon DEF UpStep
  <2>. QED
    BY <2>1, <2>2, Zenon
<1>7. CASE NotifyStep
  <2>1. Notify(h.t, h.e, h.i + 1).op # "abort"
    BY DEF Notify
  <2>. QED
    BY <1>7, <2>1, Zenon DEF NotifyStep
<1>8. CASE DeliverThen
  BY <1>8, Zenon DEF DeliverThen
<1>9. CASE DeliverAdopt
  <2>1. h.e \in Events
    BY <1>2, <1>9, CallFields DEF DeliverAdopt
  <2>2. Return(CASE h.e = "finish" -> <<Settle(h.to, "resolved")>>
                 [] h.e = "fail" -> <<Settle(h.to, "rejected")>>
                 [] h.e = "abort" -> <<>>)
    BY <1>9 DEF DeliverAdopt
  <2>3. CASE h.e = "finish"
    <3>1. Return(<<Settle(h.to, "resolved")>>)
      BY <2>2, <2>3
    <3>. QED
      BY <3>1
  <2>4. CASE h.e = "fail"
    <3>1. Return(<<Settle(h.to, "rejected")>>)
      BY <2>2, <2>4
    <3>. QED
      BY <3>1
  <2>5. CASE h.e = "abort"
    <3>1. Return(<<>>)
      BY <2>2, <2>5
    <3>. QED
      BY <3>1
  <2>. QED
    BY <2>1, <2>3, <2>4, <2>5 DEF Events
<1>10. CASE DeliverGroup
  BY <1>10, Zenon DEF DeliverGroup
<1>11. CASE CallbackEnds
  BY <1>11, Zenon DEF CallbackEnds
<1>12. CASE CallbackReturnsTask
  <2>1. PICK r \in Created :
           IF status[r] = "pending" THEN Return(<<>>)
           ELSE Return(IF status[r] = "aborted" THEN <<>> ELSE <<Settle(h.t, status[r])>>)
    BY <1>12 DEF CallbackReturnsTask
  <2>2. Return(<<>>) \/ Return(<<Settle(h.t, status[r])>>)
    BY <2>1, Zenon
  <2>. QED
    BY <2>2, Zenon
<1>. QED
  BY <1>3, <1>4, <1>5, <1>6, <1>7, <1>8, <1>9, <1>10, <1>11, <1>12 DEF Step

\* What is left of a stack is the end of it.
LEMMA EndLeft ==
    ASSUME NEW S, NEW cs \in Seq(S)
    PROVE  LET left == FromFirstLive(cs)
           IN  \E m \in Nat : \A i \in DOMAIN left : i \in Nat \ {0} /\ m + i \in DOMAIN cs /\ left[i] = cs[m + i]
<1>. DEFINE live == {i \in DOMAIN cs : ~Over(cs[i])}
            left == FromFirstLive(cs)
            m == Min(live)
<1>1. left = IF live = {} THEN <<>> ELSE SubSeq(cs, m, Len(cs))
  BY DEF FromFirstLive
<1>2. CASE live = {}
  <2>1. DOMAIN left = {}
    BY <1>1, <1>2
  <2>. HIDE DEF left
  <2>. QED
    BY <2>1 DEF left
<1>3. CASE live # {}
  <2>1. m \in live
    <3>1. live \in SUBSET Nat
      OBVIOUS
    <3>. HIDE DEF live
    <3>. QED
      BY <3>1, <1>3, LeastOf
  <2>2. m \in 1..Len(cs)
    BY <2>1
  <2>. HIDE DEF m, live
  <2>3. \A i \in m..Len(cs) : cs[i] \in S
    BY <2>2
  <2>4. /\ left \in Seq(S) /\ Len(left) = Len(cs) - m + 1
        /\ \A i \in 1..(Len(cs) - m + 1) : left[i] = cs[m + i - 1]
    BY <1>1, <1>3, <2>2, <2>3, SubSeqProperties
  <2>. HIDE DEF left
  <2>. DEFINE n == Len(cs)
  <2>5. DOMAIN left = 1..(n - m + 1) /\ n \in Nat /\ m \in 1..n /\ DOMAIN cs = 1..n
    BY <2>2, <2>4
  <2>. HIDE DEF n
  <2>6. ASSUME NEW i \in DOMAIN left
        PROVE  i \in Nat \ {0} /\ m - 1 + i \in DOMAIN cs /\ left[i] = cs[m - 1 + i]
    <3>1. i \in Nat \ {0} /\ m - 1 + i \in 1..n /\ m + i - 1 = m - 1 + i
      BY <2>5
    <3>. QED
      BY <2>4, <2>5, <3>1 DEF n
  <2>7. m - 1 \in Nat
    BY <2>5
  <2>. QED
    BY <2>6, <2>7 DEF left
<1>. QED
  BY <1>2, <1>3

\* Where the elements of two sequences are in the one they make.
LEMMA PlacesInConcat ==
    ASSUME NEW S, NEW s \in Seq(S), NEW t \in Seq(S)
    PROVE  LET st == s \o t
           IN  /\ st \in Seq(S) /\ DOMAIN st \subseteq Nat
               /\ \A p \in DOMAIN st : /\ p \in 1..Len(s) => st[p] = s[p]
                                       /\ p > Len(s) => p - Len(s) \in DOMAIN t /\ st[p] = t[p - Len(s)]
<1>0. PICK st : st = s \o t
  OBVIOUS
<1>1. /\ st \in Seq(S) /\ Len(st) = Len(s) + Len(t)
      /\ \A p \in 1..Len(st) : st[p] = IF p <= Len(s) THEN s[p] ELSE t[p - Len(s)]
  BY <1>0, ConcatProperties
<1>2. DOMAIN st = 1..Len(st) /\ DOMAIN t = 1..Len(t) /\ Len(s) \in Nat /\ Len(t) \in Nat
  BY <1>1
<1>3. PICK n \in Nat, m \in Nat : n = Len(s) /\ m = Len(t)
  BY <1>2
<1>4. ASSUME NEW p \in 1..(n + m)
      PROVE  /\ p \in 1..n => p <= n
             /\ p > n => ~(p <= n) /\ p - n \in 1..m
  OBVIOUS
<1>5. /\ st \in Seq(S) /\ DOMAIN st \subseteq Nat
      /\ \A p \in DOMAIN st : /\ p \in 1..Len(s) => st[p] = s[p]
                              /\ p > Len(s) => p - Len(s) \in DOMAIN t /\ st[p] = t[p - Len(s)]
  BY <1>1, <1>2, <1>3, <1>4
<1>. QED
  BY <1>0, <1>5

\* No call to abort but the first, when few calls are put on others.
LEMMA OnlyOnTop ==
    ASSUME NEW new, Short(new), NEW rest \in Seq(Frame), \A j \in DOMAIN rest : rest[j].op # "abort"
    PROVE  LET cs == new \o rest
           IN  \E S : cs \in Seq(S) /\ \A p \in DOMAIN cs : p > 1 => cs[p].op # "abort"
<1>c. PICK cs : cs = new \o rest
  OBVIOUS
<1>. SUFFICES \E S : cs \in Seq(S) /\ \A p \in DOMAIN cs : p > 1 => cs[p].op # "abort"
  BY <1>c
<1>0. rest \in Seq(Frame) /\ \A j \in DOMAIN rest : rest[j].op # "abort"
  OBVIOUS
<1>1. CASE new = <<>>
  <2>1. cs = rest
    BY <1>0, <1>1, <1>c
  <2>. QED
    BY <1>0, <2>1
<1>2. CASE \E f : new = <<f>>
  <2>1. PICK f : new = <<f>>
    BY <1>2
  <2>2. PICK S : S = Frame \cup {f}
    OBVIOUS
  <2>3. new \in Seq(S) /\ rest \in Seq(S) /\ Len(new) = 1
    BY <1>0, <2>1, <2>2
  <2>s. new \in Seq(S) /\ rest \in Seq(S)
    BY <2>3
  <2>4. /\ cs \in Seq(S)
        /\ \A p \in DOMAIN cs : /\ p \in 1..Len(new) => cs[p] = new[p]
                                /\ p > Len(new) => p - Len(new) \in DOMAIN rest /\ cs[p] = rest[p - Len(new)]
        /\ DOMAIN cs \subseteq Nat
    <3>1. LET st == new \o rest
          IN  /\ st \in Seq(S) /\ DOMAIN st \subseteq Nat
              /\ \A p \in DOMAIN st : /\ p \in 1..Len(new) => st[p] = new[p]
                                      /\ p > Len(new) => p - Len(new) \in DOMAIN rest /\ st[p] = rest[p - Len(new)]
      BY <2>s, PlacesInConcat
    <3>. QED
      BY <1>c, <3>1, Zenon
  <2>5. \A p \in DOMAIN cs : p > 1 => cs[p].op # "abort"
    BY <1>0, <2>3, <2>4
  <2>. QED
    BY <2>4, <2>5
<1>3. CASE \E f, g : new = <<f, g>> /\ g.op # "abort"
  <2>1. PICK f, g : new = <<f, g>> /\ g.op # "abort"
    BY <1>3
  <2>2. PICK S : S = Frame \cup {f, g}
    OBVIOUS
  <2>3. new \in Seq(S) /\ rest \in Seq(S) /\ Len(new) = 2 /\ new[2] = g
    BY <1>0, <2>1, <2>2
  <2>s. new \in Seq(S) /\ rest \in Seq(S)
    BY <2>3
  <2>4. /\ cs \in Seq(S)
        /\ \A p \in DOMAIN cs : /\ p \in 1..Len(new) => cs[p] = new[p]
                                /\ p > Len(new) => p - Len(new) \in DOMAIN rest /\ cs[p] = rest[p - Len(new)]
        /\ DOMAIN cs \subseteq Nat
    <3>1. LET st == new \o rest
          IN  /\ st \in Seq(S) /\ DOMAIN st \subseteq Nat
              /\ \A p \in DOMAIN st : /\ p \in 1..Len(new) => st[p] = new[p]
                                      /\ p > Len(new) => p - Len(new) \in DOMAIN rest /\ st[p] = rest[p - Len(new)]
      BY <2>s, PlacesInConcat
    <3>. QED
      BY <1>c, <3>1, Zenon
  <2>5. ASSUME NEW p \in DOMAIN cs, p > 1 PROVE p = 2 \/ p > 2
    BY <2>4, <2>5
  <2>6. \A p \in DOMAIN cs : p > 1 => cs[p].op # "abort"
    <3>1. \A p \in DOMAIN cs : p > 2 => cs[p].op # "abort"
      BY <1>0, <2>3, <2>4
    <3>2. 2 \in DOMAIN cs => cs[2] = g
      <4>1. 2 \in 1..Len(new)
        BY <2>3
      <4>2. \A p \in DOMAIN cs : p \in 1..Len(new) => cs[p] = new[p]
        BY <2>4
      <4>3. new[2] = g
        BY <2>3
      <4>. QED
        BY <4>1, <4>2, <4>3, Zenon
    <3>. QED
      BY <2>1, <2>5, <3>1, <3>2
  <2>. QED
    BY <2>4, <2>6
<1>. QED
  BY <1>1, <1>2, <1>3 DEF Short

LEMMA OnTopStays ==
    ASSUME TaskTypes, AbortOnTop, calls # <<>>, NEW new, Short(new), Return(new)
    PROVE  AbortOnTop'
<1>1. PICK rest : rest = Tail(calls)
  OBVIOUS
<1>2. /\ rest \in Seq(Frame)
      /\ \A j \in DOMAIN rest : j \in Nat \ {0} /\ j + 1 \in DOMAIN calls /\ rest[j] = calls[j + 1]
  BY <1>1 DEF TaskTypes
<1>3. \A j \in DOMAIN rest : rest[j].op # "abort"
  BY <1>2 DEF AbortOnTop
<1>4. PICK cs : cs = new \o rest
  OBVIOUS
<1>5. PICK left : left = calls'
  OBVIOUS
<1>6. left = FromFirstLive(cs)
  BY <1>1, <1>4, <1>5 DEF Return
<1>7. \E S : cs \in Seq(S) /\ \A p \in DOMAIN cs : p > 1 => cs[p].op # "abort"
  BY <1>2, <1>3, <1>4, OnlyOnTop
<1>8. PICK S : cs \in Seq(S) /\ \A p \in DOMAIN cs : p > 1 => cs[p].op # "abort"
  BY <1>7
<1>9. PICK m \in Nat : \A i \in DOMAIN left : i \in Nat \ {0} /\ m + i \in DOMAIN cs /\ left[i] = cs[m + i]
  BY <1>6, <1>8, EndLeft
<1>10. \A i \in DOMAIN left : i > 1 => left[i].op # "abort"
  <2>1. ASSUME NEW i \in DOMAIN left, i > 1 PROVE left[i].op # "abort"
    <3>1. m + i \in DOMAIN cs /\ m + i > 1 /\ left[i] = cs[m + i]
      BY <1>9, <2>1
    <3>. QED
      BY <1>8, <3>1
  <2>. QED
    BY <2>1
<1>. QED
  BY <1>5, <1>10 DEF AbortOnTop

\* While a callback runs nothing is about to be aborted.
LEMMA NoneAborting ==
    ASSUME TaskTypes, AbortOnTop, calls # <<>>, Head(calls).op # "abort"
    PROVE  \A f \in Going : f.op # "abort"
<1>1. calls \in Seq(Frame) /\ Head(calls) = calls[1]
  BY DEF TaskTypes
<1>2. \A i \in DOMAIN calls : i = 1 \/ i > 1
  BY <1>1
<1>3. \A i \in DOMAIN calls : calls[i].op # "abort"
  BY <1>1, <1>2 DEF AbortOnTop
<1>. QED
  BY <1>3 DEF Going, Range


-----------------------------------------------------------------------------
(* What is to be told.                                                     *)

LEMMA ToldStays ==
    ASSUME TaskInv, Step, NEW t \in Tasks, NEW k \in DOMAIN subtasks[t], Told(t, k), subtasks'[t][k] = subtasks[t][k]
    PROVE  Told(t, k)'
<1>1. /\ Carried /\ calls # <<>> /\ TaskTypes
      /\ \A p \in Tasks : status[p] # "pending" => status'[p] # "pending"
      /\ \A f \in Going : f # Head(calls) /\ ~Over(f) => f \in Going'
  BY StepIs DEF TaskInv
<1>2. PICK s : s = subtasks[t][k]
  OBVIOUS
<1>3. s \in Tasks /\ k \in Nat /\ subtasks'[t][k] = s
  <2>1. subtasks[t] \in Seq(Created)
    BY <1>1 DEF TaskTypes
  <2>2. s \in Created /\ k \in Nat
    BY <1>2, <2>1
  <2>. QED
    BY <1>2, <2>2 DEF Created
<1>4. CASE status[s] # "pending"
  <2>1. status'[s] # "pending"
    BY <1>1, <1>3, <1>4
  <2>. QED
    BY <1>3, <2>1 DEF Told
<1>5. CASE \E f \in Going : f.op = "abort" /\ f.t = s
  <2>1. PICK f \in Going : f.op = "abort" /\ f.t = s
    BY <1>5
  <2>2. CASE f # Head(calls)
    <3>1. f \in Going'
      BY <1>1, <2>1, <2>2 DEF Over
    <3>. QED
      BY <1>3, <2>1, <3>1 DEF Told
  <2>3. CASE f = Head(calls)
    <3>1. AbortStep
      BY <2>1, <2>3 DEF Step, SettleStep, AbortStep, AbortSubStep, UpStep, NotifyStep, DeliverThen, DeliverAdopt,
         DeliverGroup, CallbackEnds, CallbackReturnsTask
    <3>2. status'[s] # "pending"
      BY <1>1, <1>3, <2>1, <2>3, <3>1 DEF AbortStep, TaskTypes
    <3>. QED
      BY <1>3, <3>2 DEF Told
  <2>. QED
    BY <2>2, <2>3
<1>6. CASE \E f \in Going : f.op = "abortSub" /\ f.t = t /\ f.i <= k /\ k <= f.n
  <2>1. PICK f \in Going : f.op = "abortSub" /\ f.t = t /\ f.i <= k /\ k <= f.n
    BY <1>6
  <2>2. f \in Frame
    BY <1>1, InRange DEF Going, TaskTypes
  <2>3. f.i \in Nat \ {0} /\ f.n \in Nat /\ ~Over(f)
    BY <1>3, <2>1, <2>2, CallFields DEF Over
  <2>4. CASE f # Head(calls)
    <3>1. f \in Going'
      BY <1>1, <2>3, <2>4
    <3>. QED
      BY <2>1, <3>1 DEF Told
  <2>5. CASE f = Head(calls)
    <3>1. AbortSubStep
      BY <2>1, <2>5 DEF Step, SettleStep, AbortStep, AbortSubStep, UpStep, NotifyStep, DeliverThen, DeliverAdopt,
         DeliverGroup, CallbackEnds, CallbackReturnsTask
    <3>2. Went({Abort(subtasks[f.t][f.i]), AbortSub(f.t, f.i + 1, f.n)})
      BY <1>1, <2>5, <3>1, AbortSubFits
    <3>3. CASE k = f.i
      <4>1. PICK g : g = Abort(s)
        OBVIOUS
      <4>2. g \in Going'
        BY <1>2, <2>1, <3>2, <3>3, <4>1 DEF Went, Over, Abort
      <4>3. g.op = "abort" /\ g.t = s
        BY <4>1 DEF Abort
      <4>. QED
        BY <1>3, <4>2, <4>3 DEF Told
    <3>4. CASE k # f.i
      <4>. DEFINE g == AbortSub(f.t, f.i + 1, f.n)
      <4>1. g.op = "abortSub" /\ g.t = t /\ g.i = f.i + 1 /\ g.n = f.n
        BY <2>1 DEF AbortSub
      <4>2. Went({Abort(subtasks[f.t][f.i]), g})
        BY <3>2
      <4>. HIDE DEF g
      <4>3. g.i <= k /\ k <= g.n /\ g.i <= g.n
        BY <1>3, <2>1, <2>3, <3>4, <4>1
      <4>4. ~Over(g)
        BY <2>3, <4>1, <4>3 DEF Over
      <4>5. g \in Going'
        BY <4>2, <4>4 DEF Went
      <4>. QED
        BY <4>1, <4>3, <4>5 DEF Told
    <3>. QED
      BY <3>3, <3>4
  <2>. QED
    BY <2>4, <2>5
<1>. QED
  BY <1>2, <1>4, <1>5, <1>6 DEF Told

\* A task is aborted: its walk reaches every subtask.
LEMMA ToldNow ==
    ASSUME TaskInv, Step, NEW t \in Tasks, status[t] # "aborted", status'[t] = "aborted", NEW k \in DOMAIN subtasks[t]
    PROVE  Told(t, k)'
<1>1. /\ Carried /\ calls # <<>> /\ TaskTypes
      /\ \A p \in Tasks : status[p] # "pending" => status'[p] # "pending"
  BY StepIs DEF TaskInv
<1>2. t \in Created
  BY <1>1 DEF Carried
<1>3. CASE Head(calls).op = "abort" /\ Head(calls).t = t /\ status[t] = "pending"
  <2>1. AbortStep
    BY <1>3 DEF Step, SettleStep, AbortStep, AbortSubStep, UpStep, NotifyStep, DeliverThen, DeliverAdopt,
       DeliverGroup, CallbackEnds, CallbackReturnsTask
  <2>. DEFINE g == AbortSub(t, 1, Len(subtasks[t]))
  <2>2. Went({g, Notify(t, "abort", 1)})
    BY <1>1, <1>3, <2>1, AbortFits
  <2>3. g.op = "abortSub" /\ g.t = t /\ g.i = 1 /\ g.n = Len(subtasks[t])
    BY DEF AbortSub
  <2>. HIDE DEF g
  <2>4. k \in 1..Len(subtasks[t]) /\ Len(subtasks[t]) \in Nat
    BY <1>1 DEF TaskTypes
  <2>5. g.i <= k /\ k <= g.n /\ ~Over(g)
    BY <2>3, <2>4 DEF Over
  <2>6. g \in Going'
    BY <2>2, <2>5 DEF Went
  <2>. QED
    BY <2>3, <2>5, <2>6 DEF Told
<1>4. CASE Head(calls).op = "settle" /\ Head(calls).t = t
  <2>1. SettleStep
    BY <1>4 DEF Step, SettleStep, AbortStep, AbortSubStep, UpStep, NotifyStep, DeliverThen, DeliverAdopt,
       DeliverGroup, CallbackEnds, CallbackReturnsTask
  <2>2. Head(calls) \in Frame
    BY <1>1, HeadFits
  <2>3. Head(calls).s \in {"resolved", "rejected"}
    BY <1>4, <2>2, CallFields
  <2>. QED
    BY <1>1, <1>4, <2>1, <2>3 DEF SettleStep, TaskTypes
<1>5. CASE Head(calls).op = "deliver" /\ Head(calls).how = "group" /\ Head(calls).to = t
  <2>1. DeliverGroup
    BY <1>5 DEF Step, SettleStep, AbortStep, AbortSubStep, UpStep, NotifyStep, DeliverThen, DeliverAdopt,
       DeliverGroup, CallbackEnds, CallbackReturnsTask
  <2>2. Overall(subtasks[t]) = "aborted" /\ subtasks' = subtasks
    BY <1>1, <1>5, <2>1 DEF DeliverGroup, TaskTypes
  <2>3. \A p \in Range(subtasks[t]) : status[p] # "pending"
    BY <1>1, <2>2, OverallIs
  <2>4. subtasks[t][k] \in Range(subtasks[t]) /\ subtasks[t][k] \in Tasks
    <3>1. subtasks[t] \in Seq(Created)
      BY <1>1 DEF TaskTypes
    <3>. QED
      BY <3>1, InRange DEF Created
  <2>5. status'[subtasks'[t][k]] # "pending"
    BY <1>1, <2>2, <2>3, <2>4
  <2>. QED
    BY <2>5 DEF Told
<1>. QED
  BY <1>2, <1>3, <1>4, <1>5, Announced

-----------------------------------------------------------------------------
(* A callback returns a task.                                              *)

LEMMA FirstIndexIs ==
    ASSUME NEW S, NEW s \in Seq(S), NEW c \in Range(s)
    PROVE  FirstIndex(s, c) \in DOMAIN s /\ s[FirstIndex(s, c)] = c
<1>. DEFINE I == {i \in DOMAIN s : s[i] = c}
<1>1. I \in SUBSET Nat /\ I # {}
  BY DEF Range
<1>2. PICK m : m = Min(I)
  OBVIOUS
<1>3. m \in I /\ \A i \in I : m <= i
  <2>. HIDE DEF I
  <2>. QED
    BY <1>1, <1>2, LeastOf
<1>4. PICK n \in Nat : n = Len(s)
  OBVIOUS
<1>5. DOMAIN s = 1..n /\ m \in 1..n /\ s[m] = c
  BY <1>3, <1>4
<1>6. ASSUME NEW j \in 1..(m - 1) PROVE s[j] # c
  <2>1. j \in 1..n /\ ~(m <= j)
    BY <1>5
  <2>. QED
    BY <1>3, <1>5, <2>1
<1>7. \E i \in DOMAIN s : s[i] = c /\ \A j \in 1..(i - 1) : s[j] # c
  BY <1>5, <1>6
<1>. HIDE DEF I
<1>. QED
  BY <1>7 DEF FirstIndex

\* What is at a place of a list of subtasks afterwards.
LEMMA PlaceIs ==
    ASSUME TaskInv, NEW c \in Created, kind[c] = "then", NEW r \in Created, subtasks' = NextTask(subtasks, c, r),
           NEW t \in Tasks, NEW k \in DOMAIN subtasks'[t]
    PROVE  \/ k \in DOMAIN subtasks[t] /\ subtasks'[t][k] = subtasks[t][k]
           \/ k \in DOMAIN subtasks[t] /\ subtasks[t][k] = c /\ subtasks'[t][k] = r
           \/ t = c /\ subtasks'[t][k] = r
<1>1. PICK s : s = subtasks[t]
  OBVIOUS
<1>2. s \in Seq(Created)
  BY <1>1 DEF TaskInv, TaskTypes
<1>3. CASE t = c
  <2>1. PICK z : z = Append(s, r)
    OBVIOUS
  <2>2. subtasks'[t] = z
    BY <1>1, <1>3, <2>1, NextTaskIs
  <2>3. /\ \A i \in DOMAIN s : i \in DOMAIN z /\ z[i] = s[i]
        /\ \A i \in DOMAIN z \ DOMAIN s : z[i] = r
    BY <1>2, <2>1, Appended
  <2>. QED
    BY <1>1, <1>3, <2>2, <2>3
<1>4. CASE t # c /\ c \in chain[t] /\ c \in Range(s)
  <2>1. PICK i : i = FirstIndex(s, c)
    OBVIOUS
  <2>2. i \in DOMAIN s /\ s[i] = c
    BY <1>2, <1>4, <2>1, FirstIndexIs
  <2>3. subtasks'[t] = [s EXCEPT ![i] = r]
    BY <1>1, <1>4, <2>1 DEF NextTask
  <2>. QED
    BY <1>1, <2>2, <2>3
<1>5. CASE t # c /\ ~(c \in chain[t] /\ c \in Range(s))
  <2>1. subtasks'[t] = s
    BY <1>1, <1>5 DEF NextTask
  <2>. QED
    BY <1>1, <2>1
<1>. QED
  BY <1>3, <1>4, <1>5

\* A subtask stays where it was, in a list that is only added to.
LEMMA HeldStays ==
    ASSUME ReachInv, Step, NEW c \in Created, NEW r \in Created, NEW s, Held(c, r, s),
           \A k \in DOMAIN subtasks[c] : k \in DOMAIN subtasks'[c] /\ subtasks'[c][k] = subtasks[c][k]
    PROVE  Held(c, r, s)'
<1>1. TaskInv /\ Carried /\ c \in Tasks /\ subtasks[c] \in Seq(Created)
  BY StepIs DEF ReachInv, TaskInv, TaskTypes, Created
<1>2. kind' = kind
  BY <1>1 DEF Carried
<1>3. PICK k \in Nat : Holds(c, r, k) /\ (s = "pending" /\ status[c] = "aborted" => Told(c, k))
  BY DEF Held
<1>4. k \in DOMAIN subtasks[c] /\ Holds(c, r, k)'
  BY <1>3 DEF Holds
<1>5. s = "pending" /\ status'[c] = "aborted" => Told(c, k)'
  <2>1. CASE status[c] = "aborted"
    BY <1>1, <1>3, <1>4, <2>1, ToldStays
  <2>2. CASE status[c] # "aborted"
    BY <1>1, <1>4, <2>2, ToldNow
  <2>. QED
    BY <2>1, <2>2
<1>. QED
  BY <1>2, <1>3, <1>4, <1>5 DEF Held

LEMMA ReturnsKept ==
    ASSUME ReachInv, Step, CallbackReturnsTask
    PROVE  ReachInv'
<1>d. PICK h, c : h = Head(calls) /\ c = h.t
  OBVIOUS
<1>0. TaskInv /\ TaskTypes /\ AbortOnTop /\ ReturnedHeld /\ SubtasksTold
  BY DEF ReachInv, TaskInv
<1>1. /\ TaskInv' /\ Carried /\ calls # <<>> /\ Created' = Created
      /\ \A f \in Going : f # h /\ ~Over(f) => f \in Going'
  BY <1>0, <1>d, StepIs DEF Carried, Created
<1>2. c \in Created /\ c \in Tasks /\ kind[c] = "then" /\ h.op = "run"
  BY <1>0, <1>1, <1>d, HeadFits DEF CallbackReturnsTask, Suited
<1>3. PICK r \in Created : /\ kind[r] = "root" /\ subtasks' = NextTask(subtasks, c, r)
                           /\ returned' = returned \cup {<<c, r, status[c]>>}
  BY <1>d DEF CallbackReturnsTask
<1>4. status' = status /\ kind' = kind
  BY DEF CallbackReturnsTask
<1>5. AbortOnTop'
  BY <1>0, <1>1, LeavesShort, OnTopStays
<1>6. \A f \in Going : f.op # "abort"
  BY <1>0, <1>1, <1>2, <1>d, NoneAborting
<1>7. ASSUME NEW u \in Tasks, chain[u] = {}
      PROVE  \A k \in DOMAIN subtasks[u] : k \in DOMAIN subtasks'[u] /\ subtasks'[u][k] = subtasks[u][k]
  <2>1. CASE u = c
    <3>1. PICK z : z = Append(subtasks[c], r)
      OBVIOUS
    <3>2. subtasks[c] \in Seq(Created) /\ subtasks'[c] = z
      BY <1>0, <1>2, <1>3, <3>1, NextTaskIs DEF TaskTypes
    <3>3. \A i \in DOMAIN subtasks[c] : i \in DOMAIN z /\ z[i] = subtasks[c][i]
      BY <3>1, <3>2, Appended
    <3>. QED
      BY <2>1, <3>2, <3>3
  <2>2. CASE u # c
    BY <1>0, <1>2, <1>3, <1>7, <2>2, NextTaskIs
  <2>. QED
    BY <2>1, <2>2
<1>8. \A u \in Tasks : kind[u] = "then" => chain[u] = {}
  BY <1>0 DEF TaskInv, Fits
<1>9. status[c] \in Settled \cup {"pending"}
  BY <1>0, <1>2 DEF TaskTypes
<1>10. ReturnedHeld'
  <2>1. returned' \subseteq Created' \X Created' \X (Settled \cup {"pending"})
    BY <1>0, <1>1, <1>2, <1>3, <1>9 DEF ReturnedHeld
  <2>2. ASSUME NEW e \in returned PROVE Held(e[1], e[2], e[3])'
    <3>1. PICK a \in Created, b \in Created, s \in Settled \cup {"pending"} :
              a = e[1] /\ b = e[2] /\ s = e[3]
      BY <1>0 DEF ReturnedHeld
    <3>2. Held(a, b, s)
      BY <1>0, <3>1 DEF ReturnedHeld
    <3>3. a \in Tasks /\ chain[a] = {}
      BY <1>8, <3>2 DEF Held, Created
    <3>4. Held(a, b, s)'
      BY <1>7, <3>2, <3>3, HeldStays
    <3>. QED
      BY <3>1, <3>4
  <2>3. Held(c, r, status[c])'
    <3>1. PICK z : z = Append(subtasks[c], r)
      OBVIOUS
    <3>2. subtasks[c] \in Seq(Created) /\ subtasks'[c] = z
      BY <1>0, <1>2, <1>3, <3>1, NextTaskIs DEF TaskTypes
    <3>3. z \in Seq(Created) /\ \E i \in DOMAIN z : z[i] = r
      BY <3>1, <3>2, Appended
    <3>4. PICK k \in Nat : k \in DOMAIN z /\ z[k] = r
      BY <3>3
    <3>5. Holds(c, r, k)'
      BY <3>2, <3>4 DEF Holds
    <3>. QED
      BY <1>2, <1>3, <1>4, <3>5 DEF Held
  <2>4. ASSUME NEW e \in returned' PROVE Held(e[1], e[2], e[3])'
    <3>1. CASE e \in returned
      BY <2>2, <3>1
    <3>2. CASE e \notin returned
      <4>1. e = <<c, r, status[c]>>
        BY <1>3, <3>2
      <4>2. PICK a, b, s : a = c /\ b = r /\ s = status[c]
        OBVIOUS
      <4>3. a = e[1] /\ b = e[2] /\ s = e[3]
        BY <4>1, <4>2
      <4>4. Held(a, b, s)'
        BY <1>4, <2>3, <4>2
      <4>. QED
        BY <4>3, <4>4
    <3>. QED
      BY <3>1, <3>2
  <2>. QED
    BY <2>1, <2>4 DEF ReturnedHeld
<1>11. SubtasksTold'
  <2>1. \A b : Late(b) => Late(b)'
    BY <1>3 DEF Late
  <2>2. status[c] # "pending" => Late(r)'
    BY <1>2, <1>3, <1>9 DEF Late
  <2>3. ASSUME NEW t \in Tasks, status'[t] = "aborted", NEW k \in DOMAIN subtasks'[t]
        PROVE  Told(t, k)' \/ Late(subtasks[t][k])'
    <3>1. PICK b : b = subtasks'[t][k]
      OBVIOUS
    <3>2. SUFFICES Told(t, k)' \/ Late(b)'
      BY <3>1
    <3>3. CASE k \in DOMAIN subtasks[t] /\ subtasks'[t][k] = subtasks[t][k]
      <4>1. Told(t, k) \/ Late(b)
        BY <1>0, <1>4, <2>3, <3>1, <3>3 DEF SubtasksTold
      <4>2. Told(t, k) => Told(t, k)'
        BY <1>0, <3>3, ToldStays
      <4>. QED
        BY <2>1, <4>1, <4>2
    <3>4. CASE k \in DOMAIN subtasks[t] /\ subtasks[t][k] = c /\ subtasks'[t][k] = r /\ status[c] = "pending"
      <4>1. Told(t, k) \/ Late(c)
        BY <1>0, <1>4, <2>3, <3>4 DEF SubtasksTold
      <4>2. ~Late(c)
        <5>1. SUFFICES ASSUME NEW a \in Tasks, NEW s \in Settled, <<a, c, s>> \in returned PROVE FALSE
          BY DEF Late
        <5>2. Held(a, c, s)
          <6>1. PICK e : e = <<a, c, s>>
            OBVIOUS
          <6>2. Held(e[1], e[2], e[3])
            BY <1>0, <5>1, <6>1 DEF ReturnedHeld
          <6>. QED
            BY <6>1, <6>2
        <5>. QED
          BY <1>2, <5>2 DEF Held
      <4>3. PICK f \in Going : f.op = "abortSub" /\ f.t = t /\ f.i <= k /\ k <= f.n
        BY <1>6, <3>4, <4>1, <4>2 DEF Told
      <4>4. f \in Frame /\ subtasks[t] \in Seq(Created)
        BY <1>0, InRange DEF Going, TaskTypes
      <4>5. k \in Nat /\ f.i \in Nat /\ f.n \in Nat
        BY <3>4, <4>3, <4>4, CallFields
      <4>6. ~Over(f) /\ f # h
        BY <1>2, <4>3, <4>5 DEF Over
      <4>7. f \in Going'
        BY <1>1, <4>6
      <4>. QED
        BY <4>3, <4>7 DEF Told
    <3>5. CASE status[c] # "pending" /\ b = r
      BY <2>2, <3>5
    <3>6. CASE t = c /\ subtasks'[t][k] = r
      BY <1>4, <2>2, <2>3, <3>1, <3>6
    <3>. QED
      BY <1>0, <1>2, <1>3, <3>1, <3>3, <3>4, <3>5, <3>6, PlaceIs
  <2>. QED
    BY <2>3 DEF SubtasksTold
<1>. QED
  BY <1>1, <1>5, <1>10, <1>11 DEF ReachInv

\* Any other call.
LEMMA CallKept ==
    ASSUME ReachInv, Step, ~CallbackReturnsTask
    PROVE  ReachInv'
<1>0. TaskInv /\ TaskTypes /\ AbortOnTop /\ ReturnedHeld /\ SubtasksTold
  BY DEF ReachInv, TaskInv
<1>1. /\ TaskInv' /\ Carried /\ calls # <<>> /\ Created' = Created
  BY <1>0, StepIs DEF Carried, Created
<1>2. UNCHANGED <<subtasks, returned>>
  BY DEF Step, SettleStep, AbortStep, AbortSubStep, UpStep, NotifyStep, DeliverThen, DeliverAdopt, DeliverGroup, CallbackEnds
<1>3. AbortOnTop'
  BY <1>0, <1>1, LeavesShort, OnTopStays
<1>4. ReturnedHeld'
  <2>1. ASSUME NEW e \in returned PROVE Held(e[1], e[2], e[3])'
    <3>1. PICK a \in Created, b \in Created, s \in Settled \cup {"pending"} :
              a = e[1] /\ b = e[2] /\ s = e[3]
      BY <1>0 DEF ReturnedHeld
    <3>2. Held(a, b, s)
      BY <1>0, <3>1 DEF ReturnedHeld
    <3>3. Held(a, b, s)'
      BY <1>2, <3>2, HeldStays
    <3>. QED
      BY <3>1, <3>3
  <2>. QED
    BY <1>0, <1>1, <1>2, <2>1 DEF ReturnedHeld
<1>5. SubtasksTold'
  <2>1. ASSUME NEW t \in Tasks, status'[t] = "aborted", NEW k \in DOMAIN subtasks[t]
        PROVE  Told(t, k)' \/ Late(subtasks[t][k])'
    <3>1. CASE status[t] # "aborted"
      BY <1>0, <2>1, <3>1, ToldNow
    <3>2. CASE status[t] = "aborted"
      <4>1. PICK b : b = subtasks[t][k]
        OBVIOUS
      <4>2. Told(t, k) \/ Late(b)
        BY <1>0, <3>2, <4>1 DEF SubtasksTold
      <4>3. Told(t, k) => Told(t, k)'
        BY <1>0, <1>2, ToldStays
      <4>4. Late(b) => Late(b)'
        BY <1>2 DEF Late
      <4>. QED
        BY <1>2, <4>1, <4>2, <4>3, <4>4
    <3>. QED
      BY <3>1, <3>2
  <2>. QED
    BY <1>2, <2>1 DEF SubtasksTold
<1>. QED
  BY <1>1, <1>3, <1>4, <1>5 DEF ReachInv

\* An answer or an abort from outside.
LEMMA PushReach ==
    ASSUME ReachInv, TaskInv', Carried, UNCHANGED <<status, subtasks, returned>>, Going \subseteq Going', AbortOnTop'
    PROVE  ReachInv'
<1>0. TaskInv /\ TaskTypes /\ ReturnedHeld /\ SubtasksTold /\ kind' = kind /\ Created' = Created
  BY DEF ReachInv, TaskInv, Carried, Created
<1>1. \A t \in Tasks : \A k \in DOMAIN subtasks[t] : Told(t, k) => Told(t, k)'
  BY DEF Told
<1>2. ReturnedHeld'
  <2>1. ASSUME NEW e \in returned PROVE Held(e[1], e[2], e[3])'
    <3>1. PICK c \in Created, r \in Created, s \in Settled \cup {"pending"} :
              c = e[1] /\ r = e[2] /\ s = e[3]
      BY <1>0 DEF ReturnedHeld
    <3>2. Held(c, r, s)
      BY <1>0, <3>1 DEF ReturnedHeld
    <3>3. PICK k \in Nat : Holds(c, r, k) /\ (s = "pending" /\ status[c] = "aborted" => Told(c, k))
      BY <3>2 DEF Held
    <3>4. k \in DOMAIN subtasks[c] /\ c \in Tasks /\ Holds(c, r, k)'
      BY <3>3 DEF Holds, Created
    <3>5. Held(c, r, s)'
      BY <1>0, <1>1, <3>2, <3>3, <3>4 DEF Held
    <3>. QED
      BY <3>1, <3>5
  <2>. QED
    BY <1>0, <2>1 DEF ReturnedHeld
<1>3. SubtasksTold'
  <2>1. ASSUME NEW t \in Tasks, status[t] = "aborted", NEW k \in DOMAIN subtasks[t]
        PROVE  Told(t, k)' \/ Late(subtasks[t][k])'
    <3>1. PICK b : b = subtasks[t][k]
      OBVIOUS
    <3>2. Told(t, k) \/ Late(b)
      BY <1>0, <2>1, <3>1 DEF SubtasksTold
    <3>3. Late(b) => Late(b)'
      BY DEF Late
    <3>. QED
      BY <1>1, <3>1, <3>2, <3>3
  <2>. QED
    BY <2>1 DEF SubtasksTold
<1>. QED
  BY <1>2, <1>3 DEF ReachInv

\* What the outside puts on the stack, when it may.
LEMMA PushOnTop ==
    ASSUME TaskTypes, AbortOnTop, Free, NEW new, Short(new), calls' = new \o calls
    PROVE  AbortOnTop'
<1>1. PICK rest : rest = calls
  OBVIOUS
<1>2. rest \in Seq(Frame)
  BY <1>1 DEF TaskTypes
<1>3. \A j \in DOMAIN rest : rest[j].op # "abort"
  <2>1. CASE rest = <<>>
    BY <2>1
  <2>2. CASE rest # <<>>
    <3>1. Head(rest).op = "run"
      BY <1>1, <2>2 DEF Free
    <3>2. Head(rest) = rest[1] /\ \A j \in DOMAIN rest : j = 1 \/ j > 1
      BY <1>2
    <3>. QED
      BY <1>1, <3>1, <3>2 DEF AbortOnTop
  <2>. QED
    BY <2>1, <2>2
<1>4. PICK cs : cs = new \o rest
  OBVIOUS
<1>5. PICK S : cs \in Seq(S) /\ \A p \in DOMAIN cs : p > 1 => cs[p].op # "abort"
  BY <1>2, <1>3, <1>4, OnlyOnTop
<1>6. calls' = cs
  BY <1>1, <1>4
<1>. QED
  BY <1>5, <1>6 DEF AbortOnTop

\* A task is created.
LEMMA CreatedReach ==
    ASSUME ReachInv, TaskInv', NEW k \in Kinds, CanMake(k), kind' = [kind EXCEPT ![Fresh] = k],
           UNCHANGED <<status, returned>>, \A t \in Tasks \ {Fresh} : subtasks'[t] = subtasks[t],
           calls' = calls \/ \E f : calls' = <<f>> \o calls
    PROVE  ReachInv'
<1>0. TaskInv /\ TaskTypes /\ Blank /\ AbortOnTop /\ ReturnedHeld /\ SubtasksTold
  BY DEF ReachInv, TaskInv
<1>n. PICK new : new = Fresh
  OBVIOUS
<1>1. /\ new \in Tasks \ Created /\ Created' = Created \cup {new}
      /\ \A t \in Created : t \in Tasks /\ kind'[t] = kind[t] /\ subtasks'[t] = subtasks[t]
  BY <1>0, <1>n, Creates DEF Created
<1>2. Going = {} /\ Free
  BY DEF CanMake, Quiet, Going, Range, Free
<1>3. AbortOnTop'
  <2>1. CASE calls' = calls
    BY <1>0, <2>1 DEF AbortOnTop
  <2>2. CASE \E f : calls' = <<f>> \o calls
    <3>1. PICK top : (\E f : top = <<f>>) /\ calls' = top \o calls
      BY <2>2
    <3>2. Short(top)
      BY <3>1 DEF Short
    <3>. QED
      BY <1>0, <1>2, <3>1, <3>2, PushOnTop
  <2>. QED
    BY <2>1, <2>2
<1>4. ASSUME NEW t \in Created, NEW j \in DOMAIN subtasks[t], Told(t, j)
      PROVE  Told(t, j)'
  <2>1. status[subtasks[t][j]] # "pending"
    BY <1>2, <1>4 DEF Told
  <2>2. status'[subtasks'[t][j]] # "pending"
    BY <1>1, <2>1
  <2>. QED
    BY <2>2 DEF Told
<1>5. ReturnedHeld'
  <2>1. ASSUME NEW e \in returned PROVE Held(e[1], e[2], e[3])'
    <3>1. PICK c \in Created, r \in Created, s \in Settled \cup {"pending"} :
              c = e[1] /\ r = e[2] /\ s = e[3]
      BY <1>0 DEF ReturnedHeld
    <3>2. Held(c, r, s)
      BY <1>0, <3>1 DEF ReturnedHeld
    <3>3. PICK i \in Nat : Holds(c, r, i) /\ (s = "pending" /\ status[c] = "aborted" => Told(c, i))
      BY <3>2 DEF Held
    <3>4. i \in DOMAIN subtasks[c] /\ Holds(c, r, i)'
      BY <1>1, <3>3 DEF Holds
    <3>5. s = "pending" /\ status'[c] = "aborted" => Told(c, i)'
      BY <1>4, <3>3, <3>4
    <3>6. Held(c, r, s)'
      BY <1>1, <3>2, <3>4, <3>5 DEF Held
    <3>. QED
      BY <3>1, <3>6
  <2>. QED
    BY <1>0, <1>1, <2>1 DEF ReturnedHeld
<1>6. SubtasksTold'
  <2>1. ASSUME NEW t \in Tasks, status[t] = "aborted", NEW j \in DOMAIN subtasks'[t]
        PROVE  Told(t, j)' \/ Late(subtasks[t][j])'
    <3>1. t \in Created
      BY <1>0, <2>1 DEF Blank
    <3>2. PICK b : b = subtasks[t][j]
      OBVIOUS
    <3>3. j \in DOMAIN subtasks[t] /\ b = subtasks'[t][j]
      BY <1>1, <3>1, <3>2
    <3>4. Told(t, j) \/ Late(b)
      BY <1>0, <2>1, <3>2, <3>3 DEF SubtasksTold
    <3>5. Late(b) => Late(b)'
      BY DEF Late
    <3>. QED
      BY <1>4, <3>1, <3>3, <3>4, <3>5
  <2>. QED
    BY <2>1 DEF SubtasksTold
<1>. QED
  BY <1>3, <1>5, <1>6 DEF ReachInv

LEMMA JoinedCalls ==
    ASSUME NEW c, NEW how, NEW p, NEW ls, Joined(c, how, p, ls)
    PROVE  calls' = calls \/ \E f : calls' = <<f>> \o calls
BY DEF Joined

LEMMA ReachKept == ReachInv /\ [TaskNext]_taskVars => ReachInv'
<1>. SUFFICES ASSUME ReachInv, [TaskNext]_taskVars PROVE ReachInv'
  OBVIOUS
<1>0. TaskInv /\ TaskInv' /\ TaskTypes /\ AbortOnTop
  BY InvKept DEF ReachInv, TaskInv
<1>1. CASE NewTask
  BY <1>0, <1>1, CreatedReach DEF NewTask, Kinds
<1>2. CASE \E p \in Tasks, cb \in Profiles : Then(p, cb)
  <2>1. PICK p \in Tasks, cb \in Profiles : Then(p, cb)
    BY <1>2
  <2>2. /\ CanMake("then") /\ kind' = [kind EXCEPT ![Fresh] = "then"] /\ "then" \in Kinds
        /\ UNCHANGED <<status, subtasks, returned>> /\ Joined(Fresh, "then", p, links)
    BY <2>1 DEF Then, Kinds
  <2>3. calls' = calls \/ \E f : calls' = <<f>> \o calls
    BY <2>2, JoinedCalls
  <2>. QED
    BY <1>0, <2>2, <2>3, CreatedReach
<1>3. CASE \E n \in 1..MaxGroup : \E ts \in [1..n -> Tasks] : NewGroup(ts)
  <2>1. PICK n \in 1..MaxGroup : \E ts \in [1..n -> Tasks] : NewGroup(ts)
    BY <1>3
  <2>2. PICK ts \in [1..n -> Tasks] : NewGroup(ts)
    BY <2>1
  <2>3. /\ CanMake("group") /\ kind' = [kind EXCEPT ![Fresh] = "group"] /\ "group" \in Kinds
        /\ UNCHANGED <<status, returned>> /\ subtasks' = [subtasks EXCEPT ![Fresh] = ts]
        /\ \E f : calls' = <<f>> \o calls
    BY <2>2 DEF NewGroup, Kinds
  <2>4. \A t \in Tasks \ {Fresh} : subtasks'[t] = subtasks[t]
    BY <1>0, <2>3 DEF TaskTypes
  <2>. QED
    BY <1>0, <2>3, <2>4, CreatedReach
<1>4. CASE \E t \in Tasks : ToTask(t)
  <2>1. PICK t \in Tasks : ToTask(t)
    BY <1>4
  <2>2. /\ CanMake("wrap") /\ kind' = [kind EXCEPT ![Fresh] = "wrap"] /\ "wrap" \in Kinds
        /\ UNCHANGED <<status, returned>> /\ subtasks' = [subtasks EXCEPT ![Fresh] = Line[t]]
        /\ Joined(Fresh, "adopt", t, links)
    BY <2>1 DEF ToTask, Kinds
  <2>3. \A u \in Tasks \ {Fresh} : subtasks'[u] = subtasks[u]
    BY <1>0, <2>2 DEF TaskTypes
  <2>4. calls' = calls \/ \E f : calls' = <<f>> \o calls
    BY <2>2, JoinedCalls
  <2>. QED
    BY <1>0, <2>2, <2>3, <2>4, CreatedReach
<1>5. CASE \E t \in Tasks, s \in {"resolved", "rejected"} : Answer(t, s)
  <2>1. PICK t \in Tasks, s \in {"resolved", "rejected"} : Answer(t, s)
    BY <1>5
  <2>2. Carried /\ UNCHANGED <<status, subtasks, returned>> /\ Going \subseteq Going'
    BY <1>0, <2>1, AnswerFits DEF Answer
  <2>3. PICK top : top = <<Settle(t, s)>>
    OBVIOUS
  <2>4. Free /\ calls' = top \o calls /\ Short(top)
    BY <2>1, <2>3 DEF Answer, Short
  <2>5. AbortOnTop'
    BY <1>0, <2>4, PushOnTop
  <2>. QED
    BY <1>0, <2>2, <2>5, PushReach
<1>6. CASE \E t \in Tasks, retroactive \in BOOLEAN : UserAbort(t, retroactive)
  <2>1. PICK t \in Tasks, retroactive \in BOOLEAN : UserAbort(t, retroactive)
    BY <1>6
  <2>2. Carried /\ UNCHANGED <<status, subtasks, returned>> /\ Going \subseteq Going'
    BY <1>0, <2>1, UserAbortFits DEF UserAbort
  <2>3. PICK top : top = (IF retroactive THEN <<Abort(t), Up(t)>> ELSE <<Abort(t)>>)
    OBVIOUS
  <2>4. Short(top)
    <3>1. Up(t).op # "abort"
      BY DEF Up
    <3>. QED
      BY <2>3, <3>1 DEF Short
  <2>5. Free /\ calls' = top \o calls
    BY <2>1, <2>3 DEF UserAbort
  <2>6. AbortOnTop'
    BY <1>0, <2>4, <2>5, PushOnTop
  <2>. QED
    BY <1>0, <2>2, <2>6, PushReach
<1>7. CASE Step
  BY <1>7, ReturnsKept, CallKept
<1>8. CASE UNCHANGED taskVars
  <2>1. UNCHANGED <<kind, status, subtasks, parent, chain, links, calls, returned>>
    BY <1>8 DEF taskVars
  <2>2. Carried
    BY <1>0, <2>1 DEF Carried, TaskTypes
  <2>3. AbortOnTop' /\ Going \subseteq Going'
    BY <1>0, <2>1 DEF AbortOnTop, Going
  <2>. QED
    BY <1>0, <2>1, <2>2, <2>3, PushReach
<1>. QED
  BY <1>1, <1>2, <1>3, <1>4, <1>5, <1>6, <1>7, <1>8 DEF TaskNext

LEMMA ReachAlways == TaskSpec => []ReachInv
<1>1. TaskInit => ReachInv
  <2>1. SUFFICES ASSUME TaskInit PROVE ReachInv
    OBVIOUS
  <2>2. TaskInv
    BY <2>1, InvHolds
  <2>. QED
    BY <2>1, <2>2 DEF TaskInit, ReachInv, AbortOnTop, ReturnedHeld, SubtasksTold
<1>2. ReachInv /\ [TaskNext]_taskVars => ReachInv'
  BY ReachKept
<1>. QED
  BY <1>1, <1>2, PTL DEF TaskSpec

\* AbortReaches: between calls an aborted task has no subtask that is still
\* pending, nor task its callback returned in time, however abort() of Task.js
\* walked lists that toTask() wrappers rewrite while it does; the exception is
\* a task returned by the callback of a continuation that was over.
THEOREM AbortAlwaysReaches == TaskSpec => []AbortReaches
<1>1. ReachInv => AbortReaches
  <2>1. SUFFICES ASSUME ReachInv, Quiet, NEW t \in Created, status[t] = "aborted", NEW r \in Tasks
                 PROVE  /\ <<t, r, "pending">> \in returned => status[r] # "pending"
                        /\ r \in Range(subtasks[t]) /\ status[r] = "pending" => Late(r)
    BY DEF AbortReaches, Late
  <2>2. Going = {} /\ t \in Tasks
    BY <2>1 DEF Quiet, Going, Range, Created
  <2>3. ASSUME <<t, r, "pending">> \in returned PROVE status[r] # "pending"
    <3>1. Held(t, r, "pending")
      <4>1. PICK e : e = <<t, r, "pending">>
        OBVIOUS
      <4>2. Held(e[1], e[2], e[3])
        BY <2>1, <2>3, <4>1 DEF ReachInv, ReturnedHeld
      <4>. QED
        BY <4>1, <4>2
    <3>2. PICK k \in Nat : Holds(t, r, k) /\ Told(t, k)
      BY <2>1, <3>1 DEF Held
    <3>. QED
      BY <2>2, <3>2 DEF Holds, Told
  <2>4. ASSUME r \in Range(subtasks[t]), status[r] = "pending" PROVE Late(r)
    <3>1. PICK k \in DOMAIN subtasks[t] : subtasks[t][k] = r
      BY <2>4 DEF Range
    <3>2. ~Told(t, k)
      BY <2>2, <2>4, <3>1 DEF Told
    <3>. QED
      BY <2>1, <2>2, <3>1, <3>2 DEF ReachInv, SubtasksTold
  <2>. QED
    BY <2>3, <2>4
<1>. QED
  BY <1>1, ReachAlways, PTL

-----------------------------------------------------------------------------
(* The inductive invariant of EventDispatch.                               *)

Walks == [targets : Seq(Inputs), i : Nat, busy : BOOLEAN, moved : BOOLEAN]

WalkType == wired \in Seq(Inputs) /\ walk \in Walks

\* The input being called is one of the copy; positions start at one.
CallsItsCopy == /\ walk.busy => walk.i - 1 \in DOMAIN walk.targets
                /\ walk # Idle => walk.i > 0

\* Until a connection is broken, the live list only grows at its end.
CopyIsAPrefix ==
    walk # Idle /\ ~walk.moved =>
        \A j \in DOMAIN walk.targets : j \in DOMAIN wired /\ wired[j] = walk.targets[j]

WalkInv == WalkType /\ CallsItsCopy /\ CopyIsAPrefix /\ LoggedToItsConnection

-----------------------------------------------------------------------------
LEMMA WalkInitHolds == DispatchInit => WalkInv
BY DEF DispatchInit, WalkInv, WalkType, Walks, CallsItsCopy, CopyIsAPrefix,
       LoggedToItsConnection, Idle

\* The other part leaves the propagation alone.
LEMMA EventsKeep == WalkInv /\ UNCHANGED propagationVars => WalkInv'
BY DEF WalkInv, propagationVars, WalkType, CallsItsCopy, CopyIsAPrefix, LoggedToItsConnection

LEMMA ConnectKeeps == ASSUME WalkInv, NEW t \in Inputs, Connect(t) PROVE WalkInv'
<1>1. wired' \in Seq(Inputs) /\ \A j \in DOMAIN wired : j \in DOMAIN wired' /\ wired'[j] = wired[j]
  BY DEF WalkInv, WalkType, Connect
<1>. QED
  BY <1>1 DEF WalkInv, WalkType, CallsItsCopy, CopyIsAPrefix, LoggedToItsConnection, Connect

LEMMA DisconnectKeeps == ASSUME WalkInv, NEW t \in Inputs, DisconnectInput(t) PROVE WalkInv'
<1>1. wired' \in Seq(Inputs)
  BY DEF WalkInv, WalkType, DisconnectInput, RemoveAt
<1>2. /\ walk' = [targets |-> walk.targets, i |-> walk.i, busy |-> walk.busy, moved |-> walk # Idle]
      /\ UNCHANGED <<logs, cut>>
  BY DEF WalkInv, WalkType, Walks, DisconnectInput
<1>3. walk' \in Walks
  BY <1>2 DEF WalkInv, WalkType, Walks
<1>4. ASSUME walk = Idle PROVE walk' = Idle
  BY <1>2, <1>4 DEF Idle
<1>5. CopyIsAPrefix'
  <2>1. CASE walk = Idle
    BY <1>4, <2>1 DEF CopyIsAPrefix
  <2>2. CASE walk # Idle
    BY <1>2, <2>2 DEF CopyIsAPrefix
  <2>. QED
    BY <2>1, <2>2
<1>6. CallsItsCopy'
  <2>1. walk'.targets = walk.targets /\ walk'.i = walk.i /\ walk'.busy = walk.busy
    BY <1>2
  <2>2. walk'.busy => walk'.i - 1 \in DOMAIN walk'.targets
    BY <2>1 DEF WalkInv, CallsItsCopy
  <2>3. walk' # Idle => walk'.i > 0
    BY <1>4, <2>1 DEF WalkInv, CallsItsCopy
  <2>. QED
    BY <2>2, <2>3 DEF CallsItsCopy
<1>. QED
  BY <1>1, <1>2, <1>3, <1>5, <1>6 DEF WalkInv, WalkType, LoggedToItsConnection

LEMMA PropagateKeeps == ASSUME WalkInv, Propagate PROVE WalkInv'
BY DEF WalkInv, WalkType, Walks, CallsItsCopy, CopyIsAPrefix, LoggedToItsConnection, Propagate

LEMMA TakeKeeps == ASSUME WalkInv, Take PROVE WalkInv'
<1>1. walk' = [targets |-> walk.targets, i |-> walk.i + 1, busy |-> TRUE, moved |-> walk.moved]
  BY DEF WalkInv, WalkType, Walks, Take
<1>2. walk' \in Walks
  BY <1>1 DEF WalkInv, WalkType, Walks
<1>. QED
  BY <1>1, <1>2 DEF WalkInv, WalkType, Walks, CallsItsCopy, CopyIsAPrefix, LoggedToItsConnection, Take

LEMMA TakeFailsKeeps == ASSUME WalkInv, TakeFails PROVE WalkInv'
<1>. DEFINE p == walk.i - 1
<1>1. p \in DOMAIN walk.targets /\ walk # Idle /\ LogTo(p) = p
  BY DEF WalkInv, CallsItsCopy, TakeFails, Idle, LogTo
<1>2. CASE p \in DOMAIN wired
  <2>1. /\ walk' = [targets |-> walk.targets, i |-> walk.i, busy |-> FALSE, moved |-> walk.moved]
        /\ UNCHANGED <<wired, cut>>
        /\ logs' = IF walk.moved THEN logs ELSE logs \cup {<<walk.targets[p], wired[p]>>}
    BY <1>1, <1>2 DEF WalkInv, WalkType, Walks, TakeFails
  <2>2. walk' \in Walks
    BY <2>1 DEF WalkInv, WalkType, Walks
  <2>3. LoggedToItsConnection'
    BY <1>1, <2>1 DEF WalkInv, CopyIsAPrefix, LoggedToItsConnection
  <2>4. CopyIsAPrefix'
    BY <1>1, <2>1 DEF WalkInv, CopyIsAPrefix
  <2>5. CallsItsCopy'
    <3>1. walk'.busy = FALSE /\ walk'.i = walk.i /\ walk.i > 0
      BY <1>1, <2>1 DEF WalkInv, CallsItsCopy
    <3>. QED
      BY <3>1 DEF CallsItsCopy
  <2>. QED
    BY <2>1, <2>2, <2>3, <2>4, <2>5 DEF WalkInv, WalkType
<1>3. CASE p \notin DOMAIN wired
  <2>1. walk' = Idle /\ logs' = logs /\ cut' = (cut \/ ~walk.moved) /\ wired' = wired
    BY <1>1, <1>3 DEF TakeFails
  <2>2. walk.moved
    BY <1>1, <1>3 DEF WalkInv, CopyIsAPrefix
  <2>3. WalkType' /\ CallsItsCopy' /\ CopyIsAPrefix'
    BY <2>1 DEF WalkInv, WalkType, Walks, CallsItsCopy, CopyIsAPrefix, Idle
  <2>4. LoggedToItsConnection'
    BY <2>1, <2>2 DEF WalkInv, LoggedToItsConnection
  <2>. QED
    BY <2>3, <2>4 DEF WalkInv
<1>. QED
  BY <1>2, <1>3

LEMMA EndKeeps == ASSUME WalkInv, EndPropagation PROVE WalkInv'
BY DEF WalkInv, WalkType, Walks, CallsItsCopy, CopyIsAPrefix, LoggedToItsConnection, Idle, EndPropagation

-----------------------------------------------------------------------------
(* For any inputs and any bounds: a failure is logged to the connection of   *)
(* the input that failed and keeps the value from no other input, unless a   *)
(* connection of the endpoint was broken during the propagation.             *)
THEOREM AlwaysLoggedToItsConnection == DispatchSpec => []LoggedToItsConnection
<1>1. WalkInv /\ [DispatchNext]_dispatchVars => WalkInv'
  <2>. SUFFICES ASSUME WalkInv, [DispatchNext]_dispatchVars PROVE WalkInv'
    OBVIOUS
  <2>1. CASE \E h \in Handlers : AddEventListener(h) \/ RemoveEventListener(h)
    BY <2>1, EventsKeep DEF AddEventListener, RemoveEventListener
  <2>2. CASE ClearEventListeners \/ Dispatch \/ CallHandler \/ EndDispatch
    BY <2>2, EventsKeep DEF ClearEventListeners, Dispatch, CallHandler, EndDispatch
  <2>3. CASE \E t \in Inputs : Connect(t)
    BY <2>3, ConnectKeeps
  <2>4. CASE \E t \in Inputs : DisconnectInput(t)
    BY <2>4, DisconnectKeeps
  <2>5. CASE Propagate
    BY <2>5, PropagateKeeps
  <2>6. CASE Take
    BY <2>6, TakeKeeps
  <2>7. CASE TakeFails
    BY <2>7, TakeFailsKeeps
  <2>8. CASE EndPropagation
    BY <2>8, EndKeeps
  <2>9. CASE UNCHANGED dispatchVars
    BY <2>9, EventsKeep DEF dispatchVars
  <2>. QED
    BY <2>1, <2>2, <2>3, <2>4, <2>5, <2>6, <2>7, <2>8, <2>9 DEF DispatchNext
<1>. QED
  BY <1>1, WalkInitHolds, PTL DEF DispatchSpec, WalkInv

-----------------------------------------------------------------------------
(* Closing the gaps of a list.                                             *)

Rank(S, i) == Cardinality({j \in S : j < i})

LEMMA SomeOfThem ==
    ASSUME NEW n \in Nat, NEW S \in SUBSET (1..n)
    PROVE  IsFiniteSet(S) /\ Cardinality(S) \in Nat
<1>1. IsFiniteSet(1..n)
  BY FS_Interval
<1>2. IsFiniteSet(S)
  BY <1>1, FS_Subset
<1>. QED
  BY <1>2, FS_CardinalityType

\* The rank of a member of a finite set of numbers is less than its size, and
\* no two have the same.
LEMMA RankBelow ==
    ASSUME NEW n \in Nat, NEW S \in SUBSET (1..n), NEW i \in S
    PROVE  Rank(S, i) \in 0..(Cardinality(S) - 1)
<1>1. IsFiniteSet(S) /\ Cardinality(S) \in Nat
  BY SomeOfThem
<1>. DEFINE T == {j \in S : j < i}
<1>2. T \in SUBSET S /\ T # S
  <2>1. i \in Int
    <3>1. i \in 1..n
      OBVIOUS
    <3>. QED
      BY <3>1
  <2>2. ~(i < i)
    BY <2>1
  <2>3. i \notin T
    BY <2>2
  <2>. QED
    BY <2>3
<1>. HIDE DEF T
<1>3. IsFiniteSet(T) /\ Cardinality(T) <= Cardinality(S)
  BY <1>1, <1>2, FS_Subset
<1>4. Cardinality(T) # Cardinality(S)
  BY <1>1, <1>2, FS_Subset
<1>5. Cardinality(T) \in Nat
  BY <1>3, FS_CardinalityType
<1>6. Cardinality(T) \in 0..(Cardinality(S) - 1)
  BY <1>1, <1>3, <1>4, <1>5
<1>. QED
  BY <1>6 DEF Rank, T

LEMMA RankGrows ==
    ASSUME NEW n \in Nat, NEW S \in SUBSET (1..n), NEW i \in S, NEW j \in S, i < j
    PROVE  Rank(S, i) < Rank(S, j)
<1>. DEFINE T == {k \in S : k < j}
<1>1. T \in SUBSET (1..n) /\ i \in T
  OBVIOUS
<1>2. {k \in T : k < i} = {k \in S : k < i}
  <2>1. i \in Int /\ j \in Int /\ \A k \in S : k \in Int
    OBVIOUS
  <2>2. \A k \in S : k < i => k < j
    BY <2>1
  <2>. QED
    BY <2>2
<1>3. IsFiniteSet(T) /\ Cardinality(T) \in Nat
  BY <1>1, SomeOfThem
<1>. HIDE DEF T
<1>4. Rank(T, i) \in 0..(Cardinality(T) - 1)
  BY <1>1, RankBelow
<1>5. Rank(T, i) = Rank(S, i)
  BY <1>2 DEF Rank
<1>6. Rank(T, i) < Cardinality(T)
  BY <1>3, <1>4
<1>. QED
  BY <1>5, <1>6 DEF Rank, T

\* Every rank below the size of the set is the rank of a member.
LEMMA RankReached ==
    ASSUME NEW n \in Nat, NEW S \in SUBSET (1..n), NEW k \in 1..Cardinality(S)
    PROVE  \E i \in S : Rank(S, i) = k - 1
<1>1. IsFiniteSet(S) /\ Cardinality(S) \in Nat
  BY SomeOfThem
<1>. DEFINE m == Cardinality(S)
            R == 0..(m - 1)
            f == [i \in S |-> Rank(S, i)]
<1>2. IsFiniteSet(R) /\ Cardinality(R) = m
  <2>1. 0 \in Int /\ m - 1 \in Int
    BY <1>1
  <2>2. IsFiniteSet(R) /\ Cardinality(R) = (IF 0 > m - 1 THEN 0 ELSE (m - 1) - 0 + 1)
    BY <2>1, FS_Interval
  <2>. QED
    BY <1>1, <2>2
<1>3. f \in [S -> R]
  BY RankBelow
<1>4. ASSUME NEW i \in S, NEW j \in S, f[i] = f[j]
      PROVE  i = j
  <2>1. i \in Int /\ j \in Int /\ Rank(S, i) \in Int /\ Rank(S, j) \in Int
    <3>1. Rank(S, i) \in R /\ Rank(S, j) \in R
      BY RankBelow
    <3>. QED
      BY <3>1
  <2>2. Rank(S, i) = Rank(S, j)
    BY <1>4
  <2>3. i < j => Rank(S, i) < Rank(S, j)
    BY RankGrows
  <2>4. j < i => Rank(S, j) < Rank(S, i)
    BY RankGrows
  <2>. QED
    BY <2>1, <2>2, <2>3, <2>4
<1>5. f \in Injection(S, R)
  BY <1>3, <1>4 DEF Injection, IsInjective
<1>. HIDE DEF f, R
<1>6. f \in Surjection(S, R)
  BY <1>2, <1>5, FS_Injection
<1>7. k - 1 \in R
  BY <1>1 DEF R
<1>8. PICK i \in S : f[i] = k - 1
  BY <1>6, <1>7 DEF Surjection
<1>. QED
  BY <1>8 DEF f

\* What is left is a list of what was there.
LEMMA ClosedType ==
    ASSUME NEW A, NEW hs \in Seq(A), NEW x
    PROVE  Closed(hs, x) \in Seq(A)
<1>. DEFINE n == Len(hs)
            left == {i \in DOMAIN hs : hs[i] # x}
            at(k) == CHOOSE i \in left : Cardinality({j \in left : j < i}) = k - 1
<1>1. n \in Nat /\ DOMAIN hs = 1..n /\ left \in SUBSET (1..n)
  OBVIOUS
<1>2. Cardinality(left) \in Nat
  <2>. HIDE DEF left, n
  <2>. QED
    BY <1>1, SomeOfThem
<1>3. ASSUME NEW k \in 1..Cardinality(left)
      PROVE  hs[at(k)] \in A
  <2>. HIDE DEF left, n
  <2>1. \E i \in left : Rank(left, i) = k - 1
    BY <1>1, RankReached
  <2>2. at(k) \in left
    BY <2>1 DEF Rank
  <2>3. at(k) \in DOMAIN hs
    BY <1>1, <2>2
  <2>. QED
    BY <2>3
<1>. HIDE DEF left, n, at
<1>4. [k \in 1..Cardinality(left) |-> hs[at(k)]] \in Seq(A)
  BY <1>2, <1>3
<1>. QED
  BY <1>4 DEF Closed, left, at

\* A list that has no x stays as it is.
LEMMA ClosedSame ==
    ASSUME NEW A, NEW hs \in Seq(A), NEW x, \A i \in DOMAIN hs : hs[i] # x
    PROVE  Closed(hs, x) = hs
<1>. DEFINE n == Len(hs)
            at(k) == CHOOSE i \in 1..n : Cardinality({j \in 1..n : j < i}) = k - 1
<1>1. n \in Nat /\ DOMAIN hs = 1..n /\ {i \in DOMAIN hs : hs[i] # x} = 1..n
  OBVIOUS
<1>2. Cardinality(1..n) = n
  BY <1>1, FS_Interval
<1>3. ASSUME NEW i \in 1..n PROVE Cardinality({j \in 1..n : j < i}) = i - 1
  <2>1. {j \in 1..n : j < i} = 1..(i - 1)
    BY <1>1
  <2>2. Cardinality(1..(i - 1)) = i - 1
    BY <1>1, FS_Interval
  <2>. QED
    BY <2>1, <2>2
<1>4. ASSUME NEW k \in 1..n PROVE at(k) = k
  <2>1. \A i \in 1..n : Cardinality({j \in 1..n : j < i}) = k - 1 => i = k
    BY <1>1, <1>3
  <2>2. Cardinality({j \in 1..n : j < k}) = k - 1
    BY <1>3
  <2>. QED
    BY <2>1, <2>2
<1>. HIDE DEF at
<1>5. Closed(hs, x) = [k \in 1..n |-> hs[at(k)]]
  <2>. DEFINE left == {i \in DOMAIN hs : hs[i] # x}
  <2>1. Closed(hs, x) = [k \in 1..Cardinality(left) |-> hs[CHOOSE i \in left : Cardinality({j \in left : j < i}) = k - 1]]
    BY DEF Closed
  <2>2. left = 1..n
    BY <1>1
  <2>. HIDE DEF left, n
  <2>. QED
    BY <1>2, <2>1, <2>2 DEF at
<1>6. [k \in 1..n |-> hs[at(k)]] = [k \in 1..n |-> hs[k]]
  BY <1>4
<1>. QED
  BY <1>1, <1>5, <1>6

-----------------------------------------------------------------------------
(* The inductive invariant of an event.                                    *)

Slots == Handlers \cup {Hole}
Turn == [i : Nat \ {0}, busy : BOOLEAN, called : SUBSET Handlers,
         due : SUBSET (Handlers \ {Hole}), disturbed : BOOLEAN]

EventTypes == handlers \in Seq(Slots) /\ frames \in Seq(Turn)

\* A handler that a dispatch still has to call is in the list where its loop
\* has not been.
Ahead(f, hs) == f.disturbed \/ \A h \in f.due \ f.called : \E j \in DOMAIN hs : j >= f.i /\ hs[j] = h
DueIsAhead == \A k \in DOMAIN frames : Ahead(frames[k], handlers)

EventInv == EventTypes /\ DueIsAhead /\ NobodySkipped

-----------------------------------------------------------------------------
LEMMA OneMore ==
    ASSUME NEW f \in Turn, NEW s \in Seq(Turn), NEW F, F = <<f>> \o s
    PROVE  /\ F \in Seq(Turn) /\ Len(F) = Len(s) + 1 /\ F[1] = f
           /\ \A k \in 2..Len(F) : F[k] = s[k - 1]
OBVIOUS

LEMMA SomeTruth == ASSUME NEW a, NEW b PROVE \E p \in BOOLEAN : p = (a \/ b)
OBVIOUS

LEMMA EventInitHolds == DispatchInit => EventInv
BY DEF DispatchInit, EventInv, EventTypes, DueIsAhead, NobodySkipped, Turn, Slots

LEMMA WalksKeep == EventInv /\ UNCHANGED eventVars => EventInv'
BY DEF EventInv, eventVars, EventTypes, DueIsAhead, Ahead, NobodySkipped

LEMMA AddKeeps == ASSUME EventInv, NEW h \in Handlers, AddEventListener(h) PROVE EventInv'
<1>1. /\ handlers' \in Seq(Slots) /\ frames' = frames /\ skipped' = skipped
      /\ \A j \in DOMAIN handlers : j \in DOMAIN handlers' /\ handlers'[j] = handlers[j]
  BY DEF EventInv, EventTypes, AddEventListener, Slots
<1>. QED
  BY <1>1 DEF EventInv, EventTypes, DueIsAhead, Ahead, NobodySkipped

LEMMA RemoveKeeps == ASSUME EventInv, NEW h \in Handlers, RemoveEventListener(h) PROVE EventInv'
<1>1. handlers \in Seq(Slots) /\ frames \in Seq(Turn) /\ skipped' = skipped
  BY DEF EventInv, EventTypes, RemoveEventListener
<1>2. PICK newFrames : newFrames = frames'
  OBVIOUS
<1>3. PICK newHandlers : newHandlers = handlers'
  OBVIOUS
<1>4. newFrames = [k \in DOMAIN frames |-> [frames[k] EXCEPT !.due = @ \ {h}, !.disturbed = @ \/ ~dispatching]]
  BY <1>2 DEF RemoveEventListener
<1>5. newHandlers = Without(h)
  BY <1>3 DEF RemoveEventListener
<1>6. ASSUME NEW k \in DOMAIN frames
      PROVE  /\ newFrames[k] \in Turn
             /\ newFrames[k].i = frames[k].i /\ newFrames[k].called = frames[k].called
             /\ newFrames[k].due = frames[k].due \ {h}
             /\ newFrames[k].disturbed = (frames[k].disturbed \/ ~dispatching)
  <2>1. PICK p \in BOOLEAN : p = (frames[k].disturbed \/ ~dispatching)
    BY SomeTruth
  <2>2. newFrames[k] = [frames[k] EXCEPT !.due = frames[k].due \ {h}, !.disturbed = p]
    BY <1>4, <2>1, Zenon
  <2>3. PICK f \in Turn : f = frames[k]
    BY <1>1
  <2>4. PICK d \in SUBSET f.due : d = f.due \ {h}
    OBVIOUS
  <2>5. PICK g : g = newFrames[k]
    OBVIOUS
  <2>6. g = [f EXCEPT !.due = d, !.disturbed = p]
    BY <2>2, <2>3, <2>4, <2>5, Zenon
  <2>7. g \in Turn /\ g.i = f.i /\ g.called = f.called /\ g.due = d /\ g.disturbed = p
    BY <2>1, <2>3, <2>4, <2>6 DEF Turn
  <2>. QED
    BY <2>1, <2>3, <2>4, <2>5, <2>7, Zenon
<1>7. newFrames \in Seq(Turn)
  <2>1. \A k \in DOMAIN frames : newFrames[k] \in Turn
    BY <1>6
  <2>2. PICK n \in Nat : DOMAIN frames = 1..n
    BY <1>1
  <2>3. newFrames = [k \in 1..n |-> newFrames[k]]
    BY <1>4, <2>2, Zenon
  <2>. QED
    BY <2>1, <2>2, <2>3
<1>8. newHandlers \in Seq(Slots)
  BY <1>1, <1>5, ClosedType DEF Without, Slots
<1>9. ASSUME NEW k \in DOMAIN frames PROVE Ahead(newFrames[k], newHandlers)
  <2>1. CASE ~dispatching
    BY <1>6, <2>1, Zenon DEF Ahead
  <2>2. CASE dispatching
    <3>1. newHandlers = [i \in DOMAIN handlers |-> IF handlers[i] = h THEN Hole ELSE handlers[i]]
      BY <1>5, <2>2 DEF Without
    <3>2. ASSUME ~newFrames[k].disturbed, NEW x \in newFrames[k].due \ newFrames[k].called
          PROVE  \E j \in DOMAIN newHandlers : j >= newFrames[k].i /\ newHandlers[j] = x
      <4>1. ~frames[k].disturbed /\ x \in frames[k].due \ frames[k].called /\ x # h
        BY <1>6, <2>2, <3>2, Zenon
      <4>2. PICK j \in DOMAIN handlers : j >= frames[k].i /\ handlers[j] = x
        BY <4>1 DEF EventInv, DueIsAhead, Ahead
      <4>3. j \in DOMAIN newHandlers /\ newHandlers[j] = x /\ j >= newFrames[k].i
        BY <1>6, <3>1, <4>1, <4>2, Zenon
      <4>. QED
        BY <4>3
    <3>. QED
      BY <3>2 DEF Ahead
  <2>. QED
    BY <2>1, <2>2
<1>10. DOMAIN newFrames = DOMAIN frames
  BY <1>4
<1>. QED
  BY <1>1, <1>2, <1>3, <1>7, <1>8, <1>9, <1>10 DEF EventInv, EventTypes, DueIsAhead, NobodySkipped

LEMMA ClearKeeps == ASSUME EventInv, ClearEventListeners PROVE EventInv'
<1>1. handlers \in Seq(Slots) /\ frames \in Seq(Turn) /\ skipped' = skipped
  BY DEF EventInv, EventTypes, ClearEventListeners
<1>2. PICK newFrames : newFrames = frames'
  OBVIOUS
<1>3. newFrames = [k \in DOMAIN frames |-> [frames[k] EXCEPT !.due = {}, !.disturbed = @ \/ ~dispatching]]
  BY <1>2 DEF ClearEventListeners
<1>4. ASSUME NEW k \in DOMAIN frames
      PROVE  newFrames[k] \in Turn /\ newFrames[k].due = {}
  <2>1. PICK p \in BOOLEAN : p = (frames[k].disturbed \/ ~dispatching)
    BY SomeTruth
  <2>2. newFrames[k] = [frames[k] EXCEPT !.due = {}, !.disturbed = p]
    BY <1>3, <2>1, Zenon
  <2>3. PICK f \in Turn : f = frames[k]
    BY <1>1
  <2>4. PICK d \in SUBSET f.due : d = {}
    OBVIOUS
  <2>5. PICK g : g = newFrames[k]
    OBVIOUS
  <2>6. g = [f EXCEPT !.due = d, !.disturbed = p]
    BY <2>2, <2>3, <2>4, <2>5, Zenon
  <2>7. g \in Turn /\ g.due = d
    BY <2>1, <2>3, <2>4, <2>6 DEF Turn
  <2>. QED
    BY <2>4, <2>5, <2>7
<1>5. newFrames \in Seq(Turn)
  <2>1. PICK n \in Nat : DOMAIN frames = 1..n
    BY <1>1
  <2>2. newFrames = [k \in 1..n |-> newFrames[k]]
    BY <1>3, <2>1, Zenon
  <2>. QED
    BY <1>4, <2>1, <2>2
<1>6. handlers' \in Seq(Slots)
  <2>1. handlers' = (IF dispatching THEN [i \in DOMAIN handlers |-> Hole] ELSE <<>>)
    BY DEF ClearEventListeners
  <2>2. PICK n \in Nat : DOMAIN handlers = 1..n
    BY <1>1
  <2>3. [i \in 1..n |-> Hole] \in Seq(Slots) /\ <<>> \in Seq(Slots)
    BY DEF Slots
  <2>. QED
    BY <2>1, <2>2, <2>3, Zenon
<1>7. PICK newHandlers : newHandlers = handlers'
  OBVIOUS
<1>8. ASSUME NEW k \in DOMAIN frames PROVE Ahead(newFrames[k], newHandlers)
  BY <1>4 DEF Ahead
<1>9. DOMAIN newFrames = DOMAIN frames
  BY <1>3
<1>. QED
  BY <1>1, <1>2, <1>5, <1>6, <1>7, <1>8, <1>9 DEF EventInv, EventTypes, DueIsAhead, NobodySkipped

LEMMA DispatchKeeps == ASSUME EventInv, Dispatch PROVE EventInv'
<1>1. handlers \in Seq(Slots) /\ frames \in Seq(Turn) /\ UNCHANGED <<handlers, skipped>>
  BY DEF EventInv, EventTypes, Dispatch
<1>. DEFINE f == [i |-> 1, busy |-> FALSE, called |-> {}, due |-> Listening, disturbed |-> FALSE]
<1>2. f \in Turn
  BY <1>1 DEF Turn, Listening, Slots, Range
<1>3. frames' = <<f>> \o frames
  BY DEF Dispatch
<1>4. Ahead(f, handlers)
  BY <1>1 DEF Ahead, Listening, Range
<1>. HIDE DEF f
<1>5. PICK newFrames : newFrames = frames'
  OBVIOUS
<1>6. /\ newFrames \in Seq(Turn) /\ Len(newFrames) = Len(frames) + 1 /\ newFrames[1] = f
      /\ \A k \in 2..Len(newFrames) : newFrames[k] = frames[k - 1]
  BY <1>1, <1>2, <1>3, <1>5, OneMore
<1>8. ASSUME NEW k \in DOMAIN newFrames
      PROVE  newFrames[k] = f \/ (k - 1 \in DOMAIN frames /\ newFrames[k] = frames[k - 1])
  <2>1. Len(frames) \in Nat /\ DOMAIN frames = 1..Len(frames) /\ k \in 1..(Len(frames) + 1)
    BY <1>1, <1>6
  <2>2. CASE k = 1
    BY <1>6, <2>2
  <2>3. CASE k # 1
    <3>1. k \in 2..(Len(frames) + 1) /\ k - 1 \in 1..Len(frames)
      BY <2>1, <2>3
    <3>. QED
      BY <1>6, <2>1, <3>1
  <2>. QED
    BY <2>2, <2>3
<1>7. \A k \in DOMAIN newFrames : Ahead(newFrames[k], handlers)
  BY <1>4, <1>8 DEF EventInv, DueIsAhead
<1>. QED
  BY <1>1, <1>5, <1>6, <1>7 DEF EventInv, EventTypes, DueIsAhead, NobodySkipped, Ahead

LEMMA CallKeeps == ASSUME EventInv, CallHandler PROVE EventInv'
<1>1. /\ handlers \in Seq(Slots) /\ frames \in Seq(Turn) /\ UNCHANGED <<handlers, skipped>>
      /\ frames # <<>>
  BY DEF EventInv, EventTypes, CallHandler
<1>2. PICK f \in Turn : f = Head(frames) /\ f = frames[1]
  BY <1>1
<1>3. PICK h \in Slots : h = handlers[f.i]
  BY <1>1, <1>2 DEF CallHandler, Turn
<1>4. PICK p \in BOOLEAN : p = (h # Hole)
  OBVIOUS
<1>5. PICK c \in SUBSET Handlers : c = f.called \cup ({h} \ {Hole})
  BY DEF Turn, Slots
<1>6. PICK m \in Nat \ {0} : m = f.i + 1
  BY DEF Turn
<1>15. PICK g : g = [f EXCEPT !.i = m, !.busy = p, !.called = c]
  OBVIOUS
<1>16. g \in Turn /\ g.i = m /\ g.called = c /\ g.due = f.due /\ g.disturbed = f.disturbed
  BY <1>2, <1>4, <1>5, <1>6, <1>15 DEF Turn
<1>17. [f EXCEPT !.i = @ + 1, !.busy = (h # Hole), !.called = @ \cup ({h} \ {Hole})] = g
  BY <1>4, <1>5, <1>6, <1>15, Zenon
<1>18. frames' = <<g>> \o Tail(frames)
  BY <1>2, <1>3, <1>17 DEF CallHandler
<1>7. Ahead(g, handlers)
  <2>1. ASSUME ~g.disturbed, NEW x \in g.due \ g.called
        PROVE  \E j \in DOMAIN handlers : j >= g.i /\ handlers[j] = x
    <3>1. ~f.disturbed /\ x \in f.due \ f.called /\ x # h
      BY <1>5, <1>16, <2>1 DEF Turn
    <3>2. PICK j \in DOMAIN handlers : j >= f.i /\ handlers[j] = x
      BY <1>1, <1>2, <3>1 DEF EventInv, DueIsAhead, Ahead
    <3>3. j # f.i /\ f.i \in Nat /\ j \in Nat
      BY <1>1, <1>3, <3>1, <3>2 DEF Turn
    <3>. QED
      BY <1>6, <1>16, <3>2, <3>3
  <2>. QED
    BY <2>1 DEF Ahead
<1>8. PICK newFrames : newFrames = frames'
  OBVIOUS
<1>13. Tail(frames) \in Seq(Turn) /\ \A k \in DOMAIN Tail(frames) : k + 1 \in DOMAIN frames /\ Tail(frames)[k] = frames[k + 1]
  BY <1>1
<1>9. /\ newFrames \in Seq(Turn) /\ Len(newFrames) = Len(Tail(frames)) + 1 /\ newFrames[1] = g
      /\ \A k \in 2..Len(newFrames) : newFrames[k] = Tail(frames)[k - 1]
  BY <1>8, <1>13, <1>16, <1>18, OneMore
<1>11. ASSUME NEW k \in DOMAIN newFrames
       PROVE  newFrames[k] = g \/ (k \in DOMAIN frames /\ newFrames[k] = frames[k])
  <2>1. PICK rest \in Seq(Turn) : rest = Tail(frames)
    BY <1>13
  <2>2. Len(rest) \in Nat /\ DOMAIN rest = 1..Len(rest) /\ k \in 1..(Len(rest) + 1)
    BY <1>9, <2>1
  <2>3. CASE k = 1
    BY <1>9, <2>3
  <2>4. CASE k # 1
    <3>1. k \in 2..(Len(rest) + 1) /\ k - 1 \in 1..Len(rest)
      BY <2>2, <2>4
    <3>2. newFrames[k] = rest[k - 1] /\ k - 1 \in DOMAIN rest
      BY <1>9, <2>1, <2>2, <3>1
    <3>3. k - 1 + 1 = k
      BY <3>1
    <3>. QED
      BY <1>13, <2>1, <3>2, <3>3
  <2>. QED
    BY <2>3, <2>4
<1>10. \A k \in DOMAIN newFrames : Ahead(newFrames[k], handlers)
  BY <1>7, <1>11 DEF EventInv, DueIsAhead
<1>. QED
  BY <1>1, <1>8, <1>9, <1>10 DEF EventInv, EventTypes, DueIsAhead, NobodySkipped, Ahead

LEMMA EndDispatchKeeps == ASSUME EventInv, EndDispatch PROVE EventInv'
<1>1. handlers \in Seq(Slots) /\ frames \in Seq(Turn) /\ frames # <<>>
  BY DEF EventInv, EventTypes, EndDispatch
<1>2. PICK f \in Turn : f = Head(frames) /\ f = frames[1]
  BY <1>1
<1>. DEFINE closed == Hole \in Range(handlers)
            rest == Tail(frames)
<1>3. rest \in Seq(Turn) /\ \A j \in DOMAIN rest : j + 1 \in DOMAIN frames /\ rest[j] = frames[j + 1]
  BY <1>1
<1>4. PICK newHandlers : newHandlers = handlers'
  OBVIOUS
<1>5. PICK newFrames : newFrames = frames'
  OBVIOUS
<1>6. newHandlers = Live(handlers)
  BY <1>4 DEF EndDispatch
<1>7. newFrames = [j \in DOMAIN rest |-> [rest[j] EXCEPT !.disturbed = @ \/ closed]]
  BY <1>5 DEF EndDispatch
<1>8. skipped' = skipped
  <2>1. f.disturbed \/ f.due \ f.called = {}
    <3>1. ~\E j \in DOMAIN handlers : j >= f.i
      BY <1>1, <1>2 DEF EndDispatch, Turn
    <3>. QED
      BY <1>1, <1>2, <3>1 DEF EventInv, DueIsAhead, Ahead
  <2>2. skipped' = IF f.disturbed THEN skipped ELSE skipped \cup (f.due \ f.called)
    BY <1>2 DEF EndDispatch
  <2>. QED
    BY <2>1, <2>2
<1>9. newHandlers \in Seq(Slots)
  BY <1>1, <1>6, ClosedType DEF Live
<1>10. closed \/ newHandlers = handlers
  BY <1>1, <1>6, ClosedSame DEF Live, Range
<1>. HIDE DEF rest, closed
<1>11. ASSUME NEW j \in DOMAIN rest
       PROVE  /\ newFrames[j] \in Turn
              /\ newFrames[j].i = rest[j].i /\ newFrames[j].called = rest[j].called
              /\ newFrames[j].due = rest[j].due
              /\ newFrames[j].disturbed = (rest[j].disturbed \/ closed)
  <2>1. PICK p \in BOOLEAN : p = (rest[j].disturbed \/ closed)
    BY SomeTruth
  <2>2. newFrames[j] = [rest[j] EXCEPT !.disturbed = p]
    BY <1>7, <2>1, Zenon
  <2>3. rest[j] \in Turn
    BY <1>3
  <2>4. /\ newFrames[j] \in Turn
        /\ newFrames[j].i = rest[j].i /\ newFrames[j].called = rest[j].called
        /\ newFrames[j].due = rest[j].due
        /\ newFrames[j].disturbed = p
    BY <2>1, <2>2, <2>3 DEF Turn
  <2>. QED
    BY <2>1, <2>4, Zenon
<1>12. newFrames \in Seq(Turn)
  <2>1. PICK n \in Nat : DOMAIN rest = 1..n
    BY <1>3
  <2>2. newFrames = [k \in 1..n |-> newFrames[k]]
    BY <1>7, <2>1, Zenon
  <2>. QED
    BY <1>11, <2>1, <2>2
<1>13. ASSUME NEW j \in DOMAIN rest PROVE Ahead(newFrames[j], newHandlers)
  <2>1. CASE closed
    BY <1>11, <2>1, Zenon DEF Ahead
  <2>2. CASE newHandlers = handlers
    <3>1. Ahead(rest[j], handlers)
      BY <1>3 DEF EventInv, DueIsAhead
    <3>. QED
      BY <1>11, <2>2, <3>1, Zenon DEF Ahead
  <2>. QED
    BY <1>10, <2>1, <2>2
<1>14. DOMAIN newFrames = DOMAIN rest
  BY <1>7
<1>. QED
  BY <1>4, <1>5, <1>8, <1>9, <1>12, <1>13, <1>14 DEF EventInv, EventTypes, DueIsAhead, NobodySkipped

-----------------------------------------------------------------------------
(* For any handlers and any bounds: when the loop of a dispatch ends, it has *)
(* called every handler that was registered when it began and has not been   *)
(* removed, whatever the handlers added, removed, cleared or dispatched,     *)
(* unless the list closed up under the loop.                                 *)
THEOREM NobodyEverSkipped == DispatchSpec => []NobodySkipped
<1>1. EventInv /\ [DispatchNext]_dispatchVars => EventInv'
  <2>. SUFFICES ASSUME EventInv, [DispatchNext]_dispatchVars PROVE EventInv'
    OBVIOUS
  <2>1. CASE \E h \in Handlers : AddEventListener(h)
    BY <2>1, AddKeeps
  <2>2. CASE \E h \in Handlers : RemoveEventListener(h)
    BY <2>2, RemoveKeeps
  <2>3. CASE ClearEventListeners
    BY <2>3, ClearKeeps
  <2>4. CASE Dispatch
    BY <2>4, DispatchKeeps
  <2>5. CASE CallHandler
    BY <2>5, CallKeeps
  <2>6. CASE EndDispatch
    BY <2>6, EndDispatchKeeps
  <2>7. CASE \E t \in Inputs : Connect(t) \/ DisconnectInput(t)
    BY <2>7, WalksKeep DEF Connect, DisconnectInput
  <2>8. CASE Propagate \/ Take \/ TakeFails \/ EndPropagation
    BY <2>8, WalksKeep DEF Propagate, Take, TakeFails, EndPropagation
  <2>9. CASE UNCHANGED dispatchVars
    BY <2>9, WalksKeep DEF dispatchVars
  <2>. QED
    BY <2>1, <2>2, <2>3, <2>4, <2>5, <2>6, <2>7, <2>8, <2>9 DEF DispatchNext
<1>. QED
  BY <1>1, EventInitHolds, PTL DEF DispatchSpec, EventInv
=============================================================================
