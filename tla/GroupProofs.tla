---------------------------- MODULE GroupProofs ----------------------------
(***************************************************************************)
(* The paths of the groups keep their shape, with transactions and         *)
(* without; with transactions the two sides of a membership always agree,  *)
(* and the index has the groups there are; and unless two changes of the   *)
(* hierarchy met, what left the organizations is above nobody: for any     *)
(* users and any number of groups and requests.                            *)
(***************************************************************************)
EXTENDS Groups, SequenceTheorems, WellFoundedInduction, TLAPS

-----------------------------------------------------------------------------
(* The inductive invariant: nothing that is stored, was read or will be    *)
(* written has another shape.                                              *)

Keys == GroupIds \cup Users
Values == GroupRecords \cup (SUBSET GroupIds) \cup {Gone}

Fits(k, v) ==
    \/ v = Gone
    \/ k \in GroupIds /\ v \in GroupRecords /\ Shapely(k, v)
    \/ k \in Users /\ v \in SUBSET GroupIds

Documents == {f \in [Keys -> Values] : \A k \in Keys : Fits(k, f[k])}
Writes == {f \in UNION {[D -> Values] : D \in SUBSET Keys} : \A k \in DOMAIN f : Fits(k, f[k])}

Members == UNION {[D -> SUBSET Users] : D \in SUBSET GroupIds}

GroupStep == {s \in [do : {"insert", "save"}, at : GroupIds, new : GroupRecords] : Shapely(s.at, s.new)}
UserStep == [do : {"save"}, at : Users, new : SUBSET GroupIds]
OtherStep ==
    [do : {"touch"}, at : Users]
    \cup [do : {"erase"}, of : SUBSET Keys]
    \cup [do : {"add"}, at : GroupIds, of : SUBSET Users]
    \cup [do : {"take"}, of : Members]
    \cup [do : {"detach"}, at : GroupIds]
    \cup [do : {"join", "leave", "groups"}, at : Users, of : SUBSET GroupIds]
    \cup [do : {"list", "unlist"}, of : SUBSET GroupIds]
SaneStep == GroupStep \cup UserStep \cup OtherStep

Record == [op : GroupOps, snap : Documents, mine : Writes, indexed : BOOLEAN, todo : Seq(SaneStep)]

IInv ==
    /\ records \in Documents
    /\ born \in Nat
    /\ serving \in [Servers -> Record \cup {Unserved}]

-----------------------------------------------------------------------------
(* Paths.                                                                  *)

\* A group that is in no organization, or not yet under any.
LEMMA AloneShapely ==
    ASSUME NEW g \in GroupIds, NEW org \in BOOLEAN, NEW us \in SUBSET Users
    PROVE  /\ GroupDocument(g, org, us) \in GroupRecords
           /\ Shapely(g, GroupDocument(g, org, us))
BY DEF GroupDocument, GroupRecords, Shapely

\* A group put at the end of the path of another that is not below it.
LEMMA AppendShapely ==
    ASSUME NEW g \in GroupIds, NEW h \in GroupIds, NEW group \in GroupRecords, NEW parent \in GroupRecords,
           Shapely(h, parent), ~Contains(parent.path, g)
    PROVE  LET new == [group EXCEPT !.path = Append(parent.path, g), !.org = TRUE]
           IN  new \in GroupRecords /\ Shapely(g, new)
<1>. DEFINE path == Append(parent.path, g)
<1>1. parent.path \in Seq(GroupIds) /\ Len(parent.path) \in Nat
  BY DEF GroupRecords
<1>2. path \in Seq(GroupIds) /\ Len(path) = Len(parent.path) + 1 /\ path[Len(path)] = g
  BY <1>1
<1>3. \A i \in 1..Len(parent.path) : path[i] = parent.path[i] /\ path[i] # g
  BY <1>1 DEF Contains
<1>4. \A i, j \in 1..Len(path) : path[i] = path[j] => i = j
  BY <1>1, <1>2, <1>3 DEF Shapely
<1>. DEFINE new == [group EXCEPT !.path = path, !.org = TRUE]
<1>. HIDE DEF path
<1>5. new \in GroupRecords /\ new.path = path /\ new.org = TRUE
  <2>1. path \in Seq(GroupIds)
    BY <1>2
  <2>. QED
    BY <2>1 DEF GroupRecords
<1>. HIDE DEF new
<1>6. Shapely(g, new)
  BY <1>1, <1>2, <1>4, <1>5 DEF Shapely
<1>. QED
  BY <1>5, <1>6 DEF path, new

\* The fields other than the path and org do not matter.
LEMMA SameShape ==
    ASSUME NEW g \in GroupIds, NEW group \in GroupRecords, Shapely(g, group), NEW us \in SUBSET Users
    PROVE  [group EXCEPT !.users = us] \in GroupRecords /\ Shapely(g, [group EXCEPT !.users = us])
BY DEF GroupRecords, Shapely

\* What taking an ancestor out of a path leaves.
LEMMA RemovedPath ==
    ASSUME NEW g \in GroupIds, NEW group \in GroupRecords, Shapely(g, group),
           NEW e \in GroupIds, e # g, Contains(group.path, e)
    PROVE  LET p == group.path
               n == Len(p)
               q == RemoveFirst(p, e)
           IN  \E k \in 1..n : /\ p[k] = e /\ k < n /\ q \in Seq(GroupIds) /\ Len(q) = n - 1
                               /\ \A i \in 1..(n - 1) : q[i] = IF i < k THEN p[i] ELSE p[i + 1]
<1>. DEFINE p == group.path
            n == Len(p)
<1>1. p \in Seq(GroupIds) /\ n \in Nat /\ n > 0 /\ p[n] = g
  BY DEF GroupRecords, Shapely
<1>2. PICK k \in 1..n : p[k] = e
  BY DEF Contains
<1>3. \A i, j \in 1..n : p[i] = p[j] => i = j
  BY DEF Shapely
<1>4. RemoveFirst(p, e) = SubSeq(p, 1, k - 1) \o SubSeq(p, k + 1, n)
  <2>1. {i \in 1..n : p[i] = e} = {k}
    BY <1>2, <1>3
  <2>2. SelectInSeq(p, LAMBDA v : v = e) = k
    <3>1. Min({k}) = k
      BY <1>1, <1>2 DEF Min
    <3>. QED
      BY <2>1, <3>1 DEF SelectInSeq
  <2>. QED
    BY <1>2, <2>2 DEF RemoveFirst, RemoveAt
<1>5. k < n
  BY <1>1, <1>2
<1>. DEFINE q == RemoveFirst(p, e)
<1>6. /\ q \in Seq(GroupIds) /\ Len(q) = n - 1
      /\ \A i \in 1..(n - 1) : q[i] = IF i < k THEN p[i] ELSE p[i + 1]
  <2>. DEFINE a == SubSeq(p, 1, k - 1)
              b == SubSeq(p, k + 1, n)
  <2>1. a \in Seq(GroupIds) /\ Len(a) = k - 1 /\ \A i \in 1..(k - 1) : a[i] = p[i]
    BY <1>1, <1>2, <1>5
  <2>2. b \in Seq(GroupIds) /\ Len(b) = n - k /\ \A i \in 1..(n - k) : b[i] = p[i + k]
    BY <1>1, <1>2, <1>5
  <2>3. q = a \o b
    BY <1>4
  <2>. HIDE DEF a, b, q, p, n
  <2>4. q \in Seq(GroupIds) /\ Len(q) = n - 1
    <3>1. a \o b \in Seq(GroupIds) /\ Len(a \o b) = Len(a) + Len(b)
      BY <2>1, <2>2, ConcatProperties
    <3>. QED
      BY <1>1, <1>2, <2>1, <2>2, <2>3, <3>1
  <2>5. ASSUME NEW i \in 1..(n - 1) PROVE q[i] = IF i < k THEN p[i] ELSE p[i + 1]
    <3>1. CASE i < k
      BY <1>1, <1>2, <2>1, <2>2, <2>3, <3>1
    <3>2. CASE ~(i < k)
      <4>1. i - (k - 1) \in 1..(n - k) /\ (i - (k - 1)) + k = i + 1
        BY <1>1, <1>2, <3>2
      <4>2. q[i] = b[i - (k - 1)]
        BY <1>1, <1>2, <2>1, <2>2, <2>3, <3>2
      <4>. QED
        BY <2>2, <3>2, <4>1, <4>2
    <3>. QED
      BY <3>1, <3>2
  <2>. QED
    BY <2>4, <2>5
<1>. HIDE DEF q, n
<1>7. /\ p[k] = e /\ k < n /\ q \in Seq(GroupIds) /\ Len(q) = n - 1
      /\ \A i \in 1..(n - 1) : q[i] = IF i < k THEN p[i] ELSE p[i + 1]
  BY <1>2, <1>5, <1>6
<1>. QED
  BY <1>7 DEF p, n, q

\* Taking an ancestor out of a path.
LEMMA RemoveShapely ==
    ASSUME NEW g \in GroupIds, NEW group \in GroupRecords, Shapely(g, group),
           NEW e \in GroupIds, e # g, Contains(group.path, e)
    PROVE  LET new == [group EXCEPT !.path = RemoveFirst(@, e)]
           IN  new \in GroupRecords /\ Shapely(g, new)
<1>. DEFINE p == group.path
            n == Len(p)
            q == RemoveFirst(p, e)
<1>1. p \in Seq(GroupIds) /\ n \in Nat /\ n > 0 /\ p[n] = g
  BY DEF GroupRecords, Shapely
<1>2. PICK k \in 1..n : /\ p[k] = e /\ k < n /\ q \in Seq(GroupIds) /\ Len(q) = n - 1
                        /\ \A i \in 1..(n - 1) : q[i] = IF i < k THEN p[i] ELSE p[i + 1]
  BY RemovedPath
<1>3. \A i, j \in 1..n : p[i] = p[j] => i = j
  BY DEF Shapely
<1>4. k < n
  BY <1>2
<1>5. /\ q \in Seq(GroupIds) /\ Len(q) = n - 1
      /\ \A i \in 1..(n - 1) : q[i] = IF i < k THEN p[i] ELSE p[i + 1]
  BY <1>2
<1>. HIDE DEF q, n
<1>6. Len(q) > 0 /\ q[Len(q)] = g
  BY <1>1, <1>2, <1>4, <1>5
<1>7. ASSUME NEW i \in 1..Len(q), NEW j \in 1..Len(q), q[i] = q[j] PROVE i = j
  <2>. DEFINE from(l) == IF l < k THEN l ELSE l + 1
  <2>1. /\ from(i) \in 1..n /\ q[i] = p[from(i)] /\ i \in Nat
        /\ from(j) \in 1..n /\ q[j] = p[from(j)] /\ j \in Nat
    BY <1>1, <1>5
  <2>2. from(i) = from(j)
    BY <1>3, <1>7, <2>1
  <2>. QED
    BY <2>1, <2>2
<1>8. group.org = TRUE
  <2>1. n >= 2
    BY <1>1, <1>2, <1>4
  <2>. QED
    BY <2>1 DEF GroupRecords, Shapely, n
<1>. DEFINE new == [group EXCEPT !.path = q]
<1>9. new \in GroupRecords /\ new.path = q /\ new.org = TRUE
  <2>1. q \in Seq(GroupIds)
    BY <1>5
  <2>. QED
    BY <2>1, <1>8 DEF GroupRecords
<1>. HIDE DEF new
<1>10. Shapely(g, new)
  BY <1>6, <1>7, <1>9 DEF Shapely
<1>11. new = [group EXCEPT !.path = RemoveFirst(@, e)]
  BY DEF new, q, p
<1>. QED
  BY <1>9, <1>10, <1>11

-----------------------------------------------------------------------------
(* What the updates make of the documents.                                 *)

LEMMA KeysApart ==
    /\ Users \cap GroupIds = {}
    /\ \A v : \A g \in GroupIds : Fits(g, v) => v = Gone \/ (v \in GroupRecords /\ Shapely(g, v))
    /\ \A v : \A u \in Users : Fits(u, v) => v = Gone \/ v \in SUBSET GroupIds
BY GroupsAssumption DEF Fits

LEMMA FitsValue ==
    ASSUME NEW k, NEW v, Fits(k, v)
    PROVE  v \in Values
<1>1. CASE v = Gone
  BY <1>1, Zenon DEF Values
<1>2. CASE v \in GroupRecords
  BY <1>2, Zenon DEF Values
<1>3. CASE v \in SUBSET GroupIds
  BY <1>3, Zenon DEF Values
<1>. QED
  BY <1>1, <1>2, <1>3 DEF Fits

LEMMA WritesIntro ==
    ASSUME NEW D \in SUBSET Keys, NEW f, f = [k \in D |-> f[k]], \A k \in D : Fits(k, f[k])
    PROVE  f \in Writes
<1>1. \A k \in D : f[k] \in Values
  BY FitsValue
<1>2. f \in [D -> Values]
  BY <1>1
<1>. QED
  BY <1>2 DEF Writes

LEMMA WritesElim ==
    ASSUME NEW f \in Writes
    PROVE  /\ DOMAIN f \in SUBSET Keys /\ f = [k \in DOMAIN f |-> f[k]]
           /\ \A k \in DOMAIN f : Fits(k, f[k])
BY DEF Writes

LEMMA DocumentsElim ==
    ASSUME NEW db \in Documents
    PROVE  /\ DOMAIN db = Keys
           /\ \A g \in GroupsOf(db) : g \in GroupIds /\ db[g] \in GroupRecords /\ Shapely(g, db[g])
           /\ \A u \in UsersOf(db) : u \in Users /\ db[u] \in SUBSET GroupIds
<1>1. DOMAIN db = Keys /\ \A k \in Keys : Fits(k, db[k])
  BY DEF Documents
<1>. QED
  BY <1>1, KeysApart DEF GroupsOf, UsersOf, Keys

\* Writes over documents, or over earlier writes.
LEMMA MergeType ==
    ASSUME NEW f \in Writes, NEW g \in Writes, NEW db \in Documents
    PROVE  Upon(f, g) \in Writes /\ Upon(f, db) \in Documents
<1>. DEFINE D == DOMAIN f \cup DOMAIN g
            h == Upon(f, g)
<1>1. h = [k \in D |-> IF k \in DOMAIN f THEN f[k] ELSE g[k]]
  BY DEF Upon
<1>2. D \in SUBSET Keys /\ \A k \in D : Fits(k, h[k])
  BY <1>1, WritesElim
<1>3. h \in Writes
  <2>. HIDE DEF h, D
  <2>1. h = [k \in D |-> h[k]]
    BY <1>1
  <2>. QED
    BY <1>2, <2>1, WritesIntro
<1>4. Upon(f, db) \in Documents
  <2>1. DOMAIN f \cup DOMAIN db = Keys
    BY WritesElim, DocumentsElim
  <2>2. Upon(f, db) = [k \in Keys |-> IF k \in DOMAIN f THEN f[k] ELSE db[k]]
    BY <2>1 DEF Upon
  <2>3. \A k \in Keys : Fits(k, Upon(f, db)[k])
    BY <2>2, WritesElim DEF Documents
  <2>4. \A k \in Keys : Upon(f, db)[k] \in Values
    BY <2>3, FitsValue
  <2>. QED
    BY <2>2, <2>3, <2>4 DEF Documents
<1>. QED
  BY <1>3, <1>4

LEMMA EffectType ==
    ASSUME NEW s \in SaneStep, s.do \notin {"list", "unlist"}, NEW db \in Documents
    PROVE  Effect(s, db) \in Writes
<1>1. CASE s \in GroupStep /\ s.do = "insert"
  <2>1. Effect(s, db) = [k \in {s.at} |-> s.new]
    BY <1>1 DEF Effect
  <2>2. s.at \in GroupIds /\ Fits(s.at, s.new)
    BY <1>1 DEF GroupStep, Fits
  <2>. QED
    BY <2>1, <2>2, WritesIntro DEF Keys
<1>2. CASE s \in GroupStep \cup UserStep /\ s.do = "save"
  <2>. DEFINE D == {s.at} \ {k \in {s.at} : db[k] = Gone}
  <2>1. Effect(s, db) = [k \in D |-> s.new]
    BY <1>2 DEF Effect
  <2>2. s.at \in Keys /\ Fits(s.at, s.new)
    BY <1>2 DEF GroupStep, UserStep, Fits, Keys
  <2>. QED
    BY <2>1, <2>2, WritesIntro
<1>3. CASE s \in OtherStep /\ s.do = "touch"
  <2>1. Effect(s, db) = [u \in {s.at} \cap UsersOf(db) |-> db[u]]
    BY <1>3 DEF Effect
  <2>2. \A u \in UsersOf(db) : u \in Keys /\ Fits(u, db[u])
    BY DocumentsElim DEF Fits, Keys
  <2>. QED
    BY <2>1, <2>2, WritesIntro
<1>4. CASE s \in OtherStep /\ s.do = "erase"
  <2>1. Effect(s, db) = [k \in s.of |-> Gone] /\ s.of \in SUBSET Keys
    BY <1>4 DEF Effect, OtherStep
  <2>2. \A k : Fits(k, Gone)
    BY DEF Fits
  <2>. QED
    BY <2>1, <2>2, WritesIntro
<1>5. CASE s \in OtherStep /\ s.do = "add"
  <2>1. Effect(s, db) = [u \in s.of \cap UsersOf(db) |-> db[u] \cup {s.at}]
    BY <1>5 DEF Effect
  <2>2. \A u \in UsersOf(db) : u \in Keys /\ Fits(u, db[u] \cup {s.at})
    BY <1>5, DocumentsElim DEF Fits, Keys, OtherStep
  <2>. QED
    BY <2>1, <2>2, WritesIntro
<1>6. CASE s \in OtherStep /\ s.do = "take"
  <2>. DEFINE T(u) == {g \in DOMAIN s.of : u \in s.of[g]}
  <2>1. Effect(s, db) = [u \in UsersOf(db) |-> db[u] \ T(u)]
    BY <1>6 DEF Effect
  <2>2. \A u \in UsersOf(db) : u \in Keys /\ Fits(u, db[u] \ T(u))
    <3>. HIDE DEF T
    <3>. QED
      BY DocumentsElim DEF Fits, Keys
  <2>. QED
    BY <2>1, <2>2, WritesIntro
<1>7. CASE s \in OtherStep /\ s.do = "detach"
  <2>. DEFINE N(g) == [db[g] EXCEPT !.path = RemoveFirst(@, s.at)]
  <2>1. Effect(s, db) = [g \in Descendants(db, s.at) |-> N(g)]
    BY <1>7 DEF Effect
  <2>2. s.at \in GroupIds
    BY <1>7 DEF OtherStep
  <2>3. ASSUME NEW g \in Descendants(db, s.at) PROVE g \in Keys /\ Fits(g, N(g))
    <3>1. g \in GroupsOf(db) /\ s.at # g /\ Contains(db[g].path, s.at)
      BY DEF Descendants, Within
    <3>2. g \in GroupIds /\ db[g] \in GroupRecords /\ Shapely(g, db[g])
      BY <3>1, DocumentsElim
    <3>3. N(g) \in GroupRecords /\ Shapely(g, N(g))
      BY <2>2, <3>1, <3>2, RemoveShapely
    <3>. QED
      BY <3>2, <3>3 DEF Fits, Keys
  <2>. HIDE DEF N
  <2>. QED
    BY <2>1, <2>3, WritesIntro
<1>8. CASE s \in OtherStep /\ s.do \in {"join", "leave"}
  <2>. DEFINE J(g) == [db[g] EXCEPT !.users = db[g].users \cup {s.at}]
              L(g) == [db[g] EXCEPT !.users = db[g].users \ {s.at}]
  <2>1. /\ s.do = "join" => Effect(s, db) = [g \in s.of \cap GroupsOf(db) |-> J(g)]
        /\ s.do = "leave" => Effect(s, db) = [g \in s.of \cap GroupsOf(db) |-> L(g)]
    BY <1>8 DEF Effect
  <2>2. ASSUME NEW g \in GroupsOf(db) PROVE g \in Keys /\ Fits(g, J(g)) /\ Fits(g, L(g))
    <3>1. g \in GroupIds /\ db[g] \in GroupRecords /\ Shapely(g, db[g]) /\ s.at \in Users
      BY <1>8, DocumentsElim DEF OtherStep
    <3>2. db[g].users \cup {s.at} \in SUBSET Users /\ db[g].users \ {s.at} \in SUBSET Users
      BY <3>1 DEF GroupRecords
    <3>3. /\ J(g) \in GroupRecords /\ Shapely(g, J(g))
          /\ L(g) \in GroupRecords /\ Shapely(g, L(g))
      BY <3>1, <3>2, SameShape
    <3>. QED
      BY <3>1, <3>3 DEF Fits, Keys
  <2>. HIDE DEF J, L
  <2>. QED
    BY <1>8, <2>1, <2>2, WritesIntro
<1>9. CASE s \in OtherStep /\ s.do = "groups"
  <2>1. Effect(s, db) = [u \in {s.at} \cap UsersOf(db) |-> s.of]
    BY <1>9 DEF Effect
  <2>2. \A u \in UsersOf(db) : u \in Keys /\ Fits(u, s.of)
    BY <1>9, DocumentsElim DEF Fits, Keys, OtherStep
  <2>. QED
    BY <2>1, <2>2, WritesIntro
<1>. QED
  BY <1>1, <1>2, <1>3, <1>4, <1>5, <1>6, <1>7, <1>8, <1>9 DEF SaneStep, GroupStep, UserStep, OtherStep

LEMMA WrittenType ==
    ASSUME NEW s \in SaneStep, s.do \notin {"list", "unlist"}, NEW db \in Documents
    PROVE  Written(s, db) \in Writes
<1>. DEFINE e == Effect(s, db)
            D == {k \in DOMAIN e : s.do \in {"save", "touch"} \/ e[k] # db[k]}
<1>1. e \in Writes
  BY EffectType
<1>2. Written(s, db) = [k \in D |-> e[k]]
  BY DEF Written, Restrict
<1>3. D \in SUBSET Keys /\ \A k \in D : Fits(k, e[k])
  <2>. HIDE DEF e
  <2>. QED
    BY <1>1, WritesElim
<1>. HIDE DEF e, D
<1>. QED
  BY <1>2, <1>3, WritesIntro

-----------------------------------------------------------------------------
(* The steps of the requests.                                              *)

LEMMA DocumentStepType ==
    ASSUME NEW g \in GroupIds, NEW group \in GroupRecords, Shapely(g, group)
    PROVE  Insert(g, group) \in SaneStep /\ Save(g, group) \in SaneStep
<1>1. /\ Insert(g, group) \in [do : {"insert", "save"}, at : GroupIds, new : GroupRecords]
      /\ Save(g, group) \in [do : {"insert", "save"}, at : GroupIds, new : GroupRecords]
      /\ Insert(g, group).at = g /\ Insert(g, group).new = group
      /\ Save(g, group).at = g /\ Save(g, group).new = group
  BY DEF Insert, Save
<1>2. Insert(g, group) \in GroupStep /\ Save(g, group) \in GroupStep
  BY <1>1 DEF GroupStep
<1>. QED
  BY <1>2 DEF SaneStep

LEMMA UserStepType ==
    ASSUME NEW u \in Users, NEW gs \in SUBSET GroupIds
    PROVE  /\ Save(u, gs) \in SaneStep /\ Touch(u) \in SaneStep /\ JoinGroups(u, gs) \in SaneStep
           /\ LeaveGroups(u, gs) \in SaneStep /\ SetGroups(u, gs) \in SaneStep
<1>1. Save(u, gs) \in UserStep
  BY DEF UserStep, Save
<1>2. /\ Touch(u) \in OtherStep /\ JoinGroups(u, gs) \in OtherStep
      /\ LeaveGroups(u, gs) \in OtherStep /\ SetGroups(u, gs) \in OtherStep
  BY DEF OtherStep, Touch, JoinGroups, LeaveGroups, SetGroups
<1>. QED
  BY <1>1, <1>2 DEF SaneStep

LEMMA GroupStepType ==
    ASSUME NEW g \in GroupIds, NEW us \in SUBSET Users, NEW gs \in SUBSET GroupIds
    PROVE  /\ AddToUsers(g, us) \in SaneStep /\ Detach(g) \in SaneStep
           /\ List(g) \in SaneStep /\ Unlist(gs) \in SaneStep
<1>1. /\ AddToUsers(g, us) \in OtherStep /\ Detach(g) \in OtherStep
      /\ List(g) \in OtherStep /\ Unlist(gs) \in OtherStep
  BY DEF OtherStep, AddToUsers, Detach, List, Unlist
<1>. QED
  BY <1>1 DEF SaneStep

LEMMA TakeStepType ==
    ASSUME NEW D \in SUBSET GroupIds, NEW f \in [D -> SUBSET Users]
    PROVE  TakeFromUsers(f) \in SaneStep
<1>1. f \in Members
  BY DEF Members
<1>2. TakeFromUsers(f) \in OtherStep
  BY <1>1 DEF OtherStep, TakeFromUsers
<1>. QED
  BY <1>2 DEF SaneStep

LEMMA EraseStepType ==
    ASSUME NEW keys \in SUBSET Keys
    PROVE  Erase(keys) \in SaneStep
BY DEF SaneStep, OtherStep, Erase

LEMMA CreatePlanType ==
    ASSUME NEW op, op.org \in BOOLEAN, op.users \in SUBSET Users, NEW g \in GroupIds
    PROVE  CreatePlan(op, g) \in Seq(SaneStep)
<1>1. Insert(g, GroupDocument(g, op.org, op.users)) \in SaneStep
  <2>. DEFINE group == GroupDocument(g, op.org, op.users)
  <2>1. group \in GroupRecords /\ Shapely(g, group)
    BY AloneShapely
  <2>. HIDE DEF group
  <2>2. Insert(g, group) \in SaneStep
    BY <2>1, DocumentStepType
  <2>. QED
    BY <2>2 DEF group
<1>2. AddToUsers(g, op.users) \in SaneStep /\ List(g) \in SaneStep
  BY GroupStepType
<1>. QED
  BY <1>1, <1>2 DEF CreatePlan

LEMMA EditPlanType ==
    ASSUME NEW op, op.group \in GroupIds, op.users \in SUBSET Users,
           NEW group \in GroupRecords, Shapely(op.group, group)
    PROVE  EditPlan(op, group) \in Seq(SaneStep)
<1>. DEFINE g == op.group
            left == group.users \ op.users
            new == [group EXCEPT !.users = op.users]
<1>1. AddToUsers(g, op.users \ group.users) \in SaneStep /\ List(g) \in SaneStep
  BY GroupStepType
<1>2. TakeFromUsers([h \in {g} |-> left]) \in SaneStep
  <2>1. left \in SUBSET Users
    BY DEF GroupRecords
  <2>2. {g} \in SUBSET GroupIds /\ [h \in {g} |-> left] \in [{g} -> SUBSET Users]
    BY <2>1
  <2>. QED
    BY <2>2, TakeStepType
<1>3. Save(g, new) \in SaneStep
  <2>1. new \in GroupRecords /\ Shapely(g, new)
    BY SameShape
  <2>. HIDE DEF new
  <2>. QED
    BY <2>1, DocumentStepType
<1>. QED
  BY <1>1, <1>2, <1>3 DEF EditPlan

LEMMA MovePlanType ==
    ASSUME NEW op, op.group \in GroupIds, op.parent \in GroupIds \cup {NoParent}, op.kind = "move",
           NEW db \in Documents, Accepted(op, db)
    PROVE  MovePlan(op, db) \in Seq(SaneStep)
<1>. DEFINE g == op.group
            group == db[op.group]
<1>1. /\ g \in GroupsOf(db)
      /\ op.parent # NoParent => op.parent \in GroupsOf(db) /\ ~Contains(db[op.parent].path, g)
  BY DEF Accepted
<1>2. group \in GroupRecords /\ Shapely(g, group)
  BY <1>1, DocumentsElim
<1>3. Detach(g) \in SaneStep /\ List(g) \in SaneStep
  BY GroupStepType
<1>4. CASE op.parent = NoParent
  <2>. DEFINE new == [group EXCEPT !.path = <<g>>, !.org = FALSE]
  <2>1. new \in GroupRecords /\ new.path = <<g>> /\ new.org = FALSE
    <3>1. <<g>> \in Seq(GroupIds)
      OBVIOUS
    <3>. HIDE DEF group, g
    <3>. QED
      BY <1>2, <3>1 DEF GroupRecords
  <2>. HIDE DEF new
  <2>2. Shapely(g, new)
    BY <2>1 DEF Shapely
  <2>3. Save(g, new) \in SaneStep
    BY <2>1, <2>2, DocumentStepType
  <2>4. MovePlan(op, db) = <<Detach(g), Save(g, new), List(g)>>
    BY <1>4 DEF MovePlan, new
  <2>. QED
    BY <1>3, <2>3, <2>4
<1>5. CASE op.parent # NoParent
  <2>. DEFINE parent == db[op.parent]
              new == [group EXCEPT !.path = Append(parent.path, g), !.org = TRUE]
  <2>1. op.parent \in GroupIds /\ parent \in GroupRecords /\ Shapely(op.parent, parent)
    BY <1>1, <1>5, DocumentsElim
  <2>2. new \in GroupRecords /\ Shapely(g, new)
    BY <1>1, <1>2, <1>5, <2>1, AppendShapely
  <2>. HIDE DEF new
  <2>3. Save(g, new) \in SaneStep
    BY <2>2, DocumentStepType
  <2>4. MovePlan(op, db) = <<Save(g, new), List(g)>>
    BY <1>5 DEF MovePlan, new
  <2>. QED
    BY <1>3, <2>3, <2>4
<1>. QED
  BY <1>4, <1>5

LEMMA DeletePlanType ==
    ASSUME NEW op, op.group \in GroupIds, NEW group \in GroupRecords
    PROVE  DeletePlan(op, group) \in Seq(SaneStep)
<1>. DEFINE g == op.group
<1>1. TakeFromUsers([h \in {g} |-> group.users]) \in SaneStep
  <2>1. group.users \in SUBSET Users
    BY DEF GroupRecords
  <2>2. {g} \in SUBSET GroupIds /\ [h \in {g} |-> group.users] \in [{g} -> SUBSET Users]
    BY <2>1
  <2>. QED
    BY <2>2, TakeStepType
<1>2. {g} \in SUBSET GroupIds /\ {g} \in SUBSET Keys
  BY DEF Keys
<1>3. Detach(g) \in SaneStep /\ Unlist({g}) \in SaneStep /\ Erase({g}) \in SaneStep
  BY <1>2, GroupStepType, EraseStepType
<1>. QED
  BY <1>1, <1>3 DEF DeletePlan

LEMMA DeleteOrganizationPlanType ==
    ASSUME NEW op, op.group \in GroupIds, NEW db \in Documents
    PROVE  DeleteOrganizationPlan(op, db) \in Seq(SaneStep)
<1>. DEFINE doomed == Within(db, op.group)
            leaving == [g \in doomed |-> db[g].users]
<1>1. doomed \in SUBSET GroupIds /\ doomed \in SUBSET Keys
  BY DEF Within, GroupsOf, Keys
<1>2. leaving \in [doomed -> SUBSET Users]
  BY DocumentsElim DEF Within, GroupRecords
<1>3. DeleteOrganizationPlan(op, db) = <<Erase(doomed), TakeFromUsers(leaving), Unlist(doomed)>>
  BY DEF DeleteOrganizationPlan
<1>. HIDE DEF doomed, leaving
<1>4. Erase(doomed) \in SaneStep /\ TakeFromUsers(leaving) \in SaneStep /\ Unlist(doomed) \in SaneStep
  BY <1>1, <1>2, EraseStepType, TakeStepType, GroupStepType
<1>. QED
  BY <1>3, <1>4

LEMMA LeaveAllPlanType ==
    ASSUME NEW u \in Users, NEW gs \in SUBSET GroupIds
    PROVE  LeaveAllPlan(u, gs) \in Seq(SaneStep)
<1>1. LeaveGroups(u, gs) \in SaneStep /\ SetGroups(u, {}) \in SaneStep
  BY UserStepType
<1>. QED
  BY <1>1 DEF LeaveAllPlan

LEMMA LoginPlanType ==
    ASSUME NEW op, op.user \in Users, op.groups \in SUBSET GroupIds, op.new \in BOOLEAN,
           NEW gs \in SUBSET GroupIds, NEW g, op.new => g \in GroupIds
    PROVE  LoginPlan(op, gs, g) \in Seq(SaneStep)
<1>. DEFINE u == op.user
            before == IF op.sync THEN {} ELSE gs
            more == (op.groups \cup (IF op.new THEN {g} ELSE {})) \ before
            s1 == <<Touch(u)>>
            s2 == IF op.sync THEN LeaveAllPlan(u, gs) ELSE <<>>
            s3 == IF op.new THEN <<Insert(g, GroupDocument(g, FALSE, {}))>> ELSE <<>>
            s4 == IF more # {} THEN <<JoinGroups(u, more), SetGroups(u, before \cup more)>> ELSE <<>>
<1>1. more \in SUBSET GroupIds /\ before \cup more \in SUBSET GroupIds
  OBVIOUS
<1>2. s1 \in Seq(SaneStep)
  <2>1. Touch(u) \in SaneStep
    BY UserStepType
  <2>. QED
    BY <2>1
<1>3. s2 \in Seq(SaneStep)
  BY LeaveAllPlanType
<1>4. s3 \in Seq(SaneStep)
  <2>1. CASE op.new
    <3>. DEFINE group == GroupDocument(g, FALSE, {})
    <3>1. g \in GroupIds /\ group \in GroupRecords /\ Shapely(g, group)
      BY <2>1, AloneShapely
    <3>. HIDE DEF group
    <3>2. Insert(g, group) \in SaneStep
      BY <3>1, DocumentStepType
    <3>3. s3 = <<Insert(g, group)>>
      BY <2>1 DEF group
    <3>. HIDE DEF s3
    <3>. QED
      BY <3>2, <3>3
  <2>2. CASE ~op.new
    BY <2>2
  <2>. QED
    BY <2>1, <2>2
<1>5. s4 \in Seq(SaneStep)
  <2>. HIDE DEF more, before
  <2>1. JoinGroups(u, more) \in SaneStep /\ SetGroups(u, before \cup more) \in SaneStep
    BY <1>1, UserStepType
  <2>. QED
    BY <2>1
<1>6. LoginPlan(op, gs, g) = s1 \o s2 \o s3 \o s4
  BY DEF LoginPlan
<1>. HIDE DEF s1, s2, s3, s4
<1>. QED
  BY <1>2, <1>3, <1>4, <1>5, <1>6, ConcatProperties

\* What a request has left to do when it begins.
LEMMA PlanType ==
    ASSUME NEW op \in GroupOps, NEW db \in Documents, Accepted(op, db),
           NEW g \in Nat, Creates(op) => g \in GroupIds
    PROVE  GroupPlan(op, db, g) \in Seq(SaneStep)
<1>1. CASE op \in [kind : {"create"}, org : BOOLEAN, users : SUBSET Users]
  <2>1. GroupPlan(op, db, g) = CreatePlan(op, g) /\ g \in GroupIds
    BY <1>1 DEF GroupPlan, Creates
  <2>. QED
    BY <1>1, <2>1, CreatePlanType
<1>2. CASE op \in [kind : {"edit"}, group : GroupIds, users : SUBSET Users]
  <2>1. GroupPlan(op, db, g) = EditPlan(op, db[op.group]) /\ op.group \in GroupsOf(db)
    BY <1>2 DEF GroupPlan, Accepted
  <2>2. db[op.group] \in GroupRecords /\ Shapely(op.group, db[op.group])
    BY <2>1, DocumentsElim
  <2>. QED
    BY <1>2, <2>1, <2>2, EditPlanType
<1>3. CASE op \in [kind : {"move"}, group : GroupIds, parent : GroupIds \cup {NoParent}]
  <2>1. GroupPlan(op, db, g) = MovePlan(op, db)
    BY <1>3 DEF GroupPlan
  <2>. QED
    BY <1>3, <2>1, MovePlanType
<1>4. CASE op \in [kind : {"delete", "deleteOrganization"}, group : GroupIds]
  <2>1. CASE op.kind = "delete"
    <3>1. GroupPlan(op, db, g) = DeletePlan(op, db[op.group]) /\ op.group \in GroupsOf(db)
      BY <2>1 DEF GroupPlan, Accepted
    <3>2. db[op.group] \in GroupRecords
      BY <3>1, DocumentsElim
    <3>. QED
      BY <1>4, <3>1, <3>2, DeletePlanType
  <2>2. CASE op.kind = "deleteOrganization"
    <3>1. GroupPlan(op, db, g) = DeleteOrganizationPlan(op, db)
      BY <2>2 DEF GroupPlan
    <3>. QED
      BY <1>4, <3>1, DeleteOrganizationPlanType
  <2>. QED
    BY <1>4, <2>1, <2>2
<1>5. CASE op \in [kind : {"login"}, user : Users, groups : SUBSET GroupIds, new : BOOLEAN, sync : BOOLEAN]
  <2>1. GroupPlan(op, db, g) = LoginPlan(op, db[op.user], g) /\ op.user \in UsersOf(db)
    BY <1>5 DEF GroupPlan, Accepted
  <2>2. db[op.user] \in SUBSET GroupIds
    BY <2>1, DocumentsElim
  <2>3. op.new => g \in GroupIds
    BY <1>5 DEF Creates
  <2>. QED
    BY <1>5, <2>1, <2>2, <2>3, LoginPlanType
<1>6. CASE op \in [kind : {"editUser", "deleteUser"}, user : Users]
  <2>1. op.user \in UsersOf(db)
    BY <1>6 DEF Accepted
  <2>2. op.user \in Users /\ db[op.user] \in SUBSET GroupIds /\ {op.user} \in SUBSET Keys
    BY <2>1, DocumentsElim DEF Keys
  <2>3. CASE op.kind = "editUser"
    <3>1. Save(op.user, db[op.user]) \in SaneStep
      BY <2>2, UserStepType
    <3>2. GroupPlan(op, db, g) = <<Save(op.user, db[op.user])>>
      BY <2>3 DEF GroupPlan
    <3>. QED
      BY <3>1, <3>2
  <2>4. CASE op.kind = "deleteUser"
    <3>1. GroupPlan(op, db, g) = LeaveAllPlan(op.user, db[op.user]) \o <<Erase({op.user})>>
      BY <2>4 DEF GroupPlan
    <3>2. LeaveAllPlan(op.user, db[op.user]) \in Seq(SaneStep) /\ Erase({op.user}) \in SaneStep
      BY <2>2, LeaveAllPlanType, EraseStepType
    <3>. QED
      BY <3>1, <3>2, ConcatProperties
  <2>. QED
    BY <1>6, <2>3, <2>4
<1>. QED
  BY <1>1, <1>2, <1>3, <1>4, <1>5, <1>6 DEF GroupOps

-----------------------------------------------------------------------------
(* The invariant.                                                          *)

LEMMA Initially ==
    ASSUME GroupsInit
    PROVE  IInv
<1>1. PICK orgs \in SUBSET (1..born), groupsOf \in [Users -> SUBSET (1..born)] :
          records = Upon(groupsOf, [g \in GroupIds |->
                        IF g > born THEN Gone
                        ELSE GroupDocument(g, g \in orgs, {u \in Users : g \in groupsOf[u]})])
  BY DEF GroupsInit, Holding
<1>. DEFINE doc(g) == GroupDocument(g, g \in orgs, {u \in Users : g \in groupsOf[u]})
            groups == [g \in GroupIds |-> IF g > born THEN Gone ELSE doc(g)]
<1>2. born \in Nat /\ 1..born \in SUBSET GroupIds
  BY GroupsAssumption DEF GroupsInit, GroupIds
<1>3. \A g \in GroupIds : Fits(g, groups[g])
  <2>1. \A g \in GroupIds : doc(g) \in GroupRecords /\ Shapely(g, doc(g))
    BY DEF GroupDocument, GroupRecords, Shapely
  <2>. HIDE DEF doc
  <2>. QED
    BY <2>1 DEF Fits
<1>4. records = [k \in Keys |-> IF k \in Users THEN groupsOf[k] ELSE groups[k]]
  BY <1>1 DEF Upon, Keys
<1>. HIDE DEF groups
<1>5. \A k \in Keys : Fits(k, records[k])
  <2>1. \A u \in Users : Fits(u, groupsOf[u])
    BY <1>2 DEF Fits
  <2>. QED
    BY <1>3, <1>4, <2>1 DEF Keys
<1>6. records \in Documents
  <2>1. \A k \in Keys : records[k] \in Values
    BY <1>5, FitsValue
  <2>. QED
    BY <1>4, <1>5, <2>1 DEF Documents
<1>7. serving \in [Servers -> Record \cup {Unserved}]
  BY DEF GroupsInit, Holding
<1>. QED
  BY <1>2, <1>6, <1>7 DEF IInv

LEMMA InProgress ==
    ASSUME IInv, NEW r \in Busy
    PROVE  r \in Servers /\ serving[r] \in Record
BY DEF IInv, Busy

LEMMA RequestKeeps ==
    ASSUME IInv, NEW r \in Servers, NEW op \in GroupOps, Request(r, op)
    PROVE  IInv'
<1>. DEFINE plan == GroupPlan(op, records, born + 1)
            new == [op |-> op, snap |-> records, mine |-> Unwritten, indexed |-> FALSE, todo |-> plan]
<1>1. /\ records \in Documents /\ born \in Nat /\ Accepted(op, records)
      /\ Creates(op) => born + 1 \in GroupIds
  BY GroupsAssumption DEF IInv, Request, GroupIds
<1>2. plan \in Seq(SaneStep)
  BY <1>1, PlanType
<1>3. Unwritten \in Writes
  <2>1. Unwritten = [k \in {} |-> Unwritten[k]] /\ {} \in SUBSET Keys
    BY DEF Unwritten
  <2>. QED
    BY <2>1, WritesIntro
<1>4. serving' = [serving EXCEPT ![r] = new] /\ records' = records /\ born' \in Nat
  BY <1>1 DEF Request
<1>. HIDE DEF plan
<1>5. new \in Record
  BY <1>1, <1>2, <1>3 DEF Record
<1>. QED
  BY <1>1, <1>4, <1>5 DEF IInv

LEMMA UpdateRecordsKeeps ==
    ASSUME IInv, NEW r \in Servers, UpdateRecords(r)
    PROVE  IInv'
<1>. DEFINE step == Head(serving[r].todo)
            new == Written(step, Sees(r))
            mine == IF atomic THEN Upon(new, serving[r].mine) ELSE serving[r].mine
<1>1. /\ r \in Busy /\ serving[r].todo # <<>> /\ step.do \notin {"list", "unlist"}
      /\ records' = IF atomic THEN records ELSE Upon(new, records)
      /\ serving' = [serving EXCEPT ![r].todo = Tail(@), ![r].mine = IF atomic THEN Upon(new, @) ELSE @]
      /\ born' = born
  BY DEF UpdateRecords
<1>2. /\ serving[r] \in Record /\ serving[r].mine \in Writes /\ serving[r].snap \in Documents
      /\ serving[r].todo \in Seq(SaneStep) /\ records \in Documents
  BY <1>1, InProgress DEF IInv, Record
<1>3. step \in SaneStep
  BY <1>1, <1>2
<1>4. Sees(r) \in Documents
  BY <1>2, MergeType DEF Sees
<1>5. new \in Writes
  BY <1>1, <1>3, <1>4, WrittenType
<1>. HIDE DEF new
<1>6. mine \in Writes /\ records' \in Documents
  BY <1>1, <1>2, <1>5, MergeType
<1>7. serving' = [serving EXCEPT ![r] = [serving[r] EXCEPT !.todo = Tail(@), !.mine = mine]]
  BY <1>1, <1>2 DEF IInv, Record
<1>8. Tail(serving[r].todo) \in Seq(SaneStep)
  BY <1>1, <1>2
<1>. HIDE DEF mine
<1>9. [serving[r] EXCEPT !.todo = Tail(@), !.mine = mine] \in Record
  BY <1>2, <1>6, <1>8 DEF Record
<1>. QED
  BY <1>1, <1>6, <1>7, <1>9 DEF IInv

LEMMA UpdateListingKeeps ==
    ASSUME IInv, NEW r \in Servers, UpdateListing(r)
    PROVE  IInv'
<1>1. /\ r \in Busy /\ serving[r].todo # <<>> /\ records' = records /\ born' = born
      /\ serving' = [serving EXCEPT ![r].todo = Tail(@), ![r].indexed = TRUE]
  BY DEF UpdateListing
<1>2. serving[r] \in Record /\ Tail(serving[r].todo) \in Seq(SaneStep)
  BY <1>1, InProgress DEF Record
<1>3. [serving[r] EXCEPT !.todo = Tail(@), !.indexed = TRUE] \in Record
  BY <1>2 DEF Record
<1>4. serving' = [serving EXCEPT ![r] = [serving[r] EXCEPT !.todo = Tail(@), !.indexed = TRUE]]
  BY <1>1, <1>2 DEF IInv, Record
<1>. QED
  BY <1>1, <1>3, <1>4 DEF IInv

LEMMA FinishKeeps ==
    ASSUME IInv, NEW r \in Servers, Finish(r)
    PROVE  IInv'
<1>1. /\ r \in Busy /\ records' = Upon(serving[r].mine, records) /\ born' = born
      /\ serving' = [serving EXCEPT ![r] = Unserved]
  BY DEF Finish
<1>2. serving[r].mine \in Writes /\ records \in Documents
  BY <1>1, InProgress DEF IInv, Record
<1>3. records' \in Documents
  BY <1>1, <1>2, MergeType
<1>. QED
  BY <1>1, <1>3 DEF IInv

LEMMA FailRequestKeeps ==
    ASSUME IInv, NEW r \in Servers, FailRequest(r)
    PROVE  IInv'
BY DEF IInv, FailRequest

\* Everything that is stored, or may be, has the shape.
THEOREM ShapeInvariant == GroupsSpec => []IInv
<1>1. GroupsInit => IInv
  BY Initially
<1>2. ASSUME IInv, [GroupsNext]_groupVars PROVE IInv'
  <2>1. ASSUME NEW r \in Servers, NEW op \in GroupOps, Request(r, op) PROVE IInv'
    BY <1>2, <2>1, RequestKeeps
  <2>2. ASSUME NEW r \in Servers, UpdateRecords(r) PROVE IInv'
    BY <1>2, <2>2, UpdateRecordsKeeps
  <2>3. ASSUME NEW r \in Servers, UpdateListing(r) PROVE IInv'
    BY <1>2, <2>3, UpdateListingKeeps
  <2>4. ASSUME NEW r \in Servers, Finish(r) PROVE IInv'
    BY <1>2, <2>4, FinishKeeps
  <2>5. ASSUME NEW r \in Servers, FailRequest(r) PROVE IInv'
    BY <1>2, <2>5, FailRequestKeeps
  <2>6. CASE UNCHANGED groupVars
    BY <1>2, <2>6 DEF IInv, groupVars
  <2>. QED
    BY <1>2, <2>1, <2>2, <2>3, <2>4, <2>5, <2>6 DEF GroupsNext
<1>. QED
  BY <1>1, <1>2, PTL DEF GroupsSpec

\* Whatever requests overwrite of each other's, with transactions or without,
\* the path of every group ends in the group and repeats nothing, and a group
\* outside of the organizations is under none; the parent of a group and the
\* organization at its top are read from that path.
THEOREM PathsKeepTheirShape == GroupsSpec => []AllShapely
<1>1. IInv => AllShapely
  BY DocumentsElim DEF IInv, AllShapely
<1>. QED
  BY <1>1, ShapeInvariant, PTL

-----------------------------------------------------------------------------
(* What a transaction makes of what it read: its steps lead from documents *)
(* whose memberships agree to others whose memberships agree.              *)

\* What a step makes of the documents its transaction sees.
After(s, db) == IF s.do \in {"list", "unlist"} THEN db ELSE Upon(Effect(s, db), db)

\* The steps of s lead from one view of the documents to another.
Leads(s, from, to) ==
    \E w : /\ w[0] = from /\ w[Len(s)] = to
           /\ \A i \in 1..Len(s) : w[i] = After(s[i], w[i - 1])

Agrees(db) == \A u \in UsersOf(db) : db[u] = {g \in GroupsOf(db) : u \in db[g].users}

UsersSame(db, new) == UsersOf(new) = UsersOf(db) /\ \A u \in UsersOf(db) : new[u] = db[u]
MembersSame(db, new) == GroupsOf(new) = GroupsOf(db) /\ \A g \in GroupsOf(db) : new[g].users = db[g].users

LEMMA LeadsNowhere == \A db, to : Leads(<<>>, db, to) <=> to = db
<1>1. ASSUME NEW db, NEW to, to = db PROVE Leads(<<>>, db, to)
  <2>. DEFINE w == [i \in {0} |-> db]
  <2>1. w[0] = db /\ w[Len(<<>>)] = to /\ \A i \in 1..Len(<<>>) : w[i] = After(<<>>[i], w[i - 1])
    BY <1>1
  <2>. HIDE DEF w
  <2>. QED
    BY <2>1 DEF Leads
<1>2. ASSUME NEW db, NEW to, Leads(<<>>, db, to) PROVE to = db
  BY <1>2 DEF Leads
<1>. QED
  BY <1>1, <1>2

LEMMA LeadsOn ==
    ASSUME NEW S, NEW s \in Seq(S), s # <<>>, NEW db, NEW to, Leads(s, db, to)
    PROVE  Leads(Tail(s), After(Head(s), db), to)
<1>1. PICK w : /\ w[0] = db /\ w[Len(s)] = to
               /\ \A i \in 1..Len(s) : w[i] = After(s[i], w[i - 1])
  BY DEF Leads
<1>. DEFINE n == Len(s)
            v == [i \in 0..(n - 1) |-> w[i + 1]]
<1>2. n \in Nat /\ n > 0 /\ Len(Tail(s)) = n - 1 /\ Head(s) = s[1]
      /\ \A i \in 1..(n - 1) : Tail(s)[i] = s[i + 1]
  OBVIOUS
<1>3. v[0] = After(Head(s), db)
  BY <1>1, <1>2
<1>4. v[n - 1] = to
  BY <1>1, <1>2
<1>5. ASSUME NEW i \in 1..(n - 1) PROVE v[i] = After(Tail(s)[i], v[i - 1])
  <2>1. i + 1 \in 1..n /\ (i + 1) - 1 = i /\ (i - 1) + 1 = i /\ i \in 0..(n - 1) /\ i - 1 \in 0..(n - 1)
    BY <1>2
  <2>2. w[i + 1] = After(s[i + 1], w[i])
    BY <1>1, <2>1
  <2>3. v[i] = w[i + 1] /\ v[i - 1] = w[i]
    BY <2>1
  <2>. QED
    BY <1>2, <2>2, <2>3
<1>. HIDE DEF v
<1>. QED
  BY <1>2, <1>3, <1>4, <1>5 DEF Leads

LEMMA LeadsThrough ==
    ASSUME NEW S, NEW s \in Seq(S), NEW t \in Seq(S), NEW db, NEW via, NEW to,
           Leads(s, db, via), Leads(t, via, to)
    PROVE  Leads(s \o t, db, to)
<1>1. PICK w : /\ w[0] = db /\ w[Len(s)] = via
               /\ \A i \in 1..Len(s) : w[i] = After(s[i], w[i - 1])
  BY DEF Leads
<1>2. PICK x : /\ x[0] = via /\ x[Len(t)] = to
               /\ \A i \in 1..Len(t) : x[i] = After(t[i], x[i - 1])
  BY DEF Leads
<1>. DEFINE n == Len(s)
            m == Len(t)
            y == [i \in 0..(n + m) |-> IF i <= n THEN w[i] ELSE x[i - n]]
<1>3. n \in Nat /\ m \in Nat /\ Len(s \o t) = n + m
  OBVIOUS
<1>4. y[0] = db
  BY <1>1, <1>3
<1>5. y[n + m] = to
  <2>1. CASE m = 0
    BY <1>1, <1>2, <1>3, <2>1
  <2>2. CASE m # 0
    BY <1>2, <1>3, <2>2
  <2>. QED
    BY <2>1, <2>2
<1>6. ASSUME NEW i \in 1..(n + m) PROVE y[i] = After((s \o t)[i], y[i - 1])
  <2>1. CASE i <= n
    <3>1. (s \o t)[i] = s[i] /\ y[i] = w[i] /\ y[i - 1] = w[i - 1]
      BY <1>3, <2>1
    <3>. QED
      BY <1>1, <1>3, <2>1, <3>1
  <2>2. CASE i = n + 1
    <3>1. (s \o t)[i] = t[1] /\ y[i] = x[1] /\ y[i - 1] = w[n] /\ 1 \in 1..m
      BY <1>3, <2>2
    <3>. QED
      BY <1>1, <1>2, <3>1
  <2>3. CASE i > n + 1
    <3>. DEFINE j == i - n
    <3>1. j \in 1..m /\ (s \o t)[i] = t[j]
      BY <1>3, <2>3
    <3>2. y[i] = x[j] /\ y[i - 1] = x[j - 1]
      <4>1. i \in 0..(n + m) /\ i - 1 \in 0..(n + m) /\ ~(i <= n) /\ ~(i - 1 <= n) /\ (i - 1) - n = j - 1
        BY <1>3, <2>3
      <4>. QED
        BY <4>1
    <3>. QED
      BY <1>2, <3>1, <3>2
  <2>. QED
    BY <1>3, <2>1, <2>2, <2>3
<1>. HIDE DEF y
<1>. QED
  BY <1>3, <1>4, <1>5, <1>6 DEF Leads

LEMMA LeadsOne ==
    ASSUME NEW a, NEW db
    PROVE  Leads(<<a>>, db, After(a, db))
<1>. DEFINE w == [i \in 0..1 |-> IF i = 0 THEN db ELSE After(a, db)]
<1>1. w[0] = db /\ w[1] = After(a, db) /\ \A i \in 1..1 : w[i] = After(<<a>>[i], w[i - 1])
  OBVIOUS
<1>. HIDE DEF w
<1>. QED
  BY <1>1 DEF Leads

LEMMA LeadsTwo ==
    ASSUME NEW S, NEW a \in S, NEW b \in S, NEW db
    PROVE  Leads(<<a, b>>, db, After(b, After(a, db)))
<1>1. <<a>> \in Seq(S) /\ <<b>> \in Seq(S)
  OBVIOUS
<1>2. <<a, b>> = <<a>> \o <<b>>
  <2>1. Len(<<a>> \o <<b>>) = 2 /\ <<a>> \o <<b>> \in Seq(S) /\ <<a, b>> \in Seq(S)
    BY <1>1
  <2>2. \A i \in 1..2 : <<a, b>>[i] = (<<a>> \o <<b>>)[i]
    BY <1>1
  <2>. QED
    BY <2>1, <2>2, SeqEqual
<1>. QED
  BY <1>1, <1>2, LeadsOne, LeadsThrough

LEMMA LeadsThree ==
    ASSUME NEW S, NEW a \in S, NEW b \in S, NEW c \in S, NEW db
    PROVE  Leads(<<a, b, c>>, db, After(c, After(b, After(a, db))))
<1>1. <<a, b>> \in Seq(S) /\ <<c>> \in Seq(S)
  OBVIOUS
<1>0. <<a, b, c>> = <<a, b>> \o <<c>>
  <2>1. Len(<<a, b>> \o <<c>>) = 3 /\ <<a, b>> \o <<c>> \in Seq(S) /\ <<a, b, c>> \in Seq(S)
    BY <1>1
  <2>2. \A i \in 1..3 : <<a, b, c>>[i] = (<<a, b>> \o <<c>>)[i]
    BY <1>1
  <2>. QED
    BY <2>1, <2>2, SeqEqual
<1>2. Leads(<<a, b>>, db, After(b, After(a, db)))
  BY LeadsTwo
<1>3. Leads(<<c>>, After(b, After(a, db)), After(c, After(b, After(a, db))))
  BY LeadsOne
<1>. QED
  BY <1>0, <1>1, <1>2, <1>3, LeadsThrough

LEMMA LeadsFour ==
    ASSUME NEW S, NEW a \in S, NEW b \in S, NEW c \in S, NEW d \in S, NEW db
    PROVE  Leads(<<a, b, c, d>>, db, After(d, After(c, After(b, After(a, db)))))
<1>1. <<a, b>> \in Seq(S) /\ <<c, d>> \in Seq(S)
  OBVIOUS
<1>2. <<a, b, c, d>> = <<a, b>> \o <<c, d>>
  <2>1. Len(<<a, b>> \o <<c, d>>) = 4 /\ <<a, b>> \o <<c, d>> \in Seq(S)
    BY <1>1
  <2>2. \A i \in 1..4 : <<a, b, c, d>>[i] = (<<a, b>> \o <<c, d>>)[i]
    BY <1>1
  <2>. QED
    BY <2>1, <2>2, SeqEqual
<1>3. Leads(<<c, d>>, After(b, After(a, db)), After(d, After(c, After(b, After(a, db)))))
  BY LeadsTwo
<1>. QED
  BY <1>1, <1>2, <1>3, LeadsTwo, LeadsThrough

-----------------------------------------------------------------------------
(* What each step does to the two sides of the memberships.                *)

LEMMA AfterType ==
    ASSUME NEW s \in SaneStep, NEW db \in Documents
    PROVE  After(s, db) \in Documents
<1>1. CASE s.do \in {"list", "unlist"}
  BY <1>1 DEF After
<1>2. CASE s.do \notin {"list", "unlist"}
  <2>1. Effect(s, db) \in Writes
    BY <1>2, EffectType
  <2>. QED
    BY <1>2, <2>1, MergeType DEF After
<1>. QED
  BY <1>1, <1>2

LEMMA AfterValue ==
    ASSUME NEW s \in SaneStep, s.do \notin {"list", "unlist"}, NEW db \in Documents
    PROVE  /\ After(s, db) \in Documents
           /\ \A k \in Keys : After(s, db)[k] = IF k \in DOMAIN Effect(s, db) THEN Effect(s, db)[k] ELSE db[k]
<1>. DEFINE e == Effect(s, db)
<1>1. e \in Writes
  BY EffectType
<1>2. After(s, db) = Upon(e, db)
  BY DEF After
<1>3. DOMAIN e \cup DOMAIN db = Keys
  <2>. HIDE DEF e
  <2>. QED
    BY <1>1, WritesElim, DocumentsElim
<1>4. Upon(e, db) = [k \in Keys |-> IF k \in DOMAIN e THEN e[k] ELSE db[k]]
  BY <1>3 DEF Upon
<1>. HIDE DEF e
<1>5. \A k \in Keys : After(s, db)[k] = IF k \in DOMAIN e THEN e[k] ELSE db[k]
  BY <1>2, <1>4
<1>. QED
  BY <1>5, AfterType DEF e

LEMMA GroupRecordNotGone == \A v \in GroupRecords : v # Gone
BY GroupsAssumption

LEMMA GroupSetNotGone == \A gs \in SUBSET GroupIds : gs # Gone
BY GroupsAssumption

LEMMA AfterInsert ==
    ASSUME NEW db \in Documents, NEW g \in GroupIds, NEW group \in GroupRecords, Shapely(g, group),
           NEW new, new = After(Insert(g, group), db)
    PROVE  /\ new \in Documents /\ UsersSame(db, new)
           /\ GroupsOf(new) = GroupsOf(db) \cup {g} /\ new[g] = group
           /\ \A h \in GroupsOf(db) \ {g} : new[h] = db[h]
<1>. DEFINE s == Insert(g, group)
<1>1. s \in SaneStep /\ s.do = "insert" /\ s.at = g /\ s.new = group
  BY DocumentStepType DEF Insert
<1>2. Effect(s, db) = [k \in {g} |-> group]
  <2>. HIDE DEF s
  <2>. QED
    BY <1>1 DEF Effect
<1>. HIDE DEF s
<1>3. new \in Documents /\ \A k \in Keys : new[k] = IF k = g THEN group ELSE db[k]
  BY <1>1, <1>2, AfterValue DEF s
<1>. QED
  BY <1>3, KeysApart, GroupRecordNotGone DEF UsersSame, GroupsOf, UsersOf, Keys

LEMMA AfterSaveGroup ==
    ASSUME NEW db \in Documents, NEW g \in GroupsOf(db), NEW group \in GroupRecords, Shapely(g, group),
           NEW new, new = After(Save(g, group), db)
    PROVE  /\ new \in Documents /\ UsersSame(db, new)
           /\ GroupsOf(new) = GroupsOf(db) /\ new[g] = group
           /\ \A h \in GroupsOf(db) \ {g} : new[h] = db[h]
<1>. DEFINE s == Save(g, group)
<1>0. g \in GroupIds /\ db[g] # Gone
  BY DEF GroupsOf
<1>1. s \in SaneStep /\ s.do = "save" /\ s.at = g /\ s.new = group
  BY <1>0, DocumentStepType DEF Save
<1>2. Effect(s, db) = [k \in {g} |-> group]
  <2>. HIDE DEF s
  <2>1. Effect(s, db) = [k \in {g} \ {k \in {g} : db[k] = Gone} |-> group]
    BY <1>1 DEF Effect
  <2>. QED
    BY <1>0, <2>1
<1>. HIDE DEF s
<1>3. new \in Documents /\ \A k \in Keys : new[k] = IF k = g THEN group ELSE db[k]
  BY <1>1, <1>2, AfterValue DEF s
<1>. QED
  BY <1>0, <1>3, KeysApart, GroupRecordNotGone DEF UsersSame, GroupsOf, UsersOf, Keys

LEMMA AfterSaveUser ==
    ASSUME NEW db \in Documents, NEW u \in UsersOf(db)
    PROVE  After(Save(u, db[u]), db) = db /\ After(Touch(u), db) = db
<1>0. u \in Users /\ db[u] # Gone /\ db[u] \in SUBSET GroupIds
  BY DocumentsElim DEF UsersOf
<1>1. ASSUME NEW s \in SaneStep, s.do \notin {"list", "unlist"}, Effect(s, db) = [k \in {u} |-> db[u]]
      PROVE  After(s, db) = db
  <2>1. After(s, db) \in Documents /\ \A k \in Keys : After(s, db)[k] = db[k]
    BY <1>1, AfterValue
  <2>. QED
    BY <2>1 DEF Documents
<1>2. After(Save(u, db[u]), db) = db
  <2>. DEFINE s == Save(u, db[u])
  <2>1. s \in SaneStep /\ s.do = "save" /\ s.at = u /\ s.new = db[u]
    BY <1>0, UserStepType DEF Save
  <2>. HIDE DEF s
  <2>2. Effect(s, db) = [k \in {u} \ {k \in {u} : db[k] = Gone} |-> db[u]]
    BY <2>1 DEF Effect
  <2>3. {u} \ {k \in {u} : db[k] = Gone} = {u}
    BY <1>0
  <2>. QED
    BY <1>1, <2>1, <2>2, <2>3 DEF s
<1>3. After(Touch(u), db) = db
  <2>. DEFINE s == Touch(u)
  <2>1. s \in SaneStep /\ s.do = "touch" /\ s.at = u
    BY <1>0, UserStepType DEF Touch
  <2>. HIDE DEF s
  <2>2. Effect(s, db) = [k \in {u} \cap UsersOf(db) |-> db[k]]
    BY <2>1 DEF Effect
  <2>3. Effect(s, db) = [k \in {u} |-> db[u]]
    BY <2>2
  <2>. QED
    BY <1>1, <2>1, <2>3 DEF s
<1>. QED
  BY <1>2, <1>3

LEMMA AfterErase ==
    ASSUME NEW db \in Documents, NEW keys \in SUBSET Keys, NEW new, new = After(Erase(keys), db)
    PROVE  new \in Documents /\ \A k \in Keys : new[k] = IF k \in keys THEN Gone ELSE db[k]
<1>. DEFINE s == Erase(keys)
<1>1. s \in SaneStep /\ s.do = "erase" /\ s.of = keys
  BY EraseStepType DEF Erase
<1>. HIDE DEF s
<1>2. Effect(s, db) = [k \in keys |-> Gone]
  BY <1>1 DEF Effect
<1>. QED
  BY <1>1, <1>2, AfterValue DEF s

LEMMA AfterAdd ==
    ASSUME NEW db \in Documents, NEW g \in GroupIds, NEW us \in SUBSET Users,
           NEW new, new = After(AddToUsers(g, us), db)
    PROVE  /\ new \in Documents /\ GroupsOf(new) = GroupsOf(db) /\ UsersOf(new) = UsersOf(db)
           /\ \A h \in GroupsOf(db) : new[h] = db[h]
           /\ \A u \in UsersOf(db) : new[u] = db[u] \cup {h \in {g} : u \in us}
<1>. DEFINE s == AddToUsers(g, us)
<1>1. s \in SaneStep /\ s.do = "add" /\ s.at = g /\ s.of = us
  BY GroupStepType DEF AddToUsers
<1>. HIDE DEF s
<1>2. Effect(s, db) = [u \in us \cap UsersOf(db) |-> db[u] \cup {g}]
  BY <1>1 DEF Effect
<1>3. /\ new \in Documents
      /\ \A k \in Keys : new[k] = IF k \in us \cap UsersOf(db) THEN db[k] \cup {g} ELSE db[k]
  BY <1>1, <1>2, AfterValue DEF s
<1>4. \A u \in UsersOf(db) : db[u] \cup {g} # Gone
  BY DocumentsElim, GroupSetNotGone
<1>. QED
  BY <1>3, <1>4, KeysApart DEF GroupsOf, UsersOf, Keys

LEMMA AfterTake ==
    ASSUME NEW db \in Documents, NEW D \in SUBSET GroupIds, NEW leaving \in [D -> SUBSET Users],
           NEW new, new = After(TakeFromUsers(leaving), db)
    PROVE  /\ new \in Documents /\ GroupsOf(new) = GroupsOf(db) /\ UsersOf(new) = UsersOf(db)
           /\ \A h \in GroupsOf(db) : new[h] = db[h]
           /\ \A u \in UsersOf(db) : new[u] = db[u] \ {g \in D : u \in leaving[g]}
<1>. DEFINE s == TakeFromUsers(leaving)
<1>1. s \in SaneStep /\ s.do = "take" /\ s.of = leaving
  BY TakeStepType DEF TakeFromUsers
<1>. HIDE DEF s
<1>2. Effect(s, db) = [u \in UsersOf(db) |-> db[u] \ {g \in D : u \in leaving[g]}]
  BY <1>1 DEF Effect
<1>3. /\ new \in Documents
      /\ \A k \in Keys : new[k] = IF k \in UsersOf(db) THEN db[k] \ {g \in D : k \in leaving[g]} ELSE db[k]
  BY <1>1, <1>2, AfterValue DEF s
<1>4. \A u \in UsersOf(db) : db[u] \ {g \in D : u \in leaving[g]} # Gone
  BY DocumentsElim, GroupSetNotGone
<1>. QED
  BY <1>3, <1>4, KeysApart DEF GroupsOf, UsersOf, Keys

LEMMA AfterDetach ==
    ASSUME NEW db \in Documents, NEW g \in GroupIds, NEW new, new = After(Detach(g), db)
    PROVE  new \in Documents /\ UsersSame(db, new) /\ MembersSame(db, new)
<1>. DEFINE s == Detach(g)
            N(h) == [db[h] EXCEPT !.path = RemoveFirst(@, g)]
<1>1. s \in SaneStep /\ s.do = "detach" /\ s.at = g
  BY GroupStepType DEF Detach
<1>. HIDE DEF s
<1>2. Effect(s, db) = [h \in Descendants(db, g) |-> N(h)]
  BY <1>1 DEF Effect
<1>3. ASSUME NEW h \in Descendants(db, g) PROVE h \in GroupsOf(db) /\ N(h) \in GroupRecords /\ N(h).users = db[h].users
  <2>1. h \in GroupsOf(db) /\ g # h /\ Contains(db[h].path, g)
    BY DEF Descendants, Within
  <2>2. h \in GroupIds /\ db[h] \in GroupRecords /\ Shapely(h, db[h])
    BY <2>1, DocumentsElim
  <2>3. N(h) \in GroupRecords
    BY <2>1, <2>2, RemoveShapely
  <2>. QED
    BY <2>1, <2>2, <2>3 DEF GroupRecords
<1>. HIDE DEF N
<1>4. /\ new \in Documents
      /\ \A k \in Keys : new[k] = IF k \in Descendants(db, g) THEN N(k) ELSE db[k]
  BY <1>1, <1>2, AfterValue DEF s
<1>. QED
  BY <1>3, <1>4, KeysApart, GroupRecordNotGone DEF UsersSame, MembersSame, GroupsOf, UsersOf, Keys

LEMMA AfterJoin ==
    ASSUME NEW db \in Documents, NEW u \in Users, NEW gs \in SUBSET GroupIds
    PROVE  /\ \A new : new = After(JoinGroups(u, gs), db) =>
                 /\ new \in Documents /\ UsersSame(db, new) /\ GroupsOf(new) = GroupsOf(db)
                 /\ \A g \in GroupsOf(db) : new[g].users = db[g].users \cup {v \in {u} : g \in gs}
           /\ \A new : new = After(LeaveGroups(u, gs), db) =>
                 /\ new \in Documents /\ UsersSame(db, new) /\ GroupsOf(new) = GroupsOf(db)
                 /\ \A g \in GroupsOf(db) : new[g].users = db[g].users \ {v \in {u} : g \in gs}
<1>. DEFINE J(g) == [db[g] EXCEPT !.users = db[g].users \cup {u}]
            L(g) == [db[g] EXCEPT !.users = db[g].users \ {u}]
<1>0. ASSUME NEW g \in GroupsOf(db)
      PROVE  /\ J(g) \in GroupRecords /\ J(g).users = db[g].users \cup {u}
             /\ L(g) \in GroupRecords /\ L(g).users = db[g].users \ {u}
  <2>1. db[g] \in GroupRecords
    BY DocumentsElim
  <2>. QED
    BY <2>1 DEF GroupRecords
<1>. HIDE DEF J, L
<1>1. ASSUME NEW new, new = After(JoinGroups(u, gs), db)
      PROVE  /\ new \in Documents
             /\ \A k \in Keys : new[k] = IF k \in gs \cap GroupsOf(db) THEN J(k) ELSE db[k]
  <2>. DEFINE s == JoinGroups(u, gs)
  <2>1. s \in SaneStep /\ s.do = "join" /\ s.at = u /\ s.of = gs
    BY UserStepType DEF JoinGroups
  <2>. HIDE DEF s
  <2>2. Effect(s, db) = [g \in gs \cap GroupsOf(db) |-> J(g)]
    BY <2>1 DEF Effect, J
  <2>. QED
    BY <1>1, <2>1, <2>2, AfterValue DEF s
<1>2. ASSUME NEW new, new = After(LeaveGroups(u, gs), db)
      PROVE  /\ new \in Documents
             /\ \A k \in Keys : new[k] = IF k \in gs \cap GroupsOf(db) THEN L(k) ELSE db[k]
  <2>. DEFINE s == LeaveGroups(u, gs)
  <2>1. s \in SaneStep /\ s.do = "leave" /\ s.at = u /\ s.of = gs
    BY UserStepType DEF LeaveGroups
  <2>. HIDE DEF s
  <2>2. Effect(s, db) = [g \in gs \cap GroupsOf(db) |-> L(g)]
    BY <2>1 DEF Effect, L
  <2>. QED
    BY <1>2, <2>1, <2>2, AfterValue DEF s
<1>4. GroupsOf(db) \subseteq Keys
  BY DEF GroupsOf, Keys
<1>5. ASSUME NEW new, new = After(JoinGroups(u, gs), db)
      PROVE  /\ new \in Documents /\ UsersSame(db, new) /\ GroupsOf(new) = GroupsOf(db)
             /\ \A g \in GroupsOf(db) : new[g].users = db[g].users \cup {v \in {u} : g \in gs}
  <2>1. UsersSame(db, new) /\ GroupsOf(new) = GroupsOf(db)
    BY <1>0, <1>1, <1>5, KeysApart, GroupRecordNotGone DEF UsersSame, GroupsOf, UsersOf, Keys
  <2>. QED
    BY <1>0, <1>1, <1>4, <1>5, <2>1
<1>6. ASSUME NEW new, new = After(LeaveGroups(u, gs), db)
      PROVE  /\ new \in Documents /\ UsersSame(db, new) /\ GroupsOf(new) = GroupsOf(db)
             /\ \A g \in GroupsOf(db) : new[g].users = db[g].users \ {v \in {u} : g \in gs}
  <2>1. UsersSame(db, new) /\ GroupsOf(new) = GroupsOf(db)
    BY <1>0, <1>2, <1>6, KeysApart, GroupRecordNotGone DEF UsersSame, GroupsOf, UsersOf, Keys
  <2>. QED
    BY <1>0, <1>2, <1>4, <1>6, <2>1
<1>. QED
  BY <1>5, <1>6

LEMMA AfterSet ==
    ASSUME NEW db \in Documents, NEW u \in Users, NEW gs \in SUBSET GroupIds,
           NEW new, new = After(SetGroups(u, gs), db)
    PROVE  /\ new \in Documents /\ MembersSame(db, new) /\ UsersOf(new) = UsersOf(db)
           /\ \A v \in UsersOf(db) : new[v] = IF v = u THEN gs ELSE db[v]
<1>. DEFINE s == SetGroups(u, gs)
<1>1. s \in SaneStep /\ s.do = "groups" /\ s.at = u /\ s.of = gs
  BY UserStepType DEF SetGroups
<1>. HIDE DEF s
<1>2. Effect(s, db) = [v \in {u} \cap UsersOf(db) |-> gs]
  BY <1>1 DEF Effect
<1>3. /\ new \in Documents
      /\ \A k \in Keys : new[k] = IF k \in {u} \cap UsersOf(db) THEN gs ELSE db[k]
  BY <1>1, <1>2, AfterValue DEF s
<1>. QED
  BY <1>3, KeysApart, GroupSetNotGone DEF MembersSame, GroupsOf, UsersOf, Keys

LEMMA AfterListing ==
    ASSUME NEW db, NEW g, NEW gs
    PROVE  After(List(g), db) = db /\ After(Unlist(gs), db) = db
BY DEF After, List, Unlist

-----------------------------------------------------------------------------
(* Every request, on its own, leaves the memberships agreeing.             *)

\* Carried out on db, the steps of s make the memberships agree again, create
\* no group outside of new and no user.
Settles(s, db, new) ==
    \E to \in Documents : /\ Leads(s, db, to) /\ Agrees(to)
                          /\ GroupsOf(to) \subseteq GroupsOf(db) \cup new
                          /\ UsersOf(to) \subseteq UsersOf(db)

LEMMA AgreesAlways ==
    ASSUME NEW db \in Documents, Agrees(db)
    PROVE  \A u \in UsersOf(db), g \in GroupIds : g \in db[u] <=> g \in GroupsOf(db) /\ u \in db[g].users
BY DEF Agrees, GroupsOf

LEMMA AgreesIf ==
    ASSUME NEW db \in Documents,
           \A u \in UsersOf(db), g \in GroupIds : g \in db[u] <=> g \in GroupsOf(db) /\ u \in db[g].users
    PROVE  Agrees(db)
<1>1. ASSUME NEW u \in UsersOf(db) PROVE db[u] = {g \in GroupsOf(db) : u \in db[g].users}
  <2>1. db[u] \subseteq GroupIds
    BY DocumentsElim
  <2>. QED
    BY <2>1 DEF GroupsOf
<1>. QED
  BY <1>1 DEF Agrees

LEMMA CreateSettles ==
    ASSUME NEW db \in Documents, Agrees(db), NEW g \in GroupIds \ GroupsOf(db),
           NEW op, op.org \in BOOLEAN, op.users \in SUBSET Users
    PROVE  Settles(CreatePlan(op, g), db, {g})
<1>. DEFINE group == GroupDocument(g, op.org, op.users)
            a == After(Insert(g, group), db)
            b == After(AddToUsers(g, op.users), a)
<1>0. group \in GroupRecords /\ Shapely(g, group) /\ group.users = op.users
  BY AloneShapely DEF GroupDocument
<1>. HIDE DEF group
<1>1. /\ a \in Documents /\ UsersSame(db, a) /\ GroupsOf(a) = GroupsOf(db) \cup {g} /\ a[g] = group
      /\ \A h \in GroupsOf(db) \ {g} : a[h] = db[h]
  BY <1>0, AfterInsert
<1>. HIDE DEF a
<1>2. /\ b \in Documents /\ GroupsOf(b) = GroupsOf(a) /\ UsersOf(b) = UsersOf(a)
      /\ \A h \in GroupsOf(a) : b[h] = a[h]
      /\ \A u \in UsersOf(a) : b[u] = a[u] \cup {h \in {g} : u \in op.users}
  <2>1. b = After(AddToUsers(g, op.users), a) /\ g \in GroupIds
    OBVIOUS
  <2>. HIDE DEF b
  <2>. QED
    BY <1>1, <2>1, AfterAdd
<1>. HIDE DEF b
<1>3. Leads(CreatePlan(op, g), db, b)
  <2>1. Insert(g, group) \in SaneStep /\ AddToUsers(g, op.users) \in SaneStep /\ List(g) \in SaneStep
    BY <1>0, DocumentStepType, GroupStepType
  <2>2. After(List(g), b) = b
    BY AfterListing
  <2>. QED
    BY <2>1, <2>2, LeadsThree DEF CreatePlan, group, a, b
<1>4. Agrees(b)
  <2>1. ASSUME NEW u \in UsersOf(b), NEW h \in GroupIds
        PROVE  h \in b[u] <=> h \in GroupsOf(b) /\ u \in b[h].users
    <3>1. u \in UsersOf(db) /\ a[u] = db[u]
      BY <1>1, <1>2 DEF UsersSame
    <3>2. h \in db[u] <=> h \in GroupsOf(db) /\ u \in db[h].users
      BY <3>1, AgreesAlways
    <3>. QED
      <4>1. b[u] = db[u] \cup {k \in {g} : u \in op.users}
        BY <1>1, <1>2, <3>1 DEF UsersSame
      <4>2. CASE h = g
        BY <1>0, <1>1, <1>2, <3>2, <4>1, <4>2
      <4>3. CASE h # g
        BY <1>1, <1>2, <3>2, <4>1, <4>3
      <4>. QED
        BY <4>2, <4>3
  <2>. QED
    BY <1>2, <2>1, AgreesIf
<1>. QED
  BY <1>1, <1>2, <1>3, <1>4 DEF Settles, UsersSame

LEMMA EditSettles ==
    ASSUME NEW db \in Documents, Agrees(db), NEW op, op.group \in GroupsOf(db), op.users \in SUBSET Users
    PROVE  Settles(EditPlan(op, db[op.group]), db, {})
<1>. DEFINE g == op.group
            group == db[g]
            left == [h \in {g} |-> group.users \ op.users]
            saved == [group EXCEPT !.users = op.users]
            a == After(AddToUsers(g, op.users \ group.users), db)
            b == After(TakeFromUsers(left), a)
            c == After(Save(g, saved), b)
<1>0. /\ g \in GroupIds /\ group \in GroupRecords /\ Shapely(g, group)
      /\ group.users \in SUBSET Users
  BY DocumentsElim DEF GroupRecords
<1>1. saved \in GroupRecords /\ Shapely(g, saved) /\ saved.users = op.users
  <2>1. saved.users = op.users
    BY <1>0 DEF GroupRecords
  <2>. QED
    BY <1>0, <2>1, SameShape
<1>2. left \in [{g} -> SUBSET Users] /\ {g} \in SUBSET GroupIds /\ left[g] = group.users \ op.users
  BY <1>0
<1>. HIDE DEF saved, left
<1>3. /\ a \in Documents /\ GroupsOf(a) = GroupsOf(db) /\ UsersOf(a) = UsersOf(db)
      /\ \A h \in GroupsOf(db) : a[h] = db[h]
      /\ \A u \in UsersOf(db) : a[u] = db[u] \cup {h \in {g} : u \in op.users \ group.users}
  <2>1. a = After(AddToUsers(g, op.users \ group.users), db) /\ op.users \ group.users \in SUBSET Users
    OBVIOUS
  <2>. HIDE DEF a, group
  <2>. QED
    BY <1>0, <2>1, AfterAdd
<1>. HIDE DEF a
<1>4. /\ b \in Documents /\ GroupsOf(b) = GroupsOf(a) /\ UsersOf(b) = UsersOf(a)
      /\ \A h \in GroupsOf(a) : b[h] = a[h]
      /\ \A u \in UsersOf(a) : b[u] = a[u] \ {h \in {g} : u \in left[h]}
  BY <1>2, <1>3, AfterTake
<1>. HIDE DEF b
<1>5. /\ c \in Documents /\ UsersSame(b, c) /\ GroupsOf(c) = GroupsOf(b) /\ c[g] = saved
      /\ \A h \in GroupsOf(b) \ {g} : c[h] = b[h]
  BY <1>0, <1>1, <1>3, <1>4, AfterSaveGroup
<1>. HIDE DEF c
<1>6. Leads(EditPlan(op, group), db, c)
  <2>1. /\ AddToUsers(g, op.users \ group.users) \in SaneStep /\ TakeFromUsers(left) \in SaneStep
        /\ Save(g, saved) \in SaneStep /\ List(g) \in SaneStep
    BY <1>0, <1>1, <1>2, DocumentStepType, GroupStepType, TakeStepType
  <2>2. After(List(g), c) = c
    BY AfterListing
  <2>3. EditPlan(op, group) = <<AddToUsers(g, op.users \ group.users), TakeFromUsers(left), Save(g, saved), List(g)>>
    BY DEF EditPlan, left, saved
  <2>. QED
    BY <2>1, <2>2, <2>3, LeadsFour DEF a, b, c
<1>7. Agrees(c)
  <2>1. ASSUME NEW u \in UsersOf(c), NEW h \in GroupIds
        PROVE  h \in c[u] <=> h \in GroupsOf(c) /\ u \in c[h].users
    <3>1. u \in UsersOf(db) /\ c[u] = b[u]
      BY <1>3, <1>4, <1>5 DEF UsersSame
    <3>2. h \in db[u] <=> h \in GroupsOf(db) /\ u \in db[h].users
      BY <3>1, AgreesAlways
    <3>3. b[u] = a[u] \ {k \in {g} : u \in left[k]}
      BY <1>3, <1>4, <3>1
    <3>4. CASE h = g
      BY <1>0, <1>1, <1>2, <1>3, <1>4, <1>5, <3>1, <3>2, <3>3, <3>4
    <3>5. CASE h # g
      BY <1>3, <1>4, <1>5, <3>1, <3>2, <3>3, <3>5
    <3>. QED
      BY <3>4, <3>5
  <2>. QED
    BY <1>5, <2>1, AgreesIf
<1>. QED
  BY <1>3, <1>4, <1>5, <1>6, <1>7 DEF Settles, UsersSame

\* Who is a member of what is the same, and so it agrees.
LEMMA SameAgrees ==
    ASSUME NEW db \in Documents, NEW to \in Documents, Agrees(db), UsersSame(db, to), MembersSame(db, to)
    PROVE  Agrees(to)
<1>1. ASSUME NEW u \in UsersOf(to), NEW h \in GroupIds
      PROVE  h \in to[u] <=> h \in GroupsOf(to) /\ u \in to[h].users
  BY AgreesAlways DEF UsersSame, MembersSame
<1>. QED
  BY <1>1, AgreesIf

LEMMA MoveSettles ==
    ASSUME NEW db \in Documents, Agrees(db), NEW op, op.kind = "move", op.group \in GroupIds,
           op.parent \in GroupIds \cup {NoParent}, Accepted(op, db)
    PROVE  Settles(MovePlan(op, db), db, {})
<1>. DEFINE g == op.group
            group == db[g]
<1>1. /\ g \in GroupsOf(db)
      /\ op.parent # NoParent => op.parent \in GroupsOf(db) /\ ~Contains(db[op.parent].path, g)
  BY DEF Accepted
<1>2. group \in GroupRecords /\ Shapely(g, group)
  BY <1>1, DocumentsElim
<1>3. Detach(g) \in SaneStep /\ List(g) \in SaneStep
  BY GroupStepType
<1>4. ASSUME NEW from \in Documents, UsersSame(db, from), MembersSame(db, from),
             NEW saved \in GroupRecords, Shapely(g, saved), saved.users = group.users
      PROVE  LET to == After(Save(g, saved), from)
             IN  to \in Documents /\ Agrees(to) /\ GroupsOf(to) = GroupsOf(db) /\ UsersOf(to) = UsersOf(db)
  <2>. DEFINE to == After(Save(g, saved), from)
  <2>1. /\ to \in Documents /\ UsersSame(from, to) /\ GroupsOf(to) = GroupsOf(from) /\ to[g] = saved
        /\ \A h \in GroupsOf(from) \ {g} : to[h] = from[h]
    BY <1>1, <1>4, AfterSaveGroup DEF MembersSame
  <2>. HIDE DEF to
  <2>2. UsersSame(db, to) /\ MembersSame(db, to)
    BY <1>1, <1>4, <2>1 DEF UsersSame, MembersSame
  <2>3. Agrees(to)
    BY <2>1, <2>2, SameAgrees
  <2>. QED
    BY <2>1, <2>2, <2>3 DEF to, UsersSame, MembersSame
<1>5. CASE op.parent = NoParent
  <2>. DEFINE saved == [group EXCEPT !.path = <<g>>, !.org = FALSE]
              a == After(Detach(g), db)
              b == After(Save(g, saved), a)
  <2>1. saved \in GroupRecords /\ saved.path = <<g>> /\ saved.org = FALSE /\ saved.users = group.users
    <3>1. <<g>> \in Seq(GroupIds)
      OBVIOUS
    <3>. HIDE DEF group, g
    <3>. QED
      BY <1>2, <3>1 DEF GroupRecords
  <2>2. MovePlan(op, db) = <<Detach(g), Save(g, saved), List(g)>>
    BY <1>5 DEF MovePlan
  <2>. HIDE DEF saved
  <2>3. Shapely(g, saved)
    BY <2>1 DEF Shapely
  <2>4. a \in Documents /\ UsersSame(db, a) /\ MembersSame(db, a)
    BY AfterDetach
  <2>5. b \in Documents /\ Agrees(b) /\ GroupsOf(b) = GroupsOf(db) /\ UsersOf(b) = UsersOf(db)
    <3>. HIDE DEF a
    <3>. QED
      BY <1>4, <2>1, <2>3, <2>4
  <2>6. Leads(MovePlan(op, db), db, b)
    <3>1. Save(g, saved) \in SaneStep
      BY <2>1, <2>3, DocumentStepType
    <3>2. After(List(g), b) = b
      BY AfterListing
    <3>. QED
      BY <1>3, <2>2, <3>1, <3>2, LeadsThree
  <2>. QED
    BY <2>5, <2>6 DEF Settles
<1>6. CASE op.parent # NoParent
  <2>. DEFINE parent == db[op.parent]
              saved == [group EXCEPT !.path = Append(parent.path, g), !.org = TRUE]
              b == After(Save(g, saved), db)
  <2>1. op.parent \in GroupIds /\ parent \in GroupRecords /\ Shapely(op.parent, parent)
    BY <1>1, <1>6, DocumentsElim
  <2>2. saved \in GroupRecords /\ Shapely(g, saved)
    BY <1>1, <1>2, <1>6, <2>1, AppendShapely
  <2>3. saved.users = group.users
    BY <1>2 DEF GroupRecords
  <2>4. MovePlan(op, db) = <<Save(g, saved), List(g)>>
    BY <1>6 DEF MovePlan
  <2>. HIDE DEF saved
  <2>5. b \in Documents /\ Agrees(b) /\ GroupsOf(b) = GroupsOf(db) /\ UsersOf(b) = UsersOf(db)
    <3>1. UsersSame(db, db) /\ MembersSame(db, db)
      BY DEF UsersSame, MembersSame
    <3>. QED
      BY <1>4, <2>2, <2>3, <3>1
  <2>6. Leads(MovePlan(op, db), db, b)
    <3>1. Save(g, saved) \in SaneStep
      BY <2>2, DocumentStepType
    <3>2. After(List(g), b) = b
      BY AfterListing
    <3>. QED
      BY <1>3, <2>4, <3>1, <3>2, LeadsTwo
  <2>. QED
    BY <2>5, <2>6 DEF Settles
<1>. QED
  BY <1>5, <1>6

LEMMA DeleteSettles ==
    ASSUME NEW db \in Documents, Agrees(db), NEW op, op.group \in GroupsOf(db)
    PROVE  Settles(DeletePlan(op, db[op.group]), db, {})
<1>. DEFINE g == op.group
            group == db[g]
            leaving == [h \in {g} |-> group.users]
            a == After(TakeFromUsers(leaving), db)
            b == After(Detach(g), a)
            c == After(Erase({g}), b)
<1>0. g \in GroupIds /\ group \in GroupRecords /\ group.users \in SUBSET Users
  BY DocumentsElim DEF GroupRecords
<1>1. leaving \in [{g} -> SUBSET Users] /\ {g} \in SUBSET GroupIds /\ leaving[g] = group.users /\ {g} \in SUBSET Keys
  BY <1>0 DEF Keys
<1>. HIDE DEF leaving
<1>2. /\ a \in Documents /\ GroupsOf(a) = GroupsOf(db) /\ UsersOf(a) = UsersOf(db)
      /\ \A h \in GroupsOf(db) : a[h] = db[h]
      /\ \A u \in UsersOf(db) : a[u] = db[u] \ {h \in {g} : u \in leaving[h]}
  BY <1>1, AfterTake
<1>. HIDE DEF a
<1>3. b \in Documents /\ UsersSame(a, b) /\ MembersSame(a, b)
  BY <1>0, <1>2, AfterDetach
<1>. HIDE DEF b
<1>4. c \in Documents /\ \A k \in Keys : c[k] = IF k = g THEN Gone ELSE b[k]
  BY <1>1, <1>3, AfterErase
<1>. HIDE DEF c
<1>5. GroupsOf(c) = GroupsOf(b) \ {g} /\ UsersSame(b, c) /\ \A h \in GroupsOf(c) : c[h] = b[h]
  BY <1>0, <1>4, KeysApart DEF GroupsOf, UsersOf, UsersSame, Keys
<1>6. Leads(DeletePlan(op, group), db, c)
  <2>1. TakeFromUsers(leaving) \in SaneStep /\ Detach(g) \in SaneStep /\ Erase({g}) \in SaneStep /\ Unlist({g}) \in SaneStep
    BY <1>0, <1>1, GroupStepType, TakeStepType, EraseStepType
  <2>2. After(Unlist({g}), c) = c
    BY AfterListing
  <2>3. DeletePlan(op, group) = <<TakeFromUsers(leaving), Detach(g), Erase({g}), Unlist({g})>>
    BY DEF DeletePlan, leaving
  <2>. QED
    BY <2>1, <2>2, <2>3, LeadsFour DEF a, b, c
<1>7. Agrees(c)
  <2>1. ASSUME NEW u \in UsersOf(c), NEW h \in GroupIds
        PROVE  h \in c[u] <=> h \in GroupsOf(c) /\ u \in c[h].users
    <3>1. u \in UsersOf(db) /\ c[u] = a[u]
      BY <1>2, <1>3, <1>5 DEF UsersSame
    <3>2. h \in db[u] <=> h \in GroupsOf(db) /\ u \in db[h].users
      BY <3>1, AgreesAlways
    <3>3. a[u] = db[u] \ {k \in {g} : u \in leaving[k]}
      BY <1>2, <3>1
    <3>4. CASE h = g
      BY <1>1, <1>5, <3>1, <3>2, <3>3, <3>4
    <3>5. CASE h # g
      BY <1>2, <1>3, <1>5, <3>1, <3>2, <3>3, <3>5 DEF MembersSame
    <3>. QED
      BY <3>4, <3>5
  <2>. QED
    BY <1>4, <2>1, AgreesIf
<1>. QED
  BY <1>2, <1>3, <1>4, <1>5, <1>6, <1>7 DEF Settles, UsersSame, MembersSame

LEMMA DeleteOrganizationSettles ==
    ASSUME NEW db \in Documents, Agrees(db), NEW op, op.group \in GroupIds
    PROVE  Settles(DeleteOrganizationPlan(op, db), db, {})
<1>. DEFINE doomed == Within(db, op.group)
            leaving == [g \in doomed |-> db[g].users]
            a == After(Erase(doomed), db)
            b == After(TakeFromUsers(leaving), a)
<1>1. doomed \in SUBSET GroupIds /\ doomed \in SUBSET Keys /\ doomed \subseteq GroupsOf(db)
  BY DEF Within, GroupsOf, Keys
<1>2. leaving \in [doomed -> SUBSET Users] /\ \A g \in doomed : leaving[g] = db[g].users
  BY DocumentsElim DEF Within, GroupRecords
<1>3. DeleteOrganizationPlan(op, db) = <<Erase(doomed), TakeFromUsers(leaving), Unlist(doomed)>>
  BY DEF DeleteOrganizationPlan
<1>. HIDE DEF doomed, leaving
<1>4. a \in Documents /\ \A k \in Keys : a[k] = IF k \in doomed THEN Gone ELSE db[k]
  BY <1>1, AfterErase
<1>. HIDE DEF a
<1>5. GroupsOf(a) = GroupsOf(db) \ doomed /\ UsersSame(db, a) /\ \A h \in GroupsOf(a) : a[h] = db[h]
  BY <1>1, <1>4, KeysApart DEF GroupsOf, UsersOf, UsersSame, Keys
<1>6. /\ b \in Documents /\ GroupsOf(b) = GroupsOf(a) /\ UsersOf(b) = UsersOf(a)
      /\ \A h \in GroupsOf(a) : b[h] = a[h]
      /\ \A u \in UsersOf(a) : b[u] = a[u] \ {g \in doomed : u \in leaving[g]}
  <2>1. b = After(TakeFromUsers(leaving), a)
    OBVIOUS
  <2>. HIDE DEF b
  <2>. QED
    BY SMTT(20), <1>1, <1>2, <1>4, <2>1, AfterTake
<1>. HIDE DEF b
<1>7. Leads(<<Erase(doomed), TakeFromUsers(leaving), Unlist(doomed)>>, db, b)
  <2>1. Erase(doomed) \in SaneStep /\ TakeFromUsers(leaving) \in SaneStep /\ Unlist(doomed) \in SaneStep
    BY <1>1, <1>2, EraseStepType, TakeStepType, GroupStepType
  <2>2. After(Unlist(doomed), b) = b
    BY AfterListing
  <2>. QED
    BY <2>1, <2>2, LeadsThree DEF a, b
<1>8. Agrees(b)
  <2>1. ASSUME NEW u \in UsersOf(b), NEW h \in GroupIds
        PROVE  h \in b[u] <=> h \in GroupsOf(b) /\ u \in b[h].users
    <3>1. u \in UsersOf(db) /\ b[u] = db[u] \ {g \in doomed : u \in leaving[g]}
      BY <1>5, <1>6 DEF UsersSame
    <3>2. h \in db[u] <=> h \in GroupsOf(db) /\ u \in db[h].users
      BY <3>1, AgreesAlways
    <3>. QED
      BY <1>2, <1>5, <1>6, <3>1, <3>2
  <2>. QED
    BY <1>6, <2>1, AgreesIf
<1>. QED
  BY <1>3, <1>5, <1>6, <1>7, <1>8 DEF Settles, UsersSame

\* remove_user_from_all_groups
LEMMA LeaveAllSettles ==
    ASSUME NEW db \in Documents, Agrees(db), NEW u \in UsersOf(db)
    PROVE  \E to \in Documents : /\ Leads(LeaveAllPlan(u, db[u]), db, to) /\ Agrees(to) /\ to[u] = {}
                                 /\ GroupsOf(to) = GroupsOf(db) /\ UsersOf(to) = UsersOf(db)
<1>. DEFINE gs == db[u]
            a == After(LeaveGroups(u, gs), db)
            b == After(SetGroups(u, {}), a)
<1>0. u \in Users /\ gs \in SUBSET GroupIds /\ {} \in SUBSET GroupIds
  BY DocumentsElim
<1>1. /\ a \in Documents /\ UsersSame(db, a) /\ GroupsOf(a) = GroupsOf(db)
      /\ \A g \in GroupsOf(db) : a[g].users = db[g].users \ {v \in {u} : g \in gs}
  <2>1. a = After(LeaveGroups(u, gs), db)
    OBVIOUS
  <2>. HIDE DEF a, gs
  <2>. QED
    BY <1>0, <2>1, AfterJoin
<1>. HIDE DEF a
<1>2. /\ b \in Documents /\ MembersSame(a, b) /\ UsersOf(b) = UsersOf(a)
      /\ \A v \in UsersOf(a) : b[v] = IF v = u THEN {} ELSE a[v]
  <2>1. b = After(SetGroups(u, {}), a)
    OBVIOUS
  <2>. HIDE DEF b
  <2>. QED
    BY <1>0, <1>1, <2>1, AfterSet
<1>. HIDE DEF b
<1>3. Leads(LeaveAllPlan(u, gs), db, b)
  <2>1. LeaveGroups(u, gs) \in SaneStep /\ SetGroups(u, {}) \in SaneStep
    BY <1>0, UserStepType
  <2>. QED
    BY <2>1, LeadsTwo DEF LeaveAllPlan, a, b
<1>4. Agrees(b)
  <2>1. ASSUME NEW v \in UsersOf(b), NEW h \in GroupIds
        PROVE  h \in b[v] <=> h \in GroupsOf(b) /\ v \in b[h].users
    <3>1. v \in UsersOf(db) /\ u \in UsersOf(a) /\ a[v] = db[v] /\ GroupsOf(b) = GroupsOf(db)
      BY <1>1, <1>2 DEF UsersSame, MembersSame
    <3>2. /\ h \in db[v] <=> h \in GroupsOf(db) /\ v \in db[h].users
          /\ h \in gs <=> h \in GroupsOf(db) /\ u \in db[h].users
      BY <3>1, AgreesAlways
    <3>3. h \in GroupsOf(db) => b[h].users = a[h].users
      BY <1>1, <1>2 DEF MembersSame
    <3>4. CASE v = u
      BY <1>1, <1>2, <3>1, <3>2, <3>3, <3>4
    <3>5. CASE v # u
      BY <1>1, <1>2, <3>1, <3>2, <3>3, <3>5
    <3>. QED
      BY <3>4, <3>5
  <2>. QED
    BY <1>2, <2>1, AgreesIf
<1>5. b[u] = {} /\ GroupsOf(b) = GroupsOf(db) /\ UsersOf(b) = UsersOf(db)
  BY <1>1, <1>2 DEF UsersSame, MembersSame
<1>. QED
  BY <1>2, <1>3, <1>4, <1>5

\* A user joins groups that exist.
LEMMA JoinSettles ==
    ASSUME NEW db \in Documents, Agrees(db), NEW u \in UsersOf(db), NEW more \in SUBSET GroupsOf(db)
    PROVE  \E to \in Documents : /\ Leads(<<JoinGroups(u, more), SetGroups(u, db[u] \cup more)>>, db, to) /\ Agrees(to)
                                 /\ GroupsOf(to) = GroupsOf(db) /\ UsersOf(to) = UsersOf(db)
<1>. DEFINE gs == db[u] \cup more
            a == After(JoinGroups(u, more), db)
            b == After(SetGroups(u, gs), a)
<1>0. u \in Users /\ gs \in SUBSET GroupIds /\ more \in SUBSET GroupIds
  <2>1. db[u] \in SUBSET GroupIds /\ u \in Users
    BY DocumentsElim
  <2>. QED
    BY <2>1 DEF GroupsOf
<1>. HIDE DEF gs
<1>1. /\ a \in Documents /\ UsersSame(db, a) /\ GroupsOf(a) = GroupsOf(db)
      /\ \A g \in GroupsOf(db) : a[g].users = db[g].users \cup {v \in {u} : g \in more}
  <2>1. a = After(JoinGroups(u, more), db)
    OBVIOUS
  <2>. HIDE DEF a
  <2>. QED
    BY <1>0, <2>1, AfterJoin
<1>. HIDE DEF a
<1>2. /\ b \in Documents /\ MembersSame(a, b) /\ UsersOf(b) = UsersOf(a)
      /\ \A v \in UsersOf(a) : b[v] = IF v = u THEN gs ELSE a[v]
  <2>1. b = After(SetGroups(u, gs), a)
    OBVIOUS
  <2>. HIDE DEF b
  <2>. QED
    BY <1>0, <1>1, <2>1, AfterSet
<1>. HIDE DEF b
<1>3. Leads(<<JoinGroups(u, more), SetGroups(u, gs)>>, db, b)
  <2>1. JoinGroups(u, more) \in SaneStep /\ SetGroups(u, gs) \in SaneStep
    BY <1>0, UserStepType
  <2>. QED
    BY <2>1, LeadsTwo DEF a, b
<1>4. Agrees(b)
  <2>1. ASSUME NEW v \in UsersOf(b), NEW h \in GroupIds
        PROVE  h \in b[v] <=> h \in GroupsOf(b) /\ v \in b[h].users
    <3>1. v \in UsersOf(db) /\ u \in UsersOf(a) /\ a[v] = db[v] /\ GroupsOf(b) = GroupsOf(db)
      BY <1>1, <1>2 DEF UsersSame, MembersSame
    <3>2. /\ h \in db[v] <=> h \in GroupsOf(db) /\ v \in db[h].users
          /\ h \in db[u] <=> h \in GroupsOf(db) /\ u \in db[h].users
          /\ h \in gs <=> h \in db[u] \/ h \in more
      BY <3>1, AgreesAlways DEF gs
    <3>3. h \in GroupsOf(db) => b[h].users = a[h].users
      BY <1>1, <1>2 DEF MembersSame
    <3>4. CASE v = u
      BY <1>1, <1>2, <3>1, <3>2, <3>3, <3>4
    <3>5. CASE v # u
      BY <1>1, <1>2, <3>1, <3>2, <3>3, <3>5
    <3>. QED
      BY <3>4, <3>5
  <2>. QED
    BY <1>2, <2>1, AgreesIf
<1>5. GroupsOf(b) = GroupsOf(db) /\ UsersOf(b) = UsersOf(db)
  BY <1>1, <1>2 DEF UsersSame, MembersSame
<1>. QED
  BY <1>2, <1>3, <1>4, <1>5 DEF gs

LEMMA LoginSettles ==
    ASSUME NEW db \in Documents, Agrees(db), NEW op, op.user \in UsersOf(db), op.groups \in SUBSET GroupsOf(db),
           NEW g, op.new => g \in GroupIds \ GroupsOf(db)
    PROVE  Settles(LoginPlan(op, db[op.user], g), db, IF op.new THEN {g} ELSE {})
<1>. DEFINE u == op.user
            gs == db[u]
            before == IF op.sync THEN {} ELSE gs
            more == (op.groups \cup (IF op.new THEN {g} ELSE {})) \ before
            s1 == <<Touch(u)>>
            s2 == IF op.sync THEN LeaveAllPlan(u, gs) ELSE <<>>
            s3 == IF op.new THEN <<Insert(g, GroupDocument(g, FALSE, {}))>> ELSE <<>>
            s4 == IF more # {} THEN <<JoinGroups(u, more), SetGroups(u, before \cup more)>> ELSE <<>>
            new == IF op.new THEN {g} ELSE {}
<1>0. u \in Users /\ gs \in SUBSET GroupIds /\ before \in SUBSET GroupIds
  BY DocumentsElim
<1>1. Leads(s1, db, db) /\ s1 \in Seq(SaneStep)
  <2>1. Touch(u) \in SaneStep
    BY <1>0, UserStepType
  <2>2. After(Touch(u), db) = db
    BY AfterSaveUser
  <2>. QED
    BY <2>1, <2>2, LeadsOne
<1>2. \E to \in Documents : /\ Leads(s2, db, to) /\ Agrees(to) /\ to[u] = before
                            /\ GroupsOf(to) = GroupsOf(db) /\ UsersOf(to) = UsersOf(db)
  <2>1. CASE op.sync
    BY <2>1, LeaveAllSettles
  <2>2. CASE ~op.sync
    <3>1. Leads(s2, db, db)
      BY <2>2, LeadsNowhere
    <3>. QED
      BY <2>2, <3>1
  <2>. QED
    BY <2>1, <2>2
<1>3. s2 \in Seq(SaneStep)
  BY <1>0, LeaveAllPlanType
<1>4. PICK a \in Documents : /\ Leads(s2, db, a) /\ Agrees(a) /\ a[u] = before
                             /\ GroupsOf(a) = GroupsOf(db) /\ UsersOf(a) = UsersOf(db)
  BY <1>2
<1>5. /\ s3 \in Seq(SaneStep)
      /\ \E to \in Documents : /\ Leads(s3, a, to) /\ Agrees(to) /\ to[u] = before
                               /\ GroupsOf(to) = GroupsOf(db) \cup new /\ UsersOf(to) = UsersOf(db)
  <2>1. CASE op.new
    <3>. DEFINE group == GroupDocument(g, FALSE, {})
                b == After(Insert(g, group), a)
    <3>1. g \in GroupIds /\ g \notin GroupsOf(a) /\ group \in GroupRecords /\ Shapely(g, group) /\ group.users = {}
      BY <1>4, <2>1, AloneShapely DEF GroupDocument
    <3>2. s3 = <<Insert(g, group)>> /\ new = {g}
      BY <2>1
    <3>. HIDE DEF group, s3, new
    <3>3. /\ b \in Documents /\ UsersSame(a, b) /\ GroupsOf(b) = GroupsOf(a) \cup {g} /\ b[g] = group
          /\ \A h \in GroupsOf(a) \ {g} : b[h] = a[h]
      BY <3>1, AfterInsert
    <3>4. Insert(g, group) \in SaneStep /\ Leads(<<Insert(g, group)>>, a, b)
      BY <3>1, DocumentStepType, LeadsOne
    <3>. HIDE DEF b
    <3>5. Agrees(b)
      <4>1. ASSUME NEW v \in UsersOf(b), NEW h \in GroupIds
            PROVE  h \in b[v] <=> h \in GroupsOf(b) /\ v \in b[h].users
        <5>1. v \in UsersOf(a) /\ b[v] = a[v]
          BY <3>3 DEF UsersSame
        <5>2. h \in a[v] <=> h \in GroupsOf(a) /\ v \in a[h].users
          BY <5>1, <1>4, AgreesAlways
        <5>3. CASE h = g
          BY <3>1, <3>3, <5>1, <5>2, <5>3
        <5>4. CASE h # g
          BY <3>3, <5>1, <5>2, <5>4
        <5>. QED
          BY <5>3, <5>4
      <4>. QED
        BY <3>3, <4>1, AgreesIf
    <3>6. b[u] = before /\ UsersOf(b) = UsersOf(db) /\ GroupsOf(b) = GroupsOf(db) \cup {g}
      BY <1>4, <3>3 DEF UsersSame
    <3>. QED
      BY <3>2, <3>3, <3>4, <3>5, <3>6
  <2>2. CASE ~op.new
    <3>1. s3 = <<>> /\ new = {} /\ Leads(<<>>, a, a)
      BY <2>2, LeadsNowhere
    <3>. HIDE DEF s3, new, before
    <3>2. s3 \in Seq(SaneStep)
      BY <3>1
    <3>. QED
      BY <1>4, <3>1, <3>2
  <2>. QED
    BY <2>1, <2>2
<1>6. PICK b \in Documents : /\ Leads(s3, a, b) /\ Agrees(b) /\ b[u] = before
                             /\ GroupsOf(b) = GroupsOf(db) \cup new /\ UsersOf(b) = UsersOf(db)
  BY <1>5
<1>7. more \in SUBSET GroupsOf(b) /\ more \in SUBSET GroupIds
  BY <1>6 DEF GroupsOf
<1>8. /\ s4 \in Seq(SaneStep)
      /\ \E to \in Documents : /\ Leads(s4, b, to) /\ Agrees(to)
                               /\ GroupsOf(to) = GroupsOf(db) \cup new /\ UsersOf(to) = UsersOf(db)
  <2>. HIDE DEF more, before, new
  <2>1. CASE more # {}
    <3>1. JoinGroups(u, more) \in SaneStep /\ SetGroups(u, before \cup more) \in SaneStep
      BY <1>0, <1>7, UserStepType
    <3>2. u \in UsersOf(b) /\ s4 = <<JoinGroups(u, more), SetGroups(u, b[u] \cup more)>>
      BY <1>6, <2>1
    <3>3. s4 \in Seq(SaneStep)
      BY <2>1, <3>1
    <3>. HIDE DEF s4
    <3>. QED
      BY <1>6, <1>7, <3>2, <3>3, JoinSettles
  <2>2. CASE more = {}
    <3>1. s4 = <<>> /\ Leads(<<>>, b, b)
      BY <2>2, LeadsNowhere
    <3>. QED
      BY <1>6, <3>1
  <2>. QED
    BY <2>1, <2>2
<1>9. PICK c \in Documents : /\ Leads(s4, b, c) /\ Agrees(c)
                             /\ GroupsOf(c) = GroupsOf(db) \cup new /\ UsersOf(c) = UsersOf(db)
  BY <1>8
<1>10. LoginPlan(op, gs, g) = s1 \o s2 \o s3 \o s4
  BY DEF LoginPlan
<1>. HIDE DEF s1, s2, s3, s4, new, gs
<1>11. s1 \o s2 \in Seq(SaneStep) /\ Leads(s1 \o s2, db, a)
  BY <1>1, <1>3, <1>4, LeadsThrough, ConcatProperties
<1>12. s1 \o s2 \o s3 \in Seq(SaneStep) /\ Leads(s1 \o s2 \o s3, db, b)
  BY <1>5, <1>6, <1>11, LeadsThrough, ConcatProperties
<1>13. Leads(s1 \o s2 \o s3 \o s4, db, c)
  BY <1>8, <1>9, <1>12, LeadsThrough
<1>. QED
  BY <1>9, <1>10, <1>13 DEF Settles, new, gs

LEMMA DeleteUserSettles ==
    ASSUME NEW db \in Documents, Agrees(db), NEW u \in UsersOf(db)
    PROVE  Settles(LeaveAllPlan(u, db[u]) \o <<Erase({u})>>, db, {})
<1>0. u \in Users /\ db[u] \in SUBSET GroupIds /\ {u} \in SUBSET Keys
  BY DocumentsElim DEF Keys
<1>1. PICK a \in Documents : /\ Leads(LeaveAllPlan(u, db[u]), db, a) /\ Agrees(a) /\ a[u] = {}
                             /\ GroupsOf(a) = GroupsOf(db) /\ UsersOf(a) = UsersOf(db)
  BY LeaveAllSettles
<1>. DEFINE b == After(Erase({u}), a)
<1>2. b \in Documents /\ \A k \in Keys : b[k] = IF k = u THEN Gone ELSE a[k]
  BY <1>0, AfterErase
<1>3. Leads(LeaveAllPlan(u, db[u]) \o <<Erase({u})>>, db, b)
  <2>1. LeaveAllPlan(u, db[u]) \in Seq(SaneStep) /\ <<Erase({u})>> \in Seq(SaneStep)
    BY <1>0, LeaveAllPlanType, EraseStepType
  <2>. QED
    BY <1>1, <2>1, LeadsOne, LeadsThrough
<1>. HIDE DEF b
<1>4. /\ UsersOf(b) = UsersOf(a) \ {u} /\ \A v \in UsersOf(b) : b[v] = a[v]
      /\ GroupsOf(b) = GroupsOf(a) /\ \A g \in GroupsOf(b) : b[g] = a[g]
  BY <1>0, <1>2, KeysApart DEF UsersOf, GroupsOf, Keys
<1>5. Agrees(b)
  <2>1. ASSUME NEW v \in UsersOf(b), NEW h \in GroupIds
        PROVE  h \in b[v] <=> h \in GroupsOf(b) /\ v \in b[h].users
    BY <1>1, <1>4, AgreesAlways
  <2>. QED
    BY <1>2, <2>1, AgreesIf
<1>. QED
  BY <1>1, <1>2, <1>3, <1>4, <1>5 DEF Settles

\* Whatever is requested: alone, it leaves the memberships agreeing, and the
\* only group it may create is the new one.
LEMMA PlanSettles ==
    ASSUME NEW op \in GroupOps, NEW db \in Documents, Accepted(op, db), Agrees(db),
           NEW g \in Nat, Creates(op) => g \in GroupIds \ GroupsOf(db)
    PROVE  Settles(GroupPlan(op, db, g), db, IF Creates(op) THEN {g} ELSE {})
<1>0. ASSUME NEW s, Settles(s, db, {}) PROVE Settles(s, db, IF Creates(op) THEN {g} ELSE {})
  BY <1>0 DEF Settles
<1>1. CASE op \in [kind : {"create"}, org : BOOLEAN, users : SUBSET Users]
  <2>1. GroupPlan(op, db, g) = CreatePlan(op, g) /\ Creates(op)
    BY <1>1 DEF GroupPlan, Creates
  <2>. QED
    BY <1>1, <2>1, CreateSettles
<1>2. CASE op \in [kind : {"edit"}, group : GroupIds, users : SUBSET Users]
  <2>1. GroupPlan(op, db, g) = EditPlan(op, db[op.group]) /\ op.group \in GroupsOf(db)
    BY <1>2 DEF GroupPlan, Accepted
  <2>. QED
    BY <1>0, <1>2, <2>1, EditSettles
<1>3. CASE op \in [kind : {"move"}, group : GroupIds, parent : GroupIds \cup {NoParent}]
  <2>1. GroupPlan(op, db, g) = MovePlan(op, db)
    BY <1>3 DEF GroupPlan
  <2>. QED
    BY <1>0, <1>3, <2>1, MoveSettles
<1>4. CASE op \in [kind : {"delete", "deleteOrganization"}, group : GroupIds]
  <2>1. CASE op.kind = "delete"
    <3>1. GroupPlan(op, db, g) = DeletePlan(op, db[op.group]) /\ op.group \in GroupsOf(db)
      BY <2>1 DEF GroupPlan, Accepted
    <3>. QED
      BY <1>0, <3>1, DeleteSettles
  <2>2. CASE op.kind = "deleteOrganization"
    <3>1. GroupPlan(op, db, g) = DeleteOrganizationPlan(op, db)
      BY <2>2 DEF GroupPlan
    <3>. QED
      BY <1>0, <1>4, <3>1, DeleteOrganizationSettles
  <2>. QED
    BY <1>4, <2>1, <2>2
<1>5. CASE op \in [kind : {"login"}, user : Users, groups : SUBSET GroupIds, new : BOOLEAN, sync : BOOLEAN]
  <2>1. /\ GroupPlan(op, db, g) = LoginPlan(op, db[op.user], g) /\ op.user \in UsersOf(db)
        /\ op.groups \in SUBSET GroupsOf(db) /\ Creates(op) = op.new
    BY <1>5 DEF GroupPlan, Accepted, Creates
  <2>. QED
    BY <2>1, LoginSettles
<1>6. CASE op \in [kind : {"editUser", "deleteUser"}, user : Users]
  <2>1. op.user \in UsersOf(db)
    BY <1>6 DEF Accepted
  <2>2. CASE op.kind = "editUser"
    <3>1. GroupPlan(op, db, g) = <<Save(op.user, db[op.user])>>
      BY <2>2 DEF GroupPlan
    <3>2. Leads(<<Save(op.user, db[op.user])>>, db, db)
      BY <2>1, AfterSaveUser, LeadsOne
    <3>. QED
      BY <3>1, <3>2 DEF Settles
  <2>3. CASE op.kind = "deleteUser"
    <3>1. GroupPlan(op, db, g) = LeaveAllPlan(op.user, db[op.user]) \o <<Erase({op.user})>>
      BY <2>3 DEF GroupPlan
    <3>. QED
      BY <1>0, <2>1, <3>1, DeleteUserSettles
  <2>. QED
    BY <1>6, <2>2, <2>3
<1>. QED
  BY <1>1, <1>2, <1>3, <1>4, <1>5, <1>6 DEF GroupOps


-----------------------------------------------------------------------------
(* The requests together.                                                  *)

\* A transaction in progress: what it read agreed, what it has written nobody
\* else has since, it creates no user, and when its steps are done what it
\* sees agrees.
OnCourse(r) ==
    LET s == serving[r]
    IN  /\ Agrees(s.snap) /\ UsersOf(records) \subseteq UsersOf(s.snap)
        /\ \A k \in DOMAIN s.mine : records[k] = s.snap[k]
        /\ \E to \in Documents : /\ Leads(s.todo, Upon(s.mine, s.snap), to) /\ Agrees(to)
                                 /\ GroupsOf(to) \subseteq 1..born
                                 /\ UsersOf(to) \subseteq UsersOf(s.snap)

MirrorInv ==
    /\ IInv
    /\ Agrees(records) /\ GroupsOf(records) \subseteq 1..born
    /\ \A r \in Busy : OnCourse(r)
    /\ \A r, q \in Busy : r # q => DOMAIN serving[r].mine \cap DOMAIN serving[q].mine = {}

\* Transactions that go on as they were.
LEMMA OnCourseStays ==
    ASSUME IInv, NEW r \in Busy, OnCourse(r), serving'[r] = serving[r], born' \in Nat, born <= born',
           UsersOf(records') \subseteq UsersOf(records),
           \A k \in DOMAIN serving[r].mine : records'[k] = records[k]
    PROVE  OnCourse(r)'
<1>1. 1..born \subseteq 1..born'
  BY DEF IInv
<1>2. PICK to \in Documents : /\ Leads(serving[r].todo, Upon(serving[r].mine, serving[r].snap), to) /\ Agrees(to)
                              /\ GroupsOf(to) \subseteq 1..born
                              /\ UsersOf(to) \subseteq UsersOf(serving[r].snap)
  BY DEF OnCourse
<1>3. GroupsOf(to) \subseteq 1..born'
  BY <1>1, <1>2
<1>4. UsersOf(records') \subseteq UsersOf(serving[r].snap)
  BY DEF OnCourse
<1>. QED
  BY <1>2, <1>3, <1>4 DEF OnCourse

LEMMA UponNothing == \A db \in Documents : Upon(Unwritten, db) = db
<1>1. ASSUME NEW db \in Documents PROVE Upon(Unwritten, db) = db
  <2>1. db = [k \in Keys |-> db[k]]
    BY DEF Documents
  <2>. QED
    BY <2>1 DEF Upon, Unwritten
<1>. QED
  BY <1>1

LEMMA MinOf ==
    ASSUME NEW S \in SUBSET Nat, S # {}
    PROVE  Min(S) \in S
<1>1. PICK x \in S : \A y \in S : ~ (<<y, x>> \in OpToRel(<, Nat))
  BY NatLessThanWellFounded, WFMin
<1>2. \A y \in S : ~(y < x)
  BY <1>1, Zenon DEF OpToRel
<1>3. \A y \in S : x <= y
  BY <1>2
<1>. QED
  BY <1>3 DEF Min

LEMMA UnservedApart == \A s \in Record : s # Unserved
<1>1. \A s \in Record : "snap" \in DOMAIN s
  BY DEF Record
<1>2. "snap" \notin DOMAIN Unserved
  BY DEF Unserved
<1>. QED
  BY <1>1, <1>2

LEMMA RequestMirrors ==
    ASSUME MirrorInv, atomic, NEW r \in Servers, NEW op \in GroupOps, Request(r, op)
    PROVE  MirrorInv'
<1>. DEFINE g == born + 1
            plan == GroupPlan(op, records, g)
            new == [op |-> op, snap |-> records, mine |-> Unwritten, indexed |-> FALSE, todo |-> plan]
<1>1. IInv' /\ IInv
  BY RequestKeeps DEF MirrorInv
<1>2. /\ records \in Documents /\ born \in Nat /\ g \in Nat /\ Accepted(op, records)
      /\ Creates(op) => g \in GroupIds
      /\ born' = IF Creates(op) THEN g ELSE born
      /\ serving' = [serving EXCEPT ![r] = new] /\ records' = records
      /\ r \notin Busy
  <2>1. r \in Servers \ Busy
    <3>1. Servers \ Busy # {} /\ Servers \ Busy \in SUBSET Nat
      BY GroupsAssumption DEF Request, Busy, Servers
    <3>. QED
      BY <3>1, MinOf DEF Request
  <2>2. records \in Documents /\ born \in Nat /\ g \in Nat
    BY <1>1 DEF IInv
  <2>3. Creates(op) => g \in GroupIds
    BY <2>2, GroupsAssumption DEF Request, GroupIds
  <2>4. /\ Accepted(op, records) /\ born' = IF Creates(op) THEN g ELSE born
        /\ serving' = [serving EXCEPT ![r] = new] /\ records' = records
    BY DEF Request
  <2>. QED
    BY <2>1, <2>2, <2>3, <2>4
<1>3. born <= born' /\ born' \in Nat
  BY <1>2
<1>4. g \notin GroupsOf(records)
  BY <1>2 DEF MirrorInv
<1>5. Settles(plan, records, IF Creates(op) THEN {g} ELSE {})
  BY <1>2, <1>4, PlanSettles DEF MirrorInv
<1>. HIDE DEF plan
<1>6. serving'[r] = new /\ \A q \in Servers \ {r} : serving'[q] = serving[q]
  BY <1>1, <1>2 DEF IInv
<1>7. new # Unserved /\ Busy' = Busy \cup {r}
  <2>1. new # Unserved
    <3>1. "snap" \in DOMAIN new /\ "snap" \notin DOMAIN Unserved
      BY DEF Unserved
    <3>. QED
      BY <3>1
  <2>. QED
    BY <1>6, <2>1 DEF Busy
<1>8. OnCourse(r)'
  <2>1. PICK to \in Documents : /\ Leads(plan, records, to) /\ Agrees(to)
                                /\ GroupsOf(to) \subseteq GroupsOf(records) \cup (IF Creates(op) THEN {g} ELSE {})
                                /\ UsersOf(to) \subseteq UsersOf(records)
    BY <1>5 DEF Settles
  <2>2. GroupsOf(to) \subseteq 1..born'
    BY <1>2, <2>1 DEF MirrorInv
  <2>3. Upon(Unwritten, records) = records
    BY <1>2, UponNothing
  <2>4. DOMAIN Unwritten = {}
    BY DEF Unwritten
  <2>. QED
    BY <1>2, <1>6, <2>1, <2>2, <2>3, <2>4 DEF OnCourse, MirrorInv
<1>9. ASSUME NEW q \in Busy PROVE OnCourse(q)'
  <2>1. serving'[q] = serving[q] /\ OnCourse(q)
    BY <1>2, <1>6 DEF MirrorInv, Busy
  <2>. QED
    BY <1>1, <1>2, <1>3, <2>1, OnCourseStays
<1>10. ASSUME NEW p \in Busy', NEW q \in Busy', p # q
       PROVE  DOMAIN serving'[p].mine \cap DOMAIN serving'[q].mine = {}
  <2>1. DOMAIN serving'[r].mine = {}
    BY <1>6 DEF Unwritten
  <2>. QED
    BY <1>6, <1>7, <1>10, <2>1 DEF MirrorInv, Busy
<1>11. Agrees(records') /\ GroupsOf(records') \subseteq 1..born'
  BY <1>2, <1>3 DEF MirrorInv
<1>. QED
  BY <1>1, <1>7, <1>8, <1>9, <1>10, <1>11 DEF MirrorInv

LEMMA Reading ==
    ASSUME IInv, NEW r \in Busy
    PROVE  /\ r \in Servers /\ serving[r] \in Record /\ serving[r].mine \in Writes
           /\ serving[r].snap \in Documents /\ serving[r].todo \in Seq(SaneStep)
           /\ Upon(serving[r].mine, serving[r].snap) \in Documents
<1>1. /\ r \in Servers /\ serving[r] \in Record /\ serving[r].mine \in Writes
      /\ serving[r].snap \in Documents /\ serving[r].todo \in Seq(SaneStep)
  BY InProgress DEF Record
<1>. QED
  BY <1>1, MergeType

\* Writing only what changes comes to the same.
LEMMA WrittenAfter ==
    ASSUME NEW s \in SaneStep, s.do \notin {"list", "unlist"}, NEW mine \in Writes, NEW snap \in Documents
    PROVE  LET view == Upon(mine, snap)
           IN  Upon(Upon(Written(s, view), mine), snap) = After(s, view)
<1>. DEFINE view == Upon(mine, snap)
            e == Effect(s, view)
            D == {k \in DOMAIN e : s.do \in {"save", "touch"} \/ e[k] # view[k]}
            new == Written(s, view)
            one == Upon(Upon(new, mine), snap)
            two == After(s, view)
<1>1. view \in Documents
  BY MergeType
<1>2. new = [k \in D |-> e[k]] /\ new \in Writes
  BY <1>1, WrittenType DEF Written, Restrict
<1>3. one \in Documents
  BY <1>2, MergeType
<1>4. two \in Documents /\ \A k \in Keys : two[k] = IF k \in DOMAIN e THEN e[k] ELSE view[k]
  BY <1>1, AfterValue
<1>5. DOMAIN snap = Keys /\ DOMAIN mine \in SUBSET Keys /\ DOMAIN new \in SUBSET Keys
  BY <1>2, WritesElim, DocumentsElim
<1>6. ASSUME NEW k \in Keys PROVE one[k] = two[k]
  <2>. HIDE DEF new, e, one, two
  <2>1. view[k] = IF k \in DOMAIN mine THEN mine[k] ELSE snap[k]
    BY <1>5 DEF Upon
  <2>2. one[k] = IF k \in DOMAIN new THEN new[k] ELSE IF k \in DOMAIN mine THEN mine[k] ELSE snap[k]
    <3>1. one[k] = IF k \in DOMAIN Upon(new, mine) THEN Upon(new, mine)[k] ELSE snap[k]
      BY <1>5 DEF Upon, one
    <3>2. DOMAIN Upon(new, mine) = DOMAIN new \cup DOMAIN mine
      BY DEF Upon
    <3>3. k \in DOMAIN new \cup DOMAIN mine =>
             Upon(new, mine)[k] = IF k \in DOMAIN new THEN new[k] ELSE mine[k]
      BY DEF Upon
    <3>. QED
      BY <3>1, <3>2, <3>3
  <2>. HIDE DEF view
  <2>3. CASE k \in D
    BY <1>2, <1>4, <2>2, <2>3
  <2>4. CASE k \notin D
    BY <1>2, <1>4, <2>1, <2>2, <2>4
  <2>. QED
    BY <2>3, <2>4
<1>. HIDE DEF one, two
<1>7. one = two
  BY <1>3, <1>4, <1>6 DEF Documents
<1>. QED
  BY <1>7 DEF one, two

LEMMA UpdateRecordsMirrors ==
    ASSUME MirrorInv, atomic, NEW r \in Servers, UpdateRecords(r)
    PROVE  MirrorInv'
<1>. DEFINE s == serving[r]
            step == Head(s.todo)
            view == Upon(s.mine, s.snap)
            new == Written(step, view)
<1>1. IInv' /\ IInv
  BY UpdateRecordsKeeps DEF MirrorInv
<1>2. /\ r \in Busy /\ s.todo # <<>> /\ step.do \notin {"list", "unlist"}
      /\ records' = records /\ born' = born
      /\ serving' = [serving EXCEPT ![r].todo = Tail(@), ![r].mine = Upon(new, @)]
      /\ \A k \in DOMAIN new : /\ records[k] = s.snap[k]
                                /\ \A q \in Busy \ {r} : k \notin DOMAIN serving[q].mine
  BY DEF UpdateRecords, Sees, FreeToWrite
<1>3. /\ s \in Record /\ s.mine \in Writes /\ s.snap \in Documents /\ s.todo \in Seq(SaneStep)
      /\ step \in SaneStep
  BY <1>1, <1>2, Reading
<1>4. Upon(Upon(new, s.mine), s.snap) = After(step, view)
  BY <1>2, <1>3, WrittenAfter
<1>. HIDE DEF new, step
<1>5. /\ serving'[r].op = s.op /\ serving'[r].snap = s.snap /\ serving'[r].todo = Tail(s.todo)
      /\ serving'[r].mine = Upon(new, s.mine) /\ "snap" \in DOMAIN serving'[r]
      /\ \A q \in Servers \ {r} : serving'[q] = serving[q]
  BY <1>1, <1>2, <1>3 DEF IInv, Record
<1>6. Busy' = Busy
  <2>1. serving'[r] # Unserved
    BY <1>5 DEF Unserved
  <2>. QED
    BY <1>2, <1>5, <2>1 DEF Busy
<1>7. DOMAIN serving'[r].mine = DOMAIN new \cup DOMAIN s.mine
  BY <1>5 DEF Upon
<1>8. OnCourse(r)'
  <2>1. PICK to \in Documents : /\ Leads(s.todo, view, to) /\ Agrees(to)
                                /\ GroupsOf(to) \subseteq 1..born /\ UsersOf(to) \subseteq UsersOf(s.snap)
    BY <1>2 DEF MirrorInv, OnCourse
  <2>2. Leads(Tail(s.todo), After(step, view), to)
    BY <1>2, <1>3, <2>1, LeadsOn DEF step
  <2>3. \A k \in DOMAIN serving'[r].mine : records'[k] = serving'[r].snap[k]
    <3>1. \A k \in DOMAIN s.mine : records[k] = s.snap[k]
      BY <1>2 DEF MirrorInv, OnCourse
    <3>. QED
      BY <1>2, <1>5, <1>7, <3>1
  <2>4. Agrees(s.snap) /\ UsersOf(records) \subseteq UsersOf(s.snap)
    BY <1>2 DEF MirrorInv, OnCourse
  <2>5. Leads(serving'[r].todo, Upon(serving'[r].mine, serving'[r].snap), to)
    BY <1>4, <1>5, <2>2
  <2>. HIDE DEF s, view
  <2>. QED
    BY <1>2, <1>5, <2>1, <2>3, <2>4, <2>5 DEF OnCourse
<1>9. ASSUME NEW q \in Busy \ {r} PROVE OnCourse(q)'
  <2>1. serving'[q] = serving[q] /\ OnCourse(q)
    BY <1>5 DEF MirrorInv, Busy
  <2>2. born \in Nat /\ born <= born
    BY <1>1 DEF IInv
  <2>. QED
    BY <1>1, <1>2, <2>1, <2>2, OnCourseStays
<1>10. ASSUME NEW p \in Busy, NEW q \in Busy, p # q
       PROVE  DOMAIN serving'[p].mine \cap DOMAIN serving'[q].mine = {}
  <2>1. \A q1 \in Busy \ {r} : /\ serving'[q1] = serving[q1]
                              /\ DOMAIN s.mine \cap DOMAIN serving[q1].mine = {}
    BY <1>2, <1>5 DEF MirrorInv, Busy
  <2>2. \A q1 \in Busy \ {r} : DOMAIN serving'[r].mine \cap DOMAIN serving'[q1].mine = {}
    <3>1. \A q1 \in Busy \ {r} : DOMAIN new \cap DOMAIN serving[q1].mine = {}
      BY <1>2
    <3>. QED
      BY <1>7, <2>1, <3>1
  <2>3. CASE p # r /\ q # r
    BY <1>10, <2>1, <2>3 DEF MirrorInv
  <2>. QED
    BY <1>10, <2>2, <2>3
<1>. QED
  BY <1>1, <1>2, <1>6, <1>8, <1>9, <1>10 DEF MirrorInv

LEMMA UpdateListingMirrors ==
    ASSUME MirrorInv, atomic, NEW r \in Servers, UpdateListing(r)
    PROVE  MirrorInv'
<1>. DEFINE s == serving[r]
            step == Head(s.todo)
            view == Upon(s.mine, s.snap)
<1>1. IInv' /\ IInv
  BY UpdateListingKeeps DEF MirrorInv
<1>2. /\ r \in Busy /\ s.todo # <<>> /\ step.do \in {"list", "unlist"}
      /\ records' = records /\ born' = born
      /\ serving' = [serving EXCEPT ![r].todo = Tail(@), ![r].indexed = TRUE]
  BY DEF UpdateListing
<1>3. s \in Record /\ s.todo \in Seq(SaneStep)
  BY <1>1, <1>2, Reading
<1>5. /\ serving'[r].snap = s.snap /\ serving'[r].todo = Tail(s.todo)
      /\ serving'[r].mine = s.mine /\ "snap" \in DOMAIN serving'[r]
      /\ \A q \in Servers \ {r} : serving'[q] = serving[q]
  BY <1>1, <1>2, <1>3 DEF IInv, Record
<1>6. Busy' = Busy
  <2>1. serving'[r] # Unserved
    BY <1>5 DEF Unserved
  <2>. QED
    BY <1>2, <1>5, <2>1 DEF Busy
<1>8. OnCourse(r)'
  <2>1. PICK to \in Documents : /\ Leads(s.todo, view, to) /\ Agrees(to)
                                /\ GroupsOf(to) \subseteq 1..born /\ UsersOf(to) \subseteq UsersOf(s.snap)
    BY <1>2 DEF MirrorInv, OnCourse
  <2>2. Leads(Tail(s.todo), view, to)
    <3>1. After(step, view) = view
      BY <1>2 DEF After
    <3>. QED
      BY <1>2, <1>3, <2>1, <3>1, LeadsOn
  <2>3. \A k \in DOMAIN s.mine : records[k] = s.snap[k]
    BY <1>2 DEF MirrorInv, OnCourse
  <2>4. Agrees(s.snap) /\ UsersOf(records) \subseteq UsersOf(s.snap)
    BY <1>2 DEF MirrorInv, OnCourse
  <2>. HIDE DEF s
  <2>. QED
    BY <1>2, <1>5, <2>1, <2>2, <2>3, <2>4 DEF OnCourse
<1>9. ASSUME NEW q \in Busy \ {r} PROVE OnCourse(q)'
  <2>1. serving'[q] = serving[q] /\ OnCourse(q)
    BY <1>5 DEF MirrorInv, Busy
  <2>2. born \in Nat /\ born <= born
    BY <1>1 DEF IInv
  <2>. QED
    BY <1>1, <1>2, <2>1, <2>2, OnCourseStays
<1>10. \A q \in Busy : serving'[q].mine = serving[q].mine
  BY <1>5 DEF Busy
<1>. QED
  BY <1>1, <1>2, <1>6, <1>8, <1>9, <1>10 DEF MirrorInv

LEMMA FinishMirrors ==
    ASSUME MirrorInv, atomic, NEW r \in Servers, Finish(r)
    PROVE  MirrorInv'
<1>. DEFINE s == serving[r]
            snap == s.snap
            mine == s.mine
            view == Upon(mine, snap)
            new == Upon(mine, records)
<1>1. IInv' /\ IInv
  BY FinishKeeps DEF MirrorInv
<1>2. /\ r \in Busy /\ s.todo = <<>>
      /\ records' = new /\ born' = born
      /\ serving' = [serving EXCEPT ![r] = Unserved]
  BY DEF Finish
<1>3. /\ mine \in Writes /\ snap \in Documents /\ records \in Documents /\ view \in Documents
      /\ new \in Documents
  BY <1>1, <1>2, Reading DEF IInv
<1>4. /\ Agrees(snap) /\ UsersOf(records) \subseteq UsersOf(snap)
      /\ \A k \in DOMAIN mine : records[k] = snap[k]
      /\ Agrees(records) /\ GroupsOf(records) \subseteq 1..born
  BY <1>2 DEF MirrorInv, OnCourse
<1>5. Agrees(view) /\ GroupsOf(view) \subseteq 1..born /\ UsersOf(view) \subseteq UsersOf(snap)
  BY <1>2, LeadsNowhere DEF MirrorInv, OnCourse
<1>6. /\ \A k \in Keys : view[k] = IF k \in DOMAIN mine THEN mine[k] ELSE snap[k]
      /\ \A k \in Keys : new[k] = IF k \in DOMAIN mine THEN mine[k] ELSE records[k]
  <2>1. DOMAIN mine \cup DOMAIN snap = Keys /\ DOMAIN mine \cup DOMAIN records = Keys
    BY <1>3, WritesElim, DocumentsElim
  <2>. HIDE DEF mine, snap
  <2>. QED
    BY <2>1 DEF Upon
<1>. HIDE DEF s, snap, mine, view, new
<1>7. GroupIds \subseteq Keys /\ Users \subseteq Keys
  BY DEF Keys
<1>8. UsersOf(new) \subseteq UsersOf(records)
  BY <1>4, <1>5, <1>6, <1>7 DEF UsersOf
<1>9. GroupsOf(new) \subseteq 1..born
  BY <1>4, <1>5, <1>6, <1>7 DEF GroupsOf
<1>10. ASSUME NEW u \in UsersOf(new), NEW g \in GroupIds
       PROVE  g \in new[u] <=> g \in GroupsOf(new) /\ u \in new[g].users
  <2>1. u \in Users /\ u \in Keys /\ g \in Keys /\ u \in UsersOf(records) /\ u \in UsersOf(snap) /\ new[u] # Gone
    BY <1>4, <1>7, <1>8 DEF UsersOf
  <2>2. /\ g \in records[u] <=> records[g] # Gone /\ u \in records[g].users
        /\ g \in snap[u] <=> snap[g] # Gone /\ u \in snap[g].users
    BY <1>3, <1>4, <2>1, AgreesAlways DEF GroupsOf
  <2>3. u \in UsersOf(view) => (g \in view[u] <=> view[g] # Gone /\ u \in view[g].users)
    BY <1>3, <1>5, AgreesAlways DEF GroupsOf
  <2>4. view[u] # Gone => u \in UsersOf(view)
    BY <2>1 DEF UsersOf
  <2>5. snap[u] # Gone
    BY <2>1 DEF UsersOf
  <2>6. g \in new[u] <=> new[g] # Gone /\ u \in new[g].users
    <3>1. CASE u \in DOMAIN mine /\ g \in DOMAIN mine
      BY <1>6, <2>1, <2>3, <2>4, <3>1
    <3>2. CASE u \in DOMAIN mine /\ g \notin DOMAIN mine
      BY <1>4, <1>6, <2>1, <2>2, <2>3, <2>4, <3>2
    <3>3. CASE u \notin DOMAIN mine /\ g \in DOMAIN mine
      BY <1>4, <1>6, <2>1, <2>2, <2>3, <2>4, <2>5, <3>3
    <3>4. CASE u \notin DOMAIN mine /\ g \notin DOMAIN mine
      BY <1>6, <2>1, <2>2, <3>4
    <3>. QED
      BY <3>1, <3>2, <3>3, <3>4
  <2>. QED
    BY <2>6 DEF GroupsOf
<1>11. Agrees(new)
  BY <1>3, <1>10, AgreesIf
<1>12. \A q \in Servers \ {r} : serving'[q] = serving[q]
  BY <1>2
<1>13. Busy' = Busy \ {r}
  BY <1>1, <1>2, <1>12 DEF Busy, IInv
<1>14. ASSUME NEW q \in Busy \ {r} PROVE OnCourse(q)'
  <2>1. serving'[q] = serving[q] /\ OnCourse(q) /\ DOMAIN serving[q].mine \cap DOMAIN mine = {}
    BY <1>2, <1>12 DEF MirrorInv, Busy, mine, s
  <2>2. \A k \in DOMAIN serving[q].mine : k \in Keys
    BY <1>1, Reading, WritesElim
  <2>3. \A k \in DOMAIN serving[q].mine : records'[k] = records[k]
    BY <1>2, <1>6, <2>1, <2>2
  <2>4. born \in Nat /\ born <= born
    BY <1>1 DEF IInv
  <2>. QED
    BY <1>1, <1>2, <1>8, <2>1, <2>3, <2>4, OnCourseStays
<1>15. \A q \in Busy \ {r} : serving'[q] = serving[q]
  BY <1>12 DEF Busy
<1>. QED
  BY <1>1, <1>2, <1>9, <1>11, <1>13, <1>14, <1>15 DEF MirrorInv

LEMMA FailRequestMirrors ==
    ASSUME MirrorInv, atomic, NEW r \in Servers, FailRequest(r)
    PROVE  MirrorInv'
<1>1. IInv' /\ IInv
  BY FailRequestKeeps DEF MirrorInv
<1>2. r \in Busy /\ records' = records /\ born' = born /\ serving' = [serving EXCEPT ![r] = Unserved]
  BY DEF FailRequest
<1>3. \A q \in Servers \ {r} : serving'[q] = serving[q]
  BY <1>2
<1>4. Busy' = Busy \ {r}
  BY <1>1, <1>2, <1>3 DEF Busy, IInv
<1>5. ASSUME NEW q \in Busy \ {r} PROVE OnCourse(q)'
  <2>1. serving'[q] = serving[q] /\ OnCourse(q)
    BY <1>3 DEF MirrorInv, Busy
  <2>2. born \in Nat /\ born <= born
    BY <1>1 DEF IInv
  <2>. QED
    BY <1>1, <1>2, <2>1, <2>2, OnCourseStays
<1>6. \A q \in Busy \ {r} : serving'[q] = serving[q]
  BY <1>3 DEF Busy
<1>. QED
  BY <1>1, <1>2, <1>4, <1>5, <1>6 DEF MirrorInv

LEMMA MirrorsInitially ==
    ASSUME GroupsInit
    PROVE  MirrorInv
<1>1. IInv
  BY Initially
<1>2. PICK orgs \in SUBSET (1..born), groupsOf \in [Users -> SUBSET (1..born)] : Holding(orgs, groupsOf)
  BY DEF GroupsInit
<1>. DEFINE doc(g) == GroupDocument(g, g \in orgs, {u \in Users : g \in groupsOf[u]})
<1>3. born \in Nat /\ born <= MaxGroups /\ MaxGroups \in Nat /\ 1..born \subseteq GroupIds /\ GroupIds \in SUBSET Nat
  BY GroupsAssumption DEF GroupsInit, GroupIds
<1>4. /\ \A u \in Users : records[u] = groupsOf[u]
      /\ \A g \in GroupIds : records[g] = IF g > born THEN Gone ELSE doc(g)
  BY <1>2, KeysApart DEF Holding, Upon
<1>5. \A g \in 1..born : doc(g) # Gone /\ doc(g).users = {u \in Users : g \in groupsOf[u]}
  <2>1. ASSUME NEW g \in 1..born PROVE doc(g) \in GroupRecords
    <3>1. g \in GroupIds /\ (g \in orgs) \in BOOLEAN /\ {u \in Users : g \in groupsOf[u]} \in SUBSET Users
      BY <1>3
    <3>. QED
      BY <3>1, AloneShapely
  <2>2. \A g \in 1..born : doc(g) # Gone
    BY <2>1, GroupRecordNotGone
  <2>. QED
    BY <2>2 DEF GroupDocument
<1>. HIDE DEF doc
<1>6. GroupsOf(records) = 1..born
  <2>1. ASSUME NEW g \in GroupIds PROVE records[g] # Gone <=> g \in 1..born
    <3>1. g \in Nat /\ g >= 1
      BY DEF GroupIds
    <3>2. CASE g > born
      BY <1>3, <1>4, <3>1, <3>2
    <3>3. CASE ~(g > born)
      <4>1. g \in 1..born
        BY <1>3, <3>1, <3>3
      <4>. QED
        BY <1>4, <1>5, <3>3, <4>1
    <3>. QED
      BY <3>2, <3>3
  <2>. QED
    BY <1>3, <2>1 DEF GroupsOf
<1>7. Agrees(records)
  <2>1. ASSUME NEW u \in UsersOf(records), NEW g \in GroupIds
        PROVE  g \in records[u] <=> g \in GroupsOf(records) /\ u \in records[g].users
    <3>1. u \in Users /\ groupsOf[u] \subseteq 1..born
      BY DEF UsersOf
    <3>2. g \in 1..born => records[g].users = {v \in Users : g \in groupsOf[v]}
      BY <1>3, <1>4, <1>5
    <3>. QED
      BY <1>4, <1>6, <3>1, <3>2
  <2>. QED
    BY <1>1, <2>1, AgreesIf DEF IInv
<1>8. Busy = {}
  BY <1>2 DEF Holding, Busy
<1>. QED
  BY <1>1, <1>6, <1>7, <1>8 DEF MirrorInv

\* The two sides of every membership agree, whatever requests about a group,
\* its organization and its users meet and wherever they fail, as long as the
\* sessions are transactions.
THEOREM MembershipsAgree == GroupsSpec => []Mirrored
<1>. DEFINE Inv == atomic => MirrorInv
<1>1. GroupsInit => Inv
  BY MirrorsInitially
<1>2. ASSUME Inv, [GroupsNext]_groupVars PROVE Inv'
  <2>1. atomic' = atomic
    BY <1>2 DEF GroupsNext, groupVars, Request, UpdateRecords, UpdateListing, Finish, FailRequest
  <2>2. ASSUME atomic PROVE MirrorInv'
    <3>0. MirrorInv
      BY <1>2, <2>2
    <3>1. ASSUME NEW r \in Servers, NEW op \in GroupOps, Request(r, op) PROVE MirrorInv'
      BY <2>2, <3>0, <3>1, RequestMirrors
    <3>2. ASSUME NEW r \in Servers, UpdateRecords(r) PROVE MirrorInv'
      BY <2>2, <3>0, <3>2, UpdateRecordsMirrors
    <3>3. ASSUME NEW r \in Servers, UpdateListing(r) PROVE MirrorInv'
      BY <2>2, <3>0, <3>3, UpdateListingMirrors
    <3>4. ASSUME NEW r \in Servers, Finish(r) PROVE MirrorInv'
      BY <2>2, <3>0, <3>4, FinishMirrors
    <3>5. ASSUME NEW r \in Servers, FailRequest(r) PROVE MirrorInv'
      BY <2>2, <3>0, <3>5, FailRequestMirrors
    <3>6. CASE UNCHANGED groupVars
      <4>1. serving' = serving /\ records' = records /\ born' = born
        BY <3>6 DEF groupVars
      <4>. QED
        BY <3>0, <4>1 DEF MirrorInv, IInv, OnCourse, Busy
    <3>. QED
      BY <1>2, <3>1, <3>2, <3>3, <3>4, <3>5, <3>6 DEF GroupsNext
  <2>. QED
    BY <2>1, <2>2
<1>3. Inv => Mirrored
  BY DEF MirrorInv, Agrees, Mirrored
<1>. QED
  BY <1>1, <1>2, <1>3, PTL DEF GroupsSpec

-----------------------------------------------------------------------------
(* The index: what a transaction has yet to tell it, and has told it.      *)

\* What the last step of t lists or unlists.
EndOf(t, do) == IF t # <<>> /\ t[Len(t)].do = do THEN t[Len(t)].of ELSE {}
Does(t, do, g) == \E i \in 1..Len(t) : t[i].do = do /\ t[i].at = g
Erases(t, g) == \E i \in 1..Len(t) : t[i].do = "erase" /\ g \in t[i].of
IndexLast(t) == \A i \in 1..Len(t) : t[i].do \in {"list", "unlist"} => i = Len(t)

\* The steps t of a transaction that read snap and sees view, of which it has
\* written the keys in own, tell the index of g what it makes of g.
TellsOf(t, snap, view, own, syn, g) ==
    LET lists == EndOf(t, "list")
        unlists == EndOf(t, "unlist")
    IN  /\ view[g] # Gone /\ snap[g] = Gone => g \in syn \cup lists
        /\ view[g] = Gone /\ snap[g] # Gone => g \in unlists
        /\ g \in lists => \/ Does(t, "insert", g)
                          \/ view[g] # Gone /\ (g \in own \/ Does(t, "save", g))
        /\ g \in unlists => snap[g] # Gone /\ (view[g] = Gone \/ Erases(t, g))
        /\ Does(t, "insert", g) => snap[g] = Gone /\ g \in syn \cup lists
        /\ Erases(t, g) => g \in unlists

Tells(t, snap, view, own, syn) ==
    IndexLast(t) /\ \A g \in GroupIds : TellsOf(t, snap, view, own, syn, g)

\* Whether g exists is what the index says of it.
Match(g, v) == (g \in listing => v # Gone) /\ (v # Gone => g \in listing \cup synced)

OnIndex(r) ==
    LET s == serving[r]
    IN  IF s.indexed THEN s.todo = <<>>
        ELSE Tells(s.todo, s.snap, Upon(s.mine, s.snap), DOMAIN s.mine, synced)

\* A transaction that has changed the index and is not over.
Ahead(r, g) == serving[r].indexed /\ g \in DOMAIN serving[r].mine

ListInv ==
    /\ listing \subseteq GroupIds
    /\ \A r \in Busy : OnIndex(r)
    /\ ~faulted => \A g \in GroupIds :
          /\ \A r \in Busy : Ahead(r, g) => Match(g, serving[r].mine[g])
          /\ (\A r \in Busy : ~Ahead(r, g)) => Match(g, records[g])

\* Only an insertion and an erasure change which groups there are.
LEMMA ExistsAfter ==
    ASSUME NEW s \in SaneStep, s.do \notin {"list", "unlist"}, NEW db \in Documents, NEW g \in GroupIds
    PROVE  After(s, db)[g] # Gone <=>
              \/ s.do = "insert" /\ s.at = g
              \/ db[g] # Gone /\ ~(s.do = "erase" /\ g \in s.of)
<1>. DEFINE e == Effect(s, db)
            new == After(s, db)[g]
<1>. SUFFICES new # Gone <=>
                 \/ s.do = "insert" /\ s.at = g
                 \/ db[g] # Gone /\ ~(s.do = "erase" /\ g \in s.of)
  OBVIOUS
<1>1. new = IF g \in DOMAIN e THEN e[g] ELSE db[g]
  BY AfterValue DEF Keys
<1>2. \A h \in GroupsOf(db) : h \in GroupIds /\ db[h] # Gone
  BY DEF GroupsOf
<1>3. \A u \in Users : u # g
  BY KeysApart
<1>. HIDE DEF new, e
<1>4. CASE s.do = "insert"
  <2>1. e = [k \in {s.at} |-> s.new]
    BY <1>4 DEF e, Effect
  <2>2. s.new # Gone
    BY <1>4, GroupRecordNotGone DEF SaneStep, GroupStep, UserStep, OtherStep
  <2>. QED
    BY <1>1, <1>4, <2>1, <2>2
<1>5. CASE s.do = "save"
  <2>1. e = [k \in {s.at} \ {k \in {s.at} : db[k] = Gone} |-> s.new]
    BY <1>5 DEF e, Effect
  <2>2. s.new # Gone
    BY <1>5, GroupRecordNotGone, GroupSetNotGone DEF SaneStep, GroupStep, UserStep, OtherStep
  <2>. QED
    BY <1>1, <1>5, <2>1, <2>2
<1>6. CASE s.do = "erase"
  <2>1. e = [k \in s.of |-> Gone]
    BY <1>6 DEF e, Effect
  <2>. QED
    BY <1>1, <1>6, <2>1
<1>7. CASE s.do \in {"touch", "add", "take", "groups"}
  <2>1. DOMAIN e \subseteq Users
    BY <1>7 DEF e, Effect, UsersOf
  <2>. QED
    BY <1>1, <1>3, <1>7, <2>1
<1>8. CASE s.do = "detach"
  <2>1. e = [h \in Descendants(db, s.at) |-> [db[h] EXCEPT !.path = RemoveFirst(@, s.at)]]
    BY <1>8 DEF e, Effect
  <2>2. e \in Writes
    BY EffectType, <1>8 DEF e
  <2>3. g \in DOMAIN e => db[g] # Gone /\ e[g] # Gone
    <3>1. g \in Descendants(db, s.at) => db[g] # Gone
      BY DEF Descendants, Within, GroupsOf
    <3>2. g \in DOMAIN e => e[g] = [db[g] EXCEPT !.path = RemoveFirst(@, s.at)] /\ db[g] \in GroupRecords
      BY <2>1, DocumentsElim DEF Descendants, Within
    <3>3. ASSUME g \in DOMAIN e PROVE e[g] # Gone
      <4>. DEFINE p == RemoveFirst(db[g].path, s.at)
      <4>1. g \in Descendants(db, s.at) /\ s.at \in GroupIds /\ s.at # g
        BY <1>8, <2>1, <3>3 DEF Descendants, SaneStep, GroupStep, UserStep, OtherStep
      <4>2. db[g] \in GroupRecords /\ Shapely(g, db[g]) /\ Contains(db[g].path, s.at)
        BY <4>1, DocumentsElim DEF Descendants, Within
      <4>3. [db[g] EXCEPT !.path = RemoveFirst(@, s.at)] \in GroupRecords
        BY <4>1, <4>2, RemoveShapely
      <4>. QED
        BY <3>2, <3>3, <4>3, GroupRecordNotGone
    <3>. QED
      BY <2>1, <3>1, <3>3
  <2>. QED
    BY <1>1, <1>8, <2>3
<1>9. CASE s.do \in {"join", "leave"}
  <2>1. DOMAIN e = s.of \cap GroupsOf(db)
    BY <1>9 DEF e, Effect
  <2>2. ASSUME g \in DOMAIN e PROVE e[g] # Gone
    <3>1. g \in GroupsOf(db) /\ db[g] \in GroupRecords /\ s.at \in Users
      BY <1>9, <2>1, <2>2, DocumentsElim DEF SaneStep, GroupStep, UserStep, OtherStep
    <3>2. \E us \in SUBSET Users : e[g] = [db[g] EXCEPT !.users = us]
      <4>1. CASE s.do = "join"
        <5>1. e[g] = [db[g] EXCEPT !.users = db[g].users \cup {s.at}]
          BY <2>1, <2>2, <4>1 DEF e, Effect
        <5>2. db[g].users \cup {s.at} \in SUBSET Users
          BY <3>1 DEF GroupRecords
        <5>. QED
          BY <5>1, <5>2
      <4>2. CASE s.do = "leave"
        <5>1. e[g] = [db[g] EXCEPT !.users = db[g].users \ {s.at}]
          BY <2>1, <2>2, <4>2 DEF e, Effect
        <5>2. db[g].users \ {s.at} \in SUBSET Users
          BY <3>1 DEF GroupRecords
        <5>. QED
          BY <5>1, <5>2
      <4>. QED
        BY <1>9, <4>1, <4>2
    <3>3. e[g] \in GroupRecords
      BY <3>1, <3>2 DEF GroupRecords
    <3>. QED
      BY <3>3, GroupRecordNotGone
  <2>. QED
    BY <1>1, <1>2, <1>9, <2>1, <2>2
<1>10. s.do \in {"insert", "save", "erase", "touch", "add", "take", "groups", "detach", "join", "leave"}
  BY DEF SaneStep, GroupStep, UserStep, OtherStep
<1>. QED
  BY <1>4, <1>5, <1>6, <1>7, <1>8, <1>9, <1>10

LEMMA TailSteps ==
    ASSUME NEW t \in Seq(SaneStep), t # <<>>, NEW g
    PROVE  /\ Tail(t) \in Seq(SaneStep)
           /\ \A do : Does(t, do, g) <=> (t[1].do = do /\ t[1].at = g) \/ Does(Tail(t), do, g)
           /\ Erases(t, g) <=> (t[1].do = "erase" /\ g \in t[1].of) \/ Erases(Tail(t), g)
<1>. DEFINE u == Tail(t)
            n == Len(t)
<1>1. /\ u \in Seq(SaneStep) /\ n \in Nat /\ n >= 1 /\ Len(u) = n - 1
      /\ \A i \in 1..(n - 1) : u[i] = t[i + 1]
  OBVIOUS
<1>. HIDE DEF u, n
<1>2. \A i \in 2..n : i - 1 \in 1..Len(u) /\ u[i - 1] = t[i]
  <2>1. \A i \in 2..n : i - 1 \in 1..(n - 1) /\ (i - 1) + 1 = i
    BY <1>1
  <2>. QED
    BY <1>1, <2>1
<1>3. \A i \in 1..Len(u) : i + 1 \in 1..n /\ u[i] = t[i + 1]
  BY <1>1
<1>4. 1 \in 1..n /\ 1..n = {1} \cup 2..n
  BY <1>1
<1>5. ASSUME NEW do PROVE Does(t, do, g) <=> (t[1].do = do /\ t[1].at = g) \/ Does(u, do, g)
  <2>1. ASSUME NEW i \in 1..n, t[i].do = do, t[i].at = g, i # 1 PROVE Does(u, do, g)
    BY <1>2, <1>4, <2>1 DEF Does
  <2>2. ASSUME NEW i \in 1..Len(u), u[i].do = do, u[i].at = g PROVE Does(t, do, g)
    BY <1>3, <2>2 DEF Does, n
  <2>. QED
    BY <1>4, <2>1, <2>2 DEF Does, n
<1>6. Erases(t, g) <=> (t[1].do = "erase" /\ g \in t[1].of) \/ Erases(u, g)
  <2>1. ASSUME NEW i \in 1..n, t[i].do = "erase", g \in t[i].of, i # 1 PROVE Erases(u, g)
    BY <1>2, <1>4, <2>1 DEF Erases
  <2>2. ASSUME NEW i \in 1..Len(u), u[i].do = "erase", g \in u[i].of PROVE Erases(t, g)
    BY <1>3, <2>2 DEF Erases, n
  <2>. QED
    BY <1>4, <2>1, <2>2 DEF Erases, n
<1>. QED
  BY <1>1, <1>5, <1>6 DEF u

LEMMA EndStays ==
    ASSUME NEW t \in Seq(SaneStep), t # <<>>, t[1].do \notin {"list", "unlist"}
    PROVE  /\ \A do \in {"list", "unlist"} : EndOf(Tail(t), do) = EndOf(t, do)
           /\ IndexLast(t) => IndexLast(Tail(t))
<1>. DEFINE u == Tail(t)
            n == Len(t)
<1>1. /\ u \in Seq(SaneStep) /\ n \in Nat /\ n >= 1 /\ Len(u) = n - 1
      /\ \A i \in 1..(n - 1) : u[i] = t[i + 1]
  OBVIOUS
<1>. HIDE DEF u, n
<1>2. CASE n = 1
  <2>1. Len(u) = 0 /\ u = <<>>
    BY <1>1, <1>2, EmptySeq
  <2>2. \A do : EndOf(u, do) = {}
    BY <2>1 DEF EndOf
  <2>3. \A do \in {"list", "unlist"} : EndOf(t, do) = {}
    BY <1>2 DEF EndOf, n
  <2>4. IndexLast(u)
    BY <2>1 DEF IndexLast
  <2>. QED
    BY <2>2, <2>3, <2>4 DEF u
<1>3. CASE n > 1
  <2>1. u # <<>> /\ u[Len(u)] = t[n]
    <3>1. Len(u) # 0 /\ Len(u) \in 1..(n - 1) /\ Len(u) + 1 = n
      BY <1>1, <1>3
    <3>. QED
      BY <1>1, <3>1, EmptySeq
  <2>2. \A do : EndOf(u, do) = EndOf(t, do)
    BY <2>1 DEF EndOf, n
  <2>3. IndexLast(t) => IndexLast(u)
    BY <1>1 DEF IndexLast, n
  <2>. QED
    BY <2>2, <2>3 DEF u
<1>. QED
  BY <1>1, <1>2, <1>3

\* A step of a transaction on the documents.
LEMMA TellsOn ==
    ASSUME NEW t \in Seq(SaneStep), t # <<>>, t[1].do \notin {"list", "unlist"},
           NEW snap \in Documents, NEW view \in Documents, NEW own, NEW syn,
           \A k \in Keys : k \notin own => view[k] = snap[k],
           Tells(t, snap, view, own, syn),
           NEW new, new = After(t[1], view), NEW more, own \subseteq more,
           \A k \in Keys : new[k] # view[k] \/ (t[1].do = "save" /\ t[1].at = k /\ view[k] # Gone) => k \in more
    PROVE  Tells(Tail(t), snap, new, more, syn)
<1>. DEFINE s == t[1]
            u == Tail(t)
<1>1. s \in SaneStep
  BY DEF s
<1>2. ASSUME NEW g \in GroupIds PROVE TellsOf(u, snap, new, more, syn, g)
  <2>1. new[g] # Gone <=> \/ s.do = "insert" /\ s.at = g
                          \/ view[g] # Gone /\ ~(s.do = "erase" /\ g \in s.of)
    BY <1>1, ExistsAfter
  <2>2. EndOf(u, "list") = EndOf(t, "list") /\ EndOf(u, "unlist") = EndOf(t, "unlist")
    BY EndStays
  <2>3. /\ Does(t, "insert", g) <=> (s.do = "insert" /\ s.at = g) \/ Does(u, "insert", g)
        /\ Does(t, "save", g) <=> (s.do = "save" /\ s.at = g) \/ Does(u, "save", g)
        /\ Erases(t, g) <=> (s.do = "erase" /\ g \in s.of) \/ Erases(u, g)
    BY TailSteps
  <2>4. TellsOf(t, snap, view, own, syn, g)
    BY DEF Tells
  <2>5. g \in Keys
    BY DEF Keys
  <2>6. g \in EndOf(t, "list") => g \notin EndOf(t, "unlist")
    BY DEF EndOf
  <2>7. /\ view[g] # snap[g] => g \in own
        /\ new[g] # view[g] \/ (s.do = "save" /\ s.at = g /\ view[g] # Gone) => g \in more
    BY <2>5
  <2>. HIDE DEF s, u
  <2>. DEFINE lists == EndOf(t, "list")
              unlists == EndOf(t, "unlist")
  <2>8. /\ view[g] # Gone /\ snap[g] = Gone => g \in syn \cup lists
        /\ view[g] = Gone /\ snap[g] # Gone => g \in unlists
        /\ g \in lists => \/ Does(t, "insert", g)
                          \/ view[g] # Gone /\ (g \in own \/ Does(t, "save", g))
        /\ g \in unlists => snap[g] # Gone /\ (view[g] = Gone \/ Erases(t, g))
        /\ Does(t, "insert", g) => snap[g] = Gone /\ g \in syn \cup lists
        /\ Erases(t, g) => g \in unlists
    BY <2>4 DEF TellsOf
  <2>9. g \in lists => g \notin unlists
    BY <2>6
  <2>. HIDE DEF lists, unlists
  <2>10. new[g] # Gone /\ snap[g] = Gone => g \in syn \cup lists
    BY <2>1, <2>3, <2>8
  <2>11. new[g] = Gone /\ snap[g] # Gone => g \in unlists
    BY <2>1, <2>3, <2>8
  <2>12. ASSUME g \in lists
         PROVE  \/ Does(u, "insert", g)
                \/ new[g] # Gone /\ (g \in more \/ Does(u, "save", g))
    <3>1. ~Erases(t, g)
      BY <2>8, <2>9, <2>12
    <3>2. CASE s.do = "insert" /\ s.at = g
      BY <2>1, <2>3, <2>7, <2>8, <3>2
    <3>3. CASE view[g] # Gone /\ g \in own
      BY <2>1, <2>3, <3>1, <3>3
    <3>4. CASE view[g] # Gone /\ s.do = "save" /\ s.at = g
      BY <2>1, <2>3, <2>7, <3>1, <3>4
    <3>5. CASE view[g] # Gone /\ Does(u, "save", g)
      BY <2>1, <2>3, <3>1, <3>5
    <3>. QED
      BY <2>3, <2>8, <2>12, <3>2, <3>3, <3>4, <3>5
  <2>13. g \in unlists => snap[g] # Gone /\ (new[g] = Gone \/ Erases(u, g))
    BY <2>1, <2>3, <2>8
  <2>14. Does(u, "insert", g) => snap[g] = Gone /\ g \in syn \cup lists
    BY <2>3, <2>8
  <2>15. Erases(u, g) => g \in unlists
    BY <2>3, <2>8
  <2>16. EndOf(u, "list") = lists /\ EndOf(u, "unlist") = unlists
    BY <2>2 DEF lists, unlists
  <2>. QED
    BY <2>10, <2>11, <2>12, <2>13, <2>14, <2>15, <2>16 DEF TellsOf
<1>3. IndexLast(u)
  BY EndStays DEF Tells
<1>. QED
  BY <1>2, <1>3 DEF Tells

-----------------------------------------------------------------------------
(* What the requests tell the index when they begin.                       *)

Begins(t, db, syn) == Tells(t, db, db, {}, syn)

LEMMA CreateBegins ==
    ASSUME NEW op, NEW g \in GroupIds, NEW db, db[g] = Gone, NEW syn
    PROVE  Begins(CreatePlan(op, g), db, syn)
<1>. DEFINE t == CreatePlan(op, g)
<1>1. /\ Len(t) = 3 /\ t[1].do = "insert" /\ t[1].at = g /\ t[2].do = "add"
      /\ t[3].do = "list" /\ t[3].of = {g} /\ t # <<>>
  BY DEF CreatePlan, Insert, AddToUsers, List
<1>. HIDE DEF t
<1>2. EndOf(t, "list") = {g} /\ EndOf(t, "unlist") = {}
  BY <1>1 DEF EndOf
<1>3. \A h : /\ Does(t, "insert", h) <=> h = g
             /\ ~Erases(t, h)
  BY <1>1 DEF Does, Erases
<1>4. IndexLast(t)
  BY <1>1 DEF IndexLast
<1>. QED
  BY <1>2, <1>3, <1>4 DEF Begins, Tells, TellsOf, t

LEMMA EditBegins ==
    ASSUME NEW op, op.group \in GroupIds, NEW db, db[op.group] # Gone, NEW syn
    PROVE  Begins(EditPlan(op, db[op.group]), db, syn)
<1>. DEFINE t == EditPlan(op, db[op.group])
<1>1. /\ Len(t) = 4 /\ t[1].do = "add" /\ t[2].do = "take" /\ t[3].do = "save" /\ t[3].at = op.group
      /\ t[4].do = "list" /\ t[4].of = {op.group} /\ t # <<>>
  BY DEF EditPlan, TakeFromUsers, AddToUsers, List, Save
<1>. HIDE DEF t
<1>2. EndOf(t, "list") = {op.group} /\ EndOf(t, "unlist") = {}
  BY <1>1 DEF EndOf
<1>3. \A h : ~Does(t, "insert", h) /\ ~Erases(t, h)
  BY <1>1 DEF Does, Erases
<1>4. Does(t, "save", op.group)
  BY <1>1 DEF Does
<1>5. IndexLast(t)
  BY <1>1 DEF IndexLast
<1>. QED
  BY <1>2, <1>3, <1>4, <1>5 DEF Begins, Tells, TellsOf, t

LEMMA MoveBegins ==
    ASSUME NEW op, op.group \in GroupIds, NEW db, db[op.group] # Gone, NEW syn
    PROVE  Begins(MovePlan(op, db), db, syn)
<1>. DEFINE t == MovePlan(op, db)
<1>1. CASE op.parent = NoParent
  <2>1. /\ Len(t) = 3 /\ t[1].do = "detach" /\ t[2].do = "save" /\ t[2].at = op.group
        /\ t[3].do = "list" /\ t[3].of = {op.group} /\ t # <<>>
    BY <1>1 DEF MovePlan, Detach, List, Save
  <2>. HIDE DEF t
  <2>2. EndOf(t, "list") = {op.group} /\ EndOf(t, "unlist") = {}
    BY <2>1 DEF EndOf
  <2>3. \A h : ~Does(t, "insert", h) /\ ~Erases(t, h)
    BY <2>1 DEF Does, Erases
  <2>4. Does(t, "save", op.group) /\ IndexLast(t)
    BY <2>1 DEF Does, IndexLast
  <2>. QED
    BY <2>2, <2>3, <2>4 DEF Begins, Tells, TellsOf, t
<1>2. CASE op.parent # NoParent
  <2>1. /\ Len(t) = 2 /\ t[1].do = "save" /\ t[1].at = op.group
        /\ t[2].do = "list" /\ t[2].of = {op.group} /\ t # <<>>
    BY <1>2 DEF MovePlan, List, Save
  <2>. HIDE DEF t
  <2>2. EndOf(t, "list") = {op.group} /\ EndOf(t, "unlist") = {}
    BY <2>1 DEF EndOf
  <2>3. \A h : ~Does(t, "insert", h) /\ ~Erases(t, h)
    BY <2>1 DEF Does, Erases
  <2>4. Does(t, "save", op.group) /\ IndexLast(t)
    BY <2>1 DEF Does, IndexLast
  <2>. QED
    BY <2>2, <2>3, <2>4 DEF Begins, Tells, TellsOf, t
<1>. QED
  BY <1>1, <1>2

LEMMA DeleteBegins ==
    ASSUME NEW op, op.group \in GroupIds, NEW db, db[op.group] # Gone, NEW syn
    PROVE  Begins(DeletePlan(op, db[op.group]), db, syn)
<1>. DEFINE t == DeletePlan(op, db[op.group])
<1>1. /\ Len(t) = 4 /\ t[1].do = "take" /\ t[2].do = "detach" /\ t[3].do = "erase" /\ t[3].of = {op.group}
      /\ t[4].do = "unlist" /\ t[4].of = {op.group} /\ t # <<>>
  BY DEF DeletePlan, TakeFromUsers, Detach, Erase, Unlist
<1>. HIDE DEF t
<1>2. EndOf(t, "unlist") = {op.group} /\ EndOf(t, "list") = {}
  BY <1>1 DEF EndOf
<1>3. \A h : ~Does(t, "insert", h) /\ (Erases(t, h) <=> h = op.group)
  BY <1>1 DEF Does, Erases
<1>4. IndexLast(t)
  BY <1>1 DEF IndexLast
<1>. QED
  BY <1>2, <1>3, <1>4 DEF Begins, Tells, TellsOf, t

LEMMA DeleteOrganizationBegins ==
    ASSUME NEW op, NEW db, NEW syn
    PROVE  Begins(DeleteOrganizationPlan(op, db), db, syn)
<1>. DEFINE t == DeleteOrganizationPlan(op, db)
            doomed == Within(db, op.group)
<1>1. /\ Len(t) = 3 /\ t[1].do = "erase" /\ t[1].of = doomed /\ t[2].do = "take"
      /\ t[3].do = "unlist" /\ t[3].of = doomed /\ t # <<>>
  BY DEF DeleteOrganizationPlan, TakeFromUsers, Erase, Unlist
<1>2. \A h \in doomed : db[h] # Gone
  BY DEF Within, GroupsOf
<1>. HIDE DEF t, doomed
<1>3. EndOf(t, "unlist") = doomed /\ EndOf(t, "list") = {}
  BY <1>1 DEF EndOf
<1>4. \A h : ~Does(t, "insert", h) /\ (Erases(t, h) <=> h \in doomed)
  BY <1>1 DEF Does, Erases
<1>5. IndexLast(t)
  BY <1>1 DEF IndexLast
<1>. QED
  BY <1>2, <1>3, <1>4, <1>5 DEF Begins, Tells, TellsOf, t

\* Steps that leave the index alone.
Unindexed(db, syn) ==
    {s \in SaneStep : /\ s.do \notin {"list", "unlist"}
                      /\ s.do = "erase" => s.of \cap GroupIds = {}
                      /\ s.do = "insert" => s.at \in syn /\ db[s.at] = Gone}

LEMMA UnindexedBegins ==
    ASSUME NEW db, NEW syn, NEW t \in Seq(Unindexed(db, syn))
    PROVE  Begins(t, db, syn)
<1>1. \A i \in 1..Len(t) : t[i] \in Unindexed(db, syn)
  OBVIOUS
<1>2. t # <<>> => Len(t) \in 1..Len(t)
  BY EmptySeq
<1>3. EndOf(t, "list") = {} /\ EndOf(t, "unlist") = {}
  BY <1>1, <1>2 DEF EndOf, Unindexed
<1>4. \A g \in GroupIds : ~Erases(t, g) /\ (Does(t, "insert", g) => g \in syn /\ db[g] = Gone)
  BY <1>1 DEF Erases, Does, Unindexed
<1>5. IndexLast(t)
  BY <1>1 DEF IndexLast, Unindexed
<1>. QED
  BY <1>3, <1>4, <1>5 DEF Begins, Tells, TellsOf

LEMMA LeaveAllUnindexed ==
    ASSUME NEW u \in Users, NEW gs \in SUBSET GroupIds, NEW db, NEW syn
    PROVE  LeaveAllPlan(u, gs) \in Seq(Unindexed(db, syn))
<1>1. LeaveGroups(u, gs) \in SaneStep /\ SetGroups(u, {}) \in SaneStep
  BY UserStepType
<1>2. LeaveGroups(u, gs) \in Unindexed(db, syn) /\ SetGroups(u, {}) \in Unindexed(db, syn)
  BY <1>1 DEF Unindexed, LeaveGroups, SetGroups
<1>. QED
  BY <1>2 DEF LeaveAllPlan

LEMMA LoginUnindexed ==
    ASSUME NEW op, op.user \in Users, op.groups \in SUBSET GroupIds, op.new \in BOOLEAN,
           NEW gs \in SUBSET GroupIds, NEW g, NEW db, NEW syn,
           op.new => g \in GroupIds /\ g \in syn /\ db[g] = Gone
    PROVE  LoginPlan(op, gs, g) \in Seq(Unindexed(db, syn))
<1>. DEFINE u == op.user
            Q == Unindexed(db, syn)
            before == IF op.sync THEN {} ELSE gs
            more == (op.groups \cup (IF op.new THEN {g} ELSE {})) \ before
            s1 == <<Touch(u)>>
            s2 == IF op.sync THEN LeaveAllPlan(u, gs) ELSE <<>>
            s3 == IF op.new THEN <<Insert(g, GroupDocument(g, FALSE, {}))>> ELSE <<>>
            s4 == IF more # {} THEN <<JoinGroups(u, more), SetGroups(u, before \cup more)>> ELSE <<>>
<1>1. more \in SUBSET GroupIds /\ before \cup more \in SUBSET GroupIds
  OBVIOUS
<1>2. s1 \in Seq(Q)
  <2>1. Touch(u) \in SaneStep
    BY UserStepType
  <2>2. Touch(u) \in Unindexed(db, syn)
    BY <2>1 DEF Unindexed, Touch
  <2>. QED
    BY <2>2
<1>3. s2 \in Seq(Q)
  BY LeaveAllUnindexed
<1>4. s3 \in Seq(Q)
  <2>1. CASE op.new
    <3>. DEFINE group == GroupDocument(g, FALSE, {})
    <3>1. g \in GroupIds /\ group \in GroupRecords /\ Shapely(g, group)
      BY <2>1, AloneShapely
    <3>. HIDE DEF group
    <3>2. Insert(g, group) \in SaneStep
      BY <3>1, DocumentStepType
    <3>3. Insert(g, group) \in Unindexed(db, syn)
      BY <2>1, <3>2 DEF Unindexed, Insert
    <3>4. s3 = <<Insert(g, group)>>
      BY <2>1 DEF group
    <3>. HIDE DEF s3
    <3>. QED
      BY <3>3, <3>4
  <2>2. CASE ~op.new
    BY <2>2
  <2>. QED
    BY <2>1, <2>2
<1>5. s4 \in Seq(Q)
  <2>. HIDE DEF more, before
  <2>1. JoinGroups(u, more) \in SaneStep /\ SetGroups(u, before \cup more) \in SaneStep
    BY <1>1, UserStepType
  <2>2. JoinGroups(u, more) \in Unindexed(db, syn) /\ SetGroups(u, before \cup more) \in Unindexed(db, syn)
    BY <2>1 DEF Unindexed, JoinGroups, SetGroups
  <2>. QED
    BY <2>2
<1>6. LoginPlan(op, gs, g) = s1 \o s2 \o s3 \o s4
  BY DEF LoginPlan
<1>. HIDE DEF s1, s2, s3, s4, Q
<1>7. s1 \o s2 \o s3 \o s4 \in Seq(Q)
  BY <1>2, <1>3, <1>4, <1>5, ConcatProperties
<1>. QED
  BY <1>6, <1>7 DEF Q

LEMMA PlanBegins ==
    ASSUME NEW op \in GroupOps, NEW db \in Documents, Accepted(op, db),
           NEW g, NEW syn, Creates(op) => g \in GroupIds /\ db[g] = Gone,
           Creates(op) /\ op.kind = "login" => g \in syn
    PROVE  Begins(GroupPlan(op, db, g), db, syn)
<1>0. \A h \in GroupsOf(db) : h \in GroupIds /\ db[h] # Gone
  BY DEF GroupsOf
<1>1. CASE op.kind = "create"
  <2>1. GroupPlan(op, db, g) = CreatePlan(op, g) /\ g \in GroupIds /\ db[g] = Gone
    BY <1>1 DEF GroupPlan, Creates
  <2>. QED
    BY <2>1, CreateBegins
<1>2. CASE op.kind = "edit"
  <2>1. GroupPlan(op, db, g) = EditPlan(op, db[op.group]) /\ op.group \in GroupsOf(db)
    BY <1>2 DEF GroupPlan, Accepted
  <2>. QED
    BY <1>0, <2>1, EditBegins
<1>3. CASE op.kind = "move"
  <2>1. GroupPlan(op, db, g) = MovePlan(op, db) /\ op.group \in GroupsOf(db)
    BY <1>3 DEF GroupPlan, Accepted
  <2>. QED
    BY <1>0, <2>1, MoveBegins
<1>4. CASE op.kind = "delete"
  <2>1. GroupPlan(op, db, g) = DeletePlan(op, db[op.group]) /\ op.group \in GroupsOf(db)
    BY <1>4 DEF GroupPlan, Accepted
  <2>. QED
    BY <1>0, <2>1, DeleteBegins
<1>5. CASE op.kind = "deleteOrganization"
  <2>1. GroupPlan(op, db, g) = DeleteOrganizationPlan(op, db)
    BY <1>5 DEF GroupPlan
  <2>. QED
    BY <2>1, DeleteOrganizationBegins
<1>6. CASE op.kind = "login"
  <2>1. GroupPlan(op, db, g) = LoginPlan(op, db[op.user], g) /\ op.user \in UsersOf(db)
    BY <1>6 DEF GroupPlan, Accepted
  <2>2. op.user \in Users /\ db[op.user] \in SUBSET GroupIds
    BY <2>1, DocumentsElim
  <2>3. op.groups \in SUBSET GroupIds /\ op.new \in BOOLEAN
    BY <1>6 DEF GroupOps
  <2>4. op.new => g \in GroupIds /\ g \in syn /\ db[g] = Gone
    BY <1>6 DEF Creates
  <2>5. LoginPlan(op, db[op.user], g) \in Seq(Unindexed(db, syn))
    BY <2>2, <2>3, <2>4, LoginUnindexed
  <2>. QED
    BY <2>1, <2>5, UnindexedBegins
<1>7. CASE op.kind \in {"editUser", "deleteUser"}
  <2>1. op.user \in UsersOf(db)
    BY <1>7 DEF Accepted
  <2>2. op.user \in Users /\ db[op.user] \in SUBSET GroupIds /\ {op.user} \in SUBSET Keys
    BY <2>1, DocumentsElim DEF Keys
  <2>3. CASE op.kind = "editUser"
    <3>1. GroupPlan(op, db, g) = <<Save(op.user, db[op.user])>>
      BY <2>3 DEF GroupPlan
    <3>2. Save(op.user, db[op.user]) \in SaneStep
      BY <2>2, UserStepType
    <3>3. Save(op.user, db[op.user]) \in Unindexed(db, syn)
      BY <3>2 DEF Unindexed, Save
    <3>4. <<Save(op.user, db[op.user])>> \in Seq(Unindexed(db, syn))
      BY <3>3
    <3>. QED
      BY <3>1, <3>4, UnindexedBegins
  <2>4. CASE op.kind = "deleteUser"
    <3>. DEFINE last == <<Erase({op.user})>>
    <3>1. GroupPlan(op, db, g) = LeaveAllPlan(op.user, db[op.user]) \o last
      BY <2>4 DEF GroupPlan
    <3>2. Erase({op.user}) \in SaneStep
      BY <2>2, EraseStepType
    <3>3. Erase({op.user}) \in Unindexed(db, syn)
      BY <2>2, <3>2, KeysApart DEF Unindexed, Erase
    <3>4. last \in Seq(Unindexed(db, syn)) /\ LeaveAllPlan(op.user, db[op.user]) \in Seq(Unindexed(db, syn))
      BY <2>2, <3>3, LeaveAllUnindexed
    <3>. HIDE DEF last
    <3>5. LeaveAllPlan(op.user, db[op.user]) \o last \in Seq(Unindexed(db, syn))
      BY <3>4, ConcatProperties
    <3>. QED
      BY <3>1, <3>5, UnindexedBegins
  <2>. QED
    BY <1>7, <2>3, <2>4
<1>8. op.kind \in {"create", "edit", "move", "delete", "deleteOrganization", "login", "editUser", "deleteUser"}
  BY DEF GroupOps
<1>. QED
  BY <1>1, <1>2, <1>3, <1>4, <1>5, <1>6, <1>7, <1>8

-----------------------------------------------------------------------------
(* The index and the requests together.                                    *)

\* More groups that a login created.
LEMMA TellsMore ==
    ASSUME NEW t, NEW snap, NEW view, NEW own, NEW syn, NEW more, syn \subseteq more,
           Tells(t, snap, view, own, syn)
    PROVE  Tells(t, snap, view, own, more)
BY DEF Tells, TellsOf

LEMMA RequestLists ==
    ASSUME MirrorInv, ListInv, atomic, NEW r \in Servers, NEW op \in GroupOps, Request(r, op)
    PROVE  ListInv'
<1>. DEFINE g == born + 1
            plan == GroupPlan(op, records, g)
            new == [op |-> op, snap |-> records, mine |-> Unwritten, indexed |-> FALSE, todo |-> plan]
<1>1. IInv /\ IInv'
  BY RequestKeeps DEF MirrorInv
<1>2. /\ records \in Documents /\ born \in Nat /\ Accepted(op, records)
      /\ Creates(op) => g \in GroupIds
      /\ serving' = [serving EXCEPT ![r] = new] /\ records' = records
      /\ listing' = listing /\ faulted' = faulted
      /\ synced' = IF Creates(op) /\ op.kind = "login" THEN synced \cup {g} ELSE synced
      /\ r \notin Busy
  <2>1. r \in Servers \ Busy
    <3>1. Servers \ Busy # {} /\ Servers \ Busy \in SUBSET Nat
      BY GroupsAssumption DEF Request, Busy, Servers
    <3>. QED
      BY <3>1, MinOf DEF Request
  <2>2. records \in Documents /\ born \in Nat
    BY <1>1 DEF IInv
  <2>3. Creates(op) => g \in GroupIds
    BY <2>2, GroupsAssumption DEF Request, GroupIds
  <2>. QED
    BY <2>1, <2>2, <2>3 DEF Request
<1>3. records[g] = Gone \/ g \notin GroupIds
  <2>1. g \notin GroupsOf(records)
    BY <1>2 DEF MirrorInv
  <2>. QED
    BY <2>1 DEF GroupsOf
<1>4. Begins(plan, records, synced')
  <2>1. Creates(op) => g \in GroupIds /\ records[g] = Gone
    BY <1>2, <1>3
  <2>2. Creates(op) /\ op.kind = "login" => g \in synced'
    BY <1>2
  <2>. HIDE DEF g
  <2>. QED
    BY <1>2, <2>1, <2>2, PlanBegins DEF plan
<1>. HIDE DEF plan, g
<1>5. serving'[r] = new /\ \A q \in Servers \ {r} : serving'[q] = serving[q]
  BY <1>1, <1>2 DEF IInv
<1>6. Busy' = Busy \cup {r}
  <2>1. new # Unserved
    <3>1. "snap" \in DOMAIN new /\ "snap" \notin DOMAIN Unserved
      BY DEF Unserved
    <3>. QED
      BY <3>1
  <2>. QED
    BY <1>5, <2>1 DEF Busy
<1>7. synced \subseteq synced'
  BY <1>2
<1>8. OnIndex(r)'
  <2>1. Upon(Unwritten, records) = records /\ DOMAIN Unwritten = {}
    BY <1>2, UponNothing DEF Unwritten
  <2>. QED
    BY <1>4, <1>5, <2>1 DEF OnIndex, Begins
<1>9. ASSUME NEW q \in Busy PROVE OnIndex(q)'
  <2>1. serving'[q] = serving[q] /\ OnIndex(q)
    BY <1>2, <1>5 DEF ListInv, Busy
  <2>. QED
    BY <1>7, <2>1, TellsMore DEF OnIndex
<1>10. \A h : /\ ~Ahead(r, h)'
              /\ \A q \in Busy : Ahead(q, h)' <=> Ahead(q, h)
  BY <1>2, <1>5 DEF Ahead, Busy
<1>11. \A h, v : Match(h, v) => (h \in listing' => v # Gone) /\ (v # Gone => h \in listing' \cup synced')
  BY <1>2, <1>7 DEF Match
<1>12. ASSUME ~faulted', NEW h \in GroupIds
       PROVE  /\ \A q \in Busy' : Ahead(q, h)' => Match(h, serving[q].mine[h])'
              /\ (\A q \in Busy' : ~Ahead(q, h)') => Match(h, records[h])'
  <2>1. /\ \A q \in Busy : Ahead(q, h) => Match(h, serving[q].mine[h])
        /\ (\A q \in Busy : ~Ahead(q, h)) => Match(h, records[h])
    BY <1>2, <1>12 DEF ListInv
  <2>2. \A q \in Busy : serving'[q] = serving[q]
    BY <1>2, <1>5 DEF Busy
  <2>. QED
    BY <1>2, <1>6, <1>10, <1>11, <2>1, <2>2 DEF Match
<1>. QED
  BY <1>2, <1>6, <1>8, <1>9, <1>12 DEF ListInv

LEMMA UpdateRecordsLists ==
    ASSUME MirrorInv, ListInv, atomic, NEW r \in Servers, UpdateRecords(r)
    PROVE  ListInv'
<1>. DEFINE s == serving[r]
            step == Head(s.todo)
            view == Upon(s.mine, s.snap)
            new == Written(step, view)
<1>1. IInv' /\ IInv
  BY UpdateRecordsKeeps DEF MirrorInv
<1>2. /\ r \in Busy /\ s.todo # <<>> /\ step.do \notin {"list", "unlist"}
      /\ records' = records /\ listing' = listing /\ synced' = synced /\ faulted' = faulted
      /\ serving' = [serving EXCEPT ![r].todo = Tail(@), ![r].mine = Upon(new, @)]
  BY DEF UpdateRecords, Sees
<1>3. /\ s \in Record /\ s.mine \in Writes /\ s.snap \in Documents /\ s.todo \in Seq(SaneStep)
      /\ view \in Documents
  BY <1>1, <1>2, Reading
<1>4. step = s.todo[1] /\ step \in SaneStep
  BY <1>2, <1>3
<1>5. Upon(Upon(new, s.mine), s.snap) = After(step, view)
  BY <1>2, <1>3, <1>4, WrittenAfter
<1>6. ~s.indexed /\ Tells(s.todo, s.snap, view, DOMAIN s.mine, synced)
  BY <1>2 DEF ListInv, OnIndex
<1>7. \A k \in Keys : k \notin DOMAIN s.mine => view[k] = s.snap[k]
  <2>1. DOMAIN s.snap = Keys
    BY <1>3, DocumentsElim
  <2>. HIDE DEF s
  <2>. QED
    BY <2>1 DEF Upon
<1>8. \A k \in Keys : After(step, view)[k] # view[k] \/ (step.do = "save" /\ step.at = k /\ view[k] # Gone)
                         => k \in DOMAIN new
  <2>. DEFINE e == Effect(step, view)
  <2>1. DOMAIN new = {k \in DOMAIN e : step.do \in {"save", "touch"} \/ e[k] # view[k]}
    BY DEF Written, Restrict
  <2>2. \A k \in Keys : After(step, view)[k] = IF k \in DOMAIN e THEN e[k] ELSE view[k]
    BY <1>2, <1>3, <1>4, AfterValue
  <2>3. step.do = "save" /\ view[step.at] # Gone => step.at \in DOMAIN e
    <3>. HIDE DEF step, view
    <3>. QED
      BY DEF Effect
  <2>. HIDE DEF e, step, view, new
  <2>. QED
    BY <2>1, <2>2, <2>3
<1>9. Tells(Tail(s.todo), s.snap, After(step, view), DOMAIN s.mine \cup DOMAIN new, synced)
  <2>. DEFINE two == After(step, view)
              own == DOMAIN s.mine
              more == own \cup DOMAIN new
              t == s.todo
              snap == s.snap
  <2>1. /\ t \in Seq(SaneStep) /\ t # <<>> /\ t[1].do \notin {"list", "unlist"} /\ snap \in Documents
        /\ own \subseteq more /\ two = After(t[1], view)
    BY <1>2, <1>3, <1>4
  <2>2. \A k \in Keys : two[k] # view[k] \/ (t[1].do = "save" /\ t[1].at = k /\ view[k] # Gone) => k \in more
    BY <1>4, <1>8
  <2>3. Tells(t, snap, view, own, synced) /\ \A k \in Keys : k \notin own => view[k] = snap[k]
    BY <1>6, <1>7
  <2>. HIDE DEF two, own, more, t, snap, view
  <2>4. Tells(Tail(t), snap, two, more, synced)
    BY <1>3, <2>1, <2>2, <2>3, TellsOn
  <2>. QED
    BY <2>4 DEF two, own, more, t, snap
<1>. HIDE DEF new, step
<1>10. /\ serving'[r].snap = s.snap /\ serving'[r].todo = Tail(s.todo) /\ serving'[r].indexed = s.indexed
       /\ serving'[r].mine = Upon(new, s.mine) /\ "snap" \in DOMAIN serving'[r]
       /\ \A q \in Servers \ {r} : serving'[q] = serving[q]
  BY <1>1, <1>2, <1>3 DEF IInv, Record
<1>11. Busy' = Busy
  <2>1. serving'[r] # Unserved
    BY <1>10 DEF Unserved
  <2>. QED
    BY <1>2, <1>10, <2>1 DEF Busy
<1>12. OnIndex(r)'
  <2>1. DOMAIN Upon(new, s.mine) = DOMAIN s.mine \cup DOMAIN new
    BY DEF Upon
  <2>2. Tells(serving'[r].todo, serving'[r].snap, Upon(serving'[r].mine, serving'[r].snap), DOMAIN serving'[r].mine, synced')
    BY <1>2, <1>5, <1>9, <1>10, <2>1
  <2>3. ~serving'[r].indexed
    BY <1>6, <1>10
  <2>. QED
    BY <2>2, <2>3 DEF OnIndex
<1>13. ASSUME NEW q \in Busy \ {r} PROVE OnIndex(q)'
  <2>1. serving'[q] = serving[q] /\ OnIndex(q)
    BY <1>10 DEF ListInv, Busy
  <2>. QED
    BY <1>2, <2>1 DEF OnIndex
<1>14. \A h : /\ ~Ahead(r, h) /\ ~Ahead(r, h)'
              /\ \A q \in Busy \ {r} : serving'[q] = serving[q] /\ (Ahead(q, h)' <=> Ahead(q, h))
  BY <1>6, <1>10 DEF Ahead, Busy
<1>15. ASSUME ~faulted', NEW h \in GroupIds
       PROVE  /\ \A q \in Busy' : Ahead(q, h)' => Match(h, serving[q].mine[h])'
              /\ (\A q \in Busy' : ~Ahead(q, h)') => Match(h, records[h])'
  <2>1. /\ \A q \in Busy : Ahead(q, h) => Match(h, serving[q].mine[h])
        /\ (\A q \in Busy : ~Ahead(q, h)) => Match(h, records[h])
    BY <1>2, <1>15 DEF ListInv
  <2>2. ASSUME NEW q \in Busy, Ahead(q, h)' PROVE q # r /\ Ahead(q, h) /\ serving'[q] = serving[q]
    BY <1>14, <2>2
  <2>3. ASSUME \A q \in Busy : ~Ahead(q, h)' PROVE \A q \in Busy : ~Ahead(q, h)
    BY <1>14, <2>3
  <2>4. listing' = listing /\ records' = records /\ synced' = synced
    BY <1>2
  <2>. QED
    BY <1>11, <2>1, <2>2, <2>3, <2>4 DEF Match
<1>. QED
  BY <1>2, <1>11, <1>12, <1>13, <1>15 DEF ListInv

LEMMA UpdateListingLists ==
    ASSUME MirrorInv, ListInv, atomic, NEW r \in Servers, UpdateListing(r)
    PROVE  ListInv'
<1>. DEFINE s == serving[r]
            step == Head(s.todo)
            view == Upon(s.mine, s.snap)
            lists == EndOf(s.todo, "list")
            unlists == EndOf(s.todo, "unlist")
<1>1. IInv
  BY DEF MirrorInv
<1>2. /\ r \in Busy /\ s.todo # <<>> /\ step.do \in {"list", "unlist"}
      /\ records' = records /\ synced' = synced /\ faulted' = faulted
      /\ serving' = [serving EXCEPT ![r].todo = Tail(@), ![r].indexed = TRUE]
      /\ step.do = "list" => listing' = listing \cup step.of
      /\ step.do = "unlist" => listing' = listing \ step.of
  BY DEF UpdateListing
<1>3. /\ s \in Record /\ s.todo \in Seq(SaneStep) /\ s.snap \in Documents /\ s.mine \in Writes
  BY <1>1, <1>2, Reading
<1>4. ~s.indexed /\ Tells(s.todo, s.snap, view, DOMAIN s.mine, synced)
  BY <1>2 DEF ListInv, OnIndex
<1>5. /\ step = s.todo[1] /\ step \in SaneStep /\ Len(s.todo) = 1 /\ Tail(s.todo) = <<>>
  <2>1. step = s.todo[1] /\ step \in SaneStep /\ Len(s.todo) \in Nat /\ 1 \in 1..Len(s.todo)
    BY <1>2, <1>3, EmptySeq
  <2>2. Len(s.todo) = 1
    BY <1>2, <1>4, <2>1 DEF Tells, IndexLast
  <2>3. Tail(s.todo) \in Seq(SaneStep) /\ Len(Tail(s.todo)) = 0
    <3>. DEFINE t == s.todo
    <3>1. t \in Seq(SaneStep) /\ t # <<>> /\ Len(t) = 1
      BY <1>2, <1>3, <2>2
    <3>. HIDE DEF t
    <3>2. Tail(t) \in Seq(SaneStep) /\ Len(Tail(t)) = 0
      BY <3>1
    <3>. QED
      BY <3>2 DEF t
  <2>. QED
    BY <2>1, <2>2, <2>3, EmptySeq
<1>6. /\ listing' = (listing \cup lists) \ unlists /\ lists \cap unlists = {}
      /\ lists \subseteq GroupIds
  <2>1. step.of \subseteq GroupIds
    BY <1>2, <1>5 DEF SaneStep, GroupStep, UserStep, OtherStep
  <2>2. /\ lists = IF step.do = "list" THEN step.of ELSE {}
        /\ unlists = IF step.do = "unlist" THEN step.of ELSE {}
    BY <1>2, <1>5 DEF EndOf
  <2>. HIDE DEF lists, unlists, step
  <2>. QED
    BY <1>2, <2>1, <2>2
<1>7. ASSUME NEW g \in GroupIds
      PROVE  /\ view[g] # Gone /\ s.snap[g] = Gone => g \in synced \cup lists
             /\ view[g] = Gone /\ s.snap[g] # Gone => g \in unlists
             /\ g \in lists => view[g] # Gone /\ g \in DOMAIN s.mine
             /\ g \in unlists => s.snap[g] # Gone /\ view[g] = Gone
  <2>1. ~Does(s.todo, "insert", g) /\ ~Does(s.todo, "save", g) /\ ~Erases(s.todo, g)
    <3>1. \A i \in 1..Len(s.todo) : s.todo[i].do \in {"list", "unlist"}
      BY <1>2, <1>5
    <3>. QED
      BY <3>1 DEF Does, Erases
  <2>2. TellsOf(s.todo, s.snap, view, DOMAIN s.mine, synced, g)
    BY <1>4 DEF Tells
  <2>. HIDE DEF s, view
  <2>. QED
    BY <2>1, <2>2 DEF TellsOf, lists, unlists
<1>. HIDE DEF step
<1>8. /\ serving'[r].todo = <<>> /\ serving'[r].indexed = TRUE
      /\ serving'[r].mine = s.mine /\ "snap" \in DOMAIN serving'[r]
      /\ \A q \in Servers \ {r} : serving'[q] = serving[q]
  BY <1>1, <1>2, <1>3, <1>5 DEF IInv, Record
<1>9. Busy' = Busy
  <2>1. serving'[r] # Unserved
    BY <1>8 DEF Unserved
  <2>. QED
    BY <1>2, <1>8, <2>1 DEF Busy
<1>10. OnIndex(r)'
  BY <1>8 DEF OnIndex
<1>11. ASSUME NEW q \in Busy \ {r} PROVE OnIndex(q)'
  <2>1. serving'[q] = serving[q] /\ OnIndex(q)
    BY <1>8 DEF ListInv, Busy
  <2>. QED
    BY <1>2, <2>1 DEF OnIndex
<1>12. \A h : /\ ~Ahead(r, h) /\ (Ahead(r, h)' <=> h \in DOMAIN s.mine)
              /\ \A q \in Busy \ {r} : serving'[q] = serving[q] /\ (Ahead(q, h)' <=> Ahead(q, h))
  BY <1>4, <1>8 DEF Ahead, Busy
<1>13. /\ \A k \in DOMAIN s.mine : records[k] = s.snap[k] /\ view[k] = s.mine[k]
       /\ \A k \in Keys : k \notin DOMAIN s.mine => view[k] = s.snap[k]
       /\ \A q \in Busy \ {r} : DOMAIN serving[q].mine \cap DOMAIN s.mine = {}
  <2>1. \A k \in DOMAIN s.mine : records[k] = s.snap[k]
    BY <1>2 DEF MirrorInv, OnCourse
  <2>2. DOMAIN s.snap = Keys
    BY <1>3, DocumentsElim
  <2>3. \A q \in Busy \ {r} : DOMAIN serving[q].mine \cap DOMAIN s.mine = {}
    BY <1>2 DEF MirrorInv
  <2>4. /\ \A k \in DOMAIN s.mine : view[k] = s.mine[k]
        /\ \A k \in Keys : k \notin DOMAIN s.mine => view[k] = s.snap[k]
    <3>. HIDE DEF s
    <3>. QED
      BY <2>2 DEF Upon
  <2>. QED
    BY <2>1, <2>3, <2>4
<1>14. ASSUME ~faulted', NEW h \in GroupIds
       PROVE  /\ \A q \in Busy' : Ahead(q, h)' => Match(h, serving[q].mine[h])'
              /\ (\A q \in Busy' : ~Ahead(q, h)') => Match(h, records[h])'
  <2>1. /\ \A q \in Busy : Ahead(q, h) => Match(h, serving[q].mine[h])
        /\ (\A q \in Busy : ~Ahead(q, h)) => Match(h, records[h])
    BY <1>2, <1>14 DEF ListInv
  <2>2. h \in Keys
    BY DEF Keys
  <2>3. /\ view[h] # Gone /\ s.snap[h] = Gone => h \in synced \cup lists
        /\ view[h] = Gone /\ s.snap[h] # Gone => h \in unlists
        /\ h \in lists => view[h] # Gone /\ h \in DOMAIN s.mine
        /\ h \in unlists => s.snap[h] # Gone /\ view[h] = Gone
    BY <1>7
  <2>. HIDE DEF s, view, lists, unlists
  <2>4. CASE h \in DOMAIN s.mine
    <3>1. \A q \in Busy : ~Ahead(q, h)
      BY <1>12, <1>13, <2>4 DEF Ahead
    <3>2. Match(h, s.snap[h])
      BY <1>13, <2>1, <2>4, <3>1
    <3>3. (h \in listing' => view[h] # Gone) /\ (view[h] # Gone => h \in listing' \cup synced')
      BY <1>2, <1>6, <2>3, <3>2 DEF Match
    <3>4. Match(h, serving[r].mine[h])'
      BY <1>8, <1>13, <2>4, <3>3 DEF Match
    <3>5. Ahead(r, h)' /\ \A q \in Busy \ {r} : ~Ahead(q, h)'
      BY <1>12, <2>4, <3>1
    <3>. QED
      BY <1>2, <1>9, <3>4, <3>5
  <2>5. CASE h \notin DOMAIN s.mine
    <3>1. h \in listing' <=> h \in listing
      BY <1>6, <1>13, <2>2, <2>3, <2>5
    <3>2. ~Ahead(r, h)'
      BY <1>12, <2>5
    <3>. QED
      BY <1>2, <1>9, <1>12, <2>1, <3>1, <3>2 DEF Match
  <2>. QED
    BY <2>4, <2>5
<1>15. listing' \subseteq GroupIds
  BY <1>6 DEF ListInv
<1>. QED
  BY <1>9, <1>10, <1>11, <1>14, <1>15 DEF ListInv

LEMMA FinishLists ==
    ASSUME MirrorInv, ListInv, atomic, NEW r \in Servers, Finish(r)
    PROVE  ListInv'
<1>. DEFINE s == serving[r]
            view == Upon(s.mine, s.snap)
            new == Upon(s.mine, records)
<1>1. IInv
  BY DEF MirrorInv
<1>2. /\ r \in Busy /\ s.todo = <<>> /\ records' = new
      /\ listing' = listing /\ synced' = synced /\ faulted' = faulted
      /\ serving' = [serving EXCEPT ![r] = Unserved]
  BY DEF Finish
<1>3. s.mine \in Writes /\ s.snap \in Documents /\ records \in Documents
  BY <1>1, <1>2, Reading DEF IInv
<1>4. \A q \in Servers \ {r} : serving'[q] = serving[q]
  BY <1>2
<1>5. Busy' = Busy \ {r}
  BY <1>1, <1>2, <1>4 DEF Busy, IInv
<1>6. ASSUME NEW q \in Busy \ {r} PROVE OnIndex(q)'
  <2>1. serving'[q] = serving[q] /\ OnIndex(q)
    BY <1>4 DEF ListInv, Busy
  <2>. QED
    BY <1>2, <2>1 DEF OnIndex
<1>7. \A h : \A q \in Busy \ {r} : serving'[q] = serving[q] /\ (Ahead(q, h)' <=> Ahead(q, h))
  BY <1>4 DEF Ahead, Busy
<1>8. /\ \A k \in DOMAIN s.mine : records[k] = s.snap[k] /\ view[k] = s.mine[k] /\ new[k] = s.mine[k]
      /\ \A k \in Keys : k \notin DOMAIN s.mine => new[k] = records[k]
      /\ \A q \in Busy \ {r} : DOMAIN serving[q].mine \cap DOMAIN s.mine = {}
  <2>1. \A k \in DOMAIN s.mine : records[k] = s.snap[k]
    BY <1>2 DEF MirrorInv, OnCourse
  <2>2. DOMAIN s.snap = Keys /\ DOMAIN records = Keys
    BY <1>3, DocumentsElim
  <2>3. \A q \in Busy \ {r} : DOMAIN serving[q].mine \cap DOMAIN s.mine = {}
    BY <1>2 DEF MirrorInv
  <2>4. /\ \A k \in DOMAIN s.mine : view[k] = s.mine[k] /\ new[k] = s.mine[k]
        /\ \A k \in Keys : k \notin DOMAIN s.mine => new[k] = records[k]
    <3>. HIDE DEF s
    <3>. QED
      BY <2>2 DEF Upon
  <2>. QED
    BY <2>1, <2>3, <2>4
<1>9. ASSUME ~s.indexed, NEW g \in GroupIds
      PROVE  /\ view[g] # Gone /\ s.snap[g] = Gone => g \in synced
             /\ view[g] = Gone => s.snap[g] = Gone
  <2>1. TellsOf(<<>>, s.snap, view, DOMAIN s.mine, synced, g)
    BY <1>2, <1>9 DEF ListInv, OnIndex, Tells
  <2>2. EndOf(<<>>, "list") = {} /\ EndOf(<<>>, "unlist") = {}
    BY DEF EndOf
  <2>. HIDE DEF s, view
  <2>. QED
    BY <2>1, <2>2 DEF TellsOf
<1>10. ASSUME ~faulted', NEW h \in GroupIds
       PROVE  /\ \A q \in Busy' : Ahead(q, h)' => Match(h, serving[q].mine[h])'
              /\ (\A q \in Busy' : ~Ahead(q, h)') => Match(h, records[h])'
  <2>1. /\ \A q \in Busy : Ahead(q, h) => Match(h, serving[q].mine[h])
        /\ (\A q \in Busy : ~Ahead(q, h)) => Match(h, records[h])
    BY <1>2, <1>10 DEF ListInv
  <2>2. h \in Keys
    BY DEF Keys
  <2>3. ~s.indexed => /\ view[h] # Gone /\ s.snap[h] = Gone => h \in synced
                      /\ view[h] = Gone => s.snap[h] = Gone
    BY <1>9
  <2>. HIDE DEF s, view, new
  <2>4. CASE h \in DOMAIN s.mine
    <3>1. \A q \in Busy \ {r} : ~Ahead(q, h)
      BY <1>8, <2>4 DEF Ahead
    <3>2. Match(h, s.mine[h])
      <4>1. CASE s.indexed
        BY <1>2, <2>1, <2>4, <4>1 DEF Ahead, s
      <4>2. CASE ~s.indexed
        <5>1. ~Ahead(r, h)
          BY <4>2 DEF Ahead, s
        <5>2. Match(h, s.snap[h])
          BY <1>8, <2>1, <2>4, <3>1, <5>1
        <5>. QED
          BY <1>8, <2>3, <2>4, <4>2, <5>2 DEF Match
      <4>. QED
        BY <4>1, <4>2
    <3>3. Match(h, records[h])'
      BY <1>2, <1>8, <2>4, <3>2 DEF Match
    <3>. QED
      BY <1>5, <1>7, <3>1, <3>3
  <2>5. CASE h \notin DOMAIN s.mine
    <3>1. ~Ahead(r, h)
      BY <2>5 DEF Ahead, s
    <3>2. records'[h] = records[h]
      BY <1>2, <1>8, <2>2, <2>5
    <3>. QED
      BY <1>2, <1>5, <1>7, <2>1, <3>1, <3>2 DEF Match
  <2>. QED
    BY <2>4, <2>5
<1>. QED
  BY <1>2, <1>5, <1>6, <1>10 DEF ListInv

LEMMA FailRequestLists ==
    ASSUME MirrorInv, ListInv, atomic, NEW r \in Servers, FailRequest(r)
    PROVE  ListInv'
<1>1. IInv
  BY DEF MirrorInv
<1>2. /\ r \in Busy /\ records' = records /\ synced' = synced /\ listing' \subseteq listing
      /\ serving' = [serving EXCEPT ![r] = Unserved]
      /\ ~faulted' => ~faulted /\ ~serving[r].indexed /\ listing' = listing
  BY DEF FailRequest
<1>3. \A q \in Servers \ {r} : serving'[q] = serving[q]
  BY <1>2
<1>4. Busy' = Busy \ {r}
  BY <1>1, <1>2, <1>3 DEF Busy, IInv
<1>5. ASSUME NEW q \in Busy \ {r} PROVE OnIndex(q)'
  <2>1. serving'[q] = serving[q] /\ OnIndex(q)
    BY <1>3 DEF ListInv, Busy
  <2>. QED
    BY <1>2, <2>1 DEF OnIndex
<1>6. \A h : \A q \in Busy \ {r} : serving'[q] = serving[q] /\ (Ahead(q, h)' <=> Ahead(q, h))
  BY <1>3 DEF Ahead, Busy
<1>7. ASSUME ~faulted', NEW h \in GroupIds
      PROVE  /\ \A q \in Busy' : Ahead(q, h)' => Match(h, serving[q].mine[h])'
             /\ (\A q \in Busy' : ~Ahead(q, h)') => Match(h, records[h])'
  <2>1. /\ \A q \in Busy : Ahead(q, h) => Match(h, serving[q].mine[h])
        /\ (\A q \in Busy : ~Ahead(q, h)) => Match(h, records[h])
    BY <1>2, <1>7 DEF ListInv
  <2>2. ~Ahead(r, h)
    BY <1>2, <1>7 DEF Ahead
  <2>. QED
    BY <1>2, <1>4, <1>6, <1>7, <2>1, <2>2 DEF Match
<1>8. listing' \subseteq GroupIds
  BY <1>2 DEF ListInv
<1>. QED
  BY <1>4, <1>5, <1>7, <1>8 DEF ListInv

LEMMA ListsInitially ==
    ASSUME GroupsInit
    PROVE  ListInv
<1>1. PICK orgs \in SUBSET (1..born), groupsOf \in [Users -> SUBSET (1..born)] : Holding(orgs, groupsOf)
  BY DEF GroupsInit
<1>2. /\ born \in Nat /\ listing = 1..born /\ listing \subseteq GroupIds /\ Busy = {}
  BY <1>1, GroupsAssumption DEF GroupsInit, Holding, GroupIds, Busy
<1>. DEFINE doc(g) == GroupDocument(g, g \in orgs, {u \in Users : g \in groupsOf[u]})
<1>3. \A g \in GroupIds : records[g] = IF g > born THEN Gone ELSE doc(g)
  BY <1>1, KeysApart DEF Holding, Upon
<1>4. \A g \in GroupIds : doc(g) # Gone
  <2>1. ASSUME NEW g \in GroupIds PROVE doc(g) \in GroupRecords
    <3>1. (g \in orgs) \in BOOLEAN /\ {u \in Users : g \in groupsOf[u]} \in SUBSET Users
      OBVIOUS
    <3>. QED
      BY <3>1, AloneShapely
  <2>. QED
    BY <2>1, GroupRecordNotGone
<1>. HIDE DEF doc
<1>5. ASSUME NEW g \in GroupIds PROVE Match(g, records[g])
  <2>1. g \in Nat /\ g >= 1
    BY DEF GroupIds
  <2>2. g \in listing <=> ~(g > born)
    BY <1>2, <2>1
  <2>. QED
    BY <1>3, <1>4, <2>2 DEF Match
<1>. QED
  BY <1>2, <1>5 DEF ListInv

\* With transactions, and as long as no request failed after it changed the
\* index, the index has the groups there are whenever nothing is in progress,
\* whatever requests met meanwhile.
THEOREM GroupsListed == GroupsSpec => []Listed
<1>. DEFINE Inv == atomic => MirrorInv /\ ListInv
<1>1. GroupsInit => Inv
  BY MirrorsInitially, ListsInitially
<1>2. ASSUME Inv, [GroupsNext]_groupVars PROVE Inv'
  <2>1. atomic' = atomic
    BY <1>2 DEF GroupsNext, groupVars, Request, UpdateRecords, UpdateListing, Finish, FailRequest
  <2>2. ASSUME atomic PROVE (MirrorInv /\ ListInv)'
    <3>0. MirrorInv /\ ListInv
      BY <1>2, <2>2
    <3>1. ASSUME NEW r \in Servers, NEW op \in GroupOps, Request(r, op) PROVE (MirrorInv /\ ListInv)'
      BY <2>2, <3>0, <3>1, RequestMirrors, RequestLists
    <3>2. ASSUME NEW r \in Servers, UpdateRecords(r) PROVE (MirrorInv /\ ListInv)'
      BY <2>2, <3>0, <3>2, UpdateRecordsMirrors, UpdateRecordsLists
    <3>3. ASSUME NEW r \in Servers, UpdateListing(r) PROVE (MirrorInv /\ ListInv)'
      BY <2>2, <3>0, <3>3, UpdateListingMirrors, UpdateListingLists
    <3>4. ASSUME NEW r \in Servers, Finish(r) PROVE (MirrorInv /\ ListInv)'
      BY <2>2, <3>0, <3>4, FinishMirrors, FinishLists
    <3>5. ASSUME NEW r \in Servers, FailRequest(r) PROVE (MirrorInv /\ ListInv)'
      BY <2>2, <3>0, <3>5, FailRequestMirrors, FailRequestLists
    <3>6. CASE UNCHANGED groupVars
      <4>1. /\ serving' = serving /\ records' = records /\ born' = born /\ listing' = listing
            /\ synced' = synced /\ faulted' = faulted
        BY <3>6 DEF groupVars
      <4>2. MirrorInv'
        BY <3>0, <4>1 DEF MirrorInv, IInv, OnCourse, Busy
      <4>3. ListInv'
        BY <3>0, <4>1 DEF ListInv, OnIndex, Ahead, Match, Busy
      <4>. QED
        BY <4>2, <4>3
    <3>. QED
      BY <1>2, <3>1, <3>2, <3>3, <3>4, <3>5, <3>6 DEF GroupsNext
  <2>. QED
    BY <2>1, <2>2
<1>3. Inv => Listed
  <2>1. ASSUME Inv, atomic, ~faulted, Busy = {} PROVE listing \subseteq GroupsOf(records) /\ GroupsOf(records) \subseteq listing \cup synced
    BY <2>1 DEF ListInv, Match, GroupsOf
  <2>. QED
    BY <2>1 DEF Listed
<1>. QED
  BY <1>1, <1>2, <1>3, PTL DEF GroupsSpec

-----------------------------------------------------------------------------
(* Who is above whom.  A request that reshapes the hierarchy keeps it      *)
(* sound by itself; the others only add groups that are under nobody and   *)
(* above nobody.                                                           *)

\* The groups that the path of h, in the document v, puts above it.
Above(h, v) == {v.path[i] : i \in 1..Len(v.path)} \ {h}
\* The groups there are, and those their paths tell of.
Named(db) == GroupsOf(db) \cup UNION {Above(h, db[h]) : h \in GroupsOf(db)}
\* Whatever there is above a group is an organization.
UnderOrgs(db) == \A h \in GroupsOf(db) : \A x \in Above(h, db[h]) : x \in GroupsOf(db) => db[x].org

\* The same place in the hierarchy.
Alike(v, w) == v.path = w.path /\ v.org = w.org

SavesGroup(s) == s.do = "save" /\ s.at \in GroupIds
\* The groups that the saves among the steps t put above others.
Brings(t) == UNION {Above(t[i].at, t[i].new) : i \in {j \in 1..Len(t) : SavesGroup(t[j])}}
Meets(t, db) == Named(db) \cup Brings(t)

\* A save that the steps t have yet to do puts a group under organizations,
\* and what it takes out of them is above nobody by then.
ReadyAt(i, t, db) ==
    /\ \A j \in 1..Len(t) : SavesGroup(t[j]) => i = j
    /\ \A x \in Above(t[i].at, t[i].new) : x \in GroupsOf(db) => db[x].org
    /\ \/ t[i].new.org
       \/ \A h \in GroupsOf(db) : t[i].at \notin Above(h, db[h])
       \/ \E j \in 1..(i - 1) : t[j].do = "detach" /\ t[j].at = t[i].at

Ready(t, db) ==
    \A i \in 1..Len(t) : t[i].do # "insert" /\ (SavesGroup(t[i]) => ReadyAt(i, t, db))

\* The groups of new are those of db, or some of G that are under nobody.
Mild(db, new, G) ==
    \A g \in GroupsOf(new) : \/ g \in GroupsOf(db) /\ Alike(new[g], db[g])
                             \/ g \in G /\ new[g].path = <<g>>

LEMMA AboveElim ==
    \A h, v, x : x \in Above(h, v) <=> x # h /\ \E i \in 1..Len(v.path) : v.path[i] = x
BY DEF Above

LEMMA NamedElim ==
    \A db, x : x \in Named(db) <=> x \in GroupsOf(db) \/ \E h \in GroupsOf(db) : x \in Above(h, db[h])
BY DEF Named

LEMMA BringsElim ==
    \A t, x : x \in Brings(t) <=> \E i \in 1..Len(t) : SavesGroup(t[i]) /\ x \in Above(t[i].at, t[i].new)
BY DEF Brings

LEMMA AboveAlike == \A h, v, w : Alike(v, w) => Above(h, v) = Above(h, w)
BY DEF Alike, Above

LEMMA AboveAlone == \A h, v : v.path = <<h>> => Above(h, v) = {}
<1>1. ASSUME NEW h, NEW v, v.path = <<h>>, NEW x, x \in Above(h, v) PROVE FALSE
  <2>1. PICK i \in 1..Len(v.path) : v.path[i] = x /\ x # h
    BY <1>1, AboveElim
  <2>2. i = 1
    BY <1>1, <2>1
  <2>. QED
    BY <1>1, <2>1, <2>2
<1>. QED
  BY <1>1

LEMMA RemovedAbove ==
    ASSUME NEW g \in GroupIds, NEW group \in GroupRecords, Shapely(g, group),
           NEW e \in GroupIds, e # g, Contains(group.path, e),
           NEW new, new = [group EXCEPT !.path = RemoveFirst(@, e)]
    PROVE  Above(g, new) \subseteq Above(g, group) \ {e} /\ new.org = group.org
<1>. DEFINE p == group.path
            n == Len(p)
            q == RemoveFirst(p, e)
<1>1. p \in Seq(GroupIds) /\ n \in Nat
  BY DEF GroupRecords
<1>2. PICK k \in 1..n : /\ p[k] = e /\ k < n /\ q \in Seq(GroupIds) /\ Len(q) = n - 1
                        /\ \A i \in 1..(n - 1) : q[i] = IF i < k THEN p[i] ELSE p[i + 1]
  BY RemovedPath
<1>3. \A i, j \in 1..n : p[i] = p[j] => i = j
  BY DEF Shapely
<1>. HIDE DEF q, n
<1>4. \A i \in 1..Len(q) : q[i] # e /\ \E j \in 1..n : q[i] = p[j]
  <2>1. ASSUME NEW i \in 1..Len(q) PROVE q[i] # e /\ \E j \in 1..n : q[i] = p[j]
    <3>1. CASE i < k
      BY <1>1, <1>2, <1>3, <3>1
    <3>2. CASE ~(i < k)
      <4>1. i \in 1..(n - 1) /\ i + 1 \in 1..n /\ i + 1 # k
        BY <1>1, <1>2, <3>2
      <4>2. q[i] = p[i + 1]
        BY <1>2, <3>2, <4>1
      <4>. QED
        BY <1>2, <1>3, <4>1, <4>2
    <3>. QED
      BY <3>1, <3>2
  <2>. QED
    BY <2>1
<1>5. new.path = q /\ new.org = group.org
  BY DEF GroupRecords, q, p
<1>6. ASSUME NEW x \in Above(g, new) PROVE x \in Above(g, group) \ {e}
  <2>0. x # g /\ \E i \in 1..Len(new.path) : new.path[i] = x
    BY DEF Above
  <2>1. x # g /\ \E i \in 1..Len(q) : q[i] = x
    BY <1>5, <2>0
  <2>2. x # e /\ \E j \in 1..n : p[j] = x
    BY <1>4, <2>1
  <2>. QED
    BY <2>1, <2>2, AboveElim DEF n, p
<1>. QED
  BY <1>5, <1>6

LEMMA AppendAbove ==
    ASSUME NEW g, NEW parent \in GroupRecords, NEW h, NEW new, new.path = Append(parent.path, g)
    PROVE  Above(g, new) \subseteq Above(h, parent) \cup {h}
<1>1. parent.path \in Seq(GroupIds)
  BY DEF GroupRecords
<1>2. ASSUME NEW x \in Above(g, new) PROVE x \in Above(h, parent) \cup {h}
  <2>1. PICK i \in 1..Len(new.path) : new.path[i] = x /\ x # g
    BY AboveElim
  <2>2. i \in 1..Len(parent.path) /\ x = parent.path[i]
    BY <1>1, <2>1
  <2>. QED
    BY <2>2, AboveElim
<1>. QED
  BY <1>2

\* What a step makes of the groups.
GroupsStep(s, db, new) ==
    \A g \in GroupsOf(new) :
        \/ /\ g \in GroupsOf(db) /\ Alike(new[g], db[g])
           /\ s.do = "detach" => s.at \notin Above(g, new[g])
        \/ /\ g \in GroupsOf(db) /\ s.do = "detach" /\ new[g].org = db[g].org
           /\ Above(g, new[g]) \subseteq Above(g, db[g]) \ {s.at}
        \/ s.do = "insert" /\ g = s.at /\ new[g] = s.new
        \/ SavesGroup(s) /\ g = s.at /\ g \in GroupsOf(db) /\ new[g] = s.new

LEMMA GroupsAfter ==
    ASSUME NEW s \in SaneStep, NEW db \in Documents, NEW new, new = After(s, db)
    PROVE  GroupsStep(s, db, new)
<1>. DEFINE e == Effect(s, db)
<1>. SUFFICES ASSUME NEW g \in GroupsOf(new)
              PROVE  \/ /\ g \in GroupsOf(db) /\ Alike(new[g], db[g])
                        /\ s.do = "detach" => s.at \notin Above(g, new[g])
                     \/ /\ g \in GroupsOf(db) /\ s.do = "detach" /\ new[g].org = db[g].org
                        /\ Above(g, new[g]) \subseteq Above(g, db[g]) \ {s.at}
                     \/ s.do = "insert" /\ g = s.at /\ new[g] = s.new
                     \/ SavesGroup(s) /\ g = s.at /\ g \in GroupsOf(db) /\ new[g] = s.new
  BY DEF GroupsStep
<1>0. g \in GroupIds /\ g \in Keys /\ new[g] # Gone
  BY DEF GroupsOf, Keys
<1>1. CASE s.do \in {"list", "unlist"}
  BY <1>1 DEF After, Alike
<1>2. CASE s.do \notin {"list", "unlist"}
  <2>1. new[g] = IF g \in DOMAIN e THEN e[g] ELSE db[g]
    BY <1>0, <1>2, AfterValue
  <2>2. \A u \in Users : u # g
    BY <1>0, KeysApart
  <2>. HIDE DEF e
  <2>3. g \notin DOMAIN e => g \in GroupsOf(db) /\ Alike(new[g], db[g])
    BY <1>0, <2>1 DEF GroupsOf, Alike
  <2>4. CASE s.do = "insert"
    <3>1. e = [k \in {s.at} |-> s.new]
      BY <2>4 DEF e, Effect
    <3>. QED
      BY <2>1, <2>3, <2>4, <3>1
  <2>5. CASE s.do = "save"
    <3>1. e = [k \in {s.at} \ {k \in {s.at} : db[k] = Gone} |-> s.new]
      BY <2>5 DEF e, Effect
    <3>2. CASE g \in DOMAIN e
      BY <1>0, <2>1, <2>5, <3>1, <3>2 DEF GroupsOf, SavesGroup
    <3>. QED
      BY <2>3, <2>5, <3>2
  <2>6. CASE s.do = "erase"
    <3>1. e = [k \in s.of |-> Gone]
      BY <2>6 DEF e, Effect
    <3>. QED
      BY <1>0, <2>1, <2>3, <2>6, <3>1
  <2>7. CASE s.do \in {"touch", "add", "take", "groups"}
    <3>1. DOMAIN e \subseteq Users
      BY <2>7 DEF e, Effect, UsersOf
    <3>. QED
      BY <2>2, <2>3, <2>7, <3>1
  <2>8. CASE s.do = "detach"
    <3>0. s.at \in GroupIds
      BY <2>8 DEF SaneStep, GroupStep, UserStep, OtherStep
    <3>1. e = [h \in Descendants(db, s.at) |-> [db[h] EXCEPT !.path = RemoveFirst(@, s.at)]]
      BY <2>8 DEF e, Effect
    <3>2. CASE g \in DOMAIN e
      <4>1. g \in Descendants(db, s.at) /\ new[g] = [db[g] EXCEPT !.path = RemoveFirst(@, s.at)]
        BY <2>1, <3>1, <3>2
      <4>2. g \in GroupsOf(db) /\ g # s.at /\ Contains(db[g].path, s.at)
        BY <4>1 DEF Descendants, Within
      <4>3. db[g] \in GroupRecords /\ Shapely(g, db[g])
        BY <4>2, DocumentsElim
      <4>4. Above(g, new[g]) \subseteq Above(g, db[g]) \ {s.at} /\ new[g].org = db[g].org
        BY <1>0, <3>0, <4>1, <4>2, <4>3, RemovedAbove
      <4>. QED
        BY <2>8, <4>2, <4>4
    <3>3. CASE g \notin DOMAIN e
      <4>1. g \in GroupsOf(db) /\ Alike(new[g], db[g]) /\ g \notin Descendants(db, s.at) /\ new[g] = db[g]
        BY <2>1, <2>3, <3>1, <3>3
      <4>2. g = s.at \/ ~Contains(db[g].path, s.at)
        BY <4>1 DEF Descendants, Within
      <4>3. s.at \notin Above(g, db[g])
        BY <4>2, AboveElim DEF Contains
      <4>. QED
        BY <4>1, <4>3
    <3>. QED
      BY <3>2, <3>3
  <2>9. CASE s.do \in {"join", "leave"}
    <3>1. DOMAIN e = s.of \cap GroupsOf(db)
      BY <2>9 DEF e, Effect
    <3>2. CASE g \in DOMAIN e
      <4>1. g \in GroupsOf(db) /\ db[g] \in GroupRecords
        BY <3>1, <3>2, DocumentsElim
      <4>2. \E us : e[g] = [db[g] EXCEPT !.users = us]
        <5>1. s.do = "join" => e[g] = [db[g] EXCEPT !.users = db[g].users \cup {s.at}]
          BY <2>9, <3>1, <3>2 DEF e, Effect
        <5>2. s.do = "leave" => e[g] = [db[g] EXCEPT !.users = db[g].users \ {s.at}]
          BY <2>9, <3>1, <3>2 DEF e, Effect
        <5>. QED
          BY <2>9, <5>1, <5>2
      <4>3. e[g].path = db[g].path /\ e[g].org = db[g].org
        BY <4>1, <4>2 DEF GroupRecords
      <4>. QED
        BY <2>1, <2>9, <3>2, <4>1, <4>3 DEF Alike
    <3>. QED
      BY <2>3, <2>9, <3>2
  <2>10. s.do \in {"insert", "save", "erase", "touch", "add", "take", "groups", "detach", "join", "leave"}
    BY <1>2 DEF SaneStep, GroupStep, UserStep, OtherStep
  <2>. QED
    BY <2>4, <2>5, <2>6, <2>7, <2>8, <2>9, <2>10
<1>. QED
  BY <1>1, <1>2

\* What a step of a request that is ready leaves: the rest of it is ready, and
\* it meets nobody new.
LEMMA ReadyOn ==
    ASSUME NEW t \in Seq(SaneStep), t # <<>>, NEW db \in Documents, NEW new, new = After(t[1], db),
           UnderOrgs(db), Ready(t, db)
    PROVE  UnderOrgs(new) /\ Ready(Tail(t), new) /\ Meets(Tail(t), new) \subseteq Meets(t, db)
<1>. DEFINE s == t[1]
            n == Len(t)
            u == Tail(t)
<1>1. /\ s \in SaneStep /\ n \in Nat /\ n >= 1 /\ Len(u) = n - 1
      /\ \A i \in 1..(n - 1) : u[i] = t[i + 1]
  OBVIOUS
<1>2. GroupsStep(s, db, new)
  BY <1>1, GroupsAfter
<1>3. s.do # "insert" /\ (SavesGroup(s) => ReadyAt(1, t, db))
  BY <1>1 DEF Ready
<1>. HIDE DEF s, n, u
<1>4. SavesGroup(s) => /\ \A j \in 2..n : ~SavesGroup(t[j])
                       /\ \A x \in Above(s.at, s.new) : x \in GroupsOf(db) => db[x].org
                       /\ s.new.org \/ \A h \in GroupsOf(db) : s.at \notin Above(h, db[h])
  <2>1. \A j \in 2..n : j \in 1..n /\ j # 1
    BY <1>1
  <2>2. ~ \E j \in 1..(1 - 1) : t[j].do = "detach" /\ t[j].at = t[1].at
    OBVIOUS
  <2>3. t[1] = s
    BY DEF s
  <2>. QED
    BY <1>3, <2>1, <2>2, <2>3 DEF ReadyAt, n
<1>5. ASSUME NEW g \in GroupsOf(new)
      PROVE  /\ g \in GroupsOf(db)
             /\ \/ new[g].org = db[g].org /\ Above(g, new[g]) \subseteq Above(g, db[g])
                \/ SavesGroup(s) /\ g = s.at /\ new[g] = s.new
             /\ s.do = "detach" => s.at \notin Above(g, new[g])
  <2>1. CASE /\ g \in GroupsOf(db) /\ Alike(new[g], db[g])
             /\ s.do = "detach" => s.at \notin Above(g, new[g])
    <3>1. Above(g, new[g]) = Above(g, db[g]) /\ new[g].org = db[g].org
      BY <2>1, AboveAlike DEF Alike
    <3>. QED
      BY <2>1, <3>1
  <2>2. CASE /\ g \in GroupsOf(db) /\ s.do = "detach" /\ new[g].org = db[g].org
             /\ Above(g, new[g]) \subseteq Above(g, db[g]) \ {s.at}
    BY <2>2
  <2>3. CASE SavesGroup(s) /\ g = s.at /\ g \in GroupsOf(db) /\ new[g] = s.new
    BY <2>3 DEF SavesGroup
  <2>. QED
    BY <1>2, <1>3, <2>1, <2>2, <2>3 DEF GroupsStep
<1>6. UnderOrgs(new)
  <2>1. ASSUME NEW h \in GroupsOf(new), NEW x \in Above(h, new[h]), x \in GroupsOf(new) PROVE new[x].org
    <3>1. x # h
      BY <2>1, AboveElim
    <3>2. CASE ~SavesGroup(s)
      BY <1>5, <2>1, <3>2 DEF UnderOrgs
    <3>3. CASE SavesGroup(s) /\ h = s.at /\ new[h] = s.new
      BY <1>4, <1>5, <2>1, <3>1, <3>3
    <3>4. CASE SavesGroup(s) /\ x = s.at /\ new[x] = s.new
      BY <1>4, <1>5, <2>1, <3>1, <3>4
    <3>5. CASE h # s.at /\ x # s.at
      BY <1>5, <2>1, <3>5 DEF UnderOrgs
    <3>. QED
      BY <1>5, <2>1, <3>2, <3>3, <3>4, <3>5 DEF UnderOrgs
  <2>. QED
    BY <2>1 DEF UnderOrgs
<1>7. ASSUME NEW i \in 1..Len(u)
      PROVE  u[i].do # "insert" /\ (SavesGroup(u[i]) => ReadyAt(i, u, new))
  <2>. DEFINE w == t[i + 1]
  <2>1. i + 1 \in 1..n /\ i + 1 \in 2..n /\ u[i] = w /\ i \in Nat
    BY <1>1
  <2>2. w.do # "insert" /\ (SavesGroup(w) => ReadyAt(i + 1, t, db))
    BY <2>1 DEF Ready, n
  <2>3. ASSUME SavesGroup(w) PROVE ReadyAt(i, u, new)
    <3>0. ~SavesGroup(s)
      BY <1>4, <2>1, <2>3
    <3>1. ReadyAt(i + 1, t, db)
      BY <2>2, <2>3
    <3>2. ASSUME NEW j \in 1..Len(u), SavesGroup(u[j]) PROVE i = j
      <4>1. j + 1 \in 1..n /\ u[j] = t[j + 1] /\ j \in Nat
        BY <1>1
      <4>2. i + 1 = j + 1
        BY <3>1, <3>2, <4>1 DEF ReadyAt, n
      <4>. QED
        BY <2>1, <4>1, <4>2
    <3>3. ASSUME NEW x \in Above(w.at, w.new), x \in GroupsOf(new) PROVE new[x].org
      BY <1>5, <3>0, <3>1, <3>3 DEF ReadyAt
    <3>4. \/ w.new.org
          \/ \A h \in GroupsOf(new) : w.at \notin Above(h, new[h])
          \/ \E j \in 1..(i - 1) : u[j].do = "detach" /\ u[j].at = w.at
      <4>1. CASE w.new.org
        BY <4>1
      <4>2. CASE \A h \in GroupsOf(db) : w.at \notin Above(h, db[h])
        BY <1>5, <3>0, <4>2
      <4>3. ASSUME NEW j \in 1..((i + 1) - 1), t[j].do = "detach", t[j].at = w.at
            PROVE  \/ \A h \in GroupsOf(new) : w.at \notin Above(h, new[h])
                   \/ \E k \in 1..(i - 1) : u[k].do = "detach" /\ u[k].at = w.at
        <5>1. CASE j = 1
          BY <1>5, <4>3, <5>1 DEF s
        <5>2. CASE j # 1
          <6>1. j - 1 \in 1..(i - 1) /\ j - 1 \in 1..(n - 1) /\ (j - 1) + 1 = j
            BY <1>1, <2>1, <5>2
          <6>2. u[j - 1] = t[j]
            BY <1>1, <6>1
          <6>. QED
            BY <4>3, <6>1, <6>2
        <5>. QED
          BY <5>1, <5>2
      <4>. QED
        BY <3>1, <4>1, <4>2, <4>3 DEF ReadyAt
    <3>. HIDE DEF w
    <3>. QED
      BY <2>1, <3>2, <3>3, <3>4 DEF ReadyAt
  <2>. QED
    BY <2>1, <2>2, <2>3
<1>8. Ready(u, new)
  BY <1>7 DEF Ready
<1>9. Brings(u) \subseteq Brings(t)
  <2>1. ASSUME NEW x \in Brings(u) PROVE x \in Brings(t)
    <3>1. PICK i \in 1..Len(u) : SavesGroup(u[i]) /\ x \in Above(u[i].at, u[i].new)
      BY BringsElim
    <3>2. i + 1 \in 1..n /\ u[i] = t[i + 1]
      BY <1>1
    <3>. QED
      BY <3>1, <3>2, BringsElim DEF n
  <2>. QED
    BY <2>1
<1>10. Named(new) \subseteq Named(db) \cup Brings(t)
  <2>1. \A x \in GroupsOf(new) : x \in Named(db)
    BY <1>5, NamedElim
  <2>2. ASSUME NEW h \in GroupsOf(new), NEW x \in Above(h, new[h]) PROVE x \in Named(db) \cup Brings(t)
    <3>1. CASE Above(h, new[h]) \subseteq Above(h, db[h])
      BY <1>5, <3>1, NamedElim
    <3>2. CASE SavesGroup(s) /\ h = s.at /\ new[h] = s.new
      <4>1. 1 \in 1..Len(t) /\ t[1] = s
        BY <1>1 DEF n, s
      <4>. QED
        BY <3>2, <4>1, BringsElim
    <3>. QED
      BY <1>5, <3>1, <3>2
  <2>. QED
    BY <2>1, <2>2, NamedElim
<1>. QED
  BY <1>6, <1>8, <1>9, <1>10 DEF Meets, u

LEMMA MildNothing == \A db, G : Mild(db, db, G)
BY DEF Mild, Alike

LEMMA MildOn ==
    ASSUME NEW db, NEW via, NEW new, NEW G, NEW H, Mild(db, via, G), Mild(via, new, H), H \subseteq G
    PROVE  Mild(db, new, G)
BY DEF Mild, Alike

\* A mild change does not concern a request that meets none of the new groups.
LEMMA MildStays ==
    ASSUME NEW db, NEW new, NEW G, NEW t, Mild(db, new, G), UnderOrgs(db), Named(db) \cap G = {}
    PROVE  /\ UnderOrgs(new)
           /\ Named(new) \subseteq Named(db) \cup G
           /\ Ready(t, db) /\ Brings(t) \cap G = {} => Ready(t, new)
<1>1. ASSUME NEW h \in GroupsOf(new), NEW x \in Above(h, new[h])
      PROVE  h \in GroupsOf(db) /\ x \in Above(h, db[h]) /\ x \in Named(db)
  <2>1. new[h].path # <<h>>
    BY <1>1, AboveAlone
  <2>2. h \in GroupsOf(db) /\ Alike(new[h], db[h])
    BY <2>1 DEF Mild
  <2>3. x \in Above(h, db[h])
    BY <2>2, AboveAlike
  <2>. QED
    BY <2>2, <2>3, NamedElim
<1>2. ASSUME NEW x \in GroupsOf(new), x \notin G
      PROVE  x \in GroupsOf(db) /\ new[x].org = db[x].org
  BY <1>2 DEF Mild, Alike
<1>3. UnderOrgs(new)
  <2>1. ASSUME NEW h \in GroupsOf(new), NEW x \in Above(h, new[h]), x \in GroupsOf(new) PROVE new[x].org
    <3>1. x \notin G /\ x \in Above(h, db[h]) /\ h \in GroupsOf(db)
      BY <1>1, <2>1
    <3>. QED
      BY <1>2, <2>1, <3>1 DEF UnderOrgs
  <2>. QED
    BY <2>1 DEF UnderOrgs
<1>4. Named(new) \subseteq Named(db) \cup G
  BY <1>1, <1>2, NamedElim
<1>5. ASSUME Ready(t, db), Brings(t) \cap G = {}, NEW i \in 1..Len(t), SavesGroup(t[i])
      PROVE  ReadyAt(i, t, new)
  <2>1. ReadyAt(i, t, db)
    BY <1>5 DEF Ready
  <2>2. \A x \in Above(t[i].at, t[i].new) : x \in Brings(t)
    BY <1>5, BringsElim
  <2>3. \A x \in Above(t[i].at, t[i].new) : x \in GroupsOf(new) => new[x].org
    BY <1>2, <1>5, <2>1, <2>2 DEF ReadyAt
  <2>4. (\A h \in GroupsOf(db) : t[i].at \notin Above(h, db[h]))
           => \A h \in GroupsOf(new) : t[i].at \notin Above(h, new[h])
    BY <1>1
  <2>. QED
    BY <2>1, <2>3, <2>4 DEF ReadyAt
<1>. QED
  BY <1>3, <1>4, <1>5 DEF Ready

-----------------------------------------------------------------------------
(* The steps of the requests that leave the hierarchy alone.               *)

\* They insert some of gs, under nobody, and save of es what they read.
Calms(db, gs, es) ==
    {s \in SaneStep : /\ s.do # "detach"
                      /\ s.do = "insert" => s.at \in gs /\ s.new.path = <<s.at>> /\ db[s.at] = Gone
                      /\ SavesGroup(s) => s.at \in es /\ db[s.at] # Gone /\ Alike(s.new, db[s.at])}

InsertsOnce(t) == \A i, j \in 1..Len(t) : t[i].do = "insert" /\ t[j].do = "insert" => i = j

LEMMA CalmsMore ==
    ASSUME NEW db, NEW gs, NEW es, NEW hs, NEW fs, gs \subseteq hs, es \subseteq fs,
           NEW t \in Seq(Calms(db, gs, es))
    PROVE  t \in Seq(Calms(db, hs, fs))
<1>1. Calms(db, gs, es) \subseteq Calms(db, hs, fs)
  BY DEF Calms
<1>. HIDE DEF Calms
<1>. QED
  BY <1>1

LEMMA InsertsNone ==
    ASSUME NEW db, NEW es, NEW t \in Seq(Calms(db, {}, es))
    PROVE  InsertsOnce(t) /\ \A i \in 1..Len(t) : t[i].do # "insert"
<1>1. \A i \in 1..Len(t) : t[i] \in Calms(db, {}, es)
  OBVIOUS
<1>2. \A i \in 1..Len(t) : t[i].do # "insert"
  BY <1>1 DEF Calms
<1>. QED
  BY <1>2 DEF InsertsOnce

LEMMA InsertsBetween ==
    ASSUME NEW db, NEW gs, NEW es,
           NEW a \in Seq(Calms(db, {}, es)), NEW b \in Seq(Calms(db, gs, es)), NEW c \in Seq(Calms(db, {}, es)),
           InsertsOnce(b)
    PROVE  a \o b \o c \in Seq(Calms(db, gs, es)) /\ InsertsOnce(a \o b \o c)
<1>. DEFINE S == Calms(db, gs, es)
            t == a \o b \o c
            n == Len(a)
            m == Len(b)
<1>1. a \in Seq(S) /\ b \in Seq(S) /\ c \in Seq(S)
  BY CalmsMore
<1>2. n \in Nat /\ m \in Nat /\ Len(c) \in Nat
  BY <1>1
<1>. HIDE DEF S
<1>3. /\ a \o b \in Seq(S) /\ Len(a \o b) = n + m
      /\ \A i \in 1..(n + m) : (a \o b)[i] = IF i <= n THEN a[i] ELSE b[i - n]
  BY <1>1, ConcatProperties
<1>4. /\ t \in Seq(S) /\ Len(t) = n + m + Len(c)
      /\ \A i \in 1..Len(t) : t[i] = IF i <= n + m THEN (a \o b)[i] ELSE c[i - (n + m)]
  BY <1>1, <1>3, ConcatProperties
<1>5. /\ \A i \in 1..Len(a) : a[i].do # "insert"
      /\ \A i \in 1..Len(c) : c[i].do # "insert"
  BY InsertsNone
<1>6. \A i \in 1..Len(t) : t[i].do = "insert" => i - n \in 1..m /\ t[i] = b[i - n]
  <2>1. ASSUME NEW i \in 1..Len(t), t[i].do = "insert" PROVE i - n \in 1..m /\ t[i] = b[i - n]
    <3>1. CASE i <= n
      <4>1. t[i] = a[i] /\ i \in 1..Len(a)
        BY <1>2, <1>3, <1>4, <3>1
      <4>. QED
        BY <1>5, <2>1, <4>1
    <3>2. CASE i > n /\ i <= n + m
      BY <1>2, <1>3, <1>4, <3>2
    <3>3. CASE i > n + m
      <4>1. t[i] = c[i - (n + m)] /\ i - (n + m) \in 1..Len(c)
        BY <1>2, <1>4, <3>3
      <4>. QED
        BY <1>5, <2>1, <4>1
    <3>. QED
      BY <1>2, <1>4, <3>1, <3>2, <3>3
  <2>. QED
    BY <2>1
<1>7. ASSUME NEW i \in 1..Len(t), NEW j \in 1..Len(t), t[i].do = "insert", t[j].do = "insert" PROVE i = j
  <2>1. i - n \in 1..m /\ b[i - n].do = "insert" /\ j - n \in 1..m /\ b[j - n].do = "insert"
    BY <1>6, <1>7
  <2>2. i - n = j - n
    BY <2>1 DEF InsertsOnce
  <2>3. i \in Nat /\ j \in Nat
    BY <1>2, <1>4
  <2>. QED
    BY <1>2, <2>2, <2>3
<1>. QED
  BY <1>4, <1>7 DEF InsertsOnce, S

LEMMA UserCalms ==
    ASSUME NEW u \in Users, NEW gs \in SUBSET GroupIds, NEW db, NEW hs, NEW es
    PROVE  /\ Save(u, gs) \in Calms(db, hs, es) /\ Touch(u) \in Calms(db, hs, es)
           /\ JoinGroups(u, gs) \in Calms(db, hs, es) /\ LeaveGroups(u, gs) \in Calms(db, hs, es)
           /\ SetGroups(u, gs) \in Calms(db, hs, es)
<1>1. /\ Save(u, gs) \in SaneStep /\ Touch(u) \in SaneStep /\ JoinGroups(u, gs) \in SaneStep
      /\ LeaveGroups(u, gs) \in SaneStep /\ SetGroups(u, gs) \in SaneStep
  BY UserStepType
<1>2. u \notin GroupIds
  BY KeysApart
<1>. QED
  BY <1>1, <1>2 DEF Calms, SavesGroup, Save, Touch, JoinGroups, LeaveGroups, SetGroups

\* A step that neither inserts, saves nor detaches.
LEMMA OtherCalms ==
    ASSUME NEW s \in SaneStep, s.do \notin {"insert", "save", "detach"}, NEW db, NEW hs, NEW es
    PROVE  s \in Calms(db, hs, es)
BY DEF Calms, SavesGroup

LEMMA InsertCalms ==
    ASSUME NEW g \in GroupIds, NEW org \in BOOLEAN, NEW us \in SUBSET Users, NEW db, db[g] = Gone, NEW es
    PROVE  Insert(g, GroupDocument(g, org, us)) \in Calms(db, {g}, es)
<1>. DEFINE group == GroupDocument(g, org, us)
<1>1. group \in GroupRecords /\ Shapely(g, group) /\ group.path = <<g>>
  BY AloneShapely DEF GroupDocument
<1>. HIDE DEF group
<1>2. Insert(g, group) \in SaneStep
  BY <1>1, DocumentStepType
<1>3. Insert(g, group) \in Calms(db, {g}, es)
  BY <1>1, <1>2 DEF Calms, SavesGroup, Insert
<1>. QED
  BY <1>3 DEF group

LEMMA CreateCalm ==
    ASSUME NEW op, op.org \in BOOLEAN, op.users \in SUBSET Users, NEW g \in GroupIds, NEW db, db[g] = Gone
    PROVE  CreatePlan(op, g) \in Seq(Calms(db, {g}, {})) /\ InsertsOnce(CreatePlan(op, g))
<1>. DEFINE S == Calms(db, {g}, {})
            a == Insert(g, GroupDocument(g, op.org, op.users))
            b == AddToUsers(g, op.users)
            c == List(g)
<1>1. a \in S
  BY InsertCalms
<1>2. b \in S /\ c \in S
  <2>1. b \in SaneStep /\ c \in SaneStep
    BY GroupStepType
  <2>2. b.do = "add" /\ c.do = "list"
    BY DEF AddToUsers, List
  <2>. HIDE DEF b, c
  <2>. QED
    BY <2>1, <2>2, OtherCalms
<1>3. b.do # "insert" /\ c.do # "insert"
  BY DEF AddToUsers, List
<1>4. CreatePlan(op, g) = <<a, b, c>>
  BY DEF CreatePlan
<1>. HIDE DEF S, a, b, c
<1>5. <<a, b, c>> \in Seq(S) /\ InsertsOnce(<<a, b, c>>)
  BY <1>1, <1>2, <1>3 DEF InsertsOnce
<1>. QED
  BY <1>4, <1>5 DEF S

LEMMA EditCalm ==
    ASSUME NEW op, op.group \in GroupIds, op.users \in SUBSET Users,
           NEW db \in Documents, op.group \in GroupsOf(db)
    PROVE  EditPlan(op, db[op.group]) \in Seq(Calms(db, {}, GroupIds))
<1>. DEFINE group == db[op.group]
            plan == EditPlan(op, group)
<1>1. group \in GroupRecords /\ Shapely(op.group, group)
  BY DocumentsElim
<1>2. plan \in Seq(SaneStep) /\ Len(plan) = 4
  <2>. HIDE DEF group
  <2>1. plan \in Seq(SaneStep)
    BY <1>1, EditPlanType
  <2>2. Len(plan) = 4
    BY DEF EditPlan
  <2>. QED
    BY <2>1, <2>2
<1>3. /\ plan[1].do = "add" /\ plan[2].do = "take" /\ plan[4].do = "list"
      /\ plan[3] = Save(op.group, [group EXCEPT !.users = op.users])
  BY DEF EditPlan, AddToUsers, TakeFromUsers, List
<1>4. \A i \in 1..4 : plan[i] \in SaneStep
  BY <1>2
<1>5. plan[3] \in Calms(db, {}, GroupIds)
  <2>1. Alike([group EXCEPT !.users = op.users], group)
    BY <1>1 DEF Alike, GroupRecords
  <2>2. plan[3] \in SaneStep
    BY <1>4
  <2>3. plan[3].do = "save" /\ plan[3].at = op.group /\ plan[3].new = [group EXCEPT !.users = op.users]
    BY <1>3 DEF Save
  <2>4. db[op.group] # Gone
    BY DEF GroupsOf
  <2>. HIDE DEF plan
  <2>. QED
    BY <2>1, <2>2, <2>3, <2>4 DEF Calms
<1>. HIDE DEF plan
<1>6. \A i \in 1..Len(plan) : plan[i] \in Calms(db, {}, GroupIds)
  BY <1>2, <1>3, <1>4, <1>5, OtherCalms
<1>7. plan \in Seq(Calms(db, {}, GroupIds))
  <2>. DEFINE T == Calms(db, {}, GroupIds)
  <2>1. plan \in Seq(SaneStep) /\ \A i \in 1..Len(plan) : plan[i] \in T
    BY <1>2, <1>6
  <2>. HIDE DEF T
  <2>2. plan \in Seq(T)
    BY <2>1
  <2>. QED
    BY <2>2 DEF T
<1>. QED
  BY <1>7 DEF plan

LEMMA DeleteOrganizationCalm ==
    ASSUME NEW op, op.group \in GroupIds, NEW db \in Documents
    PROVE  DeleteOrganizationPlan(op, db) \in Seq(Calms(db, {}, {}))
<1>. DEFINE plan == DeleteOrganizationPlan(op, db)
<1>1. plan \in Seq(SaneStep)
  BY DeleteOrganizationPlanType
<1>2. Len(plan) = 3 /\ plan[1].do = "erase" /\ plan[2].do = "take" /\ plan[3].do = "unlist"
  BY DEF DeleteOrganizationPlan, Erase, TakeFromUsers, Unlist
<1>. HIDE DEF plan
<1>3. \A i \in 1..Len(plan) : plan[i] \in SaneStep
  BY <1>1
<1>4. \A i \in 1..Len(plan) : plan[i] \in Calms(db, {}, {})
  BY <1>2, <1>3, OtherCalms
<1>5. plan \in Seq(Calms(db, {}, {}))
  <2>. DEFINE T == Calms(db, {}, {})
  <2>1. plan \in Seq(SaneStep) /\ \A i \in 1..Len(plan) : plan[i] \in T
    BY <1>1, <1>4
  <2>. HIDE DEF T
  <2>2. plan \in Seq(T)
    BY <2>1
  <2>. QED
    BY <2>2 DEF T
<1>. QED
  BY <1>5 DEF plan

LEMMA LeaveAllCalm ==
    ASSUME NEW u \in Users, NEW gs \in SUBSET GroupIds, NEW db
    PROVE  LeaveAllPlan(u, gs) \in Seq(Calms(db, {}, {}))
<1>1. LeaveGroups(u, gs) \in Calms(db, {}, {}) /\ SetGroups(u, {}) \in Calms(db, {}, {})
  BY UserCalms
<1>. HIDE DEF Calms
<1>. QED
  BY <1>1 DEF LeaveAllPlan

LEMMA LoginCalm ==
    ASSUME NEW op, op.user \in Users, op.groups \in SUBSET GroupIds, op.new \in BOOLEAN,
           NEW gs \in SUBSET GroupIds, NEW g, NEW db, op.new => g \in GroupIds /\ db[g] = Gone
    PROVE  /\ LoginPlan(op, gs, g) \in Seq(Calms(db, IF op.new THEN {g} ELSE {}, {}))
           /\ InsertsOnce(LoginPlan(op, gs, g))
<1>. DEFINE u == op.user
            hs == IF op.new THEN {g} ELSE {}
            Q == Calms(db, {}, {})
            S == Calms(db, hs, {})
            before == IF op.sync THEN {} ELSE gs
            more == (op.groups \cup (IF op.new THEN {g} ELSE {})) \ before
            s1 == <<Touch(u)>>
            s2 == IF op.sync THEN LeaveAllPlan(u, gs) ELSE <<>>
            s3 == IF op.new THEN <<Insert(g, GroupDocument(g, FALSE, {}))>> ELSE <<>>
            s4 == IF more # {} THEN <<JoinGroups(u, more), SetGroups(u, before \cup more)>> ELSE <<>>
<1>1. more \in SUBSET GroupIds /\ before \cup more \in SUBSET GroupIds
  OBVIOUS
<1>2. s1 \in Seq(Q)
  <2>1. Touch(u) \in Q
    BY UserCalms
  <2>. HIDE DEF Q
  <2>. QED
    BY <2>1
<1>3. s2 \in Seq(Q)
  BY LeaveAllCalm
<1>4. s3 \in Seq(S) /\ InsertsOnce(s3)
  <2>1. CASE op.new
    <3>. DEFINE a == Insert(g, GroupDocument(g, FALSE, {}))
    <3>1. a \in Calms(db, {g}, {})
      BY <2>1, InsertCalms
    <3>2. s3 = <<a>> /\ S = Calms(db, {g}, {})
      BY <2>1
    <3>. HIDE DEF a, s3, S
    <3>3. <<a>> \in Seq(S) /\ InsertsOnce(<<a>>)
      BY <3>1, <3>2 DEF InsertsOnce
    <3>. QED
      BY <3>2, <3>3
  <2>2. CASE ~op.new
    BY <2>2 DEF InsertsOnce
  <2>. QED
    BY <2>1, <2>2
<1>5. s4 \in Seq(Q)
  <2>. HIDE DEF more, before
  <2>1. JoinGroups(u, more) \in Q /\ SetGroups(u, before \cup more) \in Q
    BY <1>1, UserCalms
  <2>. HIDE DEF Q
  <2>. QED
    BY <2>1
<1>6. LoginPlan(op, gs, g) = s1 \o s2 \o s3 \o s4
  BY DEF LoginPlan
<1>. HIDE DEF s1, s2, s3, s4, hs
<1>7. s1 \o s2 \in Seq(Q)
  <2>. HIDE DEF Q
  <2>. QED
    BY <1>2, <1>3, ConcatProperties
<1>8. (s1 \o s2) \o s3 \o s4 \in Seq(S) /\ InsertsOnce((s1 \o s2) \o s3 \o s4)
  <2>. DEFINE a == s1 \o s2
  <2>. HIDE DEF a
  <2>1. a \o s3 \o s4 \in Seq(S) /\ InsertsOnce(a \o s3 \o s4)
    BY <1>4, <1>5, <1>7, InsertsBetween DEF a
  <2>. QED
    BY <2>1 DEF a
<1>. QED
  BY <1>6, <1>8 DEF hs

\* What the other requests do when they begin.
LEMMA PlanCalm ==
    ASSUME NEW op \in GroupOps, op.kind \notin {"move", "delete"}, NEW db \in Documents, Accepted(op, db),
           NEW g, Creates(op) => g \in GroupIds /\ db[g] = Gone
    PROVE  /\ GroupPlan(op, db, g) \in Seq(Calms(db, IF Creates(op) THEN {g} ELSE {},
                                                     IF op.kind = "edit" THEN GroupIds ELSE {}))
           /\ InsertsOnce(GroupPlan(op, db, g))
<1>1. CASE op.kind = "create"
  <2>1. /\ GroupPlan(op, db, g) = CreatePlan(op, g) /\ g \in GroupIds /\ db[g] = Gone /\ Creates(op)
        /\ op.org \in BOOLEAN /\ op.users \in SUBSET Users
    BY <1>1 DEF GroupPlan, Creates, GroupOps
  <2>2. CreatePlan(op, g) \in Seq(Calms(db, {g}, {})) /\ InsertsOnce(CreatePlan(op, g))
    BY <2>1, CreateCalm
  <2>. QED
    BY <1>1, <2>1, <2>2
<1>2. CASE op.kind = "edit"
  <2>1. /\ GroupPlan(op, db, g) = EditPlan(op, db[op.group]) /\ op.group \in GroupsOf(db) /\ ~Creates(op)
        /\ op.group \in GroupIds /\ op.users \in SUBSET Users
    BY <1>2 DEF GroupPlan, Accepted, Creates, GroupOps
  <2>2. EditPlan(op, db[op.group]) \in Seq(Calms(db, {}, GroupIds))
    BY <2>1, EditCalm
  <2>. QED
    BY <1>2, <2>1, <2>2, InsertsNone
<1>3. CASE op.kind = "deleteOrganization"
  <2>1. GroupPlan(op, db, g) = DeleteOrganizationPlan(op, db) /\ ~Creates(op) /\ op.group \in GroupIds
    BY <1>3 DEF GroupPlan, Creates, GroupOps
  <2>2. DeleteOrganizationPlan(op, db) \in Seq(Calms(db, {}, {}))
    BY <2>1, DeleteOrganizationCalm
  <2>. QED
    BY <1>3, <2>1, <2>2, InsertsNone
<1>4. CASE op.kind = "login"
  <2>1. /\ GroupPlan(op, db, g) = LoginPlan(op, db[op.user], g) /\ op.user \in UsersOf(db)
        /\ op.groups \in SUBSET GroupIds /\ op.new \in BOOLEAN /\ (Creates(op) <=> op.new)
        /\ (op.new => g \in GroupIds /\ db[g] = Gone)
    BY <1>4 DEF GroupPlan, Accepted, Creates, GroupOps
  <2>2. op.user \in Users /\ db[op.user] \in SUBSET GroupIds
    BY <2>1, DocumentsElim
  <2>3. /\ LoginPlan(op, db[op.user], g) \in Seq(Calms(db, IF op.new THEN {g} ELSE {}, {}))
        /\ InsertsOnce(LoginPlan(op, db[op.user], g))
    BY <2>1, <2>2, LoginCalm
  <2>. QED
    BY <1>4, <2>1, <2>3
<1>5. CASE op.kind \in {"editUser", "deleteUser"}
  <2>1. op.user \in UsersOf(db) /\ ~Creates(op)
    BY <1>5 DEF Accepted, Creates
  <2>2. op.user \in Users /\ db[op.user] \in SUBSET GroupIds /\ {op.user} \in SUBSET Keys
    BY <2>1, DocumentsElim DEF Keys
  <2>3. GroupPlan(op, db, g) \in Seq(Calms(db, {}, {}))
    <3>. DEFINE Q == Calms(db, {}, {})
    <3>1. CASE op.kind = "editUser"
      <4>1. GroupPlan(op, db, g) = <<Save(op.user, db[op.user])>>
        BY <3>1 DEF GroupPlan
      <4>2. Save(op.user, db[op.user]) \in Q
        BY <2>2, UserCalms
      <4>. HIDE DEF Q
      <4>3. <<Save(op.user, db[op.user])>> \in Seq(Q)
        BY <4>2
      <4>. QED
        BY <4>1, <4>3 DEF Q
    <3>2. CASE op.kind = "deleteUser"
      <4>. DEFINE last == <<Erase({op.user})>>
      <4>1. GroupPlan(op, db, g) = LeaveAllPlan(op.user, db[op.user]) \o last
        BY <3>2 DEF GroupPlan
      <4>2. Erase({op.user}) \in SaneStep /\ Erase({op.user}).do = "erase"
        BY <2>2, EraseStepType DEF Erase
      <4>3. Erase({op.user}) \in Q
        BY <4>2, OtherCalms
      <4>4. LeaveAllPlan(op.user, db[op.user]) \in Seq(Q)
        BY <2>2, LeaveAllCalm
      <4>. HIDE DEF Q
      <4>5. last \in Seq(Q)
        BY <4>3
      <4>. HIDE DEF last
      <4>6. LeaveAllPlan(op.user, db[op.user]) \o last \in Seq(Q)
        BY <4>4, <4>5, ConcatProperties
      <4>. QED
        BY <4>1, <4>6 DEF Q
    <3>. QED
      BY <1>5, <3>1, <3>2
  <2>. QED
    BY <1>5, <2>1, <2>3, InsertsNone
<1>6. op.kind \in {"create", "edit", "deleteOrganization", "login", "editUser", "deleteUser"}
  BY DEF GroupOps
<1>. QED
  BY <1>1, <1>2, <1>3, <1>4, <1>5, <1>6

\* What moves a group, or deletes one, has only the group to save.
LEMMA OneSave ==
    ASSUME NEW t, NEW k \in 1..Len(t), NEW db, SavesGroup(t[k]),
           \A i \in 1..Len(t) : t[i].do # "insert" /\ (SavesGroup(t[i]) => i = k),
           Above(t[k].at, t[k].new) \subseteq Named(db),
           \A x \in Above(t[k].at, t[k].new) : x \in GroupsOf(db) => db[x].org,
           \/ t[k].new.org
           \/ \A h \in GroupsOf(db) : t[k].at \notin Above(h, db[h])
           \/ \E j \in 1..(k - 1) : t[j].do = "detach" /\ t[j].at = t[k].at
    PROVE  Ready(t, db) /\ Brings(t) \subseteq Named(db)
<1>1. ReadyAt(k, t, db)
  BY DEF ReadyAt
<1>2. Ready(t, db)
  BY <1>1 DEF Ready
<1>3. Brings(t) \subseteq Named(db)
  BY BringsElim
<1>. QED
  BY <1>2, <1>3

LEMMA MoveReady ==
    ASSUME NEW op, op.group \in GroupIds, op.parent \in GroupIds \cup {NoParent}, op.kind = "move",
           NEW db \in Documents, Accepted(op, db), UnderOrgs(db)
    PROVE  Ready(MovePlan(op, db), db) /\ Brings(MovePlan(op, db)) \subseteq Named(db)
<1>. DEFINE g == op.group
            group == db[g]
            t == MovePlan(op, db)
<1>1. /\ g \in GroupsOf(db)
      /\ op.parent # NoParent => op.parent \in GroupsOf(db) /\ db[op.parent].org
  BY DEF Accepted
<1>2. group \in GroupRecords /\ Shapely(g, group)
  BY <1>1, DocumentsElim
<1>3. CASE op.parent = NoParent
  <2>1. /\ Len(t) = 3 /\ t[1].do = "detach" /\ t[1].at = g /\ t[3].do = "list"
        /\ t[2].do = "save" /\ t[2].at = g
    BY <1>3 DEF MovePlan, Detach, Save, List
  <2>2. t[2].new = [group EXCEPT !.path = <<g>>, !.org = FALSE]
    BY <1>3 DEF MovePlan, Save
  <2>3. t[2].new.path = <<g>>
    BY <1>2, <2>2 DEF GroupRecords
  <2>. HIDE DEF t
  <2>4. Above(t[2].at, t[2].new) = {}
    BY <2>1, <2>3, AboveAlone
  <2>5. 2 \in 1..Len(t) /\ 1 \in 1..(2 - 1) /\ SavesGroup(t[2])
    BY <2>1 DEF SavesGroup
  <2>6. \A i \in 1..Len(t) : t[i].do # "insert" /\ (SavesGroup(t[i]) => i = 2)
    BY <2>1 DEF SavesGroup
  <2>7. Ready(t, db) /\ Brings(t) \subseteq Named(db)
    BY <2>1, <2>4, <2>5, <2>6, OneSave
  <2>. QED
    BY <2>7 DEF t
<1>4. CASE op.parent # NoParent
  <2>. DEFINE p == op.parent
              parent == db[p]
  <2>1. p \in GroupsOf(db) /\ parent.org /\ parent \in GroupRecords
    BY <1>1, <1>4, DocumentsElim
  <2>2. /\ Len(t) = 2 /\ t[1].do = "save" /\ t[1].at = g /\ t[2].do = "list"
    BY <1>4 DEF MovePlan, Save, List
  <2>3. t[1].new = [group EXCEPT !.path = Append(parent.path, g), !.org = TRUE]
    BY <1>4 DEF MovePlan, Save
  <2>4. t[1].new.path = Append(parent.path, g) /\ t[1].new.org
    <3>. HIDE DEF t, group, parent
    <3>. QED
      BY <1>2, <2>3 DEF GroupRecords
  <2>. HIDE DEF t, g, p, parent
  <2>5. Above(g, t[1].new) \subseteq Above(p, parent) \cup {p}
    BY <2>1, <2>4, AppendAbove
  <2>6. Above(g, t[1].new) \subseteq Named(db)
    BY <2>1, <2>5, NamedElim DEF parent
  <2>7. \A x \in Above(g, t[1].new) : x \in GroupsOf(db) => db[x].org
    BY <2>1, <2>5 DEF UnderOrgs, parent
  <2>8. 1 \in 1..Len(t) /\ SavesGroup(t[1])
    BY <2>2 DEF SavesGroup, g
  <2>9. \A i \in 1..Len(t) : t[i].do # "insert" /\ (SavesGroup(t[i]) => i = 1)
    BY <2>2 DEF SavesGroup
  <2>10. Ready(t, db) /\ Brings(t) \subseteq Named(db)
    BY <2>2, <2>4, <2>6, <2>7, <2>8, <2>9, OneSave
  <2>. QED
    BY <2>10 DEF t
<1>. QED
  BY <1>3, <1>4

LEMMA DeleteReady ==
    ASSUME NEW op, NEW group, NEW db
    PROVE  Ready(DeletePlan(op, group), db) /\ Brings(DeletePlan(op, group)) \subseteq Named(db)
<1>. DEFINE t == DeletePlan(op, group)
<1>1. /\ Len(t) = 4 /\ t[1].do = "take" /\ t[2].do = "detach" /\ t[3].do = "erase" /\ t[4].do = "unlist"
  BY DEF DeletePlan, TakeFromUsers, Detach, Erase, Unlist
<1>. HIDE DEF t
<1>2. \A i \in 1..Len(t) : t[i].do # "insert" /\ ~SavesGroup(t[i])
  BY <1>1 DEF SavesGroup
<1>3. Ready(t, db) /\ Brings(t) = {}
  BY <1>2, BringsElim DEF Ready
<1>. QED
  BY <1>3 DEF t

LEMMA EditReady ==
    ASSUME NEW op, op.group \in GroupIds, op.users \in SUBSET Users,
           NEW db \in Documents, op.group \in GroupsOf(db), UnderOrgs(db)
    PROVE  /\ Ready(EditPlan(op, db[op.group]), db)
           /\ Brings(EditPlan(op, db[op.group])) \subseteq Named(db)
<1>. DEFINE g == op.group
            group == db[g]
            t == EditPlan(op, group)
<1>1. /\ Len(t) = 4 /\ t[1].do = "add" /\ t[2].do = "take" /\ t[3].do = "save" /\ t[3].at = g
      /\ t[4].do = "list"
  BY DEF EditPlan, TakeFromUsers, AddToUsers, List, Save
<1>2. t[3].new = [group EXCEPT !.users = op.users]
  BY DEF EditPlan, Save
<1>3. Alike(t[3].new, group)
  <2>1. group \in GroupRecords
    BY DocumentsElim
  <2>. HIDE DEF t, group
  <2>. QED
    BY <1>2, <2>1 DEF GroupRecords, Alike
<1>. HIDE DEF t
<1>4. Above(g, t[3].new) = Above(g, group)
  BY <1>3, AboveAlike
<1>5. Above(g, t[3].new) \subseteq Named(db)
  BY <1>4, NamedElim
<1>6. \A x \in Above(g, t[3].new) : x \in GroupsOf(db) => db[x].org
  BY <1>4 DEF UnderOrgs
<1>7. t[3].new.org \/ \A h \in GroupsOf(db) : g \notin Above(h, db[h])
  BY <1>3 DEF UnderOrgs, Alike
<1>8. 3 \in 1..Len(t) /\ SavesGroup(t[3])
  BY <1>1 DEF SavesGroup
<1>9. \A i \in 1..Len(t) : t[i].do # "insert" /\ (SavesGroup(t[i]) => i = 3)
  BY <1>1 DEF SavesGroup
<1>10. Ready(t, db) /\ Brings(t) \subseteq Named(db)
  BY <1>1, <1>5, <1>6, <1>7, <1>8, <1>9, OneSave
<1>. QED
  BY <1>10 DEF t

\* What a request that reshapes the hierarchy does when it begins.
LEMMA PlanReady ==
    ASSUME NEW op \in GroupOps, op.kind \in {"move", "delete", "edit"}, NEW db \in Documents,
           Accepted(op, db), UnderOrgs(db), NEW g
    PROVE  Ready(GroupPlan(op, db, g), db) /\ Brings(GroupPlan(op, db, g)) \subseteq Named(db)
<1>1. CASE op.kind = "move"
  <2>1. GroupPlan(op, db, g) = MovePlan(op, db) /\ op.group \in GroupIds /\ op.parent \in GroupIds \cup {NoParent}
    BY <1>1 DEF GroupPlan, GroupOps
  <2>. QED
    BY <1>1, <2>1, MoveReady
<1>2. CASE op.kind = "delete"
  <2>1. GroupPlan(op, db, g) = DeletePlan(op, db[op.group])
    BY <1>2 DEF GroupPlan
  <2>. QED
    BY <2>1, DeleteReady
<1>3. CASE op.kind = "edit"
  <2>1. /\ GroupPlan(op, db, g) = EditPlan(op, db[op.group]) /\ op.group \in GroupsOf(db)
        /\ op.group \in GroupIds /\ op.users \in SUBSET Users
    BY <1>3 DEF GroupPlan, Accepted, GroupOps
  <2>. QED
    BY <2>1, EditReady
<1>. QED
  BY <1>1, <1>2, <1>3

-----------------------------------------------------------------------------
(* The hierarchy and the requests together.                                *)

\* Groups that r creates, or has created and not committed.
Owns(r) ==
    {g \in GroupIds : \/ Does(serving[r].todo, "insert", g)
                      \/ Upon(serving[r].mine, serving[r].snap)[g] # Gone /\ serving[r].snap[g] = Gone}

\* Groups that do not exist yet, or not for everybody.
Strange(x) == x \in GroupIds \ (1..born) \/ \E q \in Busy : x \in Owns(q)

Keeps(snap, view) ==
    \A g \in GroupsOf(view) : IF snap[g] = Gone THEN view[g].path = <<g>> ELSE Alike(view[g], snap[g])

Reshaping(r) == Reshapes(serving[r].op)

Calm(r) ==
    LET s == serving[r]
    IN  /\ s.todo \in Seq(Calms(s.snap, GroupIds, IF atomic THEN GroupIds ELSE {}))
        /\ InsertsOnce(s.todo)
        /\ Keeps(s.snap, Upon(s.mine, s.snap))

\* What others commit meanwhile are groups that it does not meet.
Changing(r) ==
    LET s == serving[r]
    IN  /\ UnderOrgs(Sees(r)) /\ Ready(s.todo, Sees(r))
        /\ \A x \in Meets(s.todo, Sees(r)) : ~Strange(x)
        /\ atomic => Mild(s.snap, records, GroupIds \ Meets(s.todo, Sees(r)))

\* Until two changes of the hierarchy meet.
PathInv ==
    /\ ~atomic => \A r \in Busy : serving[r].mine = Unwritten
    /\ \A q, r \in Busy : Reshaping(q) /\ Reshaping(r) => q = r
    /\ UnderOrgs(records) /\ \A x \in Named(records) : ~Strange(x)
    /\ \A r \in Busy : Owns(r) \subseteq 1..born
    /\ \A q, r \in Busy : q # r => Owns(q) \cap Owns(r) = {}
    /\ \A r \in Busy : IF Reshaping(r) THEN Changing(r) ELSE Calm(r)

LEMMA OthersStay ==
    ASSUME NEW q, serving'[q] = serving[q], atomic' = atomic
    PROVE  /\ Owns(q)' = Owns(q)
           /\ Reshaping(q)' <=> Reshaping(q)
           /\ Calm(q) => Calm(q)'
           /\ atomic \/ records' = records => Sees(q)' = Sees(q)
<1>1. Owns(q)' = Owns(q)
  BY DEF Owns, Does
<1>2. Reshaping(q)' <=> Reshaping(q)
  BY DEF Reshaping, Reshapes
<1>3. Calm(q) => Calm(q)'
  BY DEF Calm
<1>4. atomic \/ records' = records => Sees(q)' = Sees(q)
  BY DEF Sees
<1>. QED
  BY <1>1, <1>2, <1>3, <1>4

LEMMA ChangingStays ==
    ASSUME NEW q, serving'[q] = serving[q], atomic' = atomic, records' = records,
           \A x : Strange(x)' => Strange(x), Changing(q)
    PROVE  Changing(q)'
<1>. DEFINE t == serving[q].todo
            snap == serving[q].snap
<1>1. Sees(q)' = Sees(q) /\ serving'[q].todo = t /\ serving'[q].snap = snap
  BY OthersStay
<1>2. PICK view : view = Sees(q)
  OBVIOUS
<1>3. /\ UnderOrgs(view) /\ Ready(t, view) /\ \A x \in Meets(t, view) : ~Strange(x)
      /\ atomic => Mild(snap, records, GroupIds \ Meets(t, view))
  BY <1>2 DEF Changing
<1>4. \A x \in Meets(t, view) : ~Strange(x)'
  BY <1>3
<1>. HIDE DEF t, snap
<1>. QED
  BY <1>1, <1>2, <1>3, <1>4 DEF Changing

LEMMA StrangeLess ==
    ASSUME born' = born, \A q \in Busy' : q \in Busy /\ Owns(q)' \subseteq Owns(q)
    PROVE  \A x : Strange(x)' => Strange(x)
BY DEF Strange

\* A request ends and nothing changes.
LEMMA LeavePaths ==
    ASSUME IInv, PathInv, NEW r \in Busy, atomic' = atomic, born' = born, records' = records,
           serving' = [serving EXCEPT ![r] = Unserved]
    PROVE  PathInv'
<1>1. \A q \in Servers \ {r} : serving'[q] = serving[q]
  OBVIOUS
<1>2. Busy' = Busy \ {r}
  BY <1>1 DEF Busy, IInv
<1>3. \A q \in Busy' : q \in Busy /\ serving'[q] = serving[q] /\ Owns(q)' = Owns(q) /\ (Reshaping(q)' <=> Reshaping(q))
  BY <1>1, <1>2, OthersStay DEF Busy
<1>4. \A x : Strange(x)' => Strange(x)
  BY <1>3, StrangeLess
<1>5. ASSUME NEW q \in Busy' PROVE IF Reshaping(q)' THEN Changing(q)' ELSE Calm(q)'
  <2>1. q \in Busy /\ serving'[q] = serving[q] /\ (Reshaping(q)' <=> Reshaping(q))
    BY <1>3
  <2>2. IF Reshaping(q) THEN Changing(q) ELSE Calm(q)
    BY <2>1 DEF PathInv
  <2>. QED
    BY <1>4, <2>1, <2>2, OthersStay, ChangingStays
<1>6. ~atomic' => \A q \in Busy' : serving'[q].mine = Unwritten
  BY <1>3 DEF PathInv
<1>7. /\ \A p, q \in Busy' : Reshaping(p)' /\ Reshaping(q)' => p = q
      /\ \A q \in Busy' : Owns(q)' \subseteq 1..born'
      /\ \A p, q \in Busy' : p # q => Owns(p)' \cap Owns(q)' = {}
  BY <1>3 DEF PathInv
<1>8. UnderOrgs(records') /\ \A x \in Named(records') : ~Strange(x)'
  BY <1>4 DEF PathInv
<1>. QED
  BY <1>5, <1>6, <1>7, <1>8 DEF PathInv

LEMMA RequestPaths ==
    ASSUME IInv, PathInv, NEW r \in Servers, NEW op \in GroupOps, Request(r, op), ~crossed'
    PROVE  PathInv'
<1>. DEFINE g == born + 1
            plan == GroupPlan(op, records, g)
            new == [op |-> op, snap |-> records, mine |-> Unwritten, indexed |-> FALSE, todo |-> plan]
            gs == IF Creates(op) THEN {g} ELSE {}
<1>1. /\ records \in Documents /\ born \in Nat /\ Accepted(op, records)
      /\ Creates(op) => g \in GroupIds
      /\ serving' = [serving EXCEPT ![r] = new] /\ records' = records /\ atomic' = atomic
      /\ born' = IF Creates(op) THEN g ELSE born
      /\ Reshapes(op) => \A q \in Busy : ~Reshaping(q)
      /\ r \notin Busy
  <2>1. r \in Servers \ Busy
    <3>1. Servers \ Busy # {} /\ Servers \ Busy \in SUBSET Nat
      BY GroupsAssumption DEF Request, Busy, Servers
    <3>. QED
      BY <3>1, MinOf DEF Request
  <2>2. records \in Documents /\ born \in Nat
    BY DEF IInv
  <2>3. Creates(op) => g \in GroupIds
    BY <2>2, GroupsAssumption DEF Request, GroupIds
  <2>. QED
    BY <2>1, <2>2, <2>3 DEF Request, Reshaping
<1>2. /\ UnderOrgs(records) /\ (\A x \in Named(records) : ~Strange(x))
      /\ Creates(op) => records[g] = Gone
  <2>1. UnderOrgs(records) /\ \A x \in Named(records) : ~Strange(x)
    BY DEF PathInv
  <2>2. Creates(op) => g \in GroupIds \ (1..born)
    BY <1>1
  <2>3. Creates(op) => g \notin GroupsOf(records)
    BY <2>1, <2>2, NamedElim DEF Strange
  <2>. QED
    BY <1>1, <2>1, <2>3 DEF GroupsOf
<1>3. IF Reshapes(op) THEN /\ Ready(plan, records) /\ Brings(plan) \subseteq Named(records)
      ELSE /\ plan \in Seq(Calms(records, gs, IF op.kind = "edit" THEN GroupIds ELSE {}))
           /\ InsertsOnce(plan)
  <2>1. CASE Reshapes(op)
    BY <1>1, <1>2, <2>1, PlanReady DEF Reshapes
  <2>2. CASE ~Reshapes(op)
    <3>1. op.kind \notin {"move", "delete"}
      BY <2>2 DEF Reshapes
    <3>2. Creates(op) => g \in GroupIds /\ records[g] = Gone
      BY <1>1, <1>2
    <3>. QED
      BY <1>1, <2>2, <3>1, <3>2, PlanCalm
  <2>. QED
    BY <2>1, <2>2
<1>4. gs \subseteq GroupIds \ (1..born) /\ gs \subseteq 1..born' /\ 1..born \subseteq 1..born'
  BY <1>1
<1>5. \A i \in 1..Len(plan) : plan[i].do = "insert" => plan[i].at \in gs
  <2>1. CASE Reshapes(op)
    BY <1>3, <2>1 DEF Ready
  <2>2. CASE ~Reshapes(op)
    <3>. HIDE DEF plan, gs
    <3>1. \A i \in 1..Len(plan) : plan[i] \in Calms(records, gs, IF op.kind = "edit" THEN GroupIds ELSE {})
      BY <1>3, <2>2
    <3>. QED
      BY <3>1 DEF Calms
  <2>. QED
    BY <2>1, <2>2
<1>. HIDE DEF plan, gs, g
<1>6. serving'[r] = new /\ \A q \in Servers \ {r} : serving'[q] = serving[q]
  BY <1>1 DEF IInv
<1>7. Busy' = Busy \cup {r}
  <2>1. new # Unserved
    <3>1. "snap" \in DOMAIN new /\ "snap" \notin DOMAIN Unserved
      BY DEF Unserved
    <3>. QED
      BY <3>1
  <2>. QED
    BY <1>6, <2>1 DEF Busy
<1>8. Upon(Unwritten, records) = records
  BY <1>1, UponNothing
<1>9. Owns(r)' \subseteq gs
  BY <1>5, <1>6, <1>8 DEF Owns, Does
<1>10. \A q \in Busy : serving'[q] = serving[q] /\ Owns(q)' = Owns(q) /\ (Reshaping(q)' <=> Reshaping(q))
  BY <1>1, <1>6, OthersStay DEF Busy
<1>11. \A x : Strange(x)' => Strange(x)
  BY <1>4, <1>7, <1>9, <1>10 DEF Strange
<1>12. Reshaping(r)' <=> Reshapes(op)
  BY <1>1, <1>6 DEF Reshaping, Reshapes
<1>13. ASSUME Reshapes(op) PROVE Changing(r)'
  <2>1. Sees(r)' = records
    BY <1>1, <1>6, <1>8 DEF Sees
  <2>2. \A x \in Meets(plan, records) : ~Strange(x)'
    BY <1>2, <1>3, <1>11, <1>13 DEF Meets
  <2>3. Mild(records, records, GroupIds \ Meets(plan, records))
    BY MildNothing
  <2>4. /\ serving'[r].todo = plan /\ serving'[r].snap = records
        /\ records' = records /\ UnderOrgs(records) /\ Ready(plan, records)
    BY <1>1, <1>2, <1>3, <1>6, <1>13
  <2>. HIDE DEF new
  <2>. QED
    BY <2>1, <2>2, <2>3, <2>4 DEF Changing
<1>14. ASSUME ~Reshapes(op) PROVE Calm(r)'
  <2>. DEFINE es == IF op.kind = "edit" THEN GroupIds ELSE {}
              fs == IF atomic THEN GroupIds ELSE {}
  <2>1. es \subseteq fs /\ gs \subseteq GroupIds
    BY <1>4, <1>14 DEF Reshapes
  <2>2. plan \in Seq(Calms(records, gs, es)) /\ InsertsOnce(plan)
    BY <1>3, <1>14
  <2>. HIDE DEF es, fs
  <2>3. plan \in Seq(Calms(records, GroupIds, fs))
    BY <2>1, <2>2, CalmsMore
  <2>4. Keeps(records, records)
    BY DEF Keeps, Alike, GroupsOf
  <2>. QED
    BY <1>1, <1>6, <1>8, <2>2, <2>3, <2>4 DEF Calm, fs
<1>15. ASSUME NEW q \in Busy' PROVE IF Reshaping(q)' THEN Changing(q)' ELSE Calm(q)'
  <2>1. CASE q = r
    BY <1>12, <1>13, <1>14, <2>1
  <2>2. CASE q \in Busy
    <3>1. serving'[q] = serving[q] /\ (Reshaping(q)' <=> Reshaping(q))
      BY <1>10, <2>2
    <3>2. IF Reshaping(q) THEN Changing(q) ELSE Calm(q)
      BY <2>2 DEF PathInv
    <3>. QED
      BY <1>1, <1>11, <3>1, <3>2, OthersStay, ChangingStays
  <2>. QED
    BY <1>7, <2>1, <2>2
<1>16. ~atomic' => \A q \in Busy' : serving'[q].mine = Unwritten
  BY <1>1, <1>6, <1>7, <1>10 DEF PathInv
<1>17. \A p, q \in Busy' : Reshaping(p)' /\ Reshaping(q)' => p = q
  BY <1>1, <1>7, <1>10, <1>12 DEF PathInv
<1>18. ASSUME NEW q \in Busy' PROVE Owns(q)' \subseteq 1..born'
  <2>1. CASE q = r
    BY <1>4, <1>9, <2>1
  <2>2. CASE q \in Busy
    <3>1. Owns(q)' = Owns(q) /\ Owns(q) \subseteq 1..born
      BY <1>10, <2>2 DEF PathInv
    <3>. QED
      BY <1>4, <3>1
  <2>. QED
    BY <1>7, <2>1, <2>2
<1>19. \A p, q \in Busy' : p # q => Owns(p)' \cap Owns(q)' = {}
  <2>1. \A q \in Busy : Owns(q) \cap gs = {}
    BY <1>4 DEF PathInv
  <2>. QED
    BY <1>7, <1>9, <1>10, <2>1 DEF PathInv
<1>20. UnderOrgs(records') /\ \A x \in Named(records') : ~Strange(x)'
  BY <1>1, <1>2, <1>11
<1>. QED
  BY <1>15, <1>16, <1>17, <1>18, <1>19, <1>20 DEF PathInv

LEMMA KeepsOn ==
    ASSUME NEW snap, NEW gs, NEW es, NEW s \in Calms(snap, gs, es),
           NEW view \in Documents, NEW new, new = After(s, view), Keeps(snap, view)
    PROVE  Keeps(snap, new)
<1>1. GroupsStep(s, view, new)
  BY GroupsAfter DEF Calms
<1>2. ASSUME NEW g \in GroupsOf(new)
      PROVE  IF snap[g] = Gone THEN new[g].path = <<g>> ELSE Alike(new[g], snap[g])
  <2>1. CASE g \in GroupsOf(view) /\ Alike(new[g], view[g])
    BY <2>1 DEF Keeps, Alike
  <2>2. CASE s.do = "insert" /\ g = s.at /\ new[g] = s.new
    BY <2>2 DEF Calms
  <2>3. CASE SavesGroup(s) /\ g = s.at /\ new[g] = s.new
    BY <2>3 DEF Calms
  <2>. QED
    BY <1>1, <2>1, <2>2, <2>3 DEF GroupsStep, Calms
<1>. QED
  BY <1>2 DEF Keeps

LEMMA InsertsOn ==
    ASSUME NEW t \in Seq(SaneStep), t # <<>>, InsertsOnce(t)
    PROVE  /\ InsertsOnce(Tail(t))
           /\ t[1].do = "insert" => \A i \in 1..Len(Tail(t)) : Tail(t)[i].do # "insert"
<1>. DEFINE u == Tail(t)
<1>1. Len(u) \in Nat /\ \A i \in 1..Len(u) : i + 1 \in 1..Len(t) /\ u[i] = t[i + 1]
  OBVIOUS
<1>2. 1 \in 1..Len(t)
  OBVIOUS
<1>. HIDE DEF u
<1>3. ASSUME NEW i \in 1..Len(u), NEW j \in 1..Len(u), u[i].do = "insert", u[j].do = "insert" PROVE i = j
  <2>1. i + 1 = j + 1
    BY <1>1, <1>3 DEF InsertsOnce
  <2>. QED
    BY <1>1, <2>1
<1>4. ASSUME t[1].do = "insert", NEW i \in 1..Len(u), u[i].do = "insert" PROVE FALSE
  <2>1. i + 1 = 1
    BY <1>1, <1>2, <1>4 DEF InsertsOnce
  <2>. QED
    BY <1>1, <2>1
<1>. QED
  BY <1>3, <1>4 DEF InsertsOnce, u

\* A request goes on and nothing is committed.
LEMMA AdvancePaths ==
    ASSUME IInv, PathInv, NEW r \in Busy, serving[r].todo # <<>>, NEW s, s = serving[r].todo[1],
           atomic' = atomic, born' = born, records' = records, Busy' = Busy,
           \A q \in Servers \ {r} : serving'[q] = serving[q],
           serving'[r].op = serving[r].op, serving'[r].snap = serving[r].snap,
           serving'[r].todo = Tail(serving[r].todo),
           ~atomic => serving'[r].mine = serving[r].mine,
           Upon(serving'[r].mine, serving[r].snap) = After(s, Upon(serving[r].mine, serving[r].snap)),
           ~atomic => records = After(s, records)
    PROVE  PathInv'
<1>. DEFINE t == serving[r].todo
            snap == serving[r].snap
            view == Upon(serving[r].mine, snap)
            new == After(s, view)
<1>1. t \in Seq(SaneStep) /\ snap \in Documents /\ view \in Documents /\ s = t[1] /\ t # <<>>
      /\ records \in Documents /\ r \in Servers
  BY Reading DEF IInv
<1>2. s \in SaneStep
  BY <1>1
<1>3. /\ serving'[r].op = serving[r].op /\ serving'[r].snap = snap /\ serving'[r].todo = Tail(t)
      /\ Upon(serving'[r].mine, snap) = new
  OBVIOUS
<1>. HIDE DEF t, snap, view, new
<1>4. Owns(r)' \subseteq Owns(r)
  <2>1. ASSUME NEW x \in Owns(r)' PROVE x \in Owns(r)
    <3>0. x \in GroupIds
      BY <2>1 DEF Owns
    <3>1. CASE Does(Tail(t), "insert", x)
      <4>1. Does(t, "insert", x)
        BY <1>1, <3>1, TailSteps
      <4>. QED
        BY <3>0, <4>1 DEF Owns, t
    <3>2. CASE new[x] # Gone /\ snap[x] = Gone
      <4>1. view[x] # Gone \/ (s.do = "insert" /\ s.at = x)
        BY <1>1, <1>2, <3>0, <3>2, ExistsAfter DEF new, After
      <4>2. s.do = "insert" /\ s.at = x => Does(t, "insert", x)
        BY <1>1, TailSteps
      <4>. QED
        BY <3>0, <3>2, <4>1, <4>2 DEF Owns, t, view, snap
    <3>. QED
      BY <1>3, <2>1, <3>1, <3>2 DEF Owns, Does
  <2>. QED
    BY <2>1
<1>5. \A q \in Busy \ {r} : serving'[q] = serving[q] /\ Owns(q)' = Owns(q) /\ (Reshaping(q)' <=> Reshaping(q))
  BY OthersStay DEF Busy
<1>6. \A x : Strange(x)' => Strange(x)
  BY <1>4, <1>5, StrangeLess
<1>7. Reshaping(r)' <=> Reshaping(r)
  BY <1>3 DEF Reshaping, Reshapes
<1>8. ASSUME Reshaping(r) PROVE Changing(r)'
  <2>1. PICK seen : seen = Sees(r)
    OBVIOUS
  <2>2. PICK next : next = After(s, seen)
    OBVIOUS
  <2>3. seen \in Documents /\ Sees(r)' = next
    <3>1. CASE atomic
      BY <1>1, <1>3, <2>1, <2>2, <3>1 DEF Sees, view, snap, new
    <3>2. CASE ~atomic
      BY <1>1, <2>1, <2>2, <3>2 DEF Sees
    <3>. QED
      BY <3>1, <3>2
  <2>4. /\ UnderOrgs(seen) /\ Ready(t, seen) /\ \A x \in Meets(t, seen) : ~Strange(x)
        /\ atomic => Mild(snap, records, GroupIds \ Meets(t, seen))
    BY <1>8, <2>1 DEF PathInv, Changing, t, snap
  <2>5. UnderOrgs(next) /\ Ready(Tail(t), next) /\ Meets(Tail(t), next) \subseteq Meets(t, seen)
    BY <1>1, <2>2, <2>3, <2>4, ReadyOn
  <2>6. \A x \in Meets(Tail(t), next) : ~Strange(x)'
    BY <1>6, <2>4, <2>5
  <2>7. atomic => Mild(snap, records, GroupIds \ Meets(Tail(t), next))
    BY <2>4, <2>5 DEF Mild
  <2>. QED
    BY <1>3, <2>3, <2>5, <2>6, <2>7 DEF Changing
<1>9. ASSUME ~Reshaping(r) PROVE Calm(r)'
  <2>. DEFINE S == Calms(snap, GroupIds, IF atomic THEN GroupIds ELSE {})
  <2>1. t \in Seq(S) /\ InsertsOnce(t) /\ Keeps(snap, view)
    BY <1>9 DEF PathInv, Calm, t, snap, view
  <2>2. s \in S /\ Tail(t) \in Seq(S)
    <3>. HIDE DEF S
    <3>. QED
      BY <1>1, <2>1
  <2>3. InsertsOnce(Tail(t))
    BY <1>1, <2>1, InsertsOn
  <2>4. Keeps(snap, new)
    BY <1>1, <2>1, <2>2, KeepsOn DEF new
  <2>. HIDE DEF S
  <2>5. serving'[r].todo \in Seq(S) /\ InsertsOnce(serving'[r].todo)
    BY <1>3, <2>2, <2>3
  <2>6. S = Calms(serving'[r].snap, GroupIds, IF atomic' THEN GroupIds ELSE {})
    BY <1>3 DEF S
  <2>7. Keeps(serving'[r].snap, Upon(serving'[r].mine, serving'[r].snap))
    BY <1>3, <2>4
  <2>. QED
    BY <2>5, <2>6, <2>7 DEF Calm
<1>10. ASSUME NEW q \in Busy' PROVE IF Reshaping(q)' THEN Changing(q)' ELSE Calm(q)'
  <2>1. CASE q = r
    BY <1>7, <1>8, <1>9, <2>1
  <2>2. CASE q \in Busy \ {r}
    <3>1. serving'[q] = serving[q] /\ (Reshaping(q)' <=> Reshaping(q))
      BY <1>5, <2>2
    <3>2. IF Reshaping(q) THEN Changing(q) ELSE Calm(q)
      BY <2>2 DEF PathInv
    <3>. QED
      BY <1>6, <3>1, <3>2, OthersStay, ChangingStays
  <2>. QED
    BY <2>1, <2>2
<1>11. ~atomic' => \A q \in Busy' : serving'[q].mine = Unwritten
  BY <1>5 DEF PathInv
<1>12. \A p, q \in Busy' : Reshaping(p)' /\ Reshaping(q)' => p = q
  BY <1>5, <1>7 DEF PathInv
<1>13. /\ \A q \in Busy' : Owns(q)' \subseteq Owns(q) /\ Owns(q)' \subseteq 1..born'
       /\ \A p, q \in Busy' : p # q => Owns(p)' \cap Owns(q)' = {}
  <2>1. \A q \in Busy' : Owns(q)' \subseteq Owns(q)
    BY <1>4, <1>5
  <2>2. \A q \in Busy : Owns(q) \subseteq 1..born
    BY DEF PathInv
  <2>3. \A p, q \in Busy : p # q => Owns(p) \cap Owns(q) = {}
    BY DEF PathInv
  <2>4. \A q \in Busy' : Owns(q)' \subseteq 1..born'
    BY <2>1, <2>2
  <2>5. ASSUME NEW p \in Busy', NEW q \in Busy', p # q PROVE Owns(p)' \cap Owns(q)' = {}
    BY <2>1, <2>3, <2>5
  <2>. QED
    BY <2>1, <2>4, <2>5
<1>14. UnderOrgs(records') /\ \A x \in Named(records') : ~Strange(x)'
  BY <1>6 DEF PathInv
<1>. QED
  BY <1>10, <1>11, <1>12, <1>13, <1>14 DEF PathInv

LEMMA UpdateListingPaths ==
    ASSUME IInv, PathInv, NEW r \in Servers, UpdateListing(r)
    PROVE  PathInv'
<1>. DEFINE s == serving[r].todo[1]
<1>1. /\ r \in Busy /\ serving[r].todo # <<>>
      /\ atomic' = atomic /\ born' = born /\ records' = records
      /\ Head(serving[r].todo).do \in {"list", "unlist"}
      /\ serving' = [serving EXCEPT ![r].todo = Tail(@), ![r].indexed = TRUE]
  BY DEF UpdateListing
<1>2. /\ serving[r] \in Record /\ s.do \in {"list", "unlist"}
  BY <1>1, Reading
<1>3. /\ serving'[r].op = serving[r].op /\ serving'[r].snap = serving[r].snap
      /\ serving'[r].todo = Tail(serving[r].todo) /\ serving'[r].mine = serving[r].mine
      /\ "snap" \in DOMAIN serving'[r]
      /\ \A q \in Servers \ {r} : serving'[q] = serving[q]
  BY <1>1, <1>2 DEF IInv, Record
<1>4. Busy' = Busy
  <2>1. serving'[r] # Unserved
    BY <1>3 DEF Unserved
  <2>. QED
    BY <1>1, <1>3, <2>1 DEF Busy
<1>5. \A db : After(s, db) = db
  BY <1>2 DEF After
<1>. HIDE DEF s
<1>6. /\ Upon(serving'[r].mine, serving[r].snap) = After(s, Upon(serving[r].mine, serving[r].snap))
      /\ ~atomic => records = After(s, records)
  BY <1>3, <1>5
<1>. QED
  BY <1>1, <1>3, <1>4, <1>6, AdvancePaths DEF s

LEMMA UpdateRecordsPathsAtomic ==
    ASSUME IInv, PathInv, atomic, NEW r \in Servers, UpdateRecords(r)
    PROVE  PathInv'
<1>. DEFINE s == serving[r].todo[1]
            view == Upon(serving[r].mine, serving[r].snap)
            new == Written(s, view)
<1>1. r \in Busy /\ serving[r].todo # <<>>
  BY DEF UpdateRecords
<1>2. /\ serving[r] \in Record /\ serving[r].mine \in Writes /\ serving[r].snap \in Documents
      /\ serving[r].todo \in Seq(SaneStep) /\ s = Head(serving[r].todo) /\ s \in SaneStep
  BY <1>1, Reading
<1>3. /\ atomic' = atomic /\ born' = born /\ records' = records /\ s.do \notin {"list", "unlist"}
      /\ serving' = [serving EXCEPT ![r].todo = Tail(@), ![r].mine = Upon(new, @)]
  BY <1>2 DEF UpdateRecords, Sees
<1>4. Upon(Upon(new, serving[r].mine), serving[r].snap) = After(s, view)
  BY <1>2, <1>3, WrittenAfter
<1>. HIDE DEF new
<1>5. /\ serving'[r].op = serving[r].op /\ serving'[r].snap = serving[r].snap
      /\ serving'[r].todo = Tail(serving[r].todo) /\ serving'[r].mine = Upon(new, serving[r].mine)
      /\ "snap" \in DOMAIN serving'[r]
      /\ \A q \in Servers \ {r} : serving'[q] = serving[q]
  BY <1>2, <1>3 DEF IInv, Record
<1>6. Busy' = Busy
  <2>1. serving'[r] # Unserved
    BY <1>5 DEF Unserved
  <2>. QED
    BY <1>1, <1>5, <2>1 DEF Busy
<1>7. Upon(serving'[r].mine, serving[r].snap) = After(s, Upon(serving[r].mine, serving[r].snap))
  BY <1>4, <1>5
<1>. HIDE DEF s, view
<1>. QED
  BY <1>1, <1>3, <1>5, <1>6, <1>7, AdvancePaths DEF s

LEMMA UpdateRecordsPathsDirect ==
    ASSUME IInv, PathInv, ~atomic, NEW r \in Servers, UpdateRecords(r)
    PROVE  PathInv'
<1>. DEFINE t == serving[r].todo
            s == t[1]
            snap == serving[r].snap
            gs == {x \in GroupIds : s.do = "insert" /\ x = s.at}
<1>1. r \in Busy /\ t # <<>>
  BY DEF UpdateRecords
<1>2. /\ serving[r] \in Record /\ snap \in Documents /\ t \in Seq(SaneStep) /\ s = Head(t) /\ s \in SaneStep
      /\ records \in Documents
  BY <1>1, Reading DEF IInv
<1>3. /\ atomic' = atomic /\ born' = born /\ s.do \notin {"list", "unlist"}
      /\ records' = Upon(Written(s, records), records)
      /\ serving' = [serving EXCEPT ![r].todo = Tail(@)]
  <2>1. serving' = [serving EXCEPT ![r].todo = Tail(@), ![r].mine = @]
    BY <1>2 DEF UpdateRecords
  <2>2. serving' = [serving EXCEPT ![r].todo = Tail(@)]
    BY <1>2, <2>1 DEF IInv, Record
  <2>. QED
    BY <1>2, <2>2 DEF UpdateRecords, Sees
<1>4. PICK new : new = records'
  OBVIOUS
<1>5. new = After(s, records)
  <2>1. Upon(Unwritten, records) = records
    BY <1>2, UponNothing
  <2>2. Unwritten \in Writes
    <3>1. Unwritten = [k \in {} |-> Unwritten[k]] /\ {} \in SUBSET Keys
      BY DEF Unwritten
    <3>. QED
      BY <3>1, WritesIntro
  <2>3. Upon(Upon(Written(s, records), Unwritten), records) = After(s, records)
    BY <1>2, <1>3, <2>1, <2>2, WrittenAfter
  <2>4. Written(s, records) \in Writes
    BY <1>2, <1>3, WrittenType
  <2>5. ASSUME NEW w \in Writes PROVE Upon(w, Unwritten) = w
    <3>1. w = [k \in DOMAIN w |-> w[k]]
      BY WritesElim
    <3>2. DOMAIN w \cup DOMAIN Unwritten = DOMAIN w
      BY DEF Unwritten
    <3>. QED
      BY <3>1, <3>2 DEF Upon
  <2>. QED
    BY <1>3, <1>4, <2>3, <2>4, <2>5
<1>6. /\ serving'[r].op = serving[r].op /\ serving'[r].snap = snap
      /\ serving'[r].todo = Tail(t) /\ serving'[r].mine = serving[r].mine
      /\ "snap" \in DOMAIN serving'[r]
      /\ \A q \in Servers \ {r} : serving'[q] = serving[q]
  BY <1>2, <1>3 DEF IInv, Record
<1>7. Busy' = Busy
  <2>1. serving'[r] # Unserved
    BY <1>6 DEF Unserved
  <2>. QED
    BY <1>1, <1>6, <2>1 DEF Busy
<1>8. serving[r].mine = Unwritten /\ Upon(serving[r].mine, snap) = snap
  BY <1>1, <1>2, UponNothing DEF PathInv
<1>. HIDE DEF t, s, snap
<1>9. \A x \in GroupIds : (x \in Owns(r)' <=> Does(Tail(t), "insert", x)) /\ (x \in Owns(r) <=> Does(t, "insert", x))
  BY <1>6, <1>8 DEF Owns, Does, t, snap
<1>10. \A x : Does(t, "insert", x) <=> (s.do = "insert" /\ s.at = x) \/ Does(Tail(t), "insert", x)
  BY <1>1, <1>2, TailSteps DEF s
<1>11. Owns(r)' \subseteq Owns(r) /\ gs \subseteq Owns(r)
  <2>1. Owns(r)' \subseteq GroupIds /\ Owns(r) \subseteq GroupIds
    BY DEF Owns
  <2>. QED
    BY <1>9, <1>10, <2>1
<1>12. \A q \in Busy \ {r} : serving'[q] = serving[q] /\ Owns(q)' = Owns(q) /\ (Reshaping(q)' <=> Reshaping(q))
  BY <1>3, <1>6, OthersStay DEF Busy
<1>13. \A x : Strange(x)' => Strange(x)
  BY <1>3, <1>7, <1>11, <1>12, StrangeLess
<1>14. Reshaping(r)' <=> Reshaping(r)
  BY <1>3, <1>6 DEF Reshaping, Reshapes
<1>15. \A q \in Busy : Sees(q) = records /\ Sees(q)' = new
  BY <1>3, <1>4 DEF Sees
<1>16. UnderOrgs(records) /\ \A x \in Named(records) : ~Strange(x)
  BY DEF PathInv
<1>17. CASE Reshaping(r)
  <2>1. Ready(t, records) /\ \A x \in Meets(t, records) : ~Strange(x)
    BY <1>1, <1>15, <1>17 DEF PathInv, Changing, t
  <2>2. UnderOrgs(new) /\ Ready(Tail(t), new) /\ Meets(Tail(t), new) \subseteq Meets(t, records)
    BY <1>1, <1>2, <1>5, <1>16, <2>1, ReadyOn DEF s
  <2>3. \A x \in Meets(Tail(t), new) : ~Strange(x)'
    BY <1>13, <2>1, <2>2
  <2>4. Changing(r)'
    BY <1>1, <1>3, <1>6, <1>15, <2>2, <2>3 DEF Changing
  <2>5. ASSUME NEW q \in Busy \ {r} PROVE ~Reshaping(q)' /\ Calm(q)'
    <3>1. serving'[q] = serving[q] /\ ~Reshaping(q) /\ Calm(q)
      BY <1>1, <1>12, <1>17 DEF PathInv
    <3>. QED
      BY <1>3, <3>1, OthersStay
  <2>6. \A x \in Named(new) : ~Strange(x)'
    BY <2>3 DEF Meets
  <2>7. \A q \in Busy' : IF Reshaping(q)' THEN Changing(q)' ELSE Calm(q)'
    BY <1>7, <1>14, <1>17, <2>4, <2>5
  <2>. QED
    BY <1>3, <1>4, <1>7, <1>11, <1>12, <1>14, <2>2, <2>6, <2>7 DEF PathInv
<1>18. CASE ~Reshaping(r)
  <2>1. t \in Seq(Calms(snap, GroupIds, {})) /\ InsertsOnce(t)
    BY <1>1, <1>18 DEF PathInv, Calm, t, snap
  <2>2. s \in Calms(snap, GroupIds, {})
    <3>. DEFINE S == Calms(snap, GroupIds, {})
    <3>1. t \in Seq(S) /\ t # <<>>
      BY <1>1, <2>1 DEF t
    <3>. HIDE DEF S
    <3>2. t[1] \in S /\ Tail(t) \in Seq(S)
      BY <3>1
    <3>. QED
      BY <3>2 DEF s, S
  <2>3. Mild(records, new, gs)
    <3>1. GroupsStep(s, records, new)
      BY <1>2, <1>5, GroupsAfter
    <3>2. s.do # "detach" /\ ~SavesGroup(s) /\ (s.do = "insert" => s.new.path = <<s.at>>)
      BY <2>2 DEF Calms
    <3>3. \A g \in GroupsOf(new) : g \in GroupIds
      BY DEF GroupsOf
    <3>. QED
      BY <3>1, <3>2, <3>3 DEF GroupsStep, Mild
  <2>4. \A x \in gs : Strange(x)
    BY <1>1, <1>11 DEF Strange
  <2>5. ASSUME NEW x \in gs PROVE ~Strange(x)'
    <3>1. x \in 1..born'
      BY <1>1, <1>3, <1>11, <2>5 DEF PathInv
    <3>2. x \notin Owns(r)'
      <4>1. \A i \in 1..Len(Tail(t)) : Tail(t)[i].do # "insert"
        BY <1>1, <1>2, <2>1, <2>5, InsertsOn DEF s
      <4>. QED
        BY <1>9, <2>5, <4>1 DEF Does
    <3>3. \A q \in Busy \ {r} : x \notin Owns(q)'
      BY <1>1, <1>11, <1>12, <2>5 DEF PathInv
    <3>. QED
      BY <1>7, <3>1, <3>2, <3>3 DEF Strange
  <2>6. Named(records) \cap gs = {}
    BY <1>16, <2>4
  <2>. HIDE DEF gs
  <2>7. UnderOrgs(new) /\ Named(new) \subseteq Named(records) \cup gs
    BY <1>16, <2>3, <2>6, MildStays
  <2>8. \A x \in Named(new) : ~Strange(x)'
    BY <1>13, <1>16, <2>5, <2>7
  <2>9. Calm(r)'
    <3>. DEFINE S == Calms(snap, GroupIds, {})
    <3>1. Tail(t) \in Seq(S)
      <4>1. t \in Seq(S) /\ t # <<>>
        BY <1>1, <2>1 DEF t
      <4>. HIDE DEF S
      <4>. QED
        BY <4>1
    <3>2. InsertsOnce(Tail(t))
      BY <1>1, <1>2, <2>1, InsertsOn
    <3>3. Keeps(snap, snap)
      BY DEF Keeps, Alike, GroupsOf
    <3>. HIDE DEF S
    <3>4. serving'[r].todo \in Seq(S) /\ InsertsOnce(serving'[r].todo)
      BY <1>6, <3>1, <3>2
    <3>5. S = Calms(serving'[r].snap, GroupIds, IF atomic' THEN GroupIds ELSE {})
      BY <1>3, <1>6 DEF S
    <3>6. Keeps(serving'[r].snap, Upon(serving'[r].mine, serving'[r].snap))
      BY <1>6, <1>8, <3>3
    <3>. QED
      BY <3>4, <3>5, <3>6 DEF Calm
  <2>10. ASSUME NEW q \in Busy \ {r}, Reshaping(q) PROVE Changing(q)'
    <3>. DEFINE u == serving[q].todo
    <3>1. Ready(u, records) /\ \A x \in Meets(u, records) : ~Strange(x)
      BY <1>15, <2>10 DEF PathInv, Changing
    <3>2. Brings(u) \cap gs = {}
      BY <2>4, <3>1 DEF Meets
    <3>3. Ready(u, new)
      BY <1>16, <2>3, <2>6, <3>1, <3>2, MildStays
    <3>4. \A x \in Meets(u, new) : ~Strange(x)'
      BY <1>13, <2>8, <3>1 DEF Meets
    <3>5. serving'[q].todo = u
      BY <1>12
    <3>. HIDE DEF u
    <3>. QED
      BY <1>3, <1>15, <2>7, <3>3, <3>4, <3>5 DEF Changing
  <2>11. ASSUME NEW q \in Busy \ {r}, ~Reshaping(q) PROVE Calm(q)'
    BY <1>3, <1>12, <2>11, OthersStay DEF PathInv
  <2>12. \A q \in Busy' : IF Reshaping(q)' THEN Changing(q)' ELSE Calm(q)'
    BY <1>7, <1>12, <1>14, <1>18, <2>9, <2>10, <2>11
  <2>. QED
    BY <1>3, <1>4, <1>6, <1>7, <1>11, <1>12, <1>14, <2>7, <2>8, <2>12 DEF PathInv
<1>. QED
  BY <1>17, <1>18

LEMMA FinishPaths ==
    ASSUME MirrorInv, PathInv, atomic, NEW r \in Servers, Finish(r)
    PROVE  PathInv'
<1>. DEFINE s == serving[r]
            snap == s.snap
            mine == s.mine
            view == Upon(mine, snap)
<1>0. IInv
  BY DEF MirrorInv
<1>1. /\ r \in Busy /\ s.todo = <<>>
      /\ records' = Upon(mine, records) /\ born' = born /\ atomic' = atomic
      /\ serving' = [serving EXCEPT ![r] = Unserved]
  BY DEF Finish
<1>2. /\ mine \in Writes /\ snap \in Documents /\ records \in Documents /\ view \in Documents
  BY <1>0, <1>1, Reading DEF IInv
<1>3. \A k \in DOMAIN mine : records[k] = snap[k]
  BY <1>1 DEF MirrorInv, OnCourse
<1>4. PICK new : new = records'
  OBVIOUS
<1>5. /\ \A k \in GroupIds : view[k] = IF k \in DOMAIN mine THEN mine[k] ELSE snap[k]
      /\ \A k \in GroupIds : new[k] = IF k \in DOMAIN mine THEN mine[k] ELSE records[k]
  <2>1. GroupIds \subseteq DOMAIN mine \cup DOMAIN snap /\ GroupIds \subseteq DOMAIN mine \cup DOMAIN records
    BY <1>2, DocumentsElim DEF Keys
  <2>. HIDE DEF mine, snap
  <2>. QED
    BY <1>1, <1>4, <2>1 DEF Upon
<1>6. \A q \in Servers \ {r} : serving'[q] = serving[q]
  BY <1>1
<1>7. Busy' = Busy \ {r}
  BY <1>0, <1>1, <1>6 DEF Busy, IInv
<1>8. \A q \in Busy' : q \in Busy /\ serving'[q] = serving[q] /\ Owns(q)' = Owns(q) /\ (Reshaping(q)' <=> Reshaping(q))
  BY <1>1, <1>6, <1>7, OthersStay DEF Busy
<1>9. \A x : Strange(x)' => Strange(x)
  BY <1>1, <1>8, StrangeLess
<1>10. UnderOrgs(records) /\ \A x \in Named(records) : ~Strange(x)
  BY DEF PathInv
<1>. HIDE DEF s, snap, mine, view
<1>11. \A g : g \in GroupsOf(new) <=> g \in GroupIds /\ new[g] # Gone
  BY DEF GroupsOf
<1>12. CASE Reshaping(r)
  <2>1. Sees(r) = view
    BY <1>1 DEF Sees, view, mine, snap, s
  <2>. DEFINE ms == Meets(s.todo, view)
  <2>2. /\ UnderOrgs(view) /\ \A x \in ms : ~Strange(x)
        /\ Mild(snap, records, GroupIds \ ms)
    BY <1>1, <1>12, <2>1 DEF PathInv, Changing, s, snap
  <2>3. Named(view) \subseteq ms
    BY DEF Meets
  <2>. HIDE DEF ms
  <2>4. ASSUME NEW h \in GroupsOf(new), NEW x \in Above(h, new[h])
        PROVE  h \in GroupsOf(view) /\ x \in Above(h, view[h])
    <3>1. h \in GroupIds /\ new[h] # Gone
      BY <1>11
    <3>2. CASE h \in DOMAIN mine
      BY <1>5, <2>4, <3>1, <3>2 DEF GroupsOf
    <3>3. CASE h \notin DOMAIN mine
      <4>1. new[h] = records[h] /\ view[h] = snap[h] /\ h \in GroupsOf(records)
        BY <1>5, <3>1, <3>3 DEF GroupsOf
      <4>2. records[h].path # <<h>>
        BY <2>4, <4>1, AboveAlone
      <4>3. h \in GroupsOf(snap) /\ Alike(records[h], snap[h])
        BY <2>2, <4>1, <4>2 DEF Mild
      <4>4. x \in Above(h, snap[h])
        BY <2>4, <4>1, <4>3, AboveAlike
      <4>. QED
        BY <4>1, <4>3, <4>4 DEF GroupsOf
    <3>. QED
      BY <3>2, <3>3
  <2>5. ASSUME NEW x \in GroupsOf(new), x \in Named(view)
        PROVE  x \in GroupsOf(view) /\ new[x].org = view[x].org
    <3>1. x \in GroupIds /\ new[x] # Gone
      BY <1>11
    <3>2. CASE x \in DOMAIN mine
      BY <1>5, <3>1, <3>2 DEF GroupsOf
    <3>3. CASE x \notin DOMAIN mine
      <4>1. new[x] = records[x] /\ view[x] = snap[x] /\ x \in GroupsOf(records)
        BY <1>5, <3>1, <3>3 DEF GroupsOf
      <4>2. x \in GroupsOf(snap) /\ Alike(records[x], snap[x])
        BY <2>2, <2>3, <2>5, <4>1 DEF Mild
      <4>. QED
        BY <4>1, <4>2 DEF GroupsOf, Alike
    <3>. QED
      BY <3>2, <3>3
  <2>6. UnderOrgs(new)
    <3>1. ASSUME NEW h \in GroupsOf(new), NEW x \in Above(h, new[h]), x \in GroupsOf(new) PROVE new[x].org
      <4>1. h \in GroupsOf(view) /\ x \in Above(h, view[h])
        BY <2>4, <3>1
      <4>2. x \in Named(view)
        BY <4>1, NamedElim
      <4>3. x \in GroupsOf(view) /\ new[x].org = view[x].org
        BY <2>5, <3>1, <4>2
      <4>. QED
        BY <2>2, <4>1, <4>3 DEF UnderOrgs
    <3>. QED
      BY <3>1 DEF UnderOrgs
  <2>7. ASSUME NEW x \in Named(new) PROVE ~Strange(x)
    <3>1. CASE x \in GroupsOf(new)
      <4>1. x \in GroupsOf(view) \/ x \in GroupsOf(records)
        BY <1>5, <1>11, <3>1 DEF GroupsOf
      <4>. QED
        BY <1>10, <2>2, <2>3, <4>1, NamedElim
    <3>2. CASE \E h \in GroupsOf(new) : x \in Above(h, new[h])
      <4>1. \E h \in GroupsOf(view) : x \in Above(h, view[h])
        BY <2>4, <3>2
      <4>. QED
        BY <2>2, <2>3, <4>1, NamedElim
    <3>. QED
      BY <2>7, <3>1, <3>2, NamedElim
  <2>8. ASSUME NEW q \in Busy' PROVE ~Reshaping(q)' /\ Calm(q)'
    <3>1. q \in Busy /\ q # r /\ serving'[q] = serving[q] /\ (Reshaping(q)' <=> Reshaping(q))
      BY <1>7, <1>8
    <3>2. ~Reshaping(q) /\ Calm(q)
      BY <1>1, <1>12, <3>1 DEF PathInv
    <3>. QED
      BY <1>1, <3>1, <3>2, OthersStay
  <2>. QED
    BY <1>1, <1>4, <1>8, <1>9, <2>6, <2>7, <2>8 DEF PathInv
<1>13. CASE ~Reshaping(r)
  <2>. DEFINE gs == Owns(r)
  <2>1. Keeps(snap, view)
    BY <1>1, <1>13 DEF PathInv, Calm, view, mine, snap, s
  <2>2. Mild(records, new, gs)
    <3>1. ASSUME NEW g \in GroupsOf(new)
          PROVE  \/ g \in GroupsOf(records) /\ Alike(new[g], records[g])
                 \/ g \in gs /\ new[g].path = <<g>>
      <4>1. g \in GroupIds /\ new[g] # Gone
        BY <1>11
      <4>2. CASE g \notin DOMAIN mine
        BY <1>5, <4>1, <4>2 DEF GroupsOf, Alike
      <4>3. CASE g \in DOMAIN mine
        <5>1. new[g] = view[g] /\ records[g] = snap[g] /\ g \in GroupsOf(view)
          BY <1>3, <1>5, <4>1, <4>3 DEF GroupsOf
        <5>2. CASE snap[g] = Gone
          <6>1. g \in Owns(r)
            BY <4>1, <5>1, <5>2 DEF Owns, view, mine, snap, s, GroupsOf
          <6>. QED
            BY <2>1, <5>1, <5>2, <6>1 DEF Keeps
        <5>3. CASE snap[g] # Gone
          BY <2>1, <4>1, <5>1, <5>3 DEF Keeps, GroupsOf
        <5>. QED
          BY <5>2, <5>3
      <4>. QED
        BY <4>2, <4>3
    <3>. QED
      BY <3>1 DEF Mild
  <2>3. \A x \in gs : Strange(x)
    BY <1>1 DEF Strange
  <2>4. ASSUME NEW x \in gs PROVE ~Strange(x)'
    <3>1. x \in 1..born'
      BY <1>1 DEF PathInv
    <3>2. \A q \in Busy' : x \notin Owns(q)'
      BY <1>1, <1>7, <1>8 DEF PathInv
    <3>. QED
      BY <3>1, <3>2 DEF Strange
  <2>5. Named(records) \cap gs = {}
    BY <1>10, <2>3
  <2>. HIDE DEF gs
  <2>6. UnderOrgs(new) /\ Named(new) \subseteq Named(records) \cup gs
    BY <1>10, <2>2, <2>5, MildStays
  <2>7. \A x \in Named(new) : ~Strange(x)'
    BY <1>9, <1>10, <2>4, <2>6
  <2>8. ASSUME NEW q \in Busy', Reshaping(q) PROVE Changing(q)'
    <3>. DEFINE u == serving[q].todo
                base == serving[q].snap
    <3>1. PICK seen : seen = Sees(q)
      OBVIOUS
    <3>2. /\ UnderOrgs(seen) /\ Ready(u, seen) /\ \A x \in Meets(u, seen) : ~Strange(x)
          /\ Mild(base, records, GroupIds \ Meets(u, seen))
      BY <1>8, <2>8, <3>1 DEF PathInv, Changing
    <3>3. gs \subseteq GroupIds \ Meets(u, seen)
      <4>1. gs \subseteq GroupIds
        BY DEF gs, Owns
      <4>. QED
        BY <2>3, <3>2, <4>1
    <3>4. Mild(base, new, GroupIds \ Meets(u, seen))
      BY <2>2, <3>2, <3>3, MildOn
    <3>5. serving'[q].todo = u /\ serving'[q].snap = base /\ Sees(q)' = seen
      BY <1>1, <1>8, <3>1, OthersStay
    <3>6. \A x \in Meets(u, seen) : ~Strange(x)'
      BY <1>9, <3>2
    <3>. HIDE DEF u, base
    <3>. QED
      BY <1>4, <3>2, <3>4, <3>5, <3>6 DEF Changing
  <2>9. ASSUME NEW q \in Busy', ~Reshaping(q) PROVE Calm(q)'
    BY <1>1, <1>8, <2>9, OthersStay DEF PathInv
  <2>. QED
    BY <1>1, <1>4, <1>8, <2>6, <2>7, <2>8, <2>9 DEF PathInv
<1>. QED
  BY <1>12, <1>13

LEMMA FinishPathsDirect ==
    ASSUME IInv, PathInv, ~atomic, NEW r \in Servers, Finish(r)
    PROVE  PathInv'
<1>1. /\ r \in Busy /\ records' = Upon(serving[r].mine, records) /\ born' = born /\ atomic' = atomic
      /\ serving' = [serving EXCEPT ![r] = Unserved]
  BY DEF Finish
<1>2. records' = records
  BY <1>1, UponNothing DEF PathInv, IInv
<1>. QED
  BY <1>1, <1>2, LeavePaths

LEMMA PathsInitially ==
    ASSUME GroupsInit
    PROVE  PathInv
<1>1. PICK orgs \in SUBSET (1..born), groupsOf \in [Users -> SUBSET (1..born)] : Holding(orgs, groupsOf)
  BY DEF GroupsInit
<1>2. born \in Nat /\ 1..born \subseteq GroupIds /\ Busy = {}
  BY <1>1, GroupsAssumption DEF GroupsInit, Holding, GroupIds, Busy
<1>. DEFINE doc(g) == GroupDocument(g, g \in orgs, {u \in Users : g \in groupsOf[u]})
<1>3. \A g \in GroupIds : records[g] = IF g > born THEN Gone ELSE doc(g)
  BY <1>1, KeysApart DEF Holding, Upon
<1>4. \A g : doc(g).path = <<g>>
  BY DEF GroupDocument
<1>. HIDE DEF doc
<1>5. ASSUME NEW g \in GroupsOf(records) PROVE Above(g, records[g]) = {} /\ g \in 1..born
  <2>1. g \in GroupIds /\ records[g] # Gone /\ g \in Nat /\ g >= 1
    BY DEF GroupsOf, GroupIds
  <2>2. ~(g > born) /\ records[g].path = <<g>>
    BY <1>3, <1>4, <2>1
  <2>3. g \in 1..born
    BY <1>2, <2>1, <2>2
  <2>. QED
    BY <2>2, <2>3, AboveAlone
<1>6. UnderOrgs(records)
  BY <1>5 DEF UnderOrgs
<1>7. \A x \in Named(records) : ~Strange(x)
  BY <1>2, <1>5, NamedElim DEF Strange
<1>. QED
  BY <1>2, <1>6, <1>7 DEF PathInv

\* Unless two changes of the hierarchy met, what left the organizations is
\* above nobody either: with transactions or without, whatever else the
\* requests overwrite, create or delete meanwhile.
THEOREM PathsAlwaysSound == GroupsSpec => []PathsSound
<1>. DEFINE Inv == IInv /\ (atomic => MirrorInv) /\ (~crossed => PathInv)
<1>1. GroupsInit => Inv
  BY Initially, MirrorsInitially, PathsInitially
<1>2. ASSUME Inv, [GroupsNext]_groupVars PROVE Inv'
  <2>1. atomic' = atomic /\ (~crossed' => ~crossed)
    <3>1. ASSUME NEW r \in Servers, NEW op \in GroupOps, Request(r, op)
          PROVE  atomic' = atomic /\ (~crossed' => ~crossed)
      <4>1. atomic' = atomic /\ crossed' = (crossed \/ (Reshapes(op) /\ \E q \in Busy : Reshapes(serving[q].op)))
        BY <3>1, Zenon DEF Request
      <4>. QED
        BY <4>1, Zenon
    <3>2. ASSUME NEW r \in Servers, UpdateRecords(r) \/ UpdateListing(r) \/ Finish(r) \/ FailRequest(r)
          PROVE  atomic' = atomic /\ crossed' = crossed
      BY <3>2, Zenon DEF UpdateRecords, UpdateListing, Finish, FailRequest
    <3>3. CASE UNCHANGED groupVars
      BY <3>3 DEF groupVars
    <3>. QED
      BY <1>2, <3>1, <3>2, <3>3, Zenon DEF GroupsNext
  <2>2. ASSUME NEW r \in Servers, NEW op \in GroupOps, Request(r, op) PROVE Inv'
    <3>1. IInv' /\ (atomic' => MirrorInv')
      BY <1>2, <2>1, <2>2, RequestKeeps, RequestMirrors
    <3>2. ~crossed' => PathInv'
      BY <1>2, <2>1, <2>2, RequestPaths
    <3>. QED
      BY <3>1, <3>2
  <2>3. ASSUME NEW r \in Servers, UpdateRecords(r) PROVE Inv'
    <3>1. IInv' /\ (atomic' => MirrorInv')
      BY <1>2, <2>1, <2>3, UpdateRecordsKeeps, UpdateRecordsMirrors
    <3>2. ~crossed' => PathInv'
      BY <1>2, <2>1, <2>3, UpdateRecordsPathsAtomic, UpdateRecordsPathsDirect
    <3>. QED
      BY <3>1, <3>2
  <2>4. ASSUME NEW r \in Servers, UpdateListing(r) PROVE Inv'
    <3>1. IInv' /\ (atomic' => MirrorInv')
      BY <1>2, <2>1, <2>4, UpdateListingKeeps, UpdateListingMirrors
    <3>2. ~crossed' => PathInv'
      BY <1>2, <2>1, <2>4, UpdateListingPaths
    <3>. QED
      BY <3>1, <3>2
  <2>5. ASSUME NEW r \in Servers, Finish(r) PROVE Inv'
    <3>1. IInv' /\ (atomic' => MirrorInv')
      BY <1>2, <2>1, <2>5, FinishKeeps, FinishMirrors
    <3>2. ~crossed' => PathInv'
      BY <1>2, <2>1, <2>5, FinishPaths, FinishPathsDirect
    <3>. QED
      BY <3>1, <3>2
  <2>6. ASSUME NEW r \in Servers, FailRequest(r) PROVE Inv'
    <3>1. IInv' /\ (atomic' => MirrorInv')
      BY <1>2, <2>1, <2>6, FailRequestKeeps, FailRequestMirrors
    <3>2. ~crossed' => PathInv'
      <4>1. /\ r \in Busy /\ atomic' = atomic /\ born' = born /\ records' = records
            /\ serving' = [serving EXCEPT ![r] = Unserved]
        BY <2>6 DEF FailRequest
      <4>. QED
        BY <1>2, <2>1, <4>1, LeavePaths
    <3>. QED
      BY <3>1, <3>2
  <2>7. CASE UNCHANGED groupVars
    <3>1. /\ serving' = serving /\ records' = records /\ born' = born /\ atomic' = atomic /\ crossed' = crossed
      BY <2>7 DEF groupVars
    <3>2. IInv' /\ (atomic' => MirrorInv')
      BY <1>2, <3>1 DEF MirrorInv, IInv, OnCourse, Busy
    <3>3. Busy' = Busy /\ \A q : serving'[q] = serving[q]
      BY <3>1 DEF Busy
    <3>4. \A q : Owns(q)' = Owns(q) /\ (Reshaping(q)' <=> Reshaping(q)) /\ (Calm(q) => Calm(q)')
      BY <3>1, <3>3, OthersStay
    <3>5. \A x : Strange(x)' => Strange(x)
      BY <3>1, <3>3, <3>4, StrangeLess
    <3>6. \A q : Changing(q) => Changing(q)'
      BY <3>1, <3>3, <3>5, ChangingStays
    <3>7. PathInv => PathInv'
      BY <3>1, <3>3, <3>4, <3>5, <3>6 DEF PathInv
    <3>. QED
      BY <1>2, <3>1, <3>2, <3>7
  <2>. QED
    BY <1>2, <2>2, <2>3, <2>4, <2>5, <2>6, <2>7 DEF GroupsNext
<1>3. Inv => PathsSound
  <2>1. ASSUME Inv PROVE AllShapely
    BY <2>1, DocumentsElim DEF IInv, AllShapely
  <2>2. ASSUME Inv, ~crossed, NEW g \in GroupsOf(records),
               NEW i \in 1..Len(records[g].path) - 1, records[g].path[i] \in GroupsOf(records)
        PROVE  records[records[g].path[i]].org
    <3>. DEFINE path == records[g].path
    <3>1. records[g] \in GroupRecords /\ Shapely(g, records[g])
      BY <2>2, DocumentsElim DEF IInv
    <3>2. Len(path) \in Nat /\ i \in 1..Len(path) /\ i # Len(path) /\ Len(path) \in 1..Len(path)
      BY <3>1 DEF GroupRecords, Shapely
    <3>3. path[i] # g
      BY <3>1, <3>2 DEF Shapely
    <3>4. path[i] \in Above(g, records[g])
      BY <3>2, <3>3, AboveElim
    <3>. QED
      BY <2>2, <3>4 DEF PathInv, UnderOrgs
  <2>. QED
    BY <2>1, <2>2 DEF PathsSound
<1>. QED
  BY <1>1, <1>2, <1>3, PTL DEF GroupsSpec
=============================================================================
