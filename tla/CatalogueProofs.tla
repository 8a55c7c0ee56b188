-------------------------- MODULE CatalogueProofs --------------------------
(***************************************************************************)
(* What a user was told is installed stays, no installation indexes a      *)
(* document that is gone, and no unused resource lingers: for any users    *)
(* and any number of documents and of requests, at once and in all.        *)
(***************************************************************************)
EXTENDS Catalogue, WellFoundedInduction, TLAPS

-----------------------------------------------------------------------------
(* The inductive invariant.                                                *)

Copies == Documents \cup {Absent}
AllDocs == [DocIds -> Copies]
SomeDocs == UNION {[S -> Copies] : S \in SUBSET DocIds}

Places == {"drop", "add", "publish", "push", "deploy", "reread", "refuse", "index", "answer",
           "pull", "unused", "discard", "delete", "unindex"}

Asks == [at : Places, op : CatalogueOps, doc : Nat, fresh : BOOLEAN,
         snap : AllDocs \cup {Nothing}, mine : SomeDocs, sole : BOOLEAN]

Types ==
    /\ docs \in AllDocs
    /\ made \in Nat /\ made <= MaxDocs /\ \A d \in DocIds : docs[d] # Absent => d <= made
    /\ made > 0 => People # {}
    /\ asked \in [Slots -> Asks \cup {Served}]
    /\ told \subseteq People

\* What a request reads, but for its own writes.
Base(r) == IF Transaction THEN Snapshot(r) ELSE docs

\* Who is where.
Suited(r) ==
    LET a == asked[r]
    IN  /\ a.at \in {"drop", "add", "publish", "push", "deploy", "reread", "refuse", "index"} => a.op.kind = "install"
        /\ a.at \in {"pull", "unused", "discard"} => a.op.kind = "uninstall"
        /\ a.at = "delete" => a.op.kind = "purge"
        /\ a.at = "unindex" => a.op.kind # "install"
        /\ a.at = "drop" => dev
        /\ a.at # "add" => a.doc \in 1..made

\* Where a request has written nothing that is not committed.
Clean(r) ==
    LET a == asked[r]
    IN  /\ a.at \in {"drop", "add", "publish", "pull", "unused", "discard", "delete"} => a.mine = Nothing
        /\ ~Transaction => a.mine = Nothing /\ a.snap = Nothing
        /\ a.at = "unused" => a.snap = Nothing

\* What a transaction found unused it still sees so.
Leaving(r) ==
    LET a == asked[r]
    IN  a.at = "discard" /\ Transaction =>
            a.snap # Nothing /\ a.snap[a.doc] # Absent /\ Unused(a.snap[a.doc])

\* What is there was there, and what was public is.
Seeing(r) ==
    LET a == asked[r]
    IN  /\ a.at # "add" => (docs[a.doc] # Absent => Base(r)[a.doc] # Absent)
        /\ \A d \in DocIds : Base(r)[d] # Absent =>
               d <= made /\ (docs[d] # Absent /\ Base(r)[d].public => docs[d].public)

\* What a request makes of a document, before it commits.
Derived(op, old, new) ==
    IF new = Absent THEN op.kind = "purge"
    ELSE (old.public => new.public) /\ old.users \subseteq new.users

Writing(r) ==
    LET a == asked[r]
    IN  \A d \in DOMAIN a.mine : Base(r)[d] # Absent /\ docs[d] = Base(r)[d] /\ Derived(a.op, Base(r)[d], a.mine[d])

Sound(r) == Suited(r) /\ Clean(r) /\ Leaving(r) /\ Seeing(r) /\ Writing(r)

Apart(r, q) == DOMAIN asked[r].mine \cap DOMAIN asked[q].mine = {}

\* r is about to give the document d a user, or to delete it.
Minds(r, d) ==
    \/ asked[r].at \in {"publish", "push", "unused", "discard"} /\ asked[r].doc = d
    \/ asked[r].at # "served" /\ d \in DOMAIN asked[r].mine
       /\ (asked[r].mine[d] = Absent \/ ~Unused(asked[r].mine[d]))

Idle(d) == docs[d] # Absent /\ Unused(docs[d])

Minded == ~lapsed => \A d \in DocIds : Idle(d) => \E r \in InFlight : Minds(r, d)

Has(copy, u) == copy # Absent /\ InstalledFor(copy, u)

\* Nobody is taking the resource away from u.
Safe(u) == \A q \in InFlight : ~Removes(asked[q].op, u)

\* What an installation that nobody disturbed has seen, or made, is there.
Undisturbed(r) ==
    LET a == asked[r]
    IN  a.sole => /\ a.op.kind = "install" /\ Safe(a.op.user)
                  /\ \A d \in DocIds : Has(Base(r)[d], a.op.user) => Has(docs[d], a.op.user)
                  /\ a.fresh /\ a.at \in {"index", "answer"} => Has(Overlaid(a.mine, docs)[a.doc], a.op.user)

Promised ==
    Transaction /\ ~dev =>
        /\ \A u \in told : Safe(u) /\ \E d \in DocIds : Has(docs[d], u)
        /\ \A r \in InFlight : Undisturbed(r)

CInv ==
    /\ Types
    /\ \A r \in InFlight : Sound(r)
    /\ \A r, q \in InFlight : r # q => Apart(r, q)
    /\ Minded
    /\ Promised

-----------------------------------------------------------------------------
(* Documents and requests.                                                 *)

LEMMA OverValue ==
    ASSUME NEW f, NEW g
    PROVE  /\ DOMAIN Overlaid(f, g) = DOMAIN f \cup DOMAIN g
           /\ \A d \in DOMAIN f \cup DOMAIN g : Overlaid(f, g)[d] = IF d \in DOMAIN f THEN f[d] ELSE g[d]
BY DEF Overlaid

LEMMA OverAll ==
    ASSUME NEW f \in SomeDocs, NEW g \in AllDocs
    PROVE  /\ Overlaid(f, g) \in AllDocs
           /\ \A d \in DocIds : Overlaid(f, g)[d] = IF d \in DOMAIN f THEN f[d] ELSE g[d]
<1>1. DOMAIN f \subseteq DocIds /\ (\A d \in DOMAIN f : f[d] \in Copies) /\ DOMAIN g = DocIds
      /\ \A d \in DocIds : g[d] \in Copies
  BY DEF SomeDocs, AllDocs
<1>2. Overlaid(f, g) = [d \in DocIds |-> IF d \in DOMAIN f THEN f[d] ELSE g[d]]
  <2>1. DOMAIN f \cup DOMAIN g = DocIds
    BY <1>1
  <2>. QED
    BY <2>1 DEF Overlaid
<1>. QED
  BY <1>1, <1>2 DEF AllDocs

LEMMA OverSome ==
    ASSUME NEW f \in SomeDocs, NEW t \in DocIds, NEW v \in Copies
    PROVE  /\ [d \in DOMAIN f \cup {t} |-> IF d = t THEN v ELSE f[d]] \in SomeDocs
           /\ Overlaid([d \in {t} |-> v], f) = [d \in DOMAIN f \cup {t} |-> IF d = t THEN v ELSE f[d]]
<1>1. DOMAIN f \subseteq DocIds /\ \A d \in DOMAIN f : f[d] \in Copies
  BY DEF SomeDocs
<1>. DEFINE S == DOMAIN f \cup {t}
            h == [d \in S |-> IF d = t THEN v ELSE f[d]]
<1>2. Overlaid([d \in {t} |-> v], f) = h
  BY DEF Overlaid
<1>3. h \in [S -> Copies] /\ S \in SUBSET DocIds
  BY <1>1
<1>. HIDE DEF h
<1>4. h \in SomeDocs
  BY <1>3 DEF SomeDocs
<1>. QED
  BY <1>2, <1>4 DEF h

LEMMA NothingWritten == Nothing \in SomeDocs /\ DOMAIN Nothing = {}
<1>1. Nothing \in [{} -> Copies] /\ {} \in SUBSET DocIds /\ DOMAIN Nothing = {}
  BY DEF Nothing
<1>. QED
  BY <1>1 DEF SomeDocs

LEMMA AbsentApart == \A copy \in Documents : copy # Absent
BY CatalogueConstants

LEMMA MinOf ==
    ASSUME NEW S \in SUBSET Nat, S # {}
    PROVE  Min(S) \in S
<1>1. PICK x \in S : \A y \in S : ~ (<<y, x>> \in OpToRel(<, Nat))
  BY NatLessThanWellFounded, WFMin
<1>2. \A y \in S : ~(y < x)
  BY <1>1, Zenon DEF OpToRel
<1>3. \A y \in S : x <= y
  BY <1>2
<1>. QED
  BY <1>3 DEF Min

LEMMA MinExists ==
    ASSUME NEW ds \in AllDocs, Exist(ds) # {}
    PROVE  Min(Exist(ds)) \in DocIds /\ ds[Min(Exist(ds))] # Absent
<1>1. Exist(ds) \in SUBSET Nat
  BY DEF Exist, DocIds
<1>2. Min(Exist(ds)) \in Exist(ds)
  BY <1>1, MinOf
<1>. QED
  BY <1>2 DEF Exist

\* What is known of a request in progress.
LEMMA InProgress ==
    ASSUME Types, NEW r \in InFlight
    PROVE  /\ r \in Slots /\ asked[r] \in Asks /\ asked[r].mine \in SomeDocs
           /\ asked[r].snap \in AllDocs \cup {Nothing}
           /\ Snapshot(r) \in AllDocs \cup {Nothing} /\ (Transaction => Snapshot(r) \in AllDocs)
           /\ Base(r) \in AllDocs /\ View(r) \in AllDocs
           /\ \A d \in DocIds : View(r)[d] = IF d \in DOMAIN asked[r].mine THEN asked[r].mine[d] ELSE Base(r)[d]
<1>1. r \in Slots /\ asked[r] \in Asks
  BY DEF Types, InFlight, Waits, Served
<1>2. asked[r].mine \in SomeDocs /\ asked[r].snap \in AllDocs \cup {Nothing} /\ docs \in AllDocs
  BY <1>1 DEF Asks, Types
<1>3. Snapshot(r) \in AllDocs \cup {Nothing} /\ (Transaction => Snapshot(r) \in AllDocs)
  BY <1>2 DEF Snapshot
<1>4. Base(r) \in AllDocs
  BY <1>2, <1>3 DEF Base
<1>5. View(r) = Overlaid(asked[r].mine, Base(r))
  BY DEF View, Base
<1>. QED
  BY <1>1, <1>2, <1>3, <1>4, <1>5, OverAll

\* A request goes on.
Becomes(r, place, doc, fresh, snap, mine) ==
    asked' = [asked EXCEPT ![r] = [at |-> place, op |-> asked[r].op, doc |-> doc, fresh |-> fresh,
                                   snap |-> snap, mine |-> mine, sole |-> asked[r].sole]]

LEMMA BecomesFields ==
    ASSUME Types, NEW r \in InFlight, NEW place \in Places, NEW doc \in Nat, NEW fresh \in BOOLEAN,
           NEW snap \in AllDocs \cup {Nothing}, NEW mine \in SomeDocs,
           Becomes(r, place, doc, fresh, snap, mine)
    PROVE  /\ asked' \in [Slots -> Asks \cup {Served}]
           /\ asked'[r].at = place /\ asked'[r].op = asked[r].op /\ asked'[r].doc = doc
           /\ asked'[r].fresh = fresh /\ asked'[r].snap = snap /\ asked'[r].mine = mine
           /\ asked'[r].sole = asked[r].sole
           /\ \A q \in Slots \ {r} : asked'[q] = asked[q]
           /\ InFlight' = InFlight
<1>. DEFINE new == [at |-> place, op |-> asked[r].op, doc |-> doc, fresh |-> fresh,
                    snap |-> snap, mine |-> mine, sole |-> asked[r].sole]
<1>1. asked \in [Slots -> Asks \cup {Served}] /\ r \in Slots /\ asked[r] \in Asks
  BY InProgress DEF Types
<1>2. new \in Asks
  BY <1>1 DEF Asks
<1>3. asked' = [asked EXCEPT ![r] = new]
  BY DEF Becomes
<1>4. /\ new.at = place /\ new.op = asked[r].op /\ new.doc = doc /\ new.fresh = fresh /\ new.snap = snap
      /\ new.mine = mine /\ new.sole = asked[r].sole /\ new.at # "served"
  BY DEF Places
<1>. HIDE DEF new
<1>5. asked'[r] = new /\ \A q \in Slots \ {r} : asked'[q] = asked[q]
  BY <1>1, <1>3
<1>6. InFlight' = InFlight
  BY <1>1, <1>4, <1>5 DEF InFlight, Waits
<1>. QED
  BY <1>1, <1>2, <1>3, <1>4, <1>5, <1>6

\* A request that committed goes on.
LEMMA BecomesRenewed ==
    ASSUME Types, NEW r \in InFlight, NEW place \in Places, NEW doc \in Nat, NEW fresh \in BOOLEAN,
           Becomes(r, place, doc, fresh, Nothing, Nothing)
    PROVE  /\ asked' \in [Slots -> Asks \cup {Served}]
           /\ asked'[r].at = place /\ asked'[r].op = asked[r].op /\ asked'[r].doc = doc
           /\ asked'[r].fresh = fresh /\ asked'[r].snap = Nothing /\ asked'[r].mine = Nothing
           /\ asked'[r].sole = asked[r].sole
           /\ \A q \in Slots \ {r} : asked'[q] = asked[q]
           /\ InFlight' = InFlight
<1>1. Nothing \in AllDocs \cup {Nothing} /\ Nothing \in SomeDocs
  BY NothingWritten
<1>. QED
  BY <1>1, BecomesFields

-----------------------------------------------------------------------------
(* What an update does.                                                    *)

Wrote(r) == IF Writes(r) THEN Overlaid([d \in {Target(r)} |-> Updated(r, View(r)[Target(r)])], asked[r].mine)
            ELSE asked[r].mine

LEMMA UpdateBecomes ==
    ASSUME Types, NEW r \in InFlight, NEW place \in Places, NEW commits \in BOOLEAN,
           Update(r, Goes(r, place), commits)
    PROVE  /\ commits \/ ~Transaction =>
                  Becomes(r, place, asked[r].doc, asked[r].fresh, Nothing, Nothing) /\ docs' = Overlaid(Wrote(r), docs)
           /\ ~(commits \/ ~Transaction) =>
                  Becomes(r, place, asked[r].doc, asked[r].fresh, Snapshot(r), Wrote(r)) /\ docs' = docs
           /\ Writes(r) => Unclaimed(r, Target(r))
<1>. DEFINE a == asked[r]
            go == [a EXCEPT !.at = place, !.snap = Snapshot(r)]
            wrote == Wrote(r)
<1>1. a \in Asks /\ Goes(r, place) = go
  BY InProgress DEF Goes
<1>2. wrote = IF Writes(r) THEN Overlaid([d \in {Target(r)} |-> Updated(r, View(r)[Target(r)])], a.mine) ELSE a.mine
  BY DEF Wrote
<1>3. /\ commits \/ ~Transaction => docs' = Overlaid(wrote, docs) /\ asked' = [asked EXCEPT ![r] = Renewed(go)]
      /\ ~(commits \/ ~Transaction) => docs' = docs /\ asked' = [asked EXCEPT ![r] = [go EXCEPT !.mine = wrote]]
      /\ Writes(r) => Unclaimed(r, Target(r))
  BY <1>1, <1>2 DEF Update, Conflicts
<1>. HIDE DEF wrote, a
<1>4. go = [at |-> place, op |-> a.op, doc |-> a.doc, fresh |-> a.fresh,
            snap |-> Snapshot(r), mine |-> a.mine, sole |-> a.sole]
  BY <1>1 DEF Asks
<1>. HIDE DEF go
<1>5. Renewed(go) = [at |-> place, op |-> a.op, doc |-> a.doc, fresh |-> a.fresh,
                     snap |-> Nothing, mine |-> Nothing, sole |-> a.sole]
  <2>. DEFINE further == [go EXCEPT !.snap = Nothing]
  <2>1. further = [at |-> place, op |-> a.op, doc |-> a.doc, fresh |-> a.fresh,
                                        snap |-> Nothing, mine |-> a.mine, sole |-> a.sole]
    BY <1>4
  <2>2. Renewed(go) = [further EXCEPT !.mine = Nothing]
    BY <1>4 DEF Renewed
  <2>. HIDE DEF further
  <2>3. [further EXCEPT !.mine = Nothing] = [at |-> place, op |-> a.op, doc |-> a.doc, fresh |-> a.fresh,
                                            snap |-> Nothing, mine |-> Nothing, sole |-> a.sole]
    BY <2>1
  <2>. QED
    BY <2>2, <2>3
<1>6. [go EXCEPT !.mine = wrote] = [at |-> place, op |-> a.op, doc |-> a.doc, fresh |-> a.fresh,
                                    snap |-> Snapshot(r), mine |-> wrote, sole |-> a.sole]
  BY <1>4
<1>. QED
  BY <1>3, <1>5, <1>6 DEF Becomes, a, wrote

LEMMA UpdatedIs ==
    ASSUME NEW r, Updates(r), asked[r].op.user \in People, NEW copy \in Documents
    PROVE  LET new == Updated(r, copy)
           IN  /\ new \in Copies
               /\ new = Absent <=> asked[r].at \in {"drop", "discard", "delete"}
               /\ new # Absent => /\ copy.public => new.public
                                  /\ \A u \in copy.users : u # asked[r].op.user => u \in new.users
                                  /\ ~Waits(r, "pull") => copy.users \subseteq new.users
                                  /\ Waits(r, "publish") => new.public
                                  /\ Waits(r, "push") => asked[r].op.user \in new.users
                                  /\ Waits(r, "deploy") => new.public = copy.public /\ new.users = copy.users
<1>. DEFINE new == Updated(r, copy)
            u == asked[r].op.user
<1>0. copy.users \in SUBSET People /\ copy.public \in BOOLEAN /\ copy.code \in BOOLEAN
  BY DEF Documents
<1>1. CASE asked[r].at \in {"drop", "discard", "delete"}
  BY <1>1 DEF Updated, Copies, Waits
<1>2. CASE Waits(r, "publish")
  <2>1. new = [copy EXCEPT !.public = TRUE]
    BY <1>2 DEF Updated, Waits
  <2>2. new \in Documents /\ new.public = TRUE /\ new.users = copy.users
    BY <2>1 DEF Documents
  <2>. HIDE DEF new
  <2>. QED
    BY <1>2, <2>2, AbsentApart DEF Copies, Waits, new
<1>3. CASE Waits(r, "push")
  <2>1. new = [copy EXCEPT !.users = @ \cup {u}]
    BY <1>3 DEF Updated, Waits
  <2>2. new \in Documents /\ new.public = copy.public /\ new.users = copy.users \cup {u}
    BY <1>0, <2>1 DEF Documents
  <2>. HIDE DEF new
  <2>. QED
    BY <1>3, <2>2, AbsentApart DEF Copies, Waits, new
<1>4. CASE Waits(r, "pull")
  <2>1. new = [copy EXCEPT !.users = @ \ {u}]
    BY <1>4 DEF Updated, Waits
  <2>2. new \in Documents /\ new.public = copy.public /\ new.users = copy.users \ {u}
    BY <1>0, <2>1 DEF Documents
  <2>. HIDE DEF new
  <2>. QED
    BY <1>4, <2>2, AbsentApart DEF Copies, Waits, new
<1>5. CASE Waits(r, "deploy")
  <2>1. new = [copy EXCEPT !.code = TRUE]
    BY <1>5 DEF Updated, Waits
  <2>2. new \in Documents /\ new.public = copy.public /\ new.users = copy.users
    BY <1>0, <2>1 DEF Documents
  <2>. HIDE DEF new
  <2>. QED
    BY <1>5, <2>2, AbsentApart DEF Copies, Waits, new
<1>. QED
  BY <1>1, <1>2, <1>3, <1>4, <1>5 DEF Updates, Waits

-----------------------------------------------------------------------------
(* What a step may do to the documents, and what the others then keep.     *)

\* What a request makes of a document, once committed.
Keeps(op, old, new) ==
    /\ new # Absent /\ old.public => new.public
    /\ new # Absent /\ Unused(new) => Unused(old) \/ op.kind = "uninstall"
    /\ Transaction /\ ~dev => \A u \in People : Has(old, u) /\ ~Removes(op, u) => Has(new, u)

\* The requests of S have not written what changes.
Footprint(S, op) ==
    \A d \in DocIds :
        /\ d <= made /\ docs[d] = Absent => docs'[d] = Absent
        /\ docs[d] # Absent => Keeps(op, docs[d], docs'[d])
        /\ \A q \in S : d \in DOMAIN asked[q].mine => docs'[d] = docs[d]

\* A commit of what a request wrote: each document stays, or is one it wrote.
LEMMA CommitFootprint ==
    ASSUME docs \in AllDocs, NEW S, NEW op \in CatalogueOps, NEW wrote \in SomeDocs, docs' = Overlaid(wrote, docs),
           \A d \in DOMAIN wrote : docs[d] # Absent /\ Keeps(op, docs[d], wrote[d])
                                  /\ \A q \in S : d \notin DOMAIN asked[q].mine
    PROVE  /\ Footprint(S, op) /\ docs' \in AllDocs
           /\ \A d \in DocIds : docs'[d] = IF d \in DOMAIN wrote THEN wrote[d] ELSE docs[d]
<1>1. docs' \in AllDocs /\ \A d \in DocIds : docs'[d] = IF d \in DOMAIN wrote THEN wrote[d] ELSE docs[d]
  BY OverAll
<1>2. \A copy : Keeps(op, copy, copy)
  BY DEF Keeps
<1>. QED
  BY <1>1, <1>2 DEF Footprint

\* The requests of S read and wrote what they had.
LEMMA OthersSound ==
    ASSUME CInv, docs' \in AllDocs, sessions' = sessions, dev' = dev, made' \in Nat, made <= made',
           \A d \in DocIds : docs'[d] # Absent => d <= made',
           NEW q \in InFlight, NEW op, Footprint({q}, op),
           asked'[q].at = asked[q].at, asked'[q].op = asked[q].op, asked'[q].doc = asked[q].doc,
           asked'[q].snap = asked[q].snap, asked'[q].mine = asked[q].mine
    PROVE  Sound(q)'
<1>. DEFINE a == asked[q]
            base == Base(q)
<1>1. Sound(q) /\ made \in Nat
  BY DEF CInv, Types
<1>2. a \in Asks /\ a.mine \in SomeDocs /\ base \in AllDocs /\ DOMAIN a.mine \subseteq DocIds
  <2>1. a \in Asks /\ a.mine \in SomeDocs /\ base \in AllDocs
    BY InProgress DEF CInv
  <2>. QED
    BY <2>1 DEF SomeDocs
<1>3. Base(q)' = base \/ (Base(q)' = docs' /\ base = docs)
  <2>1. Transaction' = Transaction
    BY DEF Transaction
  <2>2. CASE ~Transaction
    BY <2>1, <2>2 DEF Base
  <2>3. CASE Transaction /\ a.snap = Nothing
    <3>1. Snapshot(q) = docs /\ Snapshot(q)' = docs'
      BY <2>1, <2>3 DEF Snapshot
    <3>. QED
      BY <2>1, <2>3, <3>1 DEF Base
  <2>4. CASE Transaction /\ a.snap # Nothing
    <3>1. Snapshot(q) = a.snap /\ Snapshot(q)' = a.snap
      BY <2>1, <2>4 DEF Snapshot
    <3>2. base = a.snap
      BY <2>4, <3>1 DEF Base
    <3>3. Base(q)' = a.snap
      BY <2>1, <2>4, <3>1 DEF Base
    <3>. QED
      BY <3>2, <3>3
  <2>. QED
    BY <2>2, <2>3, <2>4
<1>4. Suited(q)'
  <2>. HIDE DEF Asks
  <2>1. a.doc \in 1..made => a.doc \in 1..made'
    BY <1>1, <1>2 DEF Asks
  <2>. QED
    BY <1>1, <2>1 DEF Sound, Suited
<1>5. Clean(q)' /\ Leaving(q)'
  BY <1>1 DEF Sound, Clean, Leaving, Transaction
<1>6. Seeing(q)'
  <2>1. a.at # "add" => a.doc \in DocIds /\ a.doc <= made
    BY <1>1, CatalogueConstants DEF CInv, Types, Sound, Suited, DocIds
  <2>2. a.at # "add" => (docs'[a.doc] # Absent => Base(q)'[a.doc] # Absent)
    BY <1>1, <1>3, <2>1 DEF Footprint, Sound, Seeing
  <2>3. ASSUME NEW d \in DocIds, Base(q)'[d] # Absent
        PROVE  d <= made' /\ (docs'[d] # Absent /\ Base(q)'[d].public => docs'[d].public)
    <3>1. d \in Nat
      BY DEF DocIds
    <3>2. CASE Base(q)' = docs'
      BY <2>3, <3>2
    <3>3. CASE Base(q)' = base
      <4>1. d <= made /\ (docs[d] # Absent /\ base[d].public => docs[d].public)
        BY <1>1, <2>3, <3>3 DEF Sound, Seeing
      <4>2. docs'[d] # Absent => docs[d] # Absent /\ (docs[d].public => docs'[d].public)
        BY <4>1 DEF Footprint, Keeps
      <4>. QED
        BY <1>1, <3>1, <3>3, <4>1, <4>2
    <3>. QED
      BY <1>3, <3>2, <3>3
  <2>. QED
    BY <2>2, <2>3 DEF Seeing
<1>7. Writing(q)'
  <2>1. \A d \in DOMAIN a.mine : docs'[d] = docs[d]
    BY <1>2 DEF Footprint
  <2>2. \A d \in DOMAIN a.mine : Base(q)'[d] = base[d]
    BY <1>1, <1>3, <2>1 DEF Sound, Writing
  <2>. QED
    BY <1>1, <2>1, <2>2 DEF Sound, Writing, Derived
<1>. QED
  BY <1>4, <1>5, <1>6, <1>7 DEF Sound

\* An installation nobody disturbed is not disturbed by op.
LEMMA OthersUndisturbed ==
    ASSUME CInv, docs' \in AllDocs, sessions' = sessions, dev' = dev, Transaction /\ ~dev,
           NEW q \in InFlight, NEW op, Footprint({q}, op),
           asked'[q].at = asked[q].at, asked'[q].op = asked[q].op, asked'[q].doc = asked[q].doc,
           asked'[q].fresh = asked[q].fresh, asked'[q].snap = asked[q].snap, asked'[q].mine = asked[q].mine,
           asked'[q].sole => asked[q].sole /\ ~Removes(op, asked[q].op.user) /\ Safe(asked[q].op.user)'
    PROVE  Undisturbed(q)'
<1>. DEFINE a == asked[q]
            base == Base(q)
            u == a.op.user
<1>. SUFFICES ASSUME asked'[q].sole
              PROVE  /\ a.op.kind = "install" /\ Safe(u)'
                     /\ \A d \in DocIds : Has(Base(q)'[d], u) => Has(docs'[d], u)
                     /\ a.fresh /\ a.at \in {"index", "answer"} => Has(Overlaid(a.mine, docs')[a.doc], u)
  BY DEF Undisturbed, Has, Overlaid
<1>1. /\ a.sole /\ a.op.kind = "install" /\ Safe(u)' /\ ~Removes(op, u)
      /\ \A d \in DocIds : Has(base[d], u) => Has(docs[d], u)
      /\ a.fresh /\ a.at \in {"index", "answer"} => Has(Overlaid(a.mine, docs)[a.doc], u)
  BY DEF CInv, Promised, Undisturbed
<1>2. /\ a \in Asks /\ a.mine \in SomeDocs /\ docs \in AllDocs /\ DOMAIN a.mine \subseteq DocIds /\ u \in People
      /\ a.at # "add" => a.doc \in DocIds
  <2>1. a \in Asks /\ a.mine \in SomeDocs /\ docs \in AllDocs
    BY InProgress DEF CInv, Types
  <2>2. a.at # "add" => a.doc \in DocIds
    BY CatalogueConstants DEF CInv, Sound, Suited, Types, DocIds
  <2>. QED
    BY <2>1, <2>2 DEF SomeDocs, Asks, CatalogueOps
<1>3. \A d \in DocIds : Has(docs[d], u) => Has(docs'[d], u)
  BY <1>1, <1>2 DEF Footprint, Keeps, Has
<1>4. \A d \in DocIds : Has(Base(q)'[d], u) => Has(docs'[d], u)
  <2>1. Base(q)' = base \/ Base(q)' = docs'
    <3>1. Transaction'
      BY DEF Transaction
    <3>2. Snapshot(q)' = docs' \/ (Snapshot(q)' = a.snap /\ Snapshot(q) = a.snap)
      BY <3>1 DEF Snapshot
    <3>. QED
      BY <3>1, <3>2 DEF Base
  <2>. QED
    BY <1>1, <1>3, <2>1
<1>5. a.fresh /\ a.at \in {"index", "answer"} => Has(Overlaid(a.mine, docs')[a.doc], u)
  <2>1. \A d \in DocIds : Overlaid(a.mine, docs)[d] = IF d \in DOMAIN a.mine THEN a.mine[d] ELSE docs[d]
    BY <1>2, OverAll
  <2>2. \A d \in DocIds : Overlaid(a.mine, docs')[d] = IF d \in DOMAIN a.mine THEN a.mine[d] ELSE docs'[d]
    BY <1>2, OverAll
  <2>. QED
    BY <1>1, <1>2, <1>3, <2>1, <2>2
<1>. QED
  BY <1>1, <1>4, <1>5

\* What r leaves behind.
LEMMA StepKeeps ==
    ASSUME CInv, docs' \in AllDocs, sessions' = sessions, dev' = dev, NEW r \in InFlight,
           made' \in Nat, made <= made', made' <= MaxDocs, \A d \in DocIds : docs'[d] # Absent => d <= made',
           made' > 0 => People # {},
           Footprint(InFlight \ {r}, asked[r].op),
           asked' \in [Slots -> Asks \cup {Served}], \A q \in Slots \ {r} : asked'[q] = asked[q],
           told' \subseteq People,
           Transaction /\ ~dev => \A u \in told' \ told : Safe(u) /\ \E d \in DocIds : Has(docs'[d], u),
           ~lapsed' => ~lapsed,
           ~lapsed' => \A d \in DocIds :
               Idle(d)' => \/ Idle(d) /\ ~Minds(r, d)
                           \/ asked'[r].at # "served" /\ Minds(r, d)',
           \/ asked'[r].at = "served"
           \/ /\ Sound(r)' /\ (Transaction /\ ~dev => Undisturbed(r)')
              /\ asked'[r].op = asked[r].op
              /\ \A q \in InFlight \ {r} : DOMAIN asked'[r].mine \cap DOMAIN asked[q].mine = {}
    PROVE  CInv'
<1>1. r \in Slots /\ InFlight' \subseteq InFlight /\ InFlight \ {r} \subseteq InFlight'
      /\ (r \in InFlight' <=> asked'[r].at # "served")
  BY DEF InFlight, Waits
<1>2. \A q \in InFlight' : asked'[q].op = asked[q].op
  BY <1>1 DEF InFlight
<1>3. Types'
  BY DEF CInv, Types
<1>4. \A q \in InFlight' \ {r} : asked'[q] = asked[q] /\ q \in InFlight /\ Footprint({q}, asked[r].op)
  BY <1>1 DEF InFlight, Footprint
<1>5. ASSUME NEW q \in InFlight'
      PROVE  Sound(q)'
  BY <1>1, <1>4, OthersSound, InProgress DEF CInv
<1>6. ASSUME NEW q \in InFlight', NEW p \in InFlight', p # q
      PROVE  Apart(p, q)'
  <2>1. CASE p # r /\ q # r
    BY <1>4, <1>6, <2>1 DEF CInv, Apart
  <2>2. CASE p = r
    <3>1. r \in InFlight' /\ q \in InFlight \ {r} /\ asked'[q] = asked[q]
      BY <1>4, <1>6, <2>2
    <3>. QED
      BY <1>1, <2>2, <3>1 DEF Apart
  <2>3. CASE q = r
    <3>1. r \in InFlight' /\ p \in InFlight \ {r} /\ asked'[p] = asked[p]
      BY <1>4, <1>6, <2>3
    <3>. QED
      BY <1>1, <2>3, <3>1 DEF Apart
  <2>. QED
    BY <2>1, <2>2, <2>3
<1>7. Minded'
  <2>. SUFFICES ASSUME ~lapsed', NEW d \in DocIds, Idle(d)'
                PROVE  \E q \in InFlight' : Minds(q, d)'
    BY DEF Minded
  <2>1. CASE Idle(d) /\ ~Minds(r, d)
    <3>1. PICK q \in InFlight : Minds(q, d)
      BY <2>1 DEF CInv, Minded
    <3>2. q # r /\ asked'[q] = asked[q] /\ q \in InFlight'
      BY <1>1, <1>4, <2>1, <3>1
    <3>. QED
      BY <3>1, <3>2 DEF Minds
  <2>. QED
    BY <1>1, <2>1
<1>8. ASSUME NEW u, Safe(u) PROVE Safe(u)'
  BY <1>1, <1>2, <1>8 DEF Safe
<1>9. Promised'
  <2>. SUFFICES ASSUME Transaction /\ ~dev
                PROVE  /\ \A u \in told' : Safe(u)' /\ \E d \in DocIds : Has(docs'[d], u)
                       /\ \A q \in InFlight' : Undisturbed(q)'
    BY DEF Promised, Transaction, Has
  <2>1. ASSUME NEW u \in told
        PROVE  Safe(u)' /\ \E d \in DocIds : Has(docs'[d], u)
    <3>1. Safe(u) /\ \E d \in DocIds : Has(docs[d], u)
      BY DEF CInv, Promised
    <3>2. u \in People /\ ~Removes(asked[r].op, u)
      BY <3>1 DEF CInv, Types, Safe
    <3>. QED
      BY <1>8, <3>1, <3>2 DEF Footprint, Keeps, Has
  <2>2. ASSUME NEW q \in InFlight', q # r
        PROVE  Undisturbed(q)'
    <3>1. Footprint({q}, asked[r].op) /\ asked'[q] = asked[q] /\ q \in InFlight
      BY <1>4, <2>2
    <3>2. asked[q].sole => Safe(asked[q].op.user)
      BY <3>1 DEF CInv, Promised, Undisturbed
    <3>3. asked'[q].sole => asked[q].sole /\ ~Removes(asked[r].op, asked[q].op.user) /\ Safe(asked[q].op.user)'
      BY <1>8, <3>1, <3>2 DEF Safe
    <3>. QED
      BY <3>1, <3>3, OthersUndisturbed
  <2>. QED
    BY <1>1, <1>8, <2>1, <2>2
<1>. QED
  BY <1>3, <1>5, <1>6, <1>7, <1>9 DEF CInv

\* What an update writes.
LEMMA WroteIs ==
    ASSUME CInv, NEW r \in InFlight, Updates(r), Target(r) \in DocIds, Writes(r) => Unclaimed(r, Target(r))
    PROVE  LET t == Target(r)
               copy == View(r)[t]
               wrote == Wrote(r)
           IN  /\ wrote \in SomeDocs
               /\ DOMAIN wrote = IF Writes(r) THEN DOMAIN asked[r].mine \cup {t} ELSE DOMAIN asked[r].mine
               /\ \A d \in DOMAIN wrote : wrote[d] = IF Writes(r) /\ d = t THEN Updated(r, copy) ELSE asked[r].mine[d]
               /\ \A d \in DOMAIN wrote : Base(r)[d] # Absent /\ docs[d] = Base(r)[d]
               /\ \A d \in DOMAIN wrote : \A q \in InFlight \ {r} : d \notin DOMAIN asked[q].mine
<1>. DEFINE t == Target(r)
            copy == View(r)[t]
            wrote == Wrote(r)
            mine == asked[r].mine
            new == Updated(r, copy)
<1>1. /\ asked[r] \in Asks /\ mine \in SomeDocs /\ Base(r) \in AllDocs
      /\ copy = IF t \in DOMAIN mine THEN mine[t] ELSE Base(r)[t]
      /\ copy \in Copies
  <2>1. /\ asked[r] \in Asks /\ mine \in SomeDocs /\ Base(r) \in AllDocs /\ View(r) \in AllDocs
        /\ copy = IF t \in DOMAIN mine THEN mine[t] ELSE Base(r)[t]
    BY InProgress DEF CInv
  <2>. QED
    BY <2>1 DEF AllDocs
<1>2. \A d \in DOMAIN mine : Base(r)[d] # Absent /\ docs[d] = Base(r)[d]
  BY DEF CInv, Sound, Writing
<1>3. \A d \in DOMAIN mine : \A q \in InFlight \ {r} : d \notin DOMAIN asked[q].mine
  BY DEF CInv, Apart
<1>4. CASE Writes(r)
  <2>1. copy # Absent
    BY <1>4 DEF Writes
  <2>2. copy \in Documents
    BY <1>1, <2>1 DEF Copies
  <2>3. asked[r].op.user \in People
    BY <1>1 DEF Asks, CatalogueOps
  <2>4. new \in Copies
    BY <2>2, <2>3, UpdatedIs
  <2>5. wrote = Overlaid([d \in {t} |-> new], mine)
    BY <1>4 DEF Wrote
  <2>6. Base(r)[t] # Absent
    BY <1>1, <1>2, <2>1
  <2>7. docs[t] = Base(r)[t] /\ \A q \in InFlight \ {r} : t \notin DOMAIN asked[q].mine
    <3>1. CASE Transaction
      BY <1>4, <3>1 DEF Unclaimed, Base
    <3>2. CASE ~Transaction
      BY <3>2, NothingWritten DEF Base, CInv, Sound, Clean
    <3>. QED
      BY <3>1, <3>2
  <2>. HIDE DEF wrote, mine, new, t
  <2>8. /\ wrote \in SomeDocs /\ DOMAIN wrote = DOMAIN mine \cup {t}
        /\ \A d \in DOMAIN mine \cup {t} : wrote[d] = IF d = t THEN new ELSE mine[d]
    <3>1. t \in DocIds
      BY DEF t
    <3>2. mine \in SomeDocs
      BY <1>1
    <3>3. /\ [d \in DOMAIN mine \cup {t} |-> IF d = t THEN new ELSE mine[d]] \in SomeDocs
          /\ wrote = [d \in DOMAIN mine \cup {t} |-> IF d = t THEN new ELSE mine[d]]
      BY <2>4, <2>5, <3>1, <3>2, OverSome
    <3>. QED
      BY <3>3
  <2>9. \A d \in DOMAIN wrote : Base(r)[d] # Absent /\ docs[d] = Base(r)[d]
    BY <1>2, <2>6, <2>7, <2>8
  <2>10. \A d \in DOMAIN wrote : \A q \in InFlight \ {r} : d \notin DOMAIN asked[q].mine
    BY <1>3, <2>7, <2>8
  <2>. QED
    BY <1>4, <2>8, <2>9, <2>10 DEF wrote, mine, new, t
<1>5. CASE ~Writes(r)
  <2>1. wrote = mine
    BY <1>5 DEF Wrote
  <2>. HIDE DEF wrote, mine
  <2>. QED
    BY <1>1, <1>2, <1>3, <1>5, <2>1 DEF wrote, mine
<1>. QED
  BY <1>4, <1>5

LEMMA DerivedKeeps ==
    ASSUME NEW op \in CatalogueOps, NEW old \in Documents, NEW new \in Copies, Derived(op, old, new)
    PROVE  Keeps(op, old, new)
<1>1. CASE new = Absent
  BY <1>1 DEF Keeps, Derived, Removes
<1>2. CASE new # Absent
  BY <1>2, AbsentApart DEF Keeps, Derived, Has, InstalledFor, Unused, Documents, Copies
<1>. QED
  BY <1>1, <1>2

\* A request that updates has a document, and nothing written but on its way
\* from a publication to the end of an installation.
LEMMA Updating ==
    ASSUME CInv, NEW r \in InFlight, Updates(r)
    PROVE  /\ asked[r].op \in CatalogueOps /\ asked[r].op.user \in People /\ asked[r].doc \in DocIds
           /\ asked[r].at \notin {"push", "deploy"} => asked[r].mine = Nothing
           /\ asked[r].at \in {"drop", "publish", "push", "deploy"} => asked[r].op.kind = "install"
           /\ asked[r].at \in {"pull", "discard"} => asked[r].op.kind = "uninstall"
           /\ Waits(r, "delete") => asked[r].op.kind = "purge"
           /\ Waits(r, "drop") => dev
           /\ ~Waits(r, "deploy") => Target(r) = asked[r].doc
<1>1. asked[r] \in Asks /\ Suited(r) /\ Clean(r)
  BY InProgress DEF CInv, Sound
<1>2. asked[r].doc \in DocIds
  BY <1>1, CatalogueConstants DEF Suited, Updates, DocIds, CInv, Types
<1>. QED
  BY <1>1, <1>2 DEF Suited, Clean, Updates, Waits, Target, Asks, CatalogueOps

\* What a request writes, each document seen as it is committed.
LEMMA WroteKeeps ==
    ASSUME CInv, NEW r \in InFlight, Updates(r), Target(r) \in DocIds, Writes(r) => Unclaimed(r, Target(r)),
           NEW d \in DOMAIN Wrote(r)
    PROVE  /\ docs[d] # Absent /\ Keeps(asked[r].op, docs[d], Wrote(r)[d])
           /\ asked[r].at \in {"publish", "push", "deploy", "delete"} =>
                  Derived(asked[r].op, Base(r)[d], Wrote(r)[d])
           /\ asked[r].at \in {"drop", "discard", "delete"} => Wrote(r)[d] = Absent
<1>. DEFINE op == asked[r].op
            mine == asked[r].mine
            t == Target(r)
            copy == View(r)[t]
            wrote == Wrote(r)
            old == docs[d]
<1>1. /\ wrote \in SomeDocs /\ DOMAIN wrote = IF Writes(r) THEN DOMAIN mine \cup {t} ELSE DOMAIN mine
      /\ wrote[d] = IF Writes(r) /\ d = t THEN Updated(r, copy) ELSE mine[d]
      /\ Base(r)[d] # Absent /\ old = Base(r)[d]
  BY WroteIs
<1>2. /\ op \in CatalogueOps /\ op.user \in People /\ Sound(r)
      /\ asked[r].at \notin {"push", "deploy"} => mine = Nothing
  BY Updating DEF CInv
<1>3. old \in Documents /\ d \in DocIds /\ wrote[d] \in Copies
  <2>1. docs \in AllDocs
    BY DEF CInv, Types
  <2>. QED
    BY <1>1, <2>1 DEF AllDocs, SomeDocs, Copies
<1>4. CASE ~(Writes(r) /\ d = t)
  <2>1. d \in DOMAIN mine /\ wrote[d] = mine[d]
    BY <1>1, <1>4
  <2>2. Derived(op, old, wrote[d])
    BY <1>1, <1>2, <2>1 DEF Sound, Writing
  <2>3. asked[r].at \in {"push", "deploy"}
    BY <1>2, <2>1, NothingWritten
  <2>. QED
    BY <1>1, <1>2, <1>3, <2>2, <2>3, DerivedKeeps
<1>5. CASE Writes(r) /\ d = t
  <2>1. copy = IF t \in DOMAIN mine THEN mine[t] ELSE old
    BY <1>1, <1>5, InProgress DEF CInv
  <2>2. copy # Absent
    BY <1>5 DEF Writes
  <2>3. (old.public => copy.public) /\ old.users \subseteq copy.users
    BY <1>1, <1>2, <1>5, <2>1, <2>2 DEF Sound, Writing, Derived
  <2>4. copy \in Documents
    <3>1. View(r) \in AllDocs
      BY InProgress DEF CInv
    <3>. QED
      BY <2>2, <3>1 DEF AllDocs, Copies
  <2>. DEFINE new == Updated(r, copy)
  <2>5. new = wrote[d]
    BY <1>1, <1>5
  <2>6. /\ new = Absent <=> asked[r].at \in {"drop", "discard", "delete"}
        /\ new # Absent => /\ copy.public => new.public
                           /\ \A u \in copy.users : u # op.user => u \in new.users
                           /\ ~Waits(r, "pull") => copy.users \subseteq new.users
    BY <1>2, <2>4, UpdatedIs
  <2>. HIDE DEF new, copy, old, op, mine, wrote, t
  <2>7. CASE asked[r].at \in {"publish", "push", "deploy", "delete"}
    <3>1. asked[r].at = "delete" => op.kind = "purge"
      BY Updating DEF op, Waits
    <3>2. asked[r].at # "pull" /\ asked[r].at \notin {"drop", "discard"}
      BY <2>7
    <3>3. Derived(op, old, new)
      BY <2>3, <2>6, <3>1, <3>2 DEF Derived, Waits
    <3>. QED
      BY <1>1, <1>2, <1>3, <2>5, <2>6, <3>3, DerivedKeeps DEF op, old, wrote
  <2>8. CASE asked[r].at = "pull"
    <3>1. op.kind = "uninstall" /\ copy = old
      BY <1>2, <2>1, <2>8, Updating, NothingWritten DEF op
    <3>2. new \in Documents /\ new # Absent
      BY <1>3, <2>5, <2>6, <2>8 DEF Copies
    <3>3. \A u \in People : Has(old, u) /\ ~Removes(op, u) => Has(new, u)
      BY <2>6, <3>1, <3>2 DEF Has, InstalledFor, Removes
    <3>4. Keeps(op, old, new)
      BY <2>6, <3>1, <3>2, <3>3 DEF Keeps
    <3>. QED
      BY <1>1, <2>5, <2>8, <3>4 DEF op, old, wrote
  <2>9. CASE asked[r].at \in {"drop", "discard"}
    <3>1. new = Absent
      BY <2>6, <2>9
    <3>2. Transaction /\ ~dev => ~\E u : Has(old, u)
      <4>. SUFFICES ASSUME Transaction, ~dev
                    PROVE  Unused(old)
        BY DEF Has, InstalledFor, Unused
      <4>1. asked[r].at = "discard" /\ t = asked[r].doc
        BY <2>9, Updating DEF Waits, t
      <4>2. asked[r].snap # Nothing /\ Unused(asked[r].snap[t])
        BY <1>2, <4>1 DEF Sound, Leaving
      <4>3. Base(r)[d] = asked[r].snap[t]
        BY <1>5, <4>2 DEF Base, Snapshot, t
      <4>. QED
        BY <1>1, <4>2, <4>3 DEF old
    <3>3. Keeps(op, old, new)
      BY <3>1, <3>2 DEF Keeps
    <3>. QED
      BY <1>1, <2>5, <2>9, <3>1, <3>3 DEF op, old, wrote
  <2>. QED
    BY <2>7, <2>8, <2>9 DEF Updates
<1>. QED
  BY <1>4, <1>5

\* A request that was about to give an unused document a user, or to delete
\* it, writes that.
LEMMA WroteMinds ==
    ASSUME CInv, NEW r \in InFlight, Updates(r), Target(r) \in DocIds, Writes(r) => Unclaimed(r, Target(r)),
           NEW d \in DocIds, Idle(d), Minds(r, d)
    PROVE  d \in DOMAIN Wrote(r) /\ (Wrote(r)[d] = Absent \/ ~Unused(Wrote(r)[d]))
<1>. DEFINE op == asked[r].op
            mine == asked[r].mine
            t == Target(r)
            copy == View(r)[t]
            wrote == Wrote(r)
            new == Updated(r, copy)
<1>1. /\ DOMAIN wrote = IF Writes(r) THEN DOMAIN mine \cup {t} ELSE DOMAIN mine
      /\ \A e \in DOMAIN wrote : wrote[e] = IF Writes(r) /\ e = t THEN new ELSE mine[e]
  BY WroteIs
<1>2. /\ op.user \in People /\ Sound(r)
      /\ asked[r].at \notin {"push", "deploy"} => mine = Nothing
      /\ asked[r].at \in {"drop", "publish", "push", "deploy"} => op.kind = "install"
  BY Updating DEF CInv
<1>3. copy = (IF t \in DOMAIN mine THEN mine[t] ELSE Base(r)[t]) /\ copy \in Copies
  <2>1. View(r) \in AllDocs /\ copy = IF t \in DOMAIN mine THEN mine[t] ELSE Base(r)[t]
    BY InProgress DEF CInv
  <2>. QED
    BY <2>1 DEF AllDocs
<1>4. copy # Absent =>
         /\ new = Absent <=> asked[r].at \in {"drop", "discard", "delete"}
         /\ new # Absent => /\ copy.public => new.public
                            /\ ~Waits(r, "pull") => copy.users \subseteq new.users
                            /\ Waits(r, "publish") => new.public
                            /\ Waits(r, "push") => op.user \in new.users
  BY <1>2, <1>3, UpdatedIs DEF Copies
<1>5. CASE d \in DOMAIN mine /\ (mine[d] = Absent \/ ~Unused(mine[d]))
  <2>1. asked[r].at \in {"push", "deploy"}
    BY <1>2, <1>5, NothingWritten
  <2>2. CASE Writes(r) /\ d = t
    <3>1. copy # Absent /\ copy = mine[d]
      BY <1>3, <1>5, <2>2 DEF Writes
    <3>2. new # Absent /\ ~Unused(new)
      BY <1>4, <1>5, <2>1, <3>1 DEF Unused, Waits
    <3>. QED
      BY <1>1, <2>2, <3>2
  <2>3. CASE ~(Writes(r) /\ d = t)
    BY <1>1, <1>5, <2>3
  <2>. QED
    BY <2>2, <2>3
<1>6. CASE asked[r].at \in {"publish", "push", "discard"} /\ asked[r].doc = d
  <2>1. d = t /\ Base(r)[d] # Absent
    BY <1>2, <1>6, Updating DEF Waits, Sound, Seeing, Idle
  <2>2. copy # Absent
    <3>1. CASE t \in DOMAIN mine
      <4>1. asked[r].at = "push" /\ op.kind = "install"
        BY <1>2, <1>6, <3>1, NothingWritten
      <4>. QED
        BY <1>2, <1>3, <3>1, <4>1 DEF Sound, Writing, Derived
    <3>. QED
      BY <1>3, <2>1, <3>1
  <2>3. Writes(r) /\ (new = Absent \/ ~Unused(new))
    <3>1. CASE asked[r].at = "discard"
      BY <1>4, <2>2, <3>1 DEF Writes
    <3>2. CASE asked[r].at = "push"
      BY <1>4, <2>2, <3>2 DEF Writes, Waits, Unused
    <3>3. CASE asked[r].at = "publish"
      <4>1. copy = Base(r)[d]
        BY <1>2, <1>3, <2>1, <3>3, NothingWritten
      <4>2. ~copy.public
        BY <1>2, <2>1, <4>1 DEF Sound, Seeing, Idle, Unused
      <4>3. new # Absent /\ new.public
        BY <1>4, <2>2, <3>3 DEF Waits
      <4>. HIDE DEF new, copy
      <4>4. new # copy
        BY <4>2, <4>3
      <4>. QED
        BY <2>2, <4>3, <4>4 DEF Writes, Unused, new, copy
    <3>. QED
      BY <1>6, <3>1, <3>2, <3>3
  <2>. QED
    BY <1>1, <2>1, <2>3
<1>. QED
  BY <1>5, <1>6 DEF Minds, Updates

\* A request that committed starts again from the documents.
LEMMA RenewedSound ==
    ASSUME NEW r, Suited(r)', asked'[r].at # "discard", asked'[r].snap = Nothing, asked'[r].mine = Nothing,
           \A d \in DocIds : docs'[d] # Absent => d <= made'
    PROVE  Sound(r)' /\ Base(r)' = docs'
<1>1. Base(r)' = docs'
  BY DEF Base, Snapshot
<1>2. Seeing(r)'
  BY <1>1 DEF Seeing
<1>3. Writing(r)'
  BY NothingWritten DEF Writing
<1>4. Clean(r)' /\ Leaving(r)'
  BY DEF Clean, Leaving
<1>. QED
  BY <1>1, <1>2, <1>3, <1>4 DEF Sound

\* One that did not reads what it read.
LEMMA StaysSound ==
    ASSUME CInv, docs' = docs, sessions' = sessions, dev' = dev, made' = made, NEW r \in InFlight,
           Suited(r)', Leaving(r)', asked'[r].at \notin {"add", "unused"}, asked'[r].snap = Snapshot(r),
           asked'[r].at \in {"drop", "publish", "pull", "discard", "delete"} => asked'[r].mine = Nothing,
           ~Transaction => asked'[r].mine = Nothing,
           docs[asked'[r].doc] # Absent => Base(r)[asked'[r].doc] # Absent,
           \A d \in DOMAIN asked'[r].mine : Base(r)[d] # Absent /\ docs[d] = Base(r)[d]
                                            /\ Derived(asked'[r].op, Base(r)[d], asked'[r].mine[d])
    PROVE  Sound(r)' /\ Base(r)' = Base(r)
<1>1. Transaction' = Transaction
  BY DEF Transaction
<1>2. Base(r)' = Base(r)
  <2>1. CASE ~Transaction
    BY <1>1, <2>1 DEF Base
  <2>2. CASE Transaction
    <3>1. Snapshot(r)' = IF Snapshot(r) = Nothing THEN docs ELSE Snapshot(r)
      BY <1>1, <2>2 DEF Snapshot
    <3>2. Snapshot(r) = Nothing => Snapshot(r) = docs
      BY <2>2 DEF Snapshot
    <3>3. Snapshot(r)' = Snapshot(r)
      BY <3>1, <3>2
    <3>. QED
      BY <1>1, <2>2, <3>3 DEF Base
  <2>. QED
    BY <2>1, <2>2
<1>3. Sound(r)
  BY DEF CInv
<1>4. Seeing(r)'
  BY <1>2, <1>3 DEF Sound, Seeing
<1>5. Writing(r)'
  <2>. DEFINE base == Base(r)
  <2>. HIDE DEF base
  <2>1. Base(r)' = base /\ \A d \in DOMAIN asked'[r].mine : base[d] # Absent /\ docs[d] = base[d]
                                            /\ Derived(asked'[r].op, base[d], asked'[r].mine[d])
    BY <1>2 DEF base
  <2>. QED
    BY <2>1 DEF Writing, Derived
<1>6. Clean(r)'
  BY <1>1, <1>3 DEF Sound, Clean, Snapshot
<1>. QED
  BY <1>2, <1>4, <1>5, <1>6 DEF Sound

\* An update, and where the request goes on.
LEMMA UpdateKeeps ==
    ASSUME CInv, NEW r \in InFlight, Updates(r), Target(r) \in DocIds,
           NEW place \in {"add", "push", "deploy", "reread", "unused", "unindex"}, NEW commits \in BOOLEAN,
           Update(r, Goes(r, place), commits), UNCHANGED <<sessions, dev, made, told, lapsed>>,
           place \in {"add", "push", "deploy", "reread"} => asked[r].op.kind = "install",
           place = "unindex" => asked[r].op.kind # "install",
           Waits(r, "pull") <=> place = "unused",
           ~commits => place # "add" /\ asked[r].at \in {"publish", "deploy", "delete"}
    PROVE  CInv'
<1>. DEFINE a == asked[r]
            wrote == Wrote(r)
            others == InFlight \ {r}
<1>1. /\ commits \/ ~Transaction => Becomes(r, place, a.doc, a.fresh, Nothing, Nothing) /\ docs' = Overlaid(wrote, docs)
      /\ ~(commits \/ ~Transaction) => Becomes(r, place, a.doc, a.fresh, Snapshot(r), wrote) /\ docs' = docs
      /\ Writes(r) => Unclaimed(r, Target(r))
  <2>1. place \in Places /\ Types
    BY DEF Places, CInv
  <2>. QED
    BY <2>1, UpdateBecomes
<1>2. /\ a \in Asks /\ a.doc \in Nat /\ a.fresh \in BOOLEAN /\ Snapshot(r) \in AllDocs \cup {Nothing}
      /\ a.op \in CatalogueOps /\ docs \in AllDocs /\ place \in Places
  BY InProgress DEF CInv, Asks, Places, Types
<1>3. /\ wrote \in SomeDocs /\ DOMAIN wrote = IF Writes(r) THEN DOMAIN a.mine \cup {Target(r)} ELSE DOMAIN a.mine
      /\ \A d \in DOMAIN wrote : Base(r)[d] # Absent /\ docs[d] = Base(r)[d]
      /\ \A d \in DOMAIN wrote : \A q \in others : d \notin DOMAIN asked[q].mine
  BY <1>1, WroteIs
<1>4. \A d \in DOMAIN wrote :
         /\ docs[d] # Absent /\ Keeps(a.op, docs[d], wrote[d])
         /\ a.at \in {"publish", "push", "deploy", "delete"} => Derived(a.op, Base(r)[d], wrote[d])
         /\ a.at \in {"drop", "discard", "delete"} => wrote[d] = Absent
  BY <1>1, WroteKeeps
<1>5. \A d \in DocIds : Idle(d) /\ Minds(r, d) => d \in DOMAIN wrote /\ (wrote[d] = Absent \/ ~Unused(wrote[d]))
  BY <1>1, WroteMinds
<1>6. Types /\ Sound(r) /\ Suited(r) /\ (Transaction /\ ~dev => Undisturbed(r))
  BY DEF CInv, Sound, Promised
<1>9. \A d \in DOMAIN wrote : /\ docs[d] # Absent /\ Keeps(a.op, docs[d], wrote[d])
                             /\ \A q \in others : d \notin DOMAIN asked[q].mine
  BY <1>3, <1>4
<1>10. /\ a.doc \in 1..made
       /\ place \in {"add", "push", "deploy", "reread"} => a.op.kind = "install"
       /\ place = "unused" => a.op.kind = "uninstall"
       /\ place = "unindex" => a.op.kind # "install"
  BY <1>6 DEF Suited, Updates, Waits
<1>11. ASSUME asked'[r].op = a.op, \A q \in Slots \ {r} : asked'[q] = asked[q], InFlight' = InFlight, NEW u, Safe(u)
       PROVE  Safe(u)'
  BY <1>11 DEF Safe, InFlight
<1>7. CASE commits \/ ~Transaction
  <2>1. Becomes(r, place, a.doc, a.fresh, Nothing, Nothing) /\ docs' = Overlaid(wrote, docs)
    BY <1>1, <1>7
  <2>2. /\ asked' \in [Slots -> Asks \cup {Served}] /\ \A q \in Slots \ {r} : asked'[q] = asked[q]
        /\ asked'[r].at = place /\ asked'[r].op = a.op /\ asked'[r].doc = a.doc /\ asked'[r].fresh = a.fresh
        /\ asked'[r].snap = Nothing /\ asked'[r].mine = Nothing /\ asked'[r].sole = a.sole /\ InFlight' = InFlight
    BY <1>2, <1>6, <2>1, BecomesRenewed
  <2>3. /\ Footprint(others, a.op) /\ docs' \in AllDocs
        /\ \A d \in DocIds : docs'[d] = IF d \in DOMAIN wrote THEN wrote[d] ELSE docs[d]
    <3>. HIDE DEF wrote, others
    <3>1. docs \in AllDocs /\ a.op \in CatalogueOps /\ wrote \in SomeDocs /\ docs' = Overlaid(wrote, docs)
      BY <1>2, <1>3, <2>1
    <3>2. Footprint(others, a.op) /\ docs' \in AllDocs
      BY <1>9, <3>1, CommitFootprint
    <3>3. \A d \in DocIds : docs'[d] = IF d \in DOMAIN wrote THEN wrote[d] ELSE docs[d]
      BY <3>1, OverAll
    <3>. QED
      BY <3>2, <3>3
  <2>4. \A d \in DocIds : docs'[d] # Absent => d <= made'
    BY <1>4, <1>6, <2>3 DEF Types
  <2>5. Suited(r)'
    BY <1>10, <2>2 DEF Suited
  <2>6. Sound(r)' /\ Base(r)' = docs'
    BY <2>2, <2>4, <2>5, RenewedSound
  <2>7. Transaction /\ ~dev => Undisturbed(r)'
    BY <1>6, <1>11, <2>2, <2>6 DEF Undisturbed
  <2>8. ASSUME NEW d \in DocIds, Idle(d)', ~(Idle(d) /\ ~Minds(r, d))
        PROVE  Minds(r, d)'
    <3>1. d \in DOMAIN wrote => wrote[d] # Absent /\ Unused(wrote[d])
      BY <2>3, <2>8 DEF Idle
    <3>2. ~Idle(d)
      BY <1>5, <2>8, <3>1
    <3>3. d \in DOMAIN wrote
      BY <2>3, <2>8, <3>2 DEF Idle
    <3>4. a.op.kind = "uninstall"
      BY <1>4, <3>1, <3>2, <3>3 DEF Keeps, Idle
    <3>5. a.at = "pull"
      BY <1>4, <1>6, <3>1, <3>3, <3>4 DEF Updates, Suited
    <3>6. Target(r) = a.doc /\ a.mine = Nothing
      BY <3>5, Updating DEF Waits
    <3>7. d = a.doc
      BY <1>3, <3>3, <3>6, NothingWritten
    <3>. QED
      BY <2>2, <3>5, <3>7 DEF Minds, Waits
  <2>9. place # "served"
    OBVIOUS
  <2>. HIDE DEF wrote
  <2>10. ~lapsed' => \A d \in DocIds :
               Idle(d)' => \/ Idle(d) /\ ~Minds(r, d)
                           \/ asked'[r].at # "served" /\ Minds(r, d)'
    BY <2>2, <2>8, <2>9
  <2>11. \A q \in others : DOMAIN asked'[r].mine \cap DOMAIN asked[q].mine = {}
    BY <2>2, NothingWritten
  <2>. QED
    <3>1. /\ made' \in Nat /\ made <= made' /\ made' <= MaxDocs /\ (made' > 0 => People # {})
          /\ told' \subseteq People /\ told' = told /\ (~lapsed' => ~lapsed)
      BY <1>6 DEF Types
    <3>. QED
      BY <2>2, <2>3, <2>4, <2>6, <2>7, <2>10, <2>11, <3>1, StepKeeps
<1>8. CASE ~(commits \/ ~Transaction)
  <2>1. Becomes(r, place, a.doc, a.fresh, Snapshot(r), wrote) /\ docs' = docs
    BY <1>1, <1>8
  <2>2. /\ asked' \in [Slots -> Asks \cup {Served}] /\ \A q \in Slots \ {r} : asked'[q] = asked[q]
        /\ asked'[r].at = place /\ asked'[r].op = a.op /\ asked'[r].doc = a.doc /\ asked'[r].fresh = a.fresh
        /\ asked'[r].snap = Snapshot(r) /\ asked'[r].mine = wrote /\ asked'[r].sole = a.sole /\ InFlight' = InFlight
    BY <1>2, <1>3, <1>6, <2>1, BecomesFields
  <2>3. Footprint(others, a.op)
    BY <2>1 DEF Footprint, Keeps
  <2>4. a.at \in {"publish", "deploy", "delete"} /\ place \notin {"add", "unused"} /\ Transaction
    BY <1>8 DEF Waits
  <2>5. Suited(r)' /\ Leaving(r)'
    BY <1>10, <2>2 DEF Suited, Leaving
  <2>6. docs[a.doc] # Absent => Base(r)[a.doc] # Absent
    BY <1>6, <2>4 DEF Sound, Seeing
  <2>7. \A d \in DOMAIN wrote : Derived(a.op, Base(r)[d], wrote[d])
    BY <1>4, <2>4
  <2>. HIDE DEF wrote
  <2>8. Sound(r)' /\ Base(r)' = Base(r)
    BY <1>3, <2>1, <2>2, <2>4, <2>5, <2>6, <2>7, StaysSound
  <2>9. Transaction /\ ~dev => Undisturbed(r)'
    BY <1>6, <1>11, <2>1, <2>2, <2>8 DEF Undisturbed
  <2>10. ASSUME NEW d \in DocIds, Idle(d)', ~(Idle(d) /\ ~Minds(r, d))
        PROVE  Minds(r, d)'
    BY <1>5, <2>1, <2>2, <2>10 DEF Idle, Minds
  <2>11. ~lapsed' => \A d \in DocIds :
               Idle(d)' => \/ Idle(d) /\ ~Minds(r, d)
                           \/ asked'[r].at # "served" /\ Minds(r, d)'
    BY <2>2, <2>10
  <2>12. \A q \in others : DOMAIN asked'[r].mine \cap DOMAIN asked[q].mine = {}
    BY <1>3, <2>2
  <2>. QED
    BY <1>2, <1>6, <2>1, <2>2, <2>3, <2>8, <2>9, <2>11, <2>12, StepKeeps DEF Types
<1>. QED
  BY <1>7, <1>8

LEMMA GoesBecomes ==
    ASSUME Types, NEW r \in InFlight, NEW place \in Places, NEW doc \in Nat, NEW fresh \in BOOLEAN,
           asked' = [asked EXCEPT ![r] = [Goes(r, place) EXCEPT !.doc = doc, !.fresh = fresh]]
    PROVE  Becomes(r, place, doc, fresh, Snapshot(r), asked[r].mine)
<1>. DEFINE a == asked[r]
            go == Goes(r, place)
            further == [go EXCEPT !.doc = doc]
<1>1. a \in Asks /\ Goes(r, place) = [a EXCEPT !.at = place, !.snap = Snapshot(r)]
  BY InProgress DEF Goes
<1>. HIDE DEF a
<1>2. go = [at |-> place, op |-> a.op, doc |-> a.doc, fresh |-> a.fresh,
            snap |-> Snapshot(r), mine |-> a.mine, sole |-> a.sole]
  BY <1>1 DEF Asks
<1>. HIDE DEF go
<1>3. further = [at |-> place, op |-> a.op, doc |-> doc, fresh |-> a.fresh,
                 snap |-> Snapshot(r), mine |-> a.mine, sole |-> a.sole]
  BY <1>2
<1>4. asked' = [asked EXCEPT ![r] = [further EXCEPT !.fresh = fresh]]
  BY DEF go
<1>. HIDE DEF further
<1>5. [further EXCEPT !.fresh = fresh] = [at |-> place, op |-> a.op, doc |-> doc, fresh |-> fresh,
                                         snap |-> Snapshot(r), mine |-> a.mine, sole |-> a.sole]
  BY <1>3
<1>. QED
  BY <1>4, <1>5 DEF Becomes, a

LEMMA GoesOn ==
    ASSUME Types, NEW r \in InFlight, NEW place \in Places, asked' = [asked EXCEPT ![r] = Goes(r, place)]
    PROVE  Becomes(r, place, asked[r].doc, asked[r].fresh, Snapshot(r), asked[r].mine)
<1>. DEFINE a == asked[r]
<1>1. a \in Asks /\ Goes(r, place) = [a EXCEPT !.at = place, !.snap = Snapshot(r)]
  BY InProgress DEF Goes
<1>. HIDE DEF a
<1>2. Goes(r, place) = [at |-> place, op |-> a.op, doc |-> a.doc, fresh |-> a.fresh,
                        snap |-> Snapshot(r), mine |-> a.mine, sole |-> a.sole]
  BY <1>1 DEF Asks
<1>. QED
  BY <1>2 DEF Becomes, a

\* A step that writes nothing.
LEMMA LookKeeps ==
    ASSUME CInv, NEW r \in InFlight, NEW place \in {"refuse", "index", "answer", "discard", "unindex"},
           NEW doc \in 1..made, NEW fresh \in BOOLEAN,
           Becomes(r, place, doc, fresh, Snapshot(r), asked[r].mine),
           UNCHANGED <<sessions, dev, docs, made, told, lapsed>>,
           place \in {"refuse", "index"} => asked[r].op.kind = "install",
           place = "unindex" => asked[r].op.kind # "install",
           place = "discard" =>
               /\ asked[r].mine = Nothing /\ asked[r].op.kind = "uninstall"
               /\ Transaction => Snapshot(r) # Nothing /\ Snapshot(r)[doc] # Absent /\ Unused(Snapshot(r)[doc]),
           docs[doc] # Absent => Base(r)[doc] # Absent,
           fresh /\ place \in {"index", "answer"} /\ asked[r].sole /\ Transaction /\ ~dev =>
               Has(Overlaid(asked[r].mine, docs)[doc], asked[r].op.user),
           asked[r].at \notin {"publish", "push", "discard"},
           Waits(r, "unused") => doc = asked[r].doc /\ (Idle(doc) => place = "discard")
    PROVE  CInv'
<1>. DEFINE a == asked[r]
            mine == asked[r].mine
            others == InFlight \ {r}
<1>1. /\ a \in Asks /\ mine \in SomeDocs /\ Snapshot(r) \in AllDocs \cup {Nothing}
      /\ docs \in AllDocs /\ place \in Places /\ doc \in Nat
  BY InProgress DEF CInv, Places, Types
<1>2. Types /\ Sound(r) /\ (Transaction /\ ~dev => Undisturbed(r))
  BY DEF CInv, Promised
<1>3. /\ asked' \in [Slots -> Asks \cup {Served}] /\ \A q \in Slots \ {r} : asked'[q] = asked[q]
      /\ asked'[r].at = place /\ asked'[r].op = a.op /\ asked'[r].doc = doc /\ asked'[r].fresh = fresh
      /\ asked'[r].snap = Snapshot(r) /\ asked'[r].mine = mine /\ asked'[r].sole = a.sole /\ InFlight' = InFlight
  <2>1. Types /\ place \in Places /\ doc \in Nat /\ Snapshot(r) \in AllDocs \cup {Nothing} /\ mine \in SomeDocs
    BY <1>1, <1>2
  <2>. DEFINE it == doc
              view == Snapshot(r)
  <2>2. Becomes(r, place, it, fresh, view, mine) /\ it \in Nat /\ view \in AllDocs \cup {Nothing}
    BY <2>1
  <2>. HIDE DEF mine, it, view
  <2>3. /\ asked' \in [Slots -> Asks \cup {Served}]
        /\ asked'[r].at = place /\ asked'[r].op = asked[r].op /\ asked'[r].doc = it /\ asked'[r].fresh = fresh
        /\ asked'[r].snap = view /\ asked'[r].mine = mine /\ asked'[r].sole = asked[r].sole
        /\ \A q \in Slots \ {r} : asked'[q] = asked[q]
        /\ InFlight' = InFlight
    BY <2>1, <2>2, BecomesFields, SMTT(30)
  <2>. QED
    BY <2>3 DEF it, view
<1>4. Footprint(others, a.op)
  BY DEF Footprint, Keeps
<1>5. Suited(r)' /\ Leaving(r)'
  BY <1>3 DEF Suited, Leaving, Transaction
<1>6. /\ \A d \in DOMAIN mine : Base(r)[d] # Absent /\ docs[d] = Base(r)[d] /\ Derived(a.op, Base(r)[d], mine[d])
      /\ ~Transaction => mine = Nothing
  BY <1>2 DEF Sound, Writing, Clean
<1>7. Sound(r)' /\ Base(r)' = Base(r)
  BY <1>3, <1>5, <1>6, StaysSound
<1>8. ASSUME NEW u, Safe(u)
      PROVE  Safe(u)'
  BY <1>3, <1>8 DEF Safe, InFlight
<1>9. Transaction /\ ~dev => Undisturbed(r)'
  BY <1>2, <1>3, <1>7, <1>8 DEF Undisturbed
<1>10. ASSUME NEW d \in DocIds, Idle(d)', ~(Idle(d) /\ ~Minds(r, d))
       PROVE  Minds(r, d)'
  <2>1. Idle(d) /\ Minds(r, d)
    BY <1>10 DEF Idle
  <2>. QED
    BY <1>3, <2>1 DEF Minds, Waits
<1>11. ~lapsed' => \A d \in DocIds :
               Idle(d)' => \/ Idle(d) /\ ~Minds(r, d)
                           \/ asked'[r].at # "served" /\ Minds(r, d)'
  BY <1>3, <1>10
<1>12. \A q \in others : DOMAIN asked'[r].mine \cap DOMAIN asked[q].mine = {}
  BY <1>3 DEF CInv, Apart
<1>13. /\ made' \in Nat /\ made <= made' /\ made' <= MaxDocs /\ (made' > 0 => People # {})
       /\ \A d \in DocIds : docs'[d] # Absent => d <= made'
       /\ told' \subseteq People /\ told' = told /\ (~lapsed' => ~lapsed) /\ docs' \in AllDocs
  BY <1>2 DEF Types
<1>. QED
  BY <1>3, <1>4, <1>7, <1>9, <1>11, <1>12, <1>13, StepKeeps

-----------------------------------------------------------------------------
(* Every action keeps the invariant.                                       *)

LEMMA Updaters ==
    ASSUME CInv, NEW r \in Slots, DropDev(r) \/ Publish(r) \/ Push(r) \/ Pull(r) \/ Discard(r) \/ Delete(r)
    PROVE  CInv'
<1>. DEFINE at == asked[r].at
            place == CASE at = "drop" -> "add"
                       [] at = "publish" -> IF asked[r].op.add THEN "push" ELSE "deploy"
                       [] at = "push" -> "deploy"
                       [] at = "pull" -> "unused"
                       [] at \in {"discard", "delete"} -> "unindex"
            commits == at \notin {"publish", "delete"}
<1>1. at \in {"drop", "publish", "push", "pull", "discard", "delete"} /\ r \in InFlight /\ Updates(r)
  BY DEF DropDev, Publish, Push, Pull, Discard, Delete, InFlight, Updates, Waits
<1>2. place \in {"add", "push", "deploy", "unused", "unindex"}
  BY <1>1
<1>3. Update(r, Goes(r, place), commits) /\ UNCHANGED <<sessions, dev, made, told, lapsed>>
  <2>1. CASE DropDev(r)
    BY <2>1 DEF DropDev, Waits
  <2>2. CASE Publish(r)
    BY <2>2 DEF Publish, Waits
  <2>3. CASE Push(r)
    BY <2>3 DEF Push, Waits
  <2>4. CASE Pull(r)
    BY <2>4 DEF Pull, Waits
  <2>5. CASE Discard(r)
    BY <2>5 DEF Discard, Waits
  <2>6. CASE Delete(r)
    BY <2>6 DEF Delete, Waits
  <2>. QED
    BY <2>1, <2>2, <2>3, <2>4, <2>5, <2>6
<1>4. /\ Target(r) \in DocIds
      /\ place \in {"add", "push", "deploy"} => asked[r].op.kind = "install"
      /\ place = "unindex" => asked[r].op.kind # "install"
      /\ Waits(r, "pull") <=> place = "unused"
      /\ ~commits => place # "add" /\ at \in {"publish", "deploy", "delete"}
  BY <1>1, Updating DEF Waits
<1>5. commits \in BOOLEAN
  OBVIOUS
<1>. HIDE DEF place, commits
<1>. QED
  BY <1>1, <1>2, <1>3, <1>4, <1>5, UpdateKeeps

LEMMA Deploying ==
    ASSUME CInv, NEW r \in Slots, Deploy(r)
    PROVE  CInv'
<1>1. r \in InFlight /\ Updates(r) /\ asked[r].at = "deploy" /\ asked[r].op.kind = "install"
  BY Updating DEF Deploy, InFlight, Updates, Waits
<1>2. Update(r, Goes(r, "reread"), FALSE) /\ UNCHANGED <<sessions, dev, made, told, lapsed>>
  BY DEF Deploy
<1>3. Target(r) \in DocIds
  BY <1>1, InProgress, MinExists DEF Deploy, Target, CInv
<1>. DEFINE commits == FALSE
<1>4. commits \in BOOLEAN /\ ~commits /\ Update(r, Goes(r, "reread"), commits)
  BY <1>2
<1>. HIDE DEF commits
<1>. QED
  BY <1>1, <1>2, <1>3, <1>4, UpdateKeeps DEF Waits

LEMMA Lookers ==
    ASSUME CInv, NEW r \in Slots,
           Unsupported(r) \/ Reread(r) \/ Index(r) \/ FindUnused(r) \/ Unindex(r)
    PROVE  CInv'
<1>. DEFINE a == asked[r]
            op == asked[r].op
            Next(place, doc, fresh) == Becomes(r, place, doc, fresh, Snapshot(r), asked[r].mine)
<1>1. /\ a.at \in {"deploy", "reread", "index", "unused", "unindex"} /\ r \in InFlight
      /\ UNCHANGED <<sessions, dev, docs, made, told, lapsed>>
  BY DEF Unsupported, Reread, Index, FindUnused, Unindex, InFlight, Waits
<1>2. /\ a \in Asks /\ a.doc \in 1..made /\ a.doc \in Nat /\ a.doc \in DocIds /\ a.fresh \in BOOLEAN
      /\ Types /\ Sound(r) /\ View(r) \in AllDocs /\ op.user \in People
      /\ \A d \in DocIds : View(r)[d] = IF d \in DOMAIN a.mine THEN a.mine[d] ELSE Base(r)[d]
      /\ docs[a.doc] # Absent => Base(r)[a.doc] # Absent
  <2>1. a \in Asks /\ View(r) \in AllDocs /\ Types /\ Sound(r)
        /\ \A d \in DocIds : View(r)[d] = IF d \in DOMAIN a.mine THEN a.mine[d] ELSE Base(r)[d]
    BY <1>1, InProgress DEF CInv
  <2>2. a.doc \in 1..made /\ made \in Nat /\ made <= MaxDocs
    BY <1>1, <2>1 DEF Sound, Suited, Types
  <2>3. a.doc \in Nat /\ a.doc \in DocIds
    BY <2>2, CatalogueConstants DEF DocIds
  <2>4. docs[a.doc] # Absent => Base(r)[a.doc] # Absent
    BY <1>1, <2>1 DEF Sound, Seeing
  <2>. QED
    BY <2>1, <2>2, <2>3, <2>4 DEF Asks, CatalogueOps
<1>3. /\ a.at \in {"deploy", "reread", "index"} => op.kind = "install"
      /\ a.at = "unindex" => op.kind # "install"
      /\ a.at = "unused" => op.kind = "uninstall" /\ a.mine = Nothing /\ a.snap = Nothing
  BY <1>2 DEF Sound, Suited, Clean
<1>4. CASE Index(r)
  <2>1. Next("answer", a.doc, a.fresh) /\ a.at = "index"
    BY <1>1, <1>2, <1>4, GoesOn DEF Index, Places, Waits
  <2>2. a.fresh /\ a.sole /\ Transaction /\ ~dev => Has(Overlaid(a.mine, docs)[a.doc], op.user)
    BY <1>1, <2>1 DEF CInv, Promised, Undisturbed
  <2>. QED
    BY <1>1, <1>2, <1>3, <2>1, <2>2, LookKeeps DEF Waits
<1>5. CASE Unindex(r)
  <2>1. Next("answer", a.doc, a.fresh) /\ a.at = "unindex"
    BY <1>1, <1>2, <1>5, GoesOn DEF Unindex, Places, Waits
  <2>2. a.sole /\ Transaction /\ ~dev => FALSE
    BY <1>1, <1>3, <2>1 DEF CInv, Promised, Undisturbed
  <2>. QED
    BY <1>1, <1>2, <1>3, <2>1, <2>2, LookKeeps DEF Waits
<1>6. CASE FindUnused(r)
  <2>. DEFINE copy == View(r)[a.doc]
              next == IF copy = Absent THEN "unindex" ELSE IF Unused(copy) THEN "discard" ELSE "unindex"
  <2>1. asked' = [asked EXCEPT ![r] = Goes(r, next)] /\ a.at = "unused"
    BY <1>6 DEF FindUnused, Waits
  <2>2. copy = Base(r)[a.doc]
    BY <1>2, <1>3, <2>1, NothingWritten
  <2>3. Base(r) = docs /\ (Transaction => Snapshot(r) = docs)
    BY <1>3, <2>1 DEF Base, Snapshot
  <2>4. Idle(a.doc) => next = "discard"
    BY <2>2, <2>3 DEF Idle
  <2>5. next = "discard" /\ Transaction => Snapshot(r) # Nothing /\ Snapshot(r)[a.doc] # Absent /\ Unused(Snapshot(r)[a.doc])
    <3>1. docs # Nothing
      BY <1>2, NothingWritten DEF Types, AllDocs
    <3>. QED
      BY <2>2, <2>3, <3>1
  <2>. HIDE DEF next
  <2>6. next \in {"discard", "unindex"}
    BY DEF next
  <2>7. Next(next, a.doc, a.fresh)
    BY <1>1, <1>2, <2>1, <2>6, GoesOn DEF Places
  <2>. QED
    BY <1>1, <1>2, <1>3, <2>1, <2>4, <2>5, <2>6, <2>7, LookKeeps DEF Waits
<1>7. CASE Reread(r)
  <2>. DEFINE d == Min(Exist(View(r)))
              u == op.user
              added == a.fresh /\ InstalledFor(View(r)[d], u)
  <2>1. /\ a.at = "reread" /\ Exist(View(r)) # {}
        /\ \/ asked' = [asked EXCEPT ![r] = [Goes(r, "index") EXCEPT !.doc = d, !.fresh = added]]
           \/ asked' = [asked EXCEPT ![r] = Goes(r, "refuse")]
    BY <1>7 DEF Reread, Waits
  <2>2. d \in DocIds /\ View(r)[d] # Absent
    BY <1>2, <2>1, MinExists
  <2>3. Base(r)[d] # Absent
    BY <1>2, <2>2 DEF Sound, Writing
  <2>4. d \in 1..made /\ d \in Nat
    <3>1. d \in Nat /\ 1 <= d /\ d <= made /\ made \in Nat
      BY <1>2, <2>2, <2>3, CatalogueConstants DEF Sound, Seeing, DocIds, Types
    <3>. HIDE DEF d
    <3>. QED
      BY <3>1
  <2>5. added /\ a.sole /\ Transaction /\ ~dev => Has(Overlaid(a.mine, docs)[d], u)
    <3>. SUFFICES ASSUME added, a.sole, Transaction, ~dev
                  PROVE  Has(Overlaid(a.mine, docs)[d], u)
      OBVIOUS
    <3>1. Overlaid(a.mine, docs)[d] = IF d \in DOMAIN a.mine THEN a.mine[d] ELSE docs[d]
      BY <1>1, <1>2, <2>2, InProgress, OverAll DEF CInv, Types
    <3>2. Has(View(r)[d], u)
      BY <2>2 DEF Has
    <3>3. Has(Base(r)[d], u) => Has(docs[d], u)
      BY <1>1, <2>2 DEF CInv, Promised, Undisturbed
    <3>. QED
      BY <1>2, <2>2, <3>1, <3>2, <3>3
  <2>6. added \in BOOLEAN
    <3>1. InstalledFor(View(r)[d], u) \in BOOLEAN
      BY DEF InstalledFor
    <3>. QED
      BY <1>2, <3>1
  <2>. HIDE DEF d, added
  <2>7. CASE asked' = [asked EXCEPT ![r] = [Goes(r, "index") EXCEPT !.doc = d, !.fresh = added]]
    <3>1. Next("index", d, added)
      BY <1>1, <1>2, <2>4, <2>6, <2>7, GoesBecomes DEF Places
    <3>. QED
      BY <1>1, <1>2, <1>3, <2>1, <2>3, <2>4, <2>5, <2>6, <3>1, LookKeeps DEF Waits
  <2>8. CASE asked' = [asked EXCEPT ![r] = Goes(r, "refuse")]
    <3>1. Next("refuse", a.doc, a.fresh)
      BY <1>1, <1>2, <2>8, GoesOn DEF Places
    <3>. QED
      BY <1>1, <1>2, <1>3, <2>1, <3>1, LookKeeps DEF Waits
  <2>. QED
    BY <2>1, <2>7, <2>8
<1>8. CASE Unsupported(r)
  <2>1. Next("refuse", a.doc, a.fresh) /\ a.at = "deploy"
    BY <1>1, <1>2, <1>8, GoesOn DEF Unsupported, Places, Waits
  <2>. QED
    BY <1>1, <1>2, <1>3, <2>1, LookKeeps DEF Waits
<1>. QED
  BY <1>4, <1>5, <1>6, <1>7, <1>8

LEMMA Adding ==
    ASSUME CInv, NEW r \in Slots, AddResource(r)
    PROVE  CInv'
<1>. DEFINE a == asked[r]
            d == made + 1
            place == Onwards(a.op, FALSE)
            others == InFlight \ {r}
            fresh == TRUE
<1>1. /\ a.at = "add" /\ r \in InFlight /\ made < MaxDocs /\ made' = d /\ docs' = [docs EXCEPT ![d] = NewDocument]
      /\ asked' = [asked EXCEPT ![r] = [Renewed(a) EXCEPT !.at = place, !.doc = d, !.fresh = fresh]]
      /\ fresh = TRUE /\ fresh \in BOOLEAN
      /\ UNCHANGED <<sessions, dev, told, lapsed>>
  BY DEF AddResource, InFlight, Waits
<1>2. /\ a \in Asks /\ Types /\ Sound(r) /\ (Transaction /\ ~dev => Undisturbed(r)) /\ a.op \in CatalogueOps
  BY <1>1, InProgress DEF CInv, Promised, Asks
<1>3. /\ a.op.kind = "install" /\ a.op.user \in People /\ place \in {"publish", "push"} /\ place \in Places
  BY <1>1, <1>2 DEF Sound, Suited, CatalogueOps, Onwards, Places
<1>4. /\ made \in Nat /\ MaxDocs \in Nat /\ docs \in AllDocs /\ d \in DocIds /\ d \in Nat /\ docs[d] = Absent
      /\ \A e \in DocIds : docs[e] # Absent => e <= made
  <2>1. /\ made \in Nat /\ MaxDocs \in Nat /\ docs \in AllDocs
        /\ \A e \in DocIds : docs[e] # Absent => e <= made
    BY <1>2, CatalogueConstants DEF Types
  <2>2. d \in DocIds /\ ~(d <= made)
    BY <1>1, <2>1 DEF DocIds
  <2>. QED
    BY <2>1, <2>2
<1>5. NewDocument \in Documents /\ NewDocument # Absent /\ NewDocument \in Copies
  BY AbsentApart DEF NewDocument, Documents, Copies
<1>. HIDE DEF d, place, fresh
<1>6. docs' \in AllDocs /\ docs'[d] = NewDocument /\ \A e \in DocIds \ {d} : docs'[e] = docs[e]
  BY <1>1, <1>4, <1>5 DEF AllDocs
<1>7. Becomes(r, place, d, fresh, Nothing, Nothing)
  <2>. DEFINE renewed == Renewed(a)
  <2>1. renewed = [at |-> a.at, op |-> a.op, doc |-> a.doc, fresh |-> a.fresh,
                   snap |-> Nothing, mine |-> Nothing, sole |-> a.sole]
    <3>. HIDE DEF a
    <3>. DEFINE further == [a EXCEPT !.snap = Nothing]
    <3>1. further = [at |-> a.at, op |-> a.op, doc |-> a.doc, fresh |-> a.fresh,
                     snap |-> Nothing, mine |-> a.mine, sole |-> a.sole]
      BY <1>2 DEF Asks
    <3>2. renewed = [further EXCEPT !.mine = Nothing]
      BY <1>2 DEF Renewed, Asks
    <3>. HIDE DEF further
    <3>. QED
      BY <3>1, <3>2
  <2>. HIDE DEF renewed
  <2>. DEFINE on == [renewed EXCEPT !.at = place]
              there == [on EXCEPT !.doc = d]
  <2>2. [renewed EXCEPT !.at = place, !.doc = d, !.fresh = fresh] = [there EXCEPT !.fresh = fresh]
    BY <2>1
  <2>3. on = [at |-> place, op |-> a.op, doc |-> a.doc, fresh |-> a.fresh,
              snap |-> Nothing, mine |-> Nothing, sole |-> a.sole]
    BY <2>1
  <2>. HIDE DEF on
  <2>4. there = [at |-> place, op |-> a.op, doc |-> d, fresh |-> a.fresh,
                 snap |-> Nothing, mine |-> Nothing, sole |-> a.sole]
    BY <2>3
  <2>. HIDE DEF there
  <2>5. [there EXCEPT !.fresh = fresh] = [at |-> place, op |-> a.op, doc |-> d, fresh |-> fresh,
                                          snap |-> Nothing, mine |-> Nothing, sole |-> a.sole]
    BY <2>4
  <2>. QED
    BY <1>1, <2>2, <2>5 DEF Becomes, renewed
<1>8. /\ asked' \in [Slots -> Asks \cup {Served}] /\ \A q \in Slots \ {r} : asked'[q] = asked[q]
      /\ asked'[r].at = place /\ asked'[r].op = a.op /\ asked'[r].doc = d /\ asked'[r].fresh = fresh
      /\ asked'[r].snap = Nothing /\ asked'[r].mine = Nothing /\ asked'[r].sole = a.sole /\ InFlight' = InFlight
  BY <1>1, <1>2, <1>3, <1>4, <1>7, BecomesRenewed
<1>9. ASSUME NEW q \in others
      PROVE  d \notin DOMAIN asked[q].mine
  <2>1. \A e \in DOMAIN asked[q].mine : docs[e] # Absent
    BY DEF CInv, Sound, Writing
  <2>. QED
    BY <1>4, <2>1
<1>10. Footprint(others, a.op)
  <2>. SUFFICES ASSUME NEW e \in DocIds
                PROVE  /\ e <= made /\ docs[e] = Absent => docs'[e] = Absent
                       /\ docs[e] # Absent => Keeps(a.op, docs[e], docs'[e])
                       /\ \A q \in others : e \in DOMAIN asked[q].mine => docs'[e] = docs[e]
    BY DEF Footprint
  <2>1. CASE e = d
    <3>1. ~(e <= made)
      BY <1>4, <2>1 DEF d
    <3>. QED
      BY <1>4, <1>9, <2>1, <3>1
  <2>2. CASE e # d
    BY <1>6, <2>2 DEF Keeps
  <2>. QED
    BY <2>1, <2>2
<1>11. made' \in Nat /\ made <= made' /\ made' <= MaxDocs /\ \A e \in DocIds : docs'[e] # Absent => e <= made'
  <2>1. made' = made + 1 /\ made + 1 <= MaxDocs
    BY <1>1, <1>4 DEF d
  <2>2. \A e \in DocIds : e \in Nat
    BY DEF DocIds
  <2>. QED
    BY <1>1, <1>4, <1>6, <2>1, <2>2 DEF d
<1>12. Suited(r)'
  <2>1. d \in 1..made'
    BY <1>1, <1>4 DEF d
  <2>. QED
    BY <1>3, <1>8, <2>1 DEF Suited
<1>13. Sound(r)' /\ Base(r)' = docs'
  BY <1>3, <1>8, <1>11, <1>12, RenewedSound
<1>14. Transaction /\ ~dev => Undisturbed(r)'
  <2>1. ASSUME NEW u, Safe(u) PROVE Safe(u)'
    BY <1>8, <2>1 DEF Safe, InFlight
  <2>. QED
    BY <1>2, <1>3, <1>8, <1>13, <2>1 DEF Undisturbed
<1>15. ~lapsed' => \A e \in DocIds :
               Idle(e)' => \/ Idle(e) /\ ~Minds(r, e)
                           \/ asked'[r].at # "served" /\ Minds(r, e)'
  <2>. SUFFICES ASSUME NEW e \in DocIds, Idle(e)'
                PROVE  \/ Idle(e) /\ ~Minds(r, e)
                       \/ asked'[r].at # "served" /\ Minds(r, e)'
    OBVIOUS
  <2>1. CASE e = d
    BY <1>3, <1>8, <2>1 DEF Minds
  <2>2. CASE e # d
    <3>1. Idle(e)
      BY <1>6, <2>2 DEF Idle
    <3>2. a.mine = Nothing
      BY <1>1, <1>2 DEF Sound, Clean
    <3>3. ~Minds(r, e)
      BY <1>1, <3>2, NothingWritten DEF Minds
    <3>. QED
      BY <3>1, <3>3
  <2>. QED
    BY <2>1, <2>2
<1>16. \A q \in others : DOMAIN asked'[r].mine \cap DOMAIN asked[q].mine = {}
  BY <1>8, NothingWritten
<1>17. told' \subseteq People /\ told' = told /\ (~lapsed' => ~lapsed) /\ (made' > 0 => People # {})
  BY <1>1, <1>2, <1>3 DEF Types
<1>. QED
  BY <1>1, <1>6, <1>8, <1>10, <1>11, <1>13, <1>14, <1>15, <1>16, <1>17, StepKeeps

LEMMA Ending ==
    ASSUME CInv, NEW r \in Slots, Respond(r) \/ Raise(r)
    PROVE  CInv'
<1>. DEFINE a == asked[r]
            others == InFlight \ {r}
<1>1. /\ r \in InFlight /\ asked' = [asked EXCEPT ![r] = Served]
      /\ UNCHANGED <<sessions, dev, made>> /\ (~lapsed' => ~lapsed)
  BY DEF Respond, Raise, InFlight, Waits
<1>2. /\ a \in Asks /\ Types /\ Sound(r) /\ (Transaction /\ ~dev => Undisturbed(r)) /\ a.op \in CatalogueOps
      /\ docs \in AllDocs /\ a.mine \in SomeDocs /\ a.op.user \in People
  <2>1. a \in Asks /\ Types /\ Sound(r) /\ (Transaction /\ ~dev => Undisturbed(r))
    BY <1>1, InProgress DEF CInv, Promised
  <2>. QED
    BY <2>1 DEF Asks, CatalogueOps, Types
<1>3. asked' \in [Slots -> Asks \cup {Served}] /\ asked'[r].at = "served" /\ \A q \in Slots \ {r} : asked'[q] = asked[q]
  <2>1. asked \in [Slots -> Asks \cup {Served}] /\ Served.at = "served"
    BY <1>2 DEF Types, Served
  <2>. QED
    BY <1>1, <2>1
<1>4. CASE Raise(r)
  <2>1. docs' = docs /\ told' = told /\ lapsed'
    BY <1>4 DEF Raise
  <2>2. Footprint(others, a.op)
    BY <2>1 DEF Footprint, Keeps
  <2>3. /\ made' \in Nat /\ made <= made' /\ made' <= MaxDocs /\ (made' > 0 => People # {})
        /\ \A d \in DocIds : docs'[d] # Absent => d <= made'
        /\ told' \subseteq People /\ docs' \in AllDocs
    BY <1>1, <1>2, <2>1 DEF Types
  <2>. QED
    BY <1>1, <1>3, <2>1, <2>2, <2>3, StepKeeps
<1>5. CASE Respond(r)
  <2>1. /\ docs' = Overlaid(a.mine, docs) /\ lapsed' = lapsed /\ a.at \in {"answer", "refuse"}
        /\ told' = IF a.op.kind = "install" /\ a.at = "answer" /\ a.sole /\ a.fresh THEN told \cup {a.op.user} ELSE told
    BY <1>5 DEF Respond, Waits
  <2>2. \A d \in DOMAIN a.mine : /\ docs[d] # Absent /\ docs[d] \in Documents /\ a.mine[d] \in Copies
                                 /\ docs[d] = Base(r)[d] /\ Derived(a.op, docs[d], a.mine[d])
    <3>1. \A d \in DOMAIN a.mine : docs[d] # Absent /\ docs[d] = Base(r)[d] /\ Derived(a.op, docs[d], a.mine[d])
      BY <1>2 DEF Sound, Writing
    <3>. QED
      BY <1>2, <3>1 DEF AllDocs, SomeDocs, Copies
  <2>3. \A d \in DOMAIN a.mine : /\ docs[d] # Absent /\ Keeps(a.op, docs[d], a.mine[d])
                                 /\ \A q \in others : d \notin DOMAIN asked[q].mine
    <3>1. \A d \in DOMAIN a.mine : Keeps(a.op, docs[d], a.mine[d])
      BY <1>2, <2>2, DerivedKeeps
    <3>. QED
      BY <1>1, <2>2, <3>1 DEF CInv, Apart
  <2>4. Footprint(others, a.op) /\ docs' \in AllDocs
    BY <1>2, <2>1, <2>3, CommitFootprint
  <2>5. \A d \in DocIds : docs'[d] = IF d \in DOMAIN a.mine THEN a.mine[d] ELSE docs[d]
    BY <1>2, <2>1, OverAll
  <2>6. /\ made' \in Nat /\ made <= made' /\ made' <= MaxDocs /\ (made' > 0 => People # {})
        /\ \A d \in DocIds : docs'[d] # Absent => d <= made'
        /\ told' \subseteq People
    <3>1. \A d \in DocIds : docs'[d] # Absent => docs[d] # Absent
      BY <2>2, <2>5
    <3>. QED
      BY <1>1, <1>2, <2>1, <3>1 DEF Types
  <2>7. ASSUME Transaction, ~dev, NEW u \in told' \ told
        PROVE  Safe(u) /\ \E d \in DocIds : Has(docs'[d], u)
    <3>1. u = a.op.user /\ a.sole /\ a.fresh /\ a.at = "answer"
      BY <2>1, <2>7
    <3>2. Safe(u) /\ Has(docs'[a.doc], u)
      BY <1>2, <2>1, <2>7, <3>1 DEF Undisturbed
    <3>3. a.doc \in DocIds
      BY <1>2, <3>1, CatalogueConstants DEF Sound, Suited, DocIds, Types
    <3>. QED
      BY <3>2, <3>3
  <2>8. ASSUME NEW d \in DocIds, Idle(d)'
        PROVE  Idle(d) /\ ~Minds(r, d)
    <3>1. docs'[d] # Absent /\ Unused(docs'[d])
      BY <2>8 DEF Idle
    <3>2. CASE d \in DOMAIN a.mine
      <4>1. a.mine[d] # Absent /\ Unused(a.mine[d])
        BY <2>5, <3>1, <3>2
      <4>2. Idle(d)
        BY <2>2, <3>2, <4>1, AbsentApart DEF Idle, Derived, Unused, Documents, Copies
      <4>. QED
        BY <2>1, <4>1, <4>2 DEF Minds
    <3>3. CASE d \notin DOMAIN a.mine
      BY <2>1, <2>5, <3>1, <3>3 DEF Minds, Idle
    <3>. QED
      BY <3>2, <3>3
  <2>. QED
    BY <1>1, <1>3, <2>4, <2>6, <2>7, <2>8, StepKeeps
<1>. QED
  BY <1>4, <1>5

LEMMA Starting ==
    ASSUME CInv, NEW r \in Slots, NEW op \in CatalogueOps, Start(r, op)
    PROVE  CInv'
<1>. DEFINE found == Found(op)
            d == IF found = {} THEN 0 ELSE Min(found)
            others == {q \in InFlight : Removes(op, asked[q].op.user) \/ Removes(asked[q].op, op.user)}
            place == FirstStep(op, found)
            fresh == op.kind = "install" /\ (found = {} \/ ~InstalledFor(docs[d], op.user))
            snap == IF Transaction THEN docs ELSE Nothing
            sole == op.kind = "install" /\ others = {}
            new == [at |-> place, op |-> op, doc |-> d, fresh |-> fresh, snap |-> snap, mine |-> Nothing, sole |-> sole]
<1>1. /\ Types /\ made \in Nat /\ docs \in AllDocs /\ asked \in [Slots -> Asks \cup {Served}]
      /\ \A e \in DocIds : docs[e] # Absent => e <= made
  BY DEF CInv, Types
<1>2. /\ r \notin InFlight /\ UNCHANGED <<sessions, dev, docs, made, entries, lapsed>>
      /\ told' = {u \in told : ~Removes(op, u)}
      /\ op.kind = "install" \/ found # {}
      /\ asked' = [q \in Slots |-> CASE q = r -> new
                                     [] q \in others -> [asked[q] EXCEPT !.sole = FALSE]
                                     [] OTHER -> asked[q]]
  <2>1. InFlight # Slots /\ r = Min(Slots \ InFlight) /\ Slots \ InFlight \in SUBSET Nat /\ InFlight \subseteq Slots
    BY DEF Start, Slots, InFlight
  <2>2. r \notin InFlight
    BY <2>1, MinOf
  <2>. QED
    BY <2>2 DEF Start
<1>3. found # {} => d \in found
  <2>1. found \in SUBSET Nat
    BY DEF Found, Exist, DocIds
  <2>. HIDE DEF found
  <2>. QED
    BY <2>1, MinOf
<1>4. found # {} => d \in DocIds /\ docs[d] # Absent /\ d \in 1..made
  <2>1. found # {} => d \in DocIds /\ docs[d] # Absent
    BY <1>3 DEF Found, Exist
  <2>. HIDE DEF d
  <2>2. d \in DocIds /\ docs[d] # Absent => d \in 1..made
    BY <1>1 DEF DocIds
  <2>. QED
    BY <2>1, <2>2
<1>5. /\ op.kind \in {"install", "uninstall", "purge"} /\ op.user \in People
      /\ op.kind = "uninstall" => place = "pull" /\ found # {}
      /\ op.kind = "purge" => place = "delete" /\ found # {}
      /\ op.kind = "install" => \/ found = {} /\ place = "add"
                                \/ found # {} /\ dev /\ place = "drop"
                                \/ found # {} /\ place \in {"publish", "push", "deploy"}
  <2>1. op.kind \in {"install", "uninstall", "purge"} /\ op.user \in People
    BY DEF CatalogueOps
  <2>. HIDE DEF found
  <2>2. \A public : Onwards(op, public) \in {"publish", "push", "deploy"}
    BY DEF Onwards
  <2>. QED
    BY <1>2, <2>1, <2>2 DEF FirstStep
<1>6. d \in Nat /\ snap \in AllDocs \cup {Nothing} /\ Nothing \in SomeDocs /\ place \in Places
  BY <1>1, <1>4, <1>5, NothingWritten DEF DocIds, Places
<1>7. fresh \in BOOLEAN /\ sole \in BOOLEAN
  OBVIOUS
<1>8. /\ new.at = place /\ new.op = op /\ new.doc = d /\ new.fresh = fresh /\ new.snap = snap
      /\ new.mine = Nothing /\ new.sole = sole
  OBVIOUS
<1>. HIDE DEF d, place, fresh, snap
<1>9. sole => op.kind = "install" /\ \A q \in InFlight : ~Removes(asked[q].op, op.user)
  OBVIOUS
<1>10. \A q \in InFlight : q \notin others => ~Removes(op, asked[q].op.user)
  OBVIOUS
<1>. HIDE DEF sole, others
<1>11. new \in Asks
  BY <1>6, <1>7 DEF Asks
<1>. HIDE DEF new
<1>12. asked'[r] = new
  <2>1. asked'[r] = CASE r = r -> new
                      [] r \in others -> [asked[r] EXCEPT !.sole = FALSE]
                      [] OTHER -> asked[r]
    BY <1>2
  <2>2. r \notin others
    BY <1>2 DEF others
  <2>. QED
    BY <2>1, <2>2
<1>13. ASSUME NEW q \in Slots \ {r}
       PROVE  asked'[q] = IF q \in others THEN [asked[q] EXCEPT !.sole = FALSE] ELSE asked[q]
  <2>1. q # r /\ q \in Slots
    OBVIOUS
  <2>2. asked'[q] = CASE q = r -> new
                      [] q \in others -> [asked[q] EXCEPT !.sole = FALSE]
                      [] OTHER -> asked[q]
    BY <1>2, <2>1
  <2>. QED
    BY <2>1, <2>2
<1>14. ASSUME NEW q \in InFlight
       PROVE  /\ q \in Slots \ {r} /\ asked'[q] \in Asks /\ asked'[q].at = asked[q].at
              /\ asked'[q].op = asked[q].op /\ asked'[q].doc = asked[q].doc /\ asked'[q].fresh = asked[q].fresh
              /\ asked'[q].snap = asked[q].snap /\ asked'[q].mine = asked[q].mine
              /\ asked'[q].sole => asked[q].sole /\ q \notin others
  <2>1. q \in Slots \ {r} /\ asked[q] \in Asks
    BY <1>1, <1>2, InProgress
  <2>2. CASE q \notin others
    BY <1>13, <2>1, <2>2
  <2>3. CASE q \in others
    <3>1. asked'[q] = [asked[q] EXCEPT !.sole = FALSE]
      BY <1>13, <2>1, <2>3
    <3>. DEFINE a == asked[q]
    <3>2. a \in Asks /\ asked'[q] = [a EXCEPT !.sole = FALSE]
      BY <2>1, <3>1
    <3>. HIDE DEF a
    <3>3. /\ asked'[q] \in Asks /\ asked'[q].at = a.at /\ asked'[q].op = a.op /\ asked'[q].doc = a.doc
          /\ asked'[q].fresh = a.fresh /\ asked'[q].snap = a.snap /\ asked'[q].mine = a.mine /\ asked'[q].sole = FALSE
      BY <3>2 DEF Asks
    <3>. QED
      BY <2>1, <3>3 DEF a
  <2>. QED
    BY <2>2, <2>3
<1>15. InFlight' = InFlight \cup {r}
  <2>1. r \in InFlight'
    BY <1>6, <1>8, <1>12 DEF InFlight, Waits, Places
  <2>2. ASSUME NEW q \in InFlight PROVE q \in InFlight'
    BY <1>14 DEF InFlight, Waits
  <2>3. ASSUME NEW q \in Slots \ {r}, q \notin InFlight PROVE q \notin InFlight'
    BY <1>13, <2>3 DEF InFlight, Waits, others
  <2>. QED
    BY <2>1, <2>2, <2>3 DEF InFlight
<1>16. asked' \in [Slots -> Asks \cup {Served}]
  <2>1. \A q \in Slots : asked'[q] \in Asks \cup {Served}
    <3>. SUFFICES ASSUME NEW q \in Slots
                  PROVE  asked'[q] \in Asks \cup {Served}
      OBVIOUS
    <3>1. CASE q = r
      BY <1>11, <1>12, <3>1
    <3>2. CASE q \in InFlight
      BY <1>14, <3>2
    <3>3. CASE q # r /\ q \notin InFlight
      BY <1>1, <1>13, <3>3 DEF others
    <3>. QED
      BY <3>1, <3>2, <3>3
  <2>2. DOMAIN asked' = Slots /\ asked' = [q \in Slots |-> asked'[q]]
    BY <1>2
  <2>. QED
    BY <2>1, <2>2
<1>17. Types'
  BY <1>1, <1>2, <1>16 DEF Types
<1>18. ASSUME NEW q \in InFlight
       PROVE  Sound(q)'
  <2>1. Footprint({q}, op)
    BY <1>2 DEF Footprint, Keeps
  <2>. QED
    <3>1. /\ docs' \in AllDocs /\ sessions' = sessions /\ dev' = dev /\ made' \in Nat /\ made <= made'
          /\ \A e \in DocIds : docs'[e] # Absent => e <= made'
      BY <1>1, <1>2
    <3>. QED
      BY <1>14, <2>1, <3>1, OthersSound
<1>19. Base(r)' = docs
  <2>1. Snapshot(r)' = IF Transaction THEN docs ELSE snap
    BY <1>2, <1>8, <1>12 DEF Snapshot, snap, Transaction
  <2>. QED
    BY <1>2, <2>1 DEF Base, Transaction
<1>20. Sound(r)'
  <2>1. Suited(r)'
    BY <1>2, <1>4, <1>5, <1>8, <1>12 DEF Suited
  <2>2. Clean(r)' /\ Leaving(r)'
    BY <1>2, <1>5, <1>8, <1>12 DEF Clean, Leaving, Transaction, snap
  <2>3. Seeing(r)'
    BY <1>1, <1>2, <1>19 DEF Seeing
  <2>4. Writing(r)'
    BY <1>8, <1>12, NothingWritten DEF Writing
  <2>. QED
    BY <2>1, <2>2, <2>3, <2>4 DEF Sound
<1>21. ASSUME NEW q \in InFlight', NEW p \in InFlight', p # q
       PROVE  Apart(p, q)'
  <2>1. CASE p = r \/ q = r
    BY <1>8, <1>12, <2>1, NothingWritten DEF Apart
  <2>2. CASE p # r /\ q # r
    <3>1. p \in InFlight /\ q \in InFlight
      BY <1>15, <2>2
    <3>. QED
      BY <1>14, <1>21, <3>1 DEF CInv, Apart
  <2>. QED
    BY <2>1, <2>2
<1>22. Minded'
  <2>. SUFFICES ASSUME ~lapsed, NEW e \in DocIds, Idle(e)
                PROVE  \E q \in InFlight' : Minds(q, e)'
    BY <1>2 DEF Minded, Idle
  <2>1. PICK q \in InFlight : Minds(q, e)
    BY DEF CInv, Minded
  <2>. QED
    BY <1>14, <1>15, <2>1 DEF Minds
<1>23. ASSUME NEW u, Safe(u), ~Removes(op, u)
       PROVE  Safe(u)'
  BY <1>8, <1>12, <1>14, <1>15, <1>23 DEF Safe
<1>24. Promised'
  <2>. SUFFICES ASSUME Transaction /\ ~dev
                PROVE  /\ \A u \in told' : Safe(u)' /\ \E e \in DocIds : Has(docs[e], u)
                       /\ \A q \in InFlight' : Undisturbed(q)'
    BY <1>2 DEF Promised, Transaction, Has
  <2>1. \A u \in told' : Safe(u)' /\ \E e \in DocIds : Has(docs[e], u)
    BY <1>2, <1>23 DEF CInv, Promised
  <2>2. Undisturbed(r)'
    <3>1. sole => Safe(op.user)'
      <4>1. sole => Safe(op.user) /\ ~Removes(op, op.user)
        BY <1>9 DEF Safe, Removes
      <4>. QED
        BY <1>23, <4>1
    <3>2. place \notin {"index", "answer"}
      BY <1>5
    <3>. QED
      BY <1>2, <1>8, <1>9, <1>12, <1>19, <3>1, <3>2 DEF Undisturbed
  <2>3. ASSUME NEW q \in InFlight
        PROVE  Undisturbed(q)'
    <3>1. Footprint({q}, op)
      BY <1>2 DEF Footprint, Keeps
    <3>2. asked[q].sole => Safe(asked[q].op.user)
      BY DEF CInv, Promised, Undisturbed
    <3>3. asked'[q].sole => asked[q].sole /\ ~Removes(op, asked[q].op.user) /\ Safe(asked[q].op.user)'
      BY <1>10, <1>14, <1>23, <3>2
    <3>. QED
      BY <1>1, <1>2, <1>14, <3>1, <3>3, OthersUndisturbed
  <2>. QED
    BY <1>15, <2>1, <2>2, <2>3
<1>. QED
  BY <1>15, <1>17, <1>18, <1>20, <1>21, <1>22, <1>24 DEF CInv

LEMMA CInvInit == CatalogueInit => CInv
<1>. SUFFICES ASSUME CatalogueInit
              PROVE  CInv
  OBVIOUS
<1>1. InFlight = {}
  BY DEF CatalogueInit, InFlight, Waits, Served
<1>2. made \in {0, 1} /\ told \subseteq People /\ (made > 0 => told # {}) /\ (told # {} => made = 1)
  BY DEF CatalogueInit
<1>. DEFINE first == [users |-> told, public |-> FALSE, code |-> TRUE]
<1>3. first \in Documents /\ first.users = told /\ first # Absent /\ first \in Copies
  BY <1>2, AbsentApart DEF Documents, Copies
<1>4. docs = [d \in DocIds |-> IF d > made THEN Absent ELSE first]
  BY DEF CatalogueInit
<1>. HIDE DEF first
<1>5. docs \in AllDocs
  BY <1>3, <1>4 DEF AllDocs, Copies
<1>6. \A d \in DocIds : d \in Nat /\ d >= 1 /\ (docs[d] # Absent => d <= made /\ docs[d] = first)
  BY <1>2, <1>4 DEF DocIds
<1>7. 1 \in DocIds /\ made <= MaxDocs
  BY <1>2, CatalogueConstants DEF DocIds
<1>8. Types
  <2>1. asked \in [Slots -> Asks \cup {Served}]
    BY DEF CatalogueInit
  <2>. QED
    BY <1>2, <1>5, <1>6, <1>7, <2>1 DEF Types
<1>9. Minded
  <2>. SUFFICES ASSUME NEW d \in DocIds
                PROVE  ~Idle(d)
    BY DEF Minded
  <2>. QED
    BY <1>2, <1>3, <1>6 DEF Idle, Unused
<1>10. Promised
  <2>1. \A u \in told : docs[1] = first /\ Has(first, u)
    BY <1>2, <1>3, <1>4, <1>7 DEF Has, InstalledFor
  <2>. QED
    BY <1>1, <1>7, <2>1 DEF Promised, Safe
<1>. QED
  BY <1>1, <1>8, <1>9, <1>10 DEF CInv

LEMMA CInvStep == CInv /\ [CatalogueNext]_catalogueVars => CInv'
<1>. SUFFICES ASSUME CInv, [CatalogueNext]_catalogueVars
              PROVE  CInv'
  OBVIOUS
<1>1. CASE UNCHANGED catalogueVars
  BY <1>1 DEF catalogueVars, CInv, Types, InFlight, Waits, Sound, Suited, Clean, Leaving, Seeing, Writing, Base,
              Snapshot, Transaction, Apart, Minded, Minds, Idle, Promised, Safe, Undisturbed
<1>2. ASSUME NEW r \in Slots, NEW op \in CatalogueOps, Start(r, op)
      PROVE  CInv'
  BY <1>2, Starting
<1>3. ASSUME NEW r \in Slots, AddResource(r)
      PROVE  CInv'
  BY <1>3, Adding
<1>4. ASSUME NEW r \in Slots, Deploy(r)
      PROVE  CInv'
  BY <1>4, Deploying
<1>5. ASSUME NEW r \in Slots, DropDev(r) \/ Publish(r) \/ Push(r) \/ Pull(r) \/ Discard(r) \/ Delete(r)
      PROVE  CInv'
  BY <1>5, Updaters
<1>6. ASSUME NEW r \in Slots,
             Unsupported(r) \/ Reread(r) \/ Index(r) \/ FindUnused(r) \/ Unindex(r)
      PROVE  CInv'
  BY <1>6, Lookers
<1>7. ASSUME NEW r \in Slots, Respond(r) \/ Raise(r)
      PROVE  CInv'
  BY <1>7, Ending
<1>. QED
  BY <1>1, <1>2, <1>3, <1>4, <1>5, <1>6, <1>7 DEF CatalogueNext

LEMMA CInvAlways == CatalogueSpec => []CInv
BY CInvInit, CInvStep, PTL DEF CatalogueSpec

-----------------------------------------------------------------------------
(* What follows.                                                           *)

\* With transactions, a user told that the resource is installed has it until
\* asking for its removal, or its removal for all (delete_resource_if_not_used
\* never takes it away).
THEOREM InstalledAlwaysStays == CatalogueSpec => []InstalledStays
<1>1. CInv => InstalledStays
  <2>. SUFFICES ASSUME CInv, Transaction /\ ~dev, NEW u \in told
                PROVE  \E d \in Exist(docs) : InstalledFor(docs[d], u)
    BY DEF InstalledStays
  <2>1. PICK d \in DocIds : Has(docs[d], u)
    BY DEF CInv, Promised
  <2>. QED
    BY <2>1 DEF Has, Exist
<1>. QED
  BY <1>1, CInvAlways, PTL

\* When no request is in progress, and none ended by an exception, every
\* document has a user or is public.
THEOREM UnusedAlwaysRemoved == CatalogueSpec => []UnusedRemoved
<1>1. CInv => UnusedRemoved
  <2>. SUFFICES ASSUME CInv, InFlight = {}, ~lapsed, NEW d \in Exist(docs)
                PROVE  \E u \in People : InstalledFor(docs[d], u)
    BY DEF UnusedRemoved
  <2>1. d \in DocIds /\ docs[d] # Absent /\ ~Unused(docs[d])
    BY DEF CInv, Minded, Idle, Exist
  <2>2. docs[d] \in Documents /\ People # {}
    <3>1. d <= made /\ made \in Nat /\ d \in Nat /\ d >= 1 /\ docs[d] \in Copies
      BY <2>1 DEF CInv, Types, DocIds, AllDocs
    <3>. QED
      BY <2>1, <3>1 DEF Copies, CInv, Types
  <2>3. docs[d].users \subseteq People
    BY <2>2 DEF Documents
  <2>. QED
    BY <2>1, <2>2, <2>3 DEF Unused, InstalledFor
<1>. QED
  BY <1>1, CInvAlways, PTL

\* With transactions and no -dev version, an installation nobody disturbed does
\* not index a document that a removal took away.
THEOREM NeverGhosts == CatalogueSpec => NoGhosts
<1>. DEFINE Real == \A r \in InFlight : Transaction /\ ~dev /\ asked[r].sole /\ asked[r].fresh /\ Index(r)
                                          => asked[r].doc \in Exist(docs)
<1>1. CInv => Real
  <2>. SUFFICES ASSUME CInv, NEW r \in InFlight, Transaction /\ ~dev, asked[r].sole, asked[r].fresh, Index(r)
                PROVE  asked[r].doc \in Exist(docs)
    OBVIOUS
  <2>. DEFINE a == asked[r]
  <2>1. a.at = "index" /\ Has(Overlaid(a.mine, docs)[a.doc], a.op.user)
    BY DEF Index, Waits, CInv, Promised, Undisturbed
  <2>2. a.doc \in DocIds /\ Sound(r)
    BY <2>1, CatalogueConstants DEF CInv, Sound, Suited, Types, DocIds
  <2>3. Overlaid(a.mine, docs)[a.doc] = IF a.doc \in DOMAIN a.mine THEN a.mine[a.doc] ELSE docs[a.doc]
    BY <2>2, InProgress, OverAll DEF CInv, Types
  <2>4. a.doc \in DOMAIN a.mine => docs[a.doc] # Absent
    BY <2>2 DEF Sound, Writing
  <2>. QED
    BY <2>1, <2>2, <2>3, <2>4 DEF Has, Exist
<1>. QED
  BY <1>1, CInvAlways, PTL DEF CatalogueSpec, NoGhosts
=============================================================================
