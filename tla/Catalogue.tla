----------------------------- MODULE Catalogue -----------------------------
(* Installation and removal of one version of a component: the documents of  *)
(* MongoDB's catalogue_resources, the search index beside them, and the      *)
(* requests that change them (catalogue/crud.py, catalogue/routes.py,        *)
(* platform/localcatalogue).  Requests interleave at their awaits; the       *)
(* session of each is a transaction where the deployment has them.           *)
(*                                                                           *)
(* The component is a widget.  Packages, files and permissions are left out, *)
(* and so are groups, which are installed to as users are.                   *)
EXTENDS Naturals, FiniteSets, FiniteSetsExt

CONSTANTS
    AtOnce,     \* bound: requests served at once
    MaxAsked,   \* bound: requests made
    People,     \* users
    MaxDocs,    \* bound: documents created
    Absent      \* no document

VARIABLES
    sessions,   \* "transaction" or "none"
    dev,        \* the version is a -dev one
    docs,       \* docs[d]: the committed document of id d, or Absent
    made,       \* documents created so far: ids grow
    entries,    \* the documents with an entry in the index
    asked,      \* the requests in progress
    asks,       \* requests made so far
    told,       \* users told that what they asked for last is installed
    lapsed      \* history: a request ended by an exception

catalogueVars == <<sessions, dev, docs, made, entries, asked, asks, told, lapsed>>

DocIds == 1..MaxDocs
Slots == 1..AtOnce
Documents == [users : SUBSET People, public : BOOLEAN, code : BOOLEAN]
ASSUME CatalogueConstants == {AtOnce, MaxAsked} \subseteq Nat /\ MaxDocs \in Nat \ {0} /\ Absent \notin Documents

NewDocument == [users |-> {}, public |-> FALSE, code |-> FALSE]
Nothing == [d \in {} |-> Absent]

\* What is written, and the rest as it was.
Overlaid(new, old) ==
    [d \in DOMAIN new \cup DOMAIN old |-> IF d \in DOMAIN new THEN new[d] ELSE old[d]]

\* Installation for the user, for everybody, or (a publication) both.
CatalogueOps ==
    {op \in [kind : {"install"}, user : People, add : BOOLEAN, public : BOOLEAN] : op.add \/ op.public}
    \cup [kind : {"uninstall", "purge"}, user : People]

(* at: the await a request is at.  doc: the resource it works on.  fresh:    *)
(* it makes a difference to its user.  snap: the documents its transaction   *)
(* started from.                                                             *)
(* mine: what it wrote and did not commit.  sole: no other request of its    *)
(* user, nor a removal for all, overlapped it.                               *)
Served == [at |-> "served"]
Waits(r, place) == asked[r].at = place
InFlight == {r \in Slots : ~Waits(r, "served")}

Transaction == sessions = "transaction"
Exist(ds) == {d \in DocIds : ds[d] # Absent}
InstalledFor(copy, u) == copy.public \/ u \in copy.users

\* The first operation of a transaction takes its snapshot.
Snapshot(r) == IF Transaction /\ asked[r].snap = Nothing THEN docs ELSE asked[r].snap
View(r) == Overlaid(asked[r].mine, IF Transaction THEN Snapshot(r) ELSE docs)

\* No other transaction has written d, nor committed a write of it since the
\* snapshot.
Unclaimed(r, d) == Transaction => /\ \A q \in InFlight \ {r} : d \notin DOMAIN asked[q].mine
                                  /\ Snapshot(r)[d] = docs[d]

Goes(r, place) == [asked[r] EXCEPT !.at = place, !.snap = Snapshot(r)]
\* Mutant: a commit goes on with the transaction it started with.
RenewedOnce(next) == [next EXCEPT !.mine = Nothing]
Renewed(next) == [next EXCEPT !.snap = Nothing, !.mine = Nothing]

\* The document a request updates, and what the update makes of it.
Target(r) == IF Waits(r, "deploy") THEN Min(Exist(View(r))) ELSE asked[r].doc
Updated(r, copy) ==
    CASE asked[r].at \in {"drop", "discard", "delete"} -> Absent
      [] Waits(r, "publish") -> [copy EXCEPT !.public = TRUE]
      [] Waits(r, "push") -> [copy EXCEPT !.users = @ \cup {asked[r].op.user}]
      [] Waits(r, "pull") -> [copy EXCEPT !.users = @ \ {asked[r].op.user}]
      [] Waits(r, "deploy") -> [copy EXCEPT !.code = TRUE]

\* An update by id writes nothing when there is no document, or it is so
\* already; a $push always adds.
Updates(r) == asked[r].at \in {"drop", "publish", "push", "deploy", "pull", "discard", "delete"}
Writes(r) == LET copy == View(r)[Target(r)]
             IN  copy # Absent /\ (Waits(r, "push") \/ Updated(r, copy) # copy)
Conflicts(r) == Writes(r) /\ ~Unclaimed(r, Target(r))

\* The update, which may be followed by commit().
Update(r, next, commits) ==
    LET new == Updated(r, View(r)[Target(r)])
        written == IF Writes(r) THEN Overlaid([d \in {Target(r)} |-> new], asked[r].mine) ELSE asked[r].mine
    IN  /\ ~Conflicts(r)
        /\ IF commits \/ ~Transaction
           THEN docs' = Overlaid(written, docs) /\ asked' = [asked EXCEPT ![r] = Renewed(next)]
           ELSE docs' = docs /\ asked' = [asked EXCEPT ![r] = [next EXCEPT !.mine = written]]

\* It is not in the catalogue, or some users have installed it.
CatalogueInit ==
    /\ sessions \in {"transaction", "none"}
    /\ dev \in BOOLEAN
    /\ told \in SUBSET People
    /\ made = IF told = {} THEN 0 ELSE 1
    /\ docs = [d \in DocIds |-> IF d > made THEN Absent ELSE [users |-> told, public |-> FALSE, code |-> TRUE]]
    /\ entries = 1..made
    /\ asked = [r \in Slots |-> Served] /\ asks = 0
    /\ lapsed = FALSE

----------------------------------------------------------------------------
(* A request starts with the search of its document, by name or by name and  *)
(* user.                                                                     *)

Found(op) == {d \in Exist(docs) : op.kind \in {"uninstall", "purge"} => op.user \in docs[d].users}

\* Where an installation goes on once it has its resource.
Onwards(op, public) == IF op.public /\ ~public THEN "publish" ELSE IF op.add THEN "push" ELSE "deploy"

FirstStep(op, found) ==
    CASE op.kind = "uninstall" -> "pull"
      [] op.kind = "purge" -> "delete"
      [] op.kind = "install" /\ found = {} -> "add"
      [] op.kind = "install" /\ found # {} /\ dev -> "drop"
      [] op.kind = "install" /\ found # {} /\ ~dev -> Onwards(op, docs[Min(found)].public)

\* It may leave u without the resource.
Removes(op, u) == op.kind = "purge" \/ (op.kind = "uninstall" /\ op.user = u)

Start(r, op) ==
    LET found == Found(op)
        d == IF found = {} THEN 0 ELSE Min(found)
        others == {q \in InFlight : Removes(op, asked[q].op.user) \/ Removes(asked[q].op, op.user)}
    IN  /\ asks < MaxAsked /\ asks' = asks + 1
        /\ InFlight # Slots /\ r = Min(Slots \ InFlight)
        /\ op.kind = "install" \/ found # {}
        /\ op.kind = "install" /\ (found = {} \/ dev) => made < MaxDocs
        /\ asked' = [q \in Slots |->
              CASE q = r -> [at |-> FirstStep(op, found), op |-> op, doc |-> d,
                             fresh |-> op.kind = "install" /\ (found = {} \/ ~InstalledFor(docs[d], op.user)),
                             snap |-> IF Transaction THEN docs ELSE Nothing,
                             mine |-> Nothing, sole |-> op.kind = "install" /\ others = {}]
                [] q \in others -> [asked[q] EXCEPT !.sole = FALSE]
                [] OTHER -> asked[q]]
        /\ told' = {u \in told : ~Removes(op, u)}
        /\ UNCHANGED <<sessions, dev, docs, made, entries, lapsed>>

----------------------------------------------------------------------------
(* install_component                                                         *)

\* A -dev version is deleted, and that committed, before the new one is added.
DropDev(r) ==
    /\ Waits(r, "drop")
    /\ Update(r, Goes(r, "add"), TRUE)
    /\ UNCHANGED <<sessions, dev, asks, made, entries, told, lapsed>>

\* create_catalogue_resource: nothing keeps two of the same version apart.
AddResource(r) ==
    /\ Waits(r, "add") /\ made < MaxDocs
    /\ made' = made + 1
    /\ docs' = [docs EXCEPT ![made + 1] = NewDocument]
    /\ asked' = [asked EXCEPT ![r] =
          [Renewed(@) EXCEPT !.at = Onwards(asked[r].op, FALSE), !.doc = made + 1, !.fresh = TRUE]]
    /\ UNCHANGED <<sessions, dev, asks, entries, told, lapsed>>

\* change_resource_publicity, committed by what comes next.
Publish(r) ==
    /\ Waits(r, "publish")
    /\ Update(r, Goes(r, IF asked[r].op.add THEN "push" ELSE "deploy"), FALSE)
    /\ UNCHANGED <<sessions, dev, asks, made, entries, told, lapsed>>

\* install_resource_to_user: it asks a collection nobody fills whether the user
\* has the resource, and so always adds the user.
Push(r) ==
    /\ Waits(r, "push")
    /\ Update(r, Goes(r, "deploy"), TRUE)
    /\ UNCHANGED <<sessions, dev, asks, made, entries, told, lapsed>>

\* create_widget_from_wgt writes the code of the first document of that name.
Deploy(r) ==
    /\ Waits(r, "deploy") /\ Exist(View(r)) # {}
    /\ Update(r, Goes(r, "reread"), FALSE)
    /\ UNCHANGED <<sessions, dev, asks, made, entries, told, lapsed>>

\* The widget requires a feature the server has not enabled: the answer is an
\* error, and the document stays, for its users but with no index entry.
Unsupported(r) ==
    /\ Waits(r, "deploy")
    /\ asked' = [asked EXCEPT ![r] = Goes(r, "refuse")]
    /\ UNCHANGED <<sessions, dev, asks, docs, made, entries, told, lapsed>>

\* The resource is looked up by name again; a publication, or force_create,
\* that made no difference to the user is refused, but not undone.
Reread(r) ==
    /\ Waits(r, "reread") /\ Exist(View(r)) # {}
    /\ LET d == Min(Exist(View(r)))  u == asked[r].op.user
           added == asked[r].fresh /\ InstalledFor(View(r)[d], u)
       IN \/ asked' = [asked EXCEPT ![r] = [Goes(r, "index") EXCEPT !.doc = d, !.fresh = added]]
          \/ ~added /\ asked' = [asked EXCEPT ![r] = Goes(r, "refuse")]
    /\ UNCHANGED <<sessions, dev, asks, docs, made, entries, told, lapsed>>

\* add_resource_to_index
Index(r) ==
    /\ Waits(r, "index") /\ View(r)[asked[r].doc] # Absent
    /\ entries' = entries \cup {asked[r].doc}
    /\ asked' = [asked EXCEPT ![r] = Goes(r, "answer")]
    /\ UNCHANGED <<sessions, dev, asks, docs, made, told, lapsed>>

----------------------------------------------------------------------------
(* delete_resources of the local catalogue, for a user or (purge) for all.   *)

\* uninstall_resource_to_user
Pull(r) ==
    /\ Waits(r, "pull")
    /\ Update(r, Goes(r, "unused"), TRUE)
    /\ UNCHANGED <<sessions, dev, asks, made, entries, told, lapsed>>

\* Mutant: whoever else has the resource does not matter.
NotUsed(copy) == ~copy.public
Unused(copy) == copy.users = {} /\ ~copy.public

\* delete_resource_if_not_used finds it unused, and then deletes it by its id.
FindUnused(r) ==
    /\ Waits(r, "unused")
    /\ LET copy == View(r)[asked[r].doc]
           next == IF copy = Absent THEN "unindex" ELSE IF Unused(copy) THEN "discard" ELSE "unindex"
       IN asked' = [asked EXCEPT ![r] = Goes(r, next)]
    /\ UNCHANGED <<sessions, dev, asks, docs, made, entries, told, lapsed>>

Discard(r) ==
    /\ Waits(r, "discard")
    /\ Update(r, Goes(r, "unindex"), TRUE)
    /\ UNCHANGED <<sessions, dev, asks, made, entries, told, lapsed>>

\* delete_catalogue_resources
Delete(r) ==
    /\ Waits(r, "delete")
    /\ Update(r, Goes(r, "unindex"), FALSE)
    /\ UNCHANGED <<sessions, dev, asks, made, entries, told, lapsed>>

\* delete_resource_from_index, whether or not the document was deleted.
Unindex(r) ==
    /\ Waits(r, "unindex") /\ asked[r].doc \in entries
    /\ entries' = entries \ {asked[r].doc}
    /\ asked' = [asked EXCEPT ![r] = Goes(r, "answer")]
    /\ UNCHANGED <<sessions, dev, asks, docs, made, told, lapsed>>

----------------------------------------------------------------------------
\* The handler returns and get_session commits.
Respond(r) ==
    /\ Waits(r, "answer") \/ Waits(r, "refuse")
    /\ docs' = Overlaid(asked[r].mine, docs)
    /\ asked' = [asked EXCEPT ![r] = Served]
    /\ told' = IF asked[r].op.kind = "install" /\ Waits(r, "answer") /\ asked[r].sole /\ asked[r].fresh
               THEN told \cup {asked[r].op.user} ELSE told
    /\ UNCHANGED <<sessions, dev, asks, made, entries, lapsed>>

\* A conflict of transactions, a document that is not there any more, no
\* entry to delete (the index answers 404).
Raises(r) ==
    \/ asked[r].at \in {"deploy", "reread"} /\ Exist(View(r)) = {}
    \/ Updates(r) /\ ~(Waits(r, "deploy") /\ Exist(View(r)) = {}) /\ Conflicts(r)
    \/ Waits(r, "index") /\ View(r)[asked[r].doc] = Absent
    \/ Waits(r, "unindex") /\ asked[r].doc \notin entries

\* The exception aborts the transaction.
Raise(r) ==
    /\ r \in InFlight /\ Raises(r)
    /\ asked' = [asked EXCEPT ![r] = Served]
    /\ lapsed' = TRUE
    /\ UNCHANGED <<sessions, dev, asks, docs, made, entries, told>>

CatalogueNext == \E r \in Slots :
    \/ \E op \in CatalogueOps : Start(r, op)
    \/ DropDev(r) \/ AddResource(r) \/ Publish(r) \/ Push(r) \/ Deploy(r) \/ Unsupported(r)
    \/ Reread(r) \/ Index(r)
    \/ Pull(r) \/ FindUnused(r) \/ Discard(r) \/ Delete(r) \/ Unindex(r)
    \/ Respond(r) \/ Raise(r)

CatalogueSpec == CatalogueInit /\ [][CatalogueNext]_catalogueVars

----------------------------------------------------------------------------
CatalogueTypeOK ==
    /\ docs \in [DocIds -> Documents \cup {Absent}]
    /\ entries \subseteq 1..made
    /\ made \in 0..MaxDocs /\ asks \in 0..MaxAsked
    /\ told \subseteq People
    /\ \A r \in InFlight : /\ asked[r].op \in CatalogueOps
                           /\ asked[r].doc \in 0..made
                           /\ DOMAIN asked[r].mine \subseteq 1..made

\* With transactions, a user told that the resource is installed has it until
\* asking for its removal, or its removal for all: a removal by another user
\* that found it unused never takes it away.
InstalledStays ==
    Transaction /\ ~dev => \A u \in told : \E d \in Exist(docs) : InstalledFor(docs[d], u)

\* When no request is in progress nobody's resource lingers: of two users that
\* leave at once the last to ask finds it unused, with transactions or without.
UnusedRemoved ==
    InFlight = {} /\ ~lapsed => \A d \in Exist(docs) : \E u \in People : InstalledFor(docs[d], u)

\* With transactions and no -dev version, an installation that made a difference
\* to its user never indexes a document that is not there any more, unless the
\* user or a removal for all took it away meanwhile: a removal by another user
\* leaves no entry behind.
NoGhosts ==
    [][\A r \in InFlight : Transaction /\ ~dev /\ asked[r].sole /\ asked[r].fresh /\ Index(r)
          => asked[r].doc \in Exist(docs)]_catalogueVars

\* "If true, the resource will be deleted for all users, otherwise it will be
\* deleted only for the user making the request" (localcatalogue/docs.py): who
\* still has the resource can still find it in the index.
OnlyForTheUser ==
    Transaction /\ ~dev => \A u \in told : \E d \in Exist(docs) \cap entries : InstalledFor(docs[d], u)
=============================================================================
