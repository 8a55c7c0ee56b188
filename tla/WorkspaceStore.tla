--------------------------- MODULE WorkspaceStore ---------------------------
(***************************************************************************)
(* How the server keeps a workspace: one document of a MongoDB collection, *)
(* a search index entry beside it and a cache of what GET answers, under   *)
(* concurrent requests (platform/workspace, platform/preferences and       *)
(* platform/wiring over database.py).                                      *)
(*                                                                         *)
(* Every handler reads the whole document once, works on its copy and      *)
(* saves all of it, at times more than once: once it has read, what it     *)
(* will do is known, and Plan says it.  The steps of a plan are its awaits,*)
(* and requests interleave there.  The session of a request is a           *)
(* transaction where the deployment has them, and nothing otherwise.       *)
(***************************************************************************)
EXTENDS WorkspaceContents, SequencesExt

CONSTANTS
    Requests,   \* requests served at once, each by a user of its own
    Gone,       \* the document once deleted, and an index without its entry
    MaxTime     \* bound: last_modified from which requests only view

\* A stored document.  raw: users were pushed as bare ids, and the model
\* cannot be built from it.
Doc == [c : Contents, lm : Nat, raw : BOOLEAN]

\* What searches look at.
Entry == [title : Titles, public : BOOLEAN, users : SUBSET Users]

ASSUME StoreAssumption ==
    MaxTime \in Nat /\ Gone # None /\ {Gone, None} \cap Doc = {} /\ Gone \notin Contents \cup Entry

VARIABLES
    transactional,  \* transactions are supported and not disabled
    doc,        \* the committed document, or Gone
    index,      \* the contents in the search index, or Gone
    cached,     \* what GET has left in the cache
    now,        \* the clock behind last_modified
    req,        \* the requests in progress
    ahead,      \* an aborted request has updated the index
    created     \* ids of the tabs and widgets clients were told of and nobody
                \* asked to remove or to move

vars == <<transactional, doc, index, cached, now, req, ahead, created>>

Step == [do : {"save", "index"}, c : Contents]
        \cup [do : {"users"}, users : SUBSET Users]
        \cup [do : {"commit", "delete", "unindex", "view"}]

\* copy: the document as the handler has it.  snap: the document its
\* transaction started from, None before its first operation.  mine: what it
\* has written and not committed.  made: the id of what it is creating.
Idle == [op |-> None, todo |-> <<>>, copy |-> None, snap |-> None,
         mine |-> None, made |-> None]
Busy(r) == req[r] # Idle
Finished(r) == Busy(r) /\ req[r].todo = <<>>

-----------------------------------------------------------------------------
(* What the handlers do once they have read the document.                  *)

\* prepare_workspace_for_indexing: what searches look at.
Indexed(c) == [title |-> c.title, public |-> c.public, users |-> c.users]

\* Mutant: the index is not told of the change.
SaveOnly(c) == <<[do |-> "save", c |-> c]>>

\* change_workspace
Save(c) == <<[do |-> "save", c |-> c], [do |-> "index", c |-> c]>>
Commit == <<[do |-> "commit"]>>

\* Mutant: the other tabs stay visible.
ShowAlso(c, i) ==
    [c EXCEPT !.tabs = [k \in DOMAIN c.tabs |->
                            [c.tabs[k] EXCEPT !.visible = @ \/ c.tabs[k].id = i]]]

TabAt(c, i) == CHOOSE k \in DOMAIN c.tabs : c.tabs[k].id = i
SetVisible(c, i) ==
    [c EXCEPT !.tabs = [k \in DOMAIN c.tabs |->
                            [c.tabs[k] EXCEPT !.visible = (c.tabs[k].id = i)]]]

\* create_tab_collection and create_tab: the name is checked if the request
\* carries one, not if it is made from the title.
AddTab(op, c) ==
    IF op.named /\ NameTaken(c, op.name) THEN <<>>
    ELSE Save([c EXCEPT !.tabs = Append(@,
             [id |-> FreeId(c), name |-> op.name, visible |-> Len(c.tabs) = 0,
              widgets |-> NoWidgets])])

\* create_tab_entry: showing the tab is saved before the name is checked.
EditTab(op, c) ==
    LET k      == TabAt(c, op.tab)
        shown  == IF op.visible = TRUE THEN SetVisible(c, op.tab)
                  ELSE IF op.visible = FALSE THEN [c EXCEPT !.tabs[k].visible = FALSE]
                  ELSE c
        first  == IF op.visible = TRUE THEN Save(shown) ELSE <<>>
        named  == IF op.name = None THEN shown ELSE [shown EXCEPT !.tabs[k].name = op.name]
    IN IF op.tab \notin Ids(c) THEN <<>>
       ELSE IF op.name # None /\ NameTaken(c, op.name) THEN first
       ELSE first \o Save(named)

\* Mutant: the tab goes with its read-only widgets.
DropAnyTab(op, c) ==
    LET left == [c EXCEPT !.tabs = RemoveAt(@, TabAt(c, op.tab))]
    IN IF op.tab \notin Ids(c) \/ Len(c.tabs) = 1 THEN <<>> ELSE Save(SetVisible(left, left.tabs[1].id))

\* delete_tab_entry
DropTab(op, c) ==
    LET k     == TabAt(c, op.tab)
        left  == [c EXCEPT !.tabs = RemoveAt(@, k)]
        shown == SetVisible(left, left.tabs[1].id)
    IN IF op.tab \notin Ids(c) THEN <<>>
       ELSE IF Len(c.tabs) = 1 \/ ReadOnly(c.tabs[k]) # {} THEN <<>>
       ELSE IF c.tabs[k].visible THEN Save(shown) \o Save(shown)
       ELSE Save(left)

Put(ws, n, fixed) == [m \in DOMAIN ws \cup {n} |-> IF m = n THEN fixed ELSE ws[m]]
Take(ws, n) == Restrict(ws, DOMAIN ws \ {n})
HasWidget(c, i, n) == i \in Ids(c) /\ n \in DOMAIN c.tabs[TabAt(c, i)].widgets

\* save_widget_instance, of a widget the user may use.
AddWidget(op, c) ==
    LET k == TabAt(c, op.tab)
    IN IF op.tab \notin Ids(c) THEN <<>>
       ELSE Save([c EXCEPT !.tabs[k].widgets = Put(@, FreeNo(@), FALSE)])

\* update_widget_instance: a widget moved to another tab takes a number there.
EditWidget(op, c) ==
    LET k     == TabAt(c, op.tab)
        j     == TabAt(c, op.to)
        fixed == c.tabs[k].widgets[op.no]
    IN IF ~HasWidget(c, op.tab, op.no) \/ op.to \notin Ids(c) \cup {None} THEN <<>>
       ELSE IF op.to \in {None, op.tab} THEN Save(c)
       ELSE Save([c EXCEPT !.tabs[k].widgets = Take(@, op.no),
                           !.tabs[j].widgets = Put(@, FreeNo(@), fixed)])

\* delete_widget_instance_entry
DropWidget(op, c) ==
    LET k == TabAt(c, op.tab)
    IN IF ~HasWidget(c, op.tab, op.no) \/ c.tabs[k].widgets[op.no] THEN <<>>
       ELSE Save([c EXCEPT !.tabs[k].widgets = Take(@, op.no)])

\* create_workspace_preferences: the list of users goes to the stored
\* document and not to the copy, which is saved after it.
SetPrefs(op, c) ==
    LET listed == IF op.users = None THEN <<>>
                  ELSE <<[do |-> "users", users |-> {}],
                         [do |-> "users", users |-> op.users]>>
        pub    == IF op.public = None THEN c ELSE [c EXCEPT !.public = op.public]
        saved  == IF op.public = None THEN <<>> ELSE Save(pub) \o Save(pub) \o Commit
        all    == IF op.pref = None THEN pub ELSE [pub EXCEPT !.pref = op.pref]
        again  == IF all = pub THEN <<>> ELSE Save(all) \o Commit
    IN listed \o saved \o Save(all) \o again

Plan(op, c) ==
    CASE op.kind = "addTab"  -> AddTab(op, c)
      [] op.kind = "editTab" -> EditTab(op, c)
      [] op.kind = "dropTab" -> DropTab(op, c)
      [] op.kind = "addWidget"  -> AddWidget(op, c)
      [] op.kind = "editWidget" -> EditWidget(op, c)
      [] op.kind = "dropWidget" -> DropWidget(op, c)
      [] op.kind = "rewire"  -> Save([c EXCEPT !.wiring = op.wiring])
      [] op.kind = "patch"   -> Save([c EXCEPT !.wiring = @ \cup {op.item}])
      [] op.kind = "retitle" -> Save([c EXCEPT !.title = op.title])
      [] op.kind = "prefs"   -> SetPrefs(op, c)
      [] op.kind = "remove"  -> <<[do |-> "delete"], [do |-> "unindex"]>>
      [] op.kind = "view"    -> <<[do |-> "view"]>>

\* What the server will say it created, and what its client asks to take from
\* where it is.
Made(op, c) ==
    CASE op.kind = "addTab" -> <<FreeId(c)>>
      [] op.kind = "addWidget" -> <<op.tab, FreeNo(c.tabs[TabAt(c, op.tab)].widgets)>>
      [] OTHER -> None
Taken(op) ==
    CASE op.kind = "dropTab" -> {<<op.tab>>} \cup ({op.tab} \X WidgetNo)
      [] op.kind = "dropWidget" -> {<<op.tab, op.no>>}
      [] op.kind = "editWidget" /\ op.to \notin {None, op.tab} -> {<<op.tab, op.no>>}
      [] OTHER -> {}

\* There is room for what the request asks for.
Room(op, c) ==
    /\ op.kind = "addTab" => Len(c.tabs) < MaxTabs
    /\ \A k \in DOMAIN c.tabs :
          \/ op.kind = "addWidget" /\ c.tabs[k].id = op.tab
          \/ op.kind = "editWidget" /\ c.tabs[k].id = op.to /\ op.to # op.tab
          => ~Full(c.tabs[k].widgets)

\* The handler starts: a new session, and get_workspace_by_id.
Read(r, op) ==
    /\ ~Busy(r)
    /\ op.kind # "view" => now < MaxTime
    /\ doc # Gone /\ ~doc.raw
    /\ Room(op, doc.c)
    /\ LET todo == Plan(op, doc.c)
       IN req' = [req EXCEPT ![r] =
                    [op |-> op, todo |-> todo, copy |-> doc, snap |-> doc, mine |-> None,
                     made |-> IF todo # <<>> THEN Made(op, doc.c) ELSE None]]
    /\ created' = created \ Taken(op)
    /\ UNCHANGED <<transactional, doc, index, cached, now, ahead>>

-----------------------------------------------------------------------------
(* The steps.                                                              *)

Due(r, kind) == Busy(r) /\ req[r].todo # <<>> /\ Head(req[r].todo).do = kind
Rest(r) == [req[r] EXCEPT !.todo = Tail(@)]

\* The document as the session of r sees it.
Seen(r) == IF req[r].mine # None THEN req[r].mine ELSE doc

\* Mutants: a transaction that only waits for the others, and one that only
\* checks its snapshot.
Unlocked(r) == transactional => \A q \in Requests \ {r} : req[q].mine = None
SnapshotOnly(r) == transactional => req[r].snap \in {None, doc}

\* A transaction cannot write what another one has written and not committed,
\* nor what has changed since it started.
Writable(r) ==
    transactional =>
        /\ \A q \in Requests \ {r} : req[q].mine = None
        /\ req[r].snap \in {None, doc}

\* Mutant: replace_one with upsert.
Upsert(r, d, state) ==
    IF transactional
    THEN req' = [req EXCEPT ![r] = [state EXCEPT !.mine = d, !.snap = doc]] /\ UNCHANGED doc
    ELSE req' = [req EXCEPT ![r] = state] /\ doc' = d

\* Write d over the document, if there is one, and go on as state says.
Write(r, d, state) ==
    IF Seen(r) = Gone
    THEN req' = [req EXCEPT ![r] = state] /\ UNCHANGED doc
    ELSE IF transactional
    THEN req' = [req EXCEPT ![r] = [state EXCEPT !.mine = d, !.snap = doc]] /\ UNCHANGED doc
    ELSE req' = [req EXCEPT ![r] = state] /\ doc' = d

\* The loop over the list of users reuses the variable of the requester, so
\* what is dropped from the cache afterwards is another user's.
CacheUser(r) == IF req[r].op.kind = "prefs" /\ req[r].op.users \notin {None, {}}
                THEN None ELSE r

\* Mutant: change_workspace without the new last_modified.
SaveUnstamped(r) ==
    /\ Due(r, "save")
    /\ Writable(r)
    /\ LET copy == [req[r].copy EXCEPT !.c = Head(req[r].todo).c]
       IN /\ cached' = {e \in cached : e.user # CacheUser(r) \/ e.lm # req[r].copy.lm}
          /\ now' = now + 1
          /\ Write(r, copy, [Rest(r) EXCEPT !.copy = copy])
    /\ UNCHANGED <<transactional, index, ahead, created>>

\* change_workspace: drop what the cache has of the copy for the user, stamp
\* the copy and replace the document by it.
SaveStep(r) ==
    /\ Due(r, "save")
    /\ Writable(r)
    /\ LET copy == [c |-> Head(req[r].todo).c, lm |-> now + 1, raw |-> FALSE]
       IN /\ cached' = {e \in cached : e.user # CacheUser(r) \/ e.lm # req[r].copy.lm}
          /\ now' = now + 1
          /\ Write(r, copy, [Rest(r) EXCEPT !.copy = copy])
    /\ UNCHANGED <<transactional, index, ahead, created>>

\* update_workspace_in_index, at the end of change_workspace.
IndexStep(r) ==
    /\ Due(r, "index")
    /\ index' = IF index = Gone THEN Gone ELSE Indexed(Head(req[r].todo).c)
    /\ req' = [req EXCEPT ![r] = Rest(r)]
    /\ ahead' = (ahead /\ index = Gone)
    /\ UNCHANGED <<transactional, doc, cached, now, created>>

\* clear_workspace_users, then add_user_to_workspace for each.
UsersStep(r) ==
    /\ Due(r, "users")
    /\ Writable(r)
    /\ LET U == Head(req[r].todo).users
       IN Write(r, [Seen(r) EXCEPT !.c.users = U, !.raw = U # {}], Rest(r))
    /\ UNCHANGED <<transactional, index, cached, now, ahead, created>>

\* delete_workspace, and delete_workspace_from_index.
DeleteStep(r) ==
    /\ Due(r, "delete")
    /\ Writable(r)
    /\ Write(r, Gone, Rest(r))
    /\ UNCHANGED <<transactional, index, cached, now, ahead, created>>

UnindexStep(r) ==
    /\ Due(r, "unindex")
    /\ index' = Gone
    /\ req' = [req EXCEPT ![r] = Rest(r)]
    /\ UNCHANGED <<transactional, doc, cached, now, ahead, created>>

\* get_global_workspace_data
ViewStep(r) ==
    /\ Due(r, "view")
    /\ LET hit == \E e \in cached : e.user = r /\ e.lm = req[r].copy.lm
       IN cached' = IF hit THEN cached
                    ELSE cached \cup {[user |-> r, lm |-> req[r].copy.lm, c |-> req[r].copy.c]}
    /\ req' = [req EXCEPT ![r] = Rest(r)]
    /\ UNCHANGED <<transactional, doc, index, now, ahead, created>>

\* Mutant: commit what a request wrote, although it wrote nothing.
CommittedMine(r) == req[r].mine

Committed(r) == IF req[r].mine = None THEN doc ELSE req[r].mine

\* commit(): commit the transaction and start another.
CommitStep(r) ==
    /\ Due(r, "commit")
    /\ doc' = Committed(r)
    /\ req' = [req EXCEPT ![r] = [Rest(r) EXCEPT !.mine = None, !.snap = None]]
    /\ UNCHANGED <<transactional, index, cached, now, ahead, created>>

\* The handler returns; get_session commits.
Finish(r) ==
    /\ Finished(r)
    /\ doc' = Committed(r)
    /\ req' = [req EXCEPT ![r] = Idle]
    /\ created' = IF req[r].made = None THEN created ELSE created \cup {req[r].made}
    /\ UNCHANGED <<transactional, index, cached, now, ahead>>

\* An exception: get_session aborts what was not committed.
Abort(r) ==
    /\ req' = [req EXCEPT ![r] = Idle]
    /\ ahead' = (ahead \/ req[r].mine # None)
    /\ UNCHANGED <<transactional, doc, index, cached, now, created>>

\* MongoDB answers a write with a conflict.
Conflict(r) ==
    /\ \/ Due(r, "save") \/ Due(r, "users") \/ Due(r, "delete")
    /\ ~Writable(r)
    /\ Abort(r)

\* The database or the index fails a request at any of its awaits.
Fail(r) == Busy(r) /\ Abort(r)

-----------------------------------------------------------------------------
Init ==
    /\ transactional \in BOOLEAN
    /\ \E c \in Blank : doc = [c |-> c, lm |-> 0, raw |-> FALSE] /\ index = Indexed(c)
    /\ cached = {}
    /\ now = 0
    /\ req = [r \in Requests |-> Idle]
    /\ ahead = FALSE
    /\ created = {}

Next == \E r \in Requests :
    \/ \E op \in Ops : Read(r, op)
    \/ SaveStep(r)
    \/ IndexStep(r)
    \/ UsersStep(r)
    \/ DeleteStep(r)
    \/ UnindexStep(r)
    \/ ViewStep(r)
    \/ CommitStep(r)
    \/ Finish(r)
    \/ Conflict(r)
    \/ Fail(r)

Spec == Init /\ [][Next]_vars

-----------------------------------------------------------------------------
(* Properties.                                                             *)

MadeIds == {<<i>> : i \in TabId} \cup (TabId \X WidgetNo)

TypeOK ==
    /\ transactional \in BOOLEAN
    /\ doc \in Doc \cup {Gone}
    /\ index \in Entry \cup {Gone}
    /\ cached \subseteq [user : Requests, lm : Nat, c : Contents]
    /\ now \in Nat
    /\ \A r \in Requests : Busy(r) =>
        /\ req[r].op \in Ops
        /\ req[r].todo \in Seq(Step)
        /\ req[r].copy \in Doc
        /\ req[r].snap \in Doc \cup {None, Gone}
        /\ req[r].mine \in Doc \cup {None, Gone}
        /\ req[r].made \in MadeIds \cup {None}
    /\ ahead \in BOOLEAN
    /\ created \subseteq MadeIds

\* The document never loses its shape, whichever requests run at once and
\* wherever they fail, with transactions or without them: it keeps a tab, no
\* two tabs have the same id and at most one is visible.
TabsSound ==
    doc # Gone =>
        /\ Len(doc.c.tabs) > 0
        /\ \A j, k \in DOMAIN doc.c.tabs :
              j # k => /\ doc.c.tabs[j].id # doc.c.tabs[k].id
                       /\ ~(doc.c.tabs[j].visible /\ doc.c.tabs[k].visible)

\* With transactions the API keeps its promise: requests take effect one at a
\* time, whole, each on what the previous ones left.  Without them the promise
\* is void, and the mapping says so by never moving.
Promised == IF ~transactional THEN CHOOSE c \in Blank : TRUE
            ELSE IF doc = Gone THEN Gone ELSE doc.c

Serial == INSTANCE WorkspaceSerial WITH ws <- Promised
Serializable == Serial!Spec

\* "Tab created", "Widget instance created": with transactions, what the server
\* said it created is there, under the same id, until a request to remove or to
\* move it, or to remove its tab or its workspace.
CreatedKept ==
    transactional /\ doc # Gone =>
        created \subseteq {<<i>> : i \in Ids(doc.c)} \cup WidgetIds(doc.c)

\* "Iwidget cannot be deleted": read-only widgets go with the workspace only,
\* wherever requests move them and whichever tabs are removed, with transactions
\* or without.
ReadOnlyKept ==
    [][doc # Gone /\ doc' # Gone =>
          Cardinality(ReadOnlyIds(doc'.c)) = Cardinality(ReadOnlyIds(doc.c))]_doc

\* With transactions, what the cache answers for the current document is what
\* the document says, although no writer touches the entries of other users.
CacheFresh ==
    transactional /\ doc # Gone =>
        \A e \in cached : e.lm = doc.lm => e.c = doc.c

\* With transactions, searches find the workspace as it is whenever no request
\* is in progress: the index is updated before the commit and outside of the
\* transaction, and only an abort in between leaves it ahead.
IndexCurrent ==
    transactional /\ ~ahead /\ (\A r \in Requests : ~Busy(r)) =>
        index = IF doc = Gone THEN Gone ELSE Indexed(doc.c)

\* A request that had read the workspace before it was deleted does not bring
\* it back, nor its index entry, with transactions or without them.
StaysDeleted ==
    [][(doc = Gone => doc' = Gone) /\ (index = Gone => index' = Gone)]_vars

\* "List of users with access to this workspace" (core/plugins.py): once the
\* server has answered that it stored a list, the workspace has that list.
ShareListStored ==
    [][\A r \in Requests :
          /\ Finish(r) /\ doc' # Gone
          /\ req[r].op.kind = "prefs" /\ req[r].op.users # None
          => doc'.c.users = req[r].op.users]_vars
=============================================================================
