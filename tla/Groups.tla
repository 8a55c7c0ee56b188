------------------------------ MODULE Groups ------------------------------
(* Users, groups and organizations: the documents of MongoDB's users and     *)
(* groups, the search index of the groups beside them, and the requests that *)
(* change them (commons/auth/routes.py and crud.py).  Membership is stored   *)
(* twice, in the user and in the group.  An organization is a tree of        *)
(* groups, each with the path of its ancestors and itself.                   *)
(*                                                                           *)
(* A handler reads what it needs and goes on with a list of steps, each an   *)
(* await; requests interleave between them.  Names, permissions and the      *)
(* users' own index are left out: a request says which group it is about,    *)
(* and an edit always changes something.                                     *)
EXTENDS Naturals, Sequences, FiniteSets, SequencesExt, Functions

CONSTANTS
    Users,
    MaxGroups,   \* bound: groups created
    MaxServing,  \* bound: requests served at once
    MaxServed,   \* bound: requests made
    Gone         \* no document

VARIABLES
    atomic,      \* the sessions are transactions
    records,     \* the committed documents of the groups and the users
    born,        \* groups created so far: ids grow
    listing,     \* groups with an entry in the index
    serving,     \* the requests in progress
    requests,    \* requests made so far
    synced,      \* history: groups created by a login, which are not indexed
    crossed,     \* history: two changes of the hierarchy overlapped
    faulted      \* history: a request failed

groupVars == <<atomic, records, born, listing, serving, requests, synced, crossed, faulted>>

GroupIds == 1..MaxGroups
NoParent == 0
Servers == 1..MaxServing
GroupRecords == [path : Seq(GroupIds), org : BOOLEAN, users : SUBSET Users]

ASSUME GroupsAssumption ==
    /\ MaxGroups \in Nat /\ MaxServing \in Nat /\ MaxServed \in Nat
    /\ Users \cap GroupIds = {} /\ Gone \notin GroupRecords /\ \A gs \in SUBSET GroupIds : Gone # gs

GroupOps ==
    [kind : {"create"}, org : BOOLEAN, users : SUBSET Users]
    \cup [kind : {"edit"}, group : GroupIds, users : SUBSET Users]
    \cup [kind : {"move"}, group : GroupIds, parent : GroupIds \cup {NoParent}]
    \cup [kind : {"delete", "deleteOrganization"}, group : GroupIds]
    \cup [kind : {"login"}, user : Users, groups : SUBSET GroupIds, new : BOOLEAN, sync : BOOLEAN]
    \cup [kind : {"editUser", "deleteUser"}, user : Users]

Unwritten == [k \in {} |-> Gone]
Unserved == [op |-> "none"]
Busy == {r \in Servers : serving[r] # Unserved}

GroupsOf(db) == {g \in GroupIds : db[g] # Gone}
UsersOf(db) == {u \in Users : db[u] # Gone}
Within(db, g) == {h \in GroupsOf(db) : Contains(db[h].path, g)}

\* What is written, and the rest as it was.
Upon(new, db) == [k \in DOMAIN new \cup DOMAIN db |-> IF k \in DOMAIN new THEN new[k] ELSE db[k]]

\* Group.parent
Parent(group) == IF Len(group.path) < 2 THEN NoParent ELSE group.path[Len(group.path) - 1]
IsRoot(group) == group.org /\ Parent(group) = NoParent

GroupDocument(g, org, us) == [path |-> <<g>>, org |-> org, users |-> us]

\* Groups with members, and organizations of one group.
Holding(orgs, groupsOf) ==
    /\ records = Upon(groupsOf, [g \in GroupIds |->
                    IF g > born THEN Gone
                    ELSE GroupDocument(g, g \in orgs, {u \in Users : g \in groupsOf[u]})])
    /\ atomic \in BOOLEAN /\ listing = 1..born
    /\ serving = [r \in Servers |-> Unserved] /\ requests = 0
    /\ synced = {} /\ crossed = FALSE /\ faulted = FALSE

GroupsInit ==
    /\ born \in 0..MaxGroups
    /\ \E orgs \in SUBSET (1..born), groupsOf \in [Users -> SUBSET (1..born)] : Holding(orgs, groupsOf)

----------------------------------------------------------------------------
(* The steps of the requests: first the updates of crud.py, then those of    *)
(* the index.                                                                *)

Insert(g, group) == [do |-> "insert", at |-> g, new |-> group]
\* The whole document again, as it was read but for what the request changes.
Save(k, copy) == [do |-> "save", at |-> k, new |-> copy]
\* Fields other than the groups of a user.
Touch(u) == [do |-> "touch", at |-> u]
Erase(keys) == [do |-> "erase", of |-> keys]
AddToUsers(g, us) == [do |-> "add", at |-> g, of |-> us]
TakeFromUsers(leaving) == [do |-> "take", of |-> leaving]
Detach(g) == [do |-> "detach", at |-> g]
JoinGroups(u, gs) == [do |-> "join", at |-> u, of |-> gs]
LeaveGroups(u, gs) == [do |-> "leave", at |-> u, of |-> gs]
SetGroups(u, gs) == [do |-> "groups", at |-> u, of |-> gs]
List(g) == [do |-> "list", of |-> {g}]
Unlist(gs) == [do |-> "unlist", of |-> gs]

\* Mutant: only the children of a group are detached from it.
Orphaned(db, g) == {h \in Within(db, g) \ {g} : Parent(db[h]) = g}
Descendants(db, g) == Within(db, g) \ {g}

\* What an update makes of the documents it finds.  A path has no repetitions.
Effect(s, db) ==
    CASE s.do = "insert" -> [g \in {s.at} |-> s.new]
      [] s.do = "save" -> [k \in {s.at} \ {k \in {s.at} : db[k] = Gone} |-> s.new]
      [] s.do = "touch" -> [u \in {s.at} \cap UsersOf(db) |-> db[u]]
      [] s.do = "erase" -> [k \in s.of |-> Gone]
      [] s.do = "add" -> [u \in s.of \cap UsersOf(db) |-> db[u] \cup {s.at}]
      [] s.do = "take" -> [u \in UsersOf(db) |-> db[u] \ {g \in DOMAIN s.of : u \in s.of[g]}]
      [] s.do = "detach" -> [g \in Descendants(db, s.at) |-> [db[g] EXCEPT !.path = RemoveFirst(@, s.at)]]
      [] s.do = "join" -> [g \in s.of \cap GroupsOf(db) |-> [db[g] EXCEPT !.users = @ \cup {s.at}]]
      [] s.do = "leave" -> [g \in s.of \cap GroupsOf(db) |-> [db[g] EXCEPT !.users = @ \ {s.at}]]
      [] s.do = "groups" -> [u \in {s.at} \cap UsersOf(db) |-> s.of]

\* An update that leaves a document as it was does not write it; requests that
\* save one change something the model leaves out.
Written(s, db) ==
    LET new == Effect(s, db)
    IN  Restrict(new, {k \in DOMAIN new : s.do \in {"save", "touch"} \/ new[k] # db[k]})

----------------------------------------------------------------------------
(* The handlers: what each requires of what it reads (it answers with an     *)
(* error otherwise), and its steps.                                          *)

Accepted(op, db) ==
    CASE op.kind = "create" -> op.org \/ op.users \subseteq UsersOf(db)
      [] op.kind = "edit" -> op.group \in GroupsOf(db)
      [] op.kind = "move" ->
            /\ op.group \in GroupsOf(db)
            /\ op.parent # NoParent => /\ op.parent \in GroupsOf(db) /\ db[op.parent].org
                                       /\ ~Contains(db[op.parent].path, op.group)
      [] op.kind = "delete" -> op.group \in GroupsOf(db) /\ ~IsRoot(db[op.group])
      [] op.kind = "deleteOrganization" -> op.group \in GroupsOf(db) /\ IsRoot(db[op.group])
      [] op.kind = "login" -> op.user \in UsersOf(db) /\ op.groups \subseteq GroupsOf(db)
      [] op.kind \in {"editUser", "deleteUser"} -> op.user \in UsersOf(db)

Creates(op) == op.kind = "create" \/ (op.kind = "login" /\ op.new)

\* create_group and create_organization; g is the new id.
CreatePlan(op, g) ==
    <<Insert(g, GroupDocument(g, op.org, op.users)), AddToUsers(g, op.users), List(g)>>

\* update_group_entry
EditPlan(op, group) ==
    <<AddToUsers(op.group, op.users \ group.users), TakeFromUsers([g \in {op.group} |-> group.users \ op.users]),
      Save(op.group, [group EXCEPT !.users = op.users]), List(op.group)>>

\* update_organization_group_entry: out of the organizations, or to the end of
\* the path of its new parent.  The paths of its own descendants stay.
MovePlan(op, db) ==
    IF op.parent = NoParent
    THEN <<Detach(op.group),
           Save(op.group, [db[op.group] EXCEPT !.path = <<op.group>>, !.org = FALSE]), List(op.group)>>
    ELSE <<Save(op.group, [db[op.group] EXCEPT !.path = Append(db[op.parent].path, op.group), !.org = TRUE]),
           List(op.group)>>

\* delete_group
DeletePlan(op, group) ==
    <<TakeFromUsers([g \in {op.group} |-> group.users]), Detach(op.group), Erase({op.group}), Unlist({op.group})>>

\* Mutant: only the root leaves the index.
UnlistRoot(op, db) ==
    LET doomed == Within(db, op.group)
    IN  <<Erase(doomed), TakeFromUsers([g \in doomed |-> db[g].users]), Unlist({op.group})>>
\* delete_organization: every group with the root in its path.
DeleteOrganizationPlan(op, db) ==
    LET doomed == Within(db, op.group)
    IN  <<Erase(doomed), TakeFromUsers([g \in doomed |-> db[g].users]), Unlist(doomed)>>

\* remove_user_from_all_groups
LeaveAllPlan(u, groups) == <<LeaveGroups(u, groups), SetGroups(u, {})>>

\* A login brings the groups the identity provider tells of; one it has not
\* seen is created.  sync: the user leaves all others.
LoginPlan(op, groups, g) ==
    LET before == IF op.sync THEN {} ELSE groups
        more == (op.groups \cup (IF op.new THEN {g} ELSE {})) \ before
    IN  <<Touch(op.user)>>
        \o (IF op.sync THEN LeaveAllPlan(op.user, groups) ELSE <<>>)
        \o (IF op.new THEN <<Insert(g, GroupDocument(g, FALSE, {}))>> ELSE <<>>)
        \o (IF more # {} THEN <<JoinGroups(op.user, more), SetGroups(op.user, before \cup more)>> ELSE <<>>)

GroupPlan(op, db, g) ==
    CASE op.kind = "create" -> CreatePlan(op, g)
      [] op.kind = "edit" -> EditPlan(op, db[op.group])
      [] op.kind = "move" -> MovePlan(op, db)
      [] op.kind = "delete" -> DeletePlan(op, db[op.group])
      [] op.kind = "deleteOrganization" -> DeleteOrganizationPlan(op, db)
      [] op.kind = "login" -> LoginPlan(op, db[op.user], g)
      [] op.kind = "editUser" -> <<Save(op.user, db[op.user])>>
      [] op.kind = "deleteUser" -> LeaveAllPlan(op.user, db[op.user]) \o <<Erase({op.user})>>

----------------------------------------------------------------------------
\* A change of the hierarchy; without transactions an edit, which saves the
\* path it read, may undo one.
Reshapes(op) == op.kind \in {"move", "delete"} \/ (op.kind = "edit" /\ ~atomic)

\* A request begins: its handler reads what it needs, in its transaction's
\* snapshot if there is one.
Request(r, op) ==
    /\ requests < MaxServed /\ requests' = requests + 1
    /\ Busy # Servers /\ r = Min(Servers \ Busy)
    /\ Accepted(op, records)
    /\ Creates(op) => born < MaxGroups
    /\ born' = IF Creates(op) THEN born + 1 ELSE born
    /\ serving' = [serving EXCEPT ![r] =
          [op |-> op, snap |-> records, mine |-> Unwritten, indexed |-> FALSE,
           todo |-> GroupPlan(op, records, born + 1)]]
    /\ synced' = IF Creates(op) /\ op.kind = "login" THEN synced \cup {born + 1} ELSE synced
    /\ crossed' = (crossed \/ (Reshapes(op) /\ \E q \in Busy : Reshapes(serving[q].op)))
    /\ UNCHANGED <<atomic, records, listing, faulted>>

Sees(r) == IF atomic THEN Upon(serving[r].mine, serving[r].snap) ELSE records

\* Mutant: only what is not committed yet is a conflict.
OthersIdle(r, k) == atomic => \A q \in Busy \ {r} : k \notin DOMAIN serving[q].mine
\* No other transaction has written k, nor committed a write of it since the
\* snapshot.
FreeToWrite(r, k) ==
    atomic => /\ \A q \in Busy \ {r} : k \notin DOMAIN serving[q].mine
              /\ records[k] = serving[r].snap[k]

UpdateRecords(r) ==
    /\ r \in Busy /\ serving[r].todo # <<>>
    /\ LET step == Head(serving[r].todo)  new == Written(step, Sees(r))
       IN  /\ step.do \notin {"list", "unlist"}
           /\ \A k \in DOMAIN new : FreeToWrite(r, k)
           /\ records' = IF atomic THEN records ELSE Upon(new, records)
           /\ serving' = [serving EXCEPT ![r].todo = Tail(@),
                                         ![r].mine = IF atomic THEN Upon(new, @) ELSE @]
    /\ UNCHANGED <<atomic, born, listing, requests, synced, crossed, faulted>>

\* add_group_to_index, delete_group_from_index
UpdateListing(r) ==
    /\ r \in Busy /\ serving[r].todo # <<>>
    /\ LET step == Head(serving[r].todo)
       IN  \/ step.do = "list" /\ listing' = listing \cup step.of
           \/ step.do = "unlist" /\ step.of \subseteq listing /\ listing' = listing \ step.of
    /\ serving' = [serving EXCEPT ![r].todo = Tail(@), ![r].indexed = TRUE]
    /\ UNCHANGED <<atomic, records, born, requests, synced, crossed, faulted>>

\* The handler returns and get_session commits.
Finish(r) ==
    /\ r \in Busy /\ serving[r].todo = <<>>
    /\ records' = Upon(serving[r].mine, records)
    /\ serving' = [serving EXCEPT ![r] = Unserved]
    /\ UNCHANGED <<atomic, born, listing, requests, synced, crossed, faulted>>

\* A request fails at any await: a conflict, an entry the index does not have
\* (perhaps after some that it had), or one of the stores.
FailRequest(r) ==
    /\ r \in Busy
    /\ LET unlisting == IF serving[r].todo = <<>> \/ Head(serving[r].todo).do # "unlist" THEN {}
                        ELSE Head(serving[r].todo).of
       IN  /\ \E gs \in SUBSET (unlisting \cap listing) : listing' = listing \ gs
           /\ faulted' = (faulted \/ serving[r].indexed \/ listing' # listing)
    /\ serving' = [serving EXCEPT ![r] = Unserved]
    /\ UNCHANGED <<atomic, records, born, requests, synced, crossed>>

GroupsNext == \E r \in Servers :
    \/ \E op \in GroupOps : Request(r, op)
    \/ UpdateRecords(r) \/ UpdateListing(r) \/ Finish(r) \/ FailRequest(r)

GroupsSpec == GroupsInit /\ [][GroupsNext]_groupVars

----------------------------------------------------------------------------
GroupsTypeOK ==
    /\ atomic \in BOOLEAN /\ crossed \in BOOLEAN /\ faulted \in BOOLEAN
    /\ DOMAIN records = GroupIds \cup Users
    /\ \A g \in GroupsOf(records) : records[g] \in GroupRecords
    /\ \A u \in UsersOf(records) : records[u] \subseteq GroupIds
    /\ born \in 0..MaxGroups /\ requests \in 0..MaxServed
    /\ GroupsOf(records) \cup listing \cup synced \subseteq 1..born

\* With transactions the two sides of a membership always agree, whatever
\* requests about a group, its organization and its users meet: a user has the
\* groups that have the user, all of which exist.
Mirrored ==
    atomic => \A u \in UsersOf(records) :
                 records[u] = {g \in GroupsOf(records) : u \in records[g].users}

Shapely(g, group) ==
    /\ Len(group.path) > 0 /\ group.path[Len(group.path)] = g
    /\ \A i, j \in 1..Len(group.path) : group.path[i] = group.path[j] => i = j
    /\ ~group.org => group.path = <<g>>

\* Paths never lose their shape, with transactions or without: a group is the
\* last of its own path, nothing comes twice, and a group outside of the
\* organizations is under none.
AllShapely == \A g \in GroupsOf(records) : Shapely(g, records[g])

\* The same and, unless two changes of the hierarchy met, what left the
\* organizations is above nobody either.
PathsSound ==
    /\ AllShapely
    /\ ~crossed => \A g \in GroupsOf(records) :
          LET path == records[g].path
          IN  \A i \in 1..Len(path) - 1 : path[i] \in GroupsOf(records) => records[path[i]].org

\* With transactions, and as long as no request failed after it changed the
\* index, the index has the groups there are when nothing is in progress;
\* those created by a login are indexed when they are first edited.
Listed ==
    atomic /\ ~faulted /\ Busy = {} =>
        /\ listing \subseteq GroupsOf(records)
        /\ GroupsOf(records) \subseteq listing \cup synced

\* "Check there is not a cycle in the group hierarchy" (routes.py 1109): among
\* any groups there is one whose parent is not one of them.
NoCycle ==
    \A gs \in (SUBSET GroupsOf(records)) \ {{}} : \E g \in gs : Parent(records[g]) \notin gs
=============================================================================
