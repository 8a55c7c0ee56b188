# Wirecloud: a verification project

TLA+ models of the parts of Wirecloud (a web mashup platform: a FastAPI server
over MongoDB, Elasticsearch and a cache, and a single page application) where
correctness depends on the order in which things happen. Everything is
translated from `src/src/wirecloud/`; paths below are relative to it, and `js/`
stands for `platform/static/js/wirecloud/`.

A workspace is a set of tabs with widgets, plus a *wiring*: operators and the
connections that carry events between the endpoints of widgets and operators.
The browser keeps it running (the wiring engine, the operators, the layouts) and
the server stores it (one document per workspace, one per installed component).

## 1. Inventory

| Component | State | Operations | Talks to | Hard behaviour |
|---|---|---|---|---|
| **Wiring engine** `js/Wiring.js`, `js/wiring/{Connection,SourceEndpoint,TargetEndpoint,MissingEndpoint}.js` | operators (list and index by id), id counter, connections, established flags, the endpoints' lists of each other | create/remove operator and connection, `load`, reactions to a component that changes version or goes | server (PATCH of the wiring), operators, widgets (events), editor, components' API | answers that arrive after what they refer to is gone, endpoints rebuilt under a connection, ids |
| **Operators** `js/wiring/Operator.js`, `OperatorTargetEndpoint.js` | status, version, script elements shared by the page, queue of events, entrypoint instance | load, unload, upgrade, remove, propagate | DOM (scripts, iframes), server (variables), engine | reference counting, late load events, events while loading, reentrant callbacks |
| **Widgets** `js/Widget.js`, `js/ui/WidgetView.js` | status, version, endpoints, placement, tab | load, unload, upgrade, move, remove | engine, tab, server | the same as operators, in iframes |
| **Wiring editor** `js/ui/WiringEditor.js` | components and connections shown | draw, remove, open, close | engine, server, behaviours | closing with answers pending |
| **Wiring behaviours** `js/ui/WiringEditor/{BehaviourEngine,Behaviour,ConnectionEngine,Connection}.js` | behaviours with their parts and links, the active one, what is drawn in the background | create, activate, empty, remove, reorder, share | editor, engine | operations that call one another while they loop over what they change |
| **Components' API** `platform/static/js/WirecloudAPI/*` | facades, counters of volatile entities | addWidget, addOperator, connect, disconnect | engine | entities whose creator goes or is reloaded |
| **Tasks and events** `commons/static/js/wirecloud/Task.js`, `StyledElements/Event.js` | status, value, subtasks; handlers | resolve, reject, abort, then, dispatch | everybody in the browser | aborts against resolutions, nested dispatch |
| **Property commits** `js/PropertyCommiter.js`, `js/PersistentVariable.js` | values to send, values set meanwhile, a timer | add, commit, answers | server | retries and commits that overlap |
| **Dashboard layouts** `js/ui/{ColumnLayout,SmartColumnLayout,GridLayout,WidgetViewDraggable,WidgetViewResizeHandle}.js` | a matrix of cells, positions, shapes, the drag and its cursor | add, remove, move, resize, minimize | widget views, tabs | shadow copies that replace the matrix, closing gaps |
| **Tabs in the browser** `js/Workspace.js`, `js/WorkspaceTab.js` | tabs and widgets as the server answered | create, move, remove | server, views | ids given again, late answers |
| **Workspace store** `platform/workspace/*`, `database.py`, `platform/search.py` | the document, its index entry, cached answers, transactions | tabs, title, wiring, preferences, removal, reads | MongoDB, Elasticsearch, cache | read-modify-write of whole documents, transactions that may be missing, commits half way, failures between steps |
| **Widget instances** `platform/iwidget/*` | part of the workspace | create, edit, move between tabs, remove | workspace store | ids made from the tab's and reused |
| **Wiring routes** `platform/wiring/*` | none of their own | replace or patch the wiring, after checking it | workspace store | checks against a stored status that changes |
| **Preferences** `platform/preferences/*` | part of the workspace, own caches | get and set, share, publish | workspace store, cache | caches keyed by what does not change |
| **Catalogue** `catalogue/*`, `platform/localcatalogue/*` | resources and their users, files deployed, index | install, recreate -dev versions, uninstall, delete if unused | MongoDB, file system, index | four stores without a common transaction |
| **Users, groups and organizations** `commons/auth/{routes,crud,models}.py`, `commons/search.py` | users with their groups, groups with their users and the path of their ancestors, the index | create, edit, move and delete groups and organizations, log in, edit and delete users | MongoDB, Elasticsearch, identity provider | a membership stored twice, paths that repeat what other documents say, an index outside of the transaction |
| Local catalogue in the browser, contexts, history, sessions and providers, proxy, templates, search queries, markets, themes, commands | | | | see `PROJECT.json`, components |

What makes each modelled part correct:

* *engine*: events travel over exactly the wires its connections stand for; a
  connection is established whenever its endpoints exist; a removed component
  leaves nothing behind; the index of operators agrees with the list.
* *operators*: script elements are on the page exactly while somebody uses them;
  who waits for a script gets it; queued events are delivered, in order, once,
  as long as `on_load` does not throw.
* *behaviours*: each shows whole connections, together they show everything, and
  their description is the wiring that is saved.
* *tasks and events*: a settled task stays so, nobody waits for what already
  happened, an abort reaches all the work; no listener is passed over.
* *property commits*: the last value set is stored in the end.
* *layouts*: the matrix says who is where, and a smart board has no gaps.
* *tabs*: the browser has what the server has once nothing is in flight.
* *store*: with transactions requests are serializable, and the cache and the
  index follow the document; without them the document at least keeps its
  shape, and a deleted workspace stays deleted.
* *catalogue*: who was told that a resource is installed has it; what nobody has
  is deleted.
* *groups*: a user has the groups that have the user; the path of a group ends in
  it and repeats nothing, and the hierarchy has no cycles; the index has the groups
  there are.

`PROJECT.json` lists the hazards line by line with the property that covers each.

## 2. Modules

| Module | What it is |
|---|---|
| `Wiring`, `MCWiring` | engine, connections, endpoints and version changes, one action per handler |
| `WiringProofs` | lemmas and the theorem about `Wiring` |
| `OperatorLifecycle`, `MCOperatorLifecycle` | the life of operators, script sharing, queued events |
| `PropertyCommits` | the saves of a component's properties |
| `ComponentProofs` | lemmas and the theorems about `OperatorLifecycle` and `PropertyCommits` |
| `MCComponents` | model of one operator life or one history of saves: `OperatorLifecycle` or `PropertyCommits` |
| `WorkspaceContents` | what a workspace holds and the requests there are |
| `WorkspaceSerial` | the abstract specification: requests one at a time |
| `WorkspaceStore`, `MCWorkspaceStore` | the handlers over the database, implementing `WorkspaceSerial` |
| `StoreProofs`, `SerialProofs` | lemmas and the theorems about `WorkspaceStore` |
| `WorkspaceTabs` | tabs and widgets in the browser, composed with `WorkspaceSerial` as the server |
| `TabProofs` | lemmas and the theorem about `WorkspaceTabs` |
| `TaskPromise` | tasks, continuations and groups |
| `EventDispatch` | dispatch of an event, propagation of a value |
| `TaskProofs` | lemmas and the theorems about `TaskPromise` and `EventDispatch` |
| `ColumnLayouts` | placement of widgets |
| `Behaviours` | behaviours of the wiring editor |
| `Catalogue`, `MCCatalogue` | installation and removal of a component |
| `CatalogueProofs` | lemmas and the theorems about `Catalogue` |
| `Groups`, `MCGroups`, `GroupProofs` | users, groups and organizations |
| `MCParts` | model of one part: tasks, events, layouts, behaviours, tabs, catalogue, groups, or the events of an operator |

`MCParts`, `MCGroups`, `MCComponents`, `MCWiring` and `MCWorkspaceStore` add a
variable (`part`, `topic`, `about`) that says which part, or which kind of request, a run of the
model is of. It is chosen at the start and never changes, and what is not chosen
does not move: the states of independent questions add and do not multiply.

### Wiring

JavaScript runs a handler to its end, so an action is a handler; a request and
its answer are two actions with anything in between. `net` holds, for every
connection object, its two endpoints and whether it counts itself established,
and `wires`, the entries of the endpoints' lists. `Detach`, `EstablishAll`,
`FullDisconnect` translate the methods of the same name; `establish` on several
connections leaves open which of the duplicates gets the wire, so its result is
a set of states. A version is `full` (declares the endpoints), `bare` (does not,
so connections are given ghosts) or `missing`. `ops`, `byId`, `nextId` are the
engine's private fields; `maker` says which component created a volatile
operator and `deaf` holds the operators that lost their listeners to
`destroy()`. The editor is `closed`, `open`, or `interrupted` when its close
threw. Closing calls `load` with what it shows: `keep` (operators) and `C`
(connections) are any subset of what can be shown.

Abstractions: a component has one output and one input; volatile widgets are
left out; the microtask between the answer to a version change and its
continuation is merged with it; `RemoveConnection` stands for the removal by the
API, the editor's being the load at its close; the server's own answer is a
free choice between success and failure; whether an endpoint's filter accepts an
event is not modelled.

### OperatorLifecycle

`dom`, `users`, `ready` and `held` are `Wirecloud.loadedScripts` and the
operators' `loaded_scripts`; `promised`/`waits` the promise of `_loadScripts`;
`framing` the iframes whose load event is to come. `links` is what the
connections reach: the current endpoint, a stale one of an earlier version, or a
ghost. `flush` is the loop of `on_load` over the queue, one event a step, so
callbacks may send, disconnect or remove in between. `Quiet` says that promise
continuations run before other events. `delivered` is a history variable, each
event with its number and whether it was queued. A delivery may throw: the endpoint
of an event no longer exists (in `Flush`), or a callback rejects an event with an
`EndpointTypeError` or `EndpointValueError`, which `propagate` passes on
(`EventRejected`). Then `on_load` does not reach its last statement, and a running
operator keeps its queue until its next load delivers it again; `retained` is the
history of the events that were in a queue when that happened. The constructor of
an entrypoint may throw too (`EntrypointThrows`): the operator stays `LOADING` with
nothing to wait for, which the model calls `failed`.

### PropertyCommits

`values` and `pendingValues` are the two private sets of `PropertyCommiter`,
`armed` its timer, `strays` the timers it armed and no longer names, `flying` the
requests: stored or not by the server before the browser hears of it, in any
order. Two things lose values, and the properties say so: `overlapped`, two
commits in flight together (a widget unloaded while a save is in flight commits
at once), and `limbo`, a value set between a failure and its retry.

### WorkspaceContents, WorkspaceSerial, WorkspaceStore

A handler reads the document once, so what it will do is a function (`Plan`) of
the request and what it read: a list of steps, each an await. `Plan` has one
operator per route. `req[r]` is the request in progress with the copy it works
on, the snapshot of its transaction and what it has written and not committed.
A transaction may not write over another's uncommitted write, nor over what
changed since its snapshot (`Writable`, from how MongoDB treats the session the
code opens in `database.py`); otherwise the request aborts. `transactional` is
chosen at the start: deployments without a replica set have none. `Fail` aborts
at any await. `SaveStep` is `change_workspace`: drop the cache entry of one
user, stamp, replace the whole document; `IndexStep` follows it.

A tab holds its widgets by number, each read-only or not; the id of a widget is
its tab's and the first number free there, so a widget moved to another tab takes
another id (`EditWidget`). Read-only widgets are those of migrated workspaces
(`commons/commands.py` 973): `mashupTemplateParser.py` 254 sets `iwidget.readonly`,
a field its model lacks, and `save_widget_instance` copies none, so no request
creates one. A tab with a read-only widget cannot be removed.

`WorkspaceSerial` has one action per request over the contents alone, atomic.
The refinement, checked by the run `store` and proved in `SerialProofs`, maps `ws` to
the committed document, when there are transactions.

Abstractions: a workspace cannot be renamed, only retitled; sharing is with
users, not groups, and is one write for the whole list (runs share with at most
one user); creation and import of workspaces, permissions, `requireauth`,
removals in a wiring patch and the 304 answer are left out; an edit is of one
widget, and what the wiring and the forced values say of a moved widget (they
keep its old id) is not followed; the read that authenticates the request is
merged with the read of the workspace; the session is committed when the handler
returns.

### WorkspaceTabs

The browser half: the objects of `Workspace.js`, `WorkspaceTab.js` and
`Widget.js`, which change only when an answer comes (`TabCreated`, `TabRemoved`,
`WidgetCreated`, `WidgetMoved`, `WidgetRemoved`). The server half is
`WorkspaceSerial` itself (`Server == INSTANCE WorkspaceSerial WITH ws <- document`),
which `Serializable` shows the store to implement: a request names its objects by
the ids the browser has for them when it is sent, is served or refused at any
moment, and answered at any later one. `tabAt` and `place` are histories of which
object stands for what in the document; they are what `MirrorsServer` compares.

A moved widget keeps its old id and its old tab's `preremove` listener
(`Widget.js` 759). So requests about it are answered 404 until the page is loaded
again, removing the tab it was moved from removes it in the browser only, and
removing the tab it was moved to does not unload it: `astray` marks those steps,
and those where an id that was given again stands for another object, and nothing
is explored after them. A widget created in a tab that was removed meanwhile is
announced to nobody.

### TaskPromise

A settled task calls its listeners at once, those settle other tasks, and so on,
all within one call: `calls` is that stack and a step is one frame of it, so a
callback acts (aborts, resolves, continues) with the rest of the stack
half done. Kinds are plain tasks, continuations (`then`), groups (`Task.all`-like
aggregates) and wrappers (`toTask`). The model keeps what the code does to
groups: they may report several times, answer both "fail" and "abort" when they
are aborted, and an aborted group may turn rejected while its last subtask is
reporting (the exception in `StatusFinal`); a wrapper does not adopt an abort
(the exception in `NobodyForgotten`); and a continuation that is over may still be
called, and then returns a task nobody waits for (the exception in `AbortReaches`).

### EventDispatch

Two independent halves. `Event.js`: removing a listener leaves a hole while a
dispatch is in progress, the end of the dispatch closes the holes, and a nested
dispatch closes them under the outer one, which may then pass over a handler:
`frames` says of each dispatch what it has called and what was due, `NobodySkipped`
counts a skip only if no dispatch was nested. `SourceEndpoint.propagate`: the walk
is over a copy and the log by position in the list.

### ColumnLayouts

`board` is the matrix and the positions, `move` the drag (widget, cursor, backup,
shadow matrix), `stretching` the resize, `smart` whether gaps are closed. The
recursion of `moveSpaceDown` and `moveSpaceUp` is a fixpoint over the widgets met.
`strayed` marks a drag that ended on another tab, or where it began, after other
widgets had been pushed: their positions are left changed with no matrix of
theirs. `tight` is false for boards stored with gaps, which `initialize` does not
always close (`modified ||` of `SmartColumnLayout.initialize` stops after the first
widget that moves), and after a resize that came back to its first shape. A resize
beyond the last column throws and is not modelled.

### Behaviours

`editor` is a record of what the engines of the editor hold: components, drawings
with their ends, which of them are bound to a connection of the wiring, the
description, the behaviours and the active one, and what is drawn in the
background. Operators of the module take an editor and return one, in the order
the code calls them. `hasty` marks a step taken while a creation is pending and
that the code does not provide for, and what follows it is not explored
(`GoOn = FALSE`): a refused creation leaves its entry in the description; a
component removed while its connection is being created leaves the connection,
which leaks into the next time the editor is shown; the same connection drawn
twice is described twice; removing a connection that is not described yet removes
the last one that is (`splice(-1)`); leaving with a pending connection makes
`Wiring.load` throw. `showConnectionChangeModal` (`WiringEditor.js` 450) takes a
moved connection out of the other behaviours and adds the new one to none: the
model does the same (`Moved`).

### Catalogue

One version of a widget. `docs` are the committed documents, by an id that grows;
`entries` the search index; a request is a record with the step it is at and, in a
transaction, what it has written (`mine`) and the snapshot it reads. Facts the
model keeps: nothing prevents two documents of one version (the check before the
insertion is no unique index); `install_resource_to_user` always pushes to the
document, because it looks for the user in a collection nobody fills; a widget that
requires a feature the server lacks is refused after that (`Unsupported`), and its
document stays without an index entry; a `-dev` version is deleted and *committed* before the
new one is deployed and stored, and its other users lose it; `delete_if_not_used`
reads before it deletes; the index is outside of transactions, and an entry that
is not found when it is removed aborts the transaction; the document just created
may be gone when it is read again.

### Groups

`records` is the committed collections of users and groups in one function: a
user's document is the set of its groups, a group's has its path, whether it is in
an organization, and its users. As in the store, a handler reads what it needs
when it begins (`Accepted` are its checks, `GroupPlan` what it will do) and each
await after that is a step: `UpdateRecords` for an update of `crud.py`, whose
`Effect` is on the documents the update finds, `UpdateListing` for the index,
`Finish` for the commit, `FailRequest` for an exception at any await. `atomic` says
whether there are transactions; `FreeToWrite` is the conflict of two of them, and
an update that changes nothing in a document does not write it.

What the model keeps of the code: `update_group` and `update_user_with_all_info`
save the whole document that was read; `add_user_to_groups_by_codename` sets the
user's side whole and pushes to the groups' one; moving a group gives a new path to
that group alone; leaving the organizations, or a deletion, takes the group out of
the paths below; `delete_organization` deletes every group with the root in its
path; a group created at a login gets no index entry, so its deletion ends in an
error and is undone until an edit has indexed it (`synced`).

Abstractions: names, codenames, permissions and the users' own index; a request
names its groups by id; the reads of a handler are merged at its start; the loops
over the users and groups of a deletion are one update and one change of the
index, which may fail half way; a login is that of a user who exists and brings at
most one group that does not; edits change something besides the users. `crossed`
says that two changes of the hierarchy were in progress together: each reads paths
the other writes in other documents, which no conflict stops. `faulted` says that a
request failed after it changed the index.

## 3. Runs

All runs name their bounds in the cfg. Deadlock is not checked: the bounds on
objects created, ids, events, requests and time make every model stop.

| Run | Instance | Properties | Shows |
|---|---|---|---|
| `wiring` | 1 widget, 2 connections; either 2 operators that keep their versions, with the editor, or 1 operator and versions full/missing, 2 changes of the widget and 1 of the operator | `TypeOK`, `WiresSound`, `EstablishedWired`, `StaysEstablished`, `RemovalComplete`, `Rebound` | connections are up whenever they can be, through removals, reloads and editor sessions; wires and connections agree while versions change behind requests |
| `wiring_ids` | 2 operators, no widget | `OperatorsIndexed` fails | finding 1 |
| `wiring_reload` | 2 operators, 1 widget | `OperatorsIndexed` fails | finding 2 |
| `operator_scripts` | 2 operators, 2 versions sharing a library, 1 change each; or 2 properties, 3 settings, 2 failures, 1 unload | `ScriptsShared`, `WaitsAreComing`, `LoadingEnds`, `ValueKept`, `LastValueStored` | sharing is counted right and nobody waits for ever; the last value is kept and gets stored |
| `operator_versions` | 1 operator, 3 versions (1 legacy), no events | `EveryVersionLoads` fails | finding 3 |
| `parts` | one of eight parts, see below | `PartsTypeOK`; tasks: `NobodyForgotten`, `AbortReaches`, `StatusFinal`; events: `NobodySkipped`, `LoggedToItsConnection`; layouts: `MatrixAgrees`, `StaysCompact`; behaviours: `BehavioursClosed`, `NothingHidden`, `AllDescribed`, `NothingLeft`; tabs: `MirrorsServer`; catalogue: `InstalledStays`, `UnusedRemoved`, `NoGhosts`; groups: `Mirrored`, `PathsSound`, `Listed`; operator: `DeliveredInOrder`, `NoQueuedEventLost` | each part keeps its promises in every order of its steps |
| `workspace_ids` | 2 tabs, 2 widgets | `WidgetsFound` fails | finding 7 |
| `catalogue_index` | 2 users, 3 requests one after the other | `OnlyForTheUser` fails | finding 6 |
| `groups_cycle` | 3 groups, 3 requests one after the other | `NoCycle` fails | finding 8 |
| `store` | 2 requests, 2 tabs; either widgets, tabs and removal (2 widgets a tab), or the rest (2 names, any operation but publication) | `TypeOK`, `TabsSound`, `CreatedKept`, `CacheFresh`, `IndexCurrent`, `Serializable`, `StaysDeleted`, `ReadOnlyKept` | the store keeps its promises under interleaving and failure |
| `store_publish` | publication added, 1 name | `CreatedKept` fails | finding 4 |
| `store_share` | 1 request | `ShareListStored` fails | finding 5 |

Why the bounds are enough:

* *engine*: the hazards involve at most two connections (duplicates, or one
  removed while the other is created) and two operators (a repeated id). One
  version change by the user is allowed while an earlier one is in flight.
* *scripts and queue*: two users of one file and a version change; an event
  delivered, one queued and one sent during the delivery.
* *property commits*: a value in flight, one pending and one set after a failure.
* *store*: two requests, of which one may write twice, and a tab or widget that is
  created, removed and created again. A request that writes reads the document
  before `MaxTime` stamps have been given; two writers still overlap in every
  order and each takes as many stamps as it needs (the requests that are not about
  widgets write only from the first stamp).
* *tasks*: 4 tasks: a group of two and a continuation, or a chain of three with a
  task returned by a callback. Callbacks nested in callbacks are left out
  (`MaxDepth = 0`) as those of other tasks already run inside the stack.
* *events*: two handlers, three entries and a dispatch inside another; three
  inputs, of which one may go while another is called.
* *layouts*: three widgets (one dragged between two), two columns, shapes of one
  and two cells; `Rows` is more than they fill.
* *behaviours*: two components, two connections that share an end, one of a
  component with itself, three behaviours: one that is removed, one that shares and
  one that does not.
* *tabs*: two tabs beside the one object that may be made later, two widgets and
  two requests in flight, so that an id is given again while a request for what
  had it is on its way.
* *catalogue*: two users, three requests of which two at once, two documents. All
  users have a -dev version, or a version without transactions, at the start.
* *groups*: three groups in a chain are the least with a group between two others;
  two requests at once and a third after them (hierarchy), or two about a group, its
  organization and two users (members), so that each side of a membership is written
  by one while the other is at work. The first request about the hierarchy is of
  group 1, as the three begin alike; without transactions the members are those of
  an organization.
* *events of an operator*: one operator, three versions of which one is legacy, two
  inputs, two events and two changes of version: one event queued and one sent
  while the queue is delivered.

### Fairness

`OperatorLifecycle`: the browser fires a load or an error event for each script
and iframe it was given (both resolve the promise), it runs the continuations of
settled promises, and a handler that started ends, by throwing or otherwise. `PropertyCommits`: a timer that
is armed fires (`Fires`) and a request is answered, with success or failure
(`Reply`): the browser ends every request with one or the other. User actions,
requests of the user and failures are never assumed.

## 4. What was found

1. **Operator ids repeat after an editor session** (`js/Wiring.js` 602-607).
   Create an operator in the editor and close it before the answer: `load`
   restarts the counter after the operators it knows, the next operator takes
   the same id, and `operatorsById`, documented (line 371) as the operators of
   the configuration indexed by id, has only one of them.
2. **Volatile ids repeat after a reload** (`WirecloudAPI/DashboardManagementAPI.js`
   208, 215). The counter restarts with the page of the component, but the
   operators of the previous page are only deprived of their listeners.
3. **A downgrade to a legacy version never loads** (`js/wiring/Operator.js`
   493-519) although it is logged as successful.
4. **Publishing a workspace can undo a tab that was created**
   (`platform/preferences/routes.py` 228): the handler commits half way and
   saves its old copy in a second transaction, which sees no conflict.
5. **The share list is overwritten** (`platform/preferences/routes.py` 180-207):
   the users are pushed to the stored document and the stale copy is saved next.
   `WorkspaceSerial` therefore gives a list of users no effect.
6. **Uninstalling for oneself takes the resource out of everybody's searches**
   (`platform/localcatalogue/routes.py` 354), although `docs.py` 227 says that it is
   deleted only for the user making the request.
7. **A moved widget shares its id with the next one** (`js/Widget.js` 785): the
   server renames it (`platform/iwidget/utils.py` 339) and answers 204, the browser
   keeps the old id, and the next widget of the old tab gets it:
   `Workspace.findWidget` (line 511) finds one of the two.
8. **Groups moved under one another form a circle** (`commons/auth/routes.py`
   1110-1113). A move changes the path of the group that is moved, not of those
   below it, and the check for a circular reference goes by the new parent's path.
   So 3 under 1, 1 under 2 and 2 under 3 are accepted one after the other. For the
   same reason the deletion of an organization may leave groups whose path names
   groups that are gone.

The passing properties say precisely where these stop: `SharedId`, `deaf` and
`Duplicated` are the exceptions in the engine's properties, `retained` in the
queue's, `astray` in the tabs', `overlapped` and `limbo` in the commits', `strayed`
and `tight` in the layouts', `hasty` in the behaviours', `lapsed` and `dev` in the
catalogue's, `crossed`, `faulted` and `synced` in the groups', and runs without publication in the store's.

## 5. What is proved

| Theorem | States | Assumes |
|---|---|---|
| `WiringProofs!WiresAlwaysSound` | `Spec => []WiresSound` | `ConstantsAssumption` |
| `WiringProofs!EngineAlwaysTyped` | `Spec => []TypeOK` | the same |
| `WiringProofs!EstablishedAlwaysWired` | `Spec => []EstablishedWired` | the same |
| `WiringProofs!AlwaysStaysEstablished` | `Spec => StaysEstablished` | the same |
| `WiringProofs!RemovalAlwaysComplete` | `Spec => RemovalComplete` | the same |
| `WiringProofs!AlwaysRebound` | `Spec => Rebound` | the same |
| `ComponentProofs!ScriptsAlwaysShared` | `Spec => []ScriptsShared` | `ConstantsAssumption`, `OperatorsAssumption` |
| `ComponentProofs!WaitsAlwaysComing` | `Spec => []WaitsAreComing` | the same |
| `ComponentProofs!OperatorsAlwaysTyped` | `Spec => []TypeOK` of the operators | the same |
| `ComponentProofs!AlwaysInOrder` | `Spec => []DeliveredInOrder` | the same |
| `ComponentProofs!QueuedEventsNeverLost` | `Spec => NoQueuedEventLost` | the same |
| `ComponentProofs!ValuesAlwaysKept` | `CommitSpec => []ValueKept` | `CommitBounds` |
| `StoreProofs!DeletedForever` | `Spec => StaysDeleted` | `StoreAssumption` |
| `StoreProofs!TypesAlwaysOK` | `Spec => []TypeOK` of the store | `StoreAssumption`, `ContentsAssumption` |
| `StoreProofs!TabsAlwaysSound` | `Spec => []TabsSound` | the same |
| `StoreProofs!CacheAlwaysFresh` | `Spec => []CacheFresh` | the same |
| `StoreProofs!IndexAlwaysCurrent` | `Spec => []IndexCurrent` | the same |
| `StoreProofs!CreatedAlwaysKept` | `Spec => []CreatedKept` | the same, and `Publish = {}` |
| `SerialProofs!AlwaysSerializable` | `Spec => Serializable`, the refinement of `WorkspaceSerial` | the same, and `Publish = {}` |
| `SerialProofs!ReadOnlyAlwaysKept` | `Spec => ReadOnlyKept` | `StoreAssumption`, `ContentsAssumption` |
| `TabProofs!AlwaysMirrorsServer` | `TabsSpec => []MirrorsServer` | `TabBounds` |
| `CatalogueProofs!InstalledAlwaysStays` | `CatalogueSpec => []InstalledStays` | `CatalogueConstants` |
| `CatalogueProofs!UnusedAlwaysRemoved` | `CatalogueSpec => []UnusedRemoved` | the same |
| `CatalogueProofs!NeverGhosts` | `CatalogueSpec => NoGhosts` | the same |
| `TaskProofs!StatusAlwaysFinal` | `TaskSpec => StatusFinal` | `TaskBounds` |
| `TaskProofs!NobodyEverForgotten` | `TaskSpec => []NobodyForgotten` | the same |
| `TaskProofs!AbortAlwaysReaches` | `TaskSpec => []AbortReaches` | the same |
| `TaskProofs!NobodyEverSkipped` | `DispatchSpec => []NobodySkipped` | none |
| `TaskProofs!AlwaysLoggedToItsConnection` | `DispatchSpec => []LoggedToItsConnection` | none |
| `GroupProofs!PathsKeepTheirShape` | `GroupsSpec => []AllShapely`, the first half of `PathsSound` | `GroupsAssumption` |
| `GroupProofs!MembershipsAgree` | `GroupsSpec => []Mirrored` | the same |
| `GroupProofs!GroupsListed` | `GroupsSpec => []Listed` | the same |
| `GroupProofs!PathsAlwaysSound` | `GroupsSpec => []PathsSound` | the same |

Each holds for any number of components, connections, scripts, values or requests and
for any bounds. The assumptions say that the bounds are numbers, that `None` and `Gone`
are no values of the system, that components and connections are different objects, and
that there are finitely many operators, versions and scripts; `TabBounds`, that a
workspace may have the two tabs it can start with. None of the properties is inductive;
each proof defines a strengthening `IInv` (or an invariant with a name of its own),
proves `Init => IInv` and, with one step per action, `IInv /\ [Next]_vars => IInv'`.

`WiringProofs`. A connection object that was never created must not own a wire,
nor may the creation of one move the endpoints of a connection that has one:
`IInv` adds that fresh objects are neither handled nor being created, and the
types of the fields the arguments use. The lemmas follow the code:
`DisconnectSound`, `FullDisconnectSound` and `DetachSound` (taking wires down
keeps the rest sound, and the connections detached can be forgotten),
`EstablishSound`, `RebuildSound` (a version change), `UnloadedSound` (the first
half of `load`).

The other theorems of `WiringProofs` have an invariant of their own, `EdgeInv`: the
types, `EndsKnown` (a connection that is handled or being created joins two components that
have entered, different ones unless their ids are shared, and the endpoints of a
component are its own) and `WiredIn` (an established connection has its wire, or
another joins the same two components). `NextEdgeInv` shows at once that a step keeps it and is a `StaysStep`, a
`RemovalStep` and a `ReboundStep`, with one lemma per action: the three action
properties are facts about the same steps. The lists of the engine are sequences;
what `Without` leaves of one is proved by the least counterexample
(`LeastOf`), since the library's induction theorems cannot be instantiated.
The proof corrected one property. `StaysEstablished` used to except only the removal
of operators without listeners; when two volatile operators have the same id the
engine does not hear of the removal of the second either (`Wiring.js` 283 returns when
the id is no longer registered), which needs more operators than the run has.
`Unheard` now names both.

`ComponentProofs`, operators. The two properties need each other: a script somebody waits
for stays on the page because whoever waits holds it. `IInv` is both, the types,
and `OneWait`: an operator waits for an iframe or for scripts, never for both.
The central lemma is `Released`: what `_unloadScripts` removes, decided by the
length of the list of users, is what the operator was the only user of. It
counts, so the set of operators must be finite. `UnloadScriptsKeeps`,
`LoadScriptsKeeps`, `LoadKeeps` and `OnUnloadKeeps` serve the several
handlers that call these methods. The queue has a second invariant, `QueueInv`: what
waits is in the order it came and newer than all that was delivered (`Waiting`), what
is left of a queue being delivered comes after what was delivered, but for what
callbacks caused meanwhile (`Delivering`), each with the exception of the events that
a throw left in the queue (`Late`; `ThrowKeepsOrder` is the step that makes them so),
and each event of that queue is still
to be delivered, was processed or had no callback (`NothingDropped`), so that
emptying it at the end loses nothing.

`ComponentProofs`, properties. In `PropertyCommits`, without overlap there is at most one request in flight
(`OneInFlight`), and for each property the last value is in one of four places:
`NeverSet`, `Latest`, `Taken` or `Kept`, depending on who holds a value; a pending
value is always newer than the one in flight, and the sets not sent are `Null` or
hold what was set last.

`StoreProofs`. Requests overwrite each other's documents, so the shape must be in
everything that may ever be written: `IInv` types every variable and puts the
document, the copies, the snapshots, the uncommitted writes and each step left to
do in `Sane`, the contents with a tab, distinct ids and at most one visible tab.
There is one lemma for each operator of `Plan`, which turns a sane copy into sane
steps; `FirstFree` and `FreeIdType` are the pigeonhole argument that
`first_id_tab` finds a number below the limit; `WriteType` says the rest. A request
could bring a deleted document back by committing the copy it wrote. `WriterInv`
excludes it: whoever has written and not committed does so in a transaction, is the
only one, and the document is still there.

What the store promises with transactions rests on the order of a
plan: `Ordered` says what may follow a step (a save is followed by the index entry of
the same contents, a removal by the removal from the index), and the actions fall into
few kinds, those that write (`Wrote`), those that only go on (`Resting`) and those that
commit or abort (`Ended`), so that each invariant is carried by a lemma per kind. `ClockInv`: every committed document has a `last_modified` of its own,
newer than whatever was read or cached before, so an entry of the cache with the
current one is of the current document although writers drop only their own entries.
`IndexInv`: at most one request has written and not committed, and either the index
already says what it will commit or its next step tells it; with nobody at work the
index therefore says what is committed, unless an abort left it ahead. `KeptInv`: what
was created is in the document, in the copy that may be committed and in every save
still to be made by a request whose transaction can still commit. It needs that a
request commits once: the preferences that publish a workspace commit half way and go
on with the copy they had, which overwrites what others created meanwhile. The run
`store_publish` shows it, so `CreatedAlwaysKept` is stated for `Publish = {}`, as the
run `store` is.

`SerialProofs`. That the store implements `WorkspaceSerial` has two halves. The first
says what a request would do alone: `Saved(op, c)` is what the plan of `op` on `c` may
save, and `SavedSerial`, with a lemma per handler, that each of these contents is one
step of the promise on `c`, or leaves it as it is. The second says that a commit is such
a step: `SerialInv` has that a request whose snapshot is the document as it is has only
such saves left (`Heading`), and that whoever has written and not committed has that
snapshot and wrote such contents (`Holding`). A commit leaves the other requests with a
snapshot older than the new document (`ClockInv`), so nothing is asked of them: they can
only abort or end. The steps in between are stutters, because the mapping looks at
committed documents only. A publication is left out for the reason above: half
committed, it is no step of the promise. Read-only widgets need no transaction: what a
request may save has as many of them as the copy it planned on (`Count`, with a lemma
per handler: a widget moves from a tab to another, and no handler takes a read-only one
or the tab that holds it away), and every copy that may be committed is as the first
document in that, so `ReadOnlyAlwaysKept` holds for publications and for sessions
without transactions too.

`TabProofs`. `MirrorsServer` speaks of the moments when nothing is in flight, so the
invariant says of every other moment what the answers on their way will make good.
`Named`: each request names what its objects are known by, and no other request names
an object that is being created. `TabsMeet`: a stored tab stands for an object that is
shown under its id, or for one whose creation is answered; a tab that is shown is
stored under its id, or the answer of its removal is on its way. `WidgetsMeet`: a widget
that is stored is known or its creation is answered, and its tab is that of the answered
move if there is one (`Heads`); a known widget that is not stored goes with an answer on
its way, its own or that of the tab it is in or moves to (`Going`). There is at most one
answered move of a widget, because the server gives a moved widget a new id and the
browser goes on naming the old one. The lemmas from `TabAdded` to `WidgetRehoused` say
what each request does to the ids that are stored; then there is one lemma for each
action. Nothing is asked of a state that went astray, where the model stops.

`CatalogueProofs`. Each request in progress is `Sound`: `Suited` to what it was asked
for, `Clean` where it has written nothing, with what it found unused still unused in its
snapshot (`Leaving`), and what it reads and has written agreeing with the documents
(`Seeing`, `Writing`); what two requests have written is `Apart`, which is what the
conflicts of transactions give. `UnusedRemoved` follows from `Minded`: as long as no
request ended by an exception, a resource nobody has has a request that is about to
give it to somebody or to delete it. Without transactions too, since whoever leaves
reads the document again after its own update, and the last to do so finds it unused.
The other two follow from `Promised`: nobody who was told has a removal in progress
(`Safe`), and what an undisturbed installation has seen or made for its user the
documents still have. A removal that would delete it found it unused in its snapshot,
so the user joined since, the document has changed and the deletion conflicts. The
actions fall into three kinds, those that update a document, those that look at it and
those that begin or end a request, with a lemma each (`UpdateKeeps`, `LookKeeps`,
`StepKeeps`).

`TaskProofs`. A step of `TaskPromise` replaces the frame on top of the stack by others, and
pops those that are over: `TaskInv` types the stack and says which task may be in which
frame and which listener (`Fits`), with one lemma per handler that also tells which
frames come and which one goes (`Went`). It is enough for `StatusFinal` with `Agreed`: a
group that counts itself resolved or rejected says what its subtasks do, so when it is
told again it computes the same answer. `NobodyForgotten` speaks of the moments when the
stack is empty; the proof says of every moment who is still to be told. `WaitInv` has
that a pending task is about to be settled (`Due`), or listens to a task that is
pending, or is on the way of a frame of the stack that will tell it (`Brings`:
a frame of an event tells all the listeners from its position on). The hard case is
the aborted group: it may still turn resolved or rejected when a subtask reports, and a
wrapper that follows it must hear of that. So either the wrapper listens to the group,
or nothing will change the group any more: it is `Asleep`, in a set of groups whose
subtasks are settled, and in the set too when they are groups, and to which no frame
brings anything.

`AbortReaches` asks where an abort has still to go, in lists that `toTask` wrappers
rewrite while `abort` walks them: `ReachInv` has of every place in the list of an aborted
task that its subtask is over, or about to be aborted, or ahead of the walk (`Told`), or
was returned by a continuation that was over (`Late`). A callback puts the task it
returned where its continuation was; that place is ahead of the walk, because the
continuation is pending and, while a callback runs, nobody is about to be aborted
(`AbortOnTop`). The proof corrected the property, which used to except only what an
*aborted* continuation returned. `resolve_then` (`Task.js` 80) returns early for an aborted
continuation only, so a group that was aborted and then turns resolved calls one that its
abort had already settled once more, and the task returned then is put among the
subtasks of wrappers that may have been aborted. It takes a callback inside a callback
and more tasks than the run has; on an instance with six tasks TLC finds it.

In `EventDispatch` the list of connections is a copy of the walk as long as nothing
was removed: `WalkInv` has that the position of the walk is the connection it calls
(`CallsItsCopy`), that the copy is a prefix of the list while the list has not
shrunk (`CopyIsAPrefix`), and the property. For the dispatch, `EventInv` has of every
dispatch on the stack that no list was closed up under that what it still has to call
is in the list, at or after the position of its loop (`DueIsAhead`). A dispatch that ends
inside it either closes gaps, and it is `disturbed`, or leaves the list as it was: that
`Closed` is then the identity, and always a list of what was there, are lemmas about the
ranks of a finite set of positions (`RankReached`: an injection between sets of one size).

`GroupProofs`. Requests save copies of documents, so the shape must be in whatever
may be written: `IInv` has that the documents, every snapshot, every uncommitted
write and every step left to do `Fits`. `AppendShapely` (a move: the check for
cycles is what keeps the new path free of repetitions) and `RemoveShapely` (leaving a
path) are the two lemmas about paths; `EffectType` is what each update makes of
documents that fit, `PlanType`, with a lemma per handler, what the handlers make of
them, and each step of a request follows. `MembershipsAgree` rests on `MirrorInv`: in a
transaction (`OnCourse`) what was read agreed, nobody else has written since what it
has written, and the steps left to do lead from what it sees to documents that agree;
`PlanSettles` says it of what each handler plans. `GroupsListed` rests on `ListInv`, on
top of both: the last step of a plan is the one that changes the index, and it tells it
what the request makes of each group (`Tells`); whoever has changed the index and not
committed is the only one to write those groups (`Ahead`, `Match`), and unless it fails
there it commits what the index already says. `PathsAlwaysSound` rests on `PathInv`,
which holds, with transactions or without, until two changes of the hierarchy meet: at
most one request is `Changing` the hierarchy, and its steps are `Ready`, so that what it
takes out of the organizations it first takes out of every path; every other is `Calm`,
and saves groups where they were or creates groups that are under nobody. So that the
two can be put together in any order, no path, stored or about to be, tells of a group
that is `Strange`, that is not yet created or belongs to one request only (`Owns`).

Only model-checked: the other properties. Some are beyond the prover: the liveness of
`LoadingEnds` and `LastValueStored`, what the recursive operators of `ColumnLayouts`
compute (`MatrixAgrees`, `StaysCompact`, and with them `PartsTypeOK`). `DeliveredInOrder` and
`NoQueuedEventLost` of `MCParts` are those of `OperatorLifecycle`, proved in
`ComponentProofs`.

## 6. Plan

Done, the most important first: `Wiring`, `OperatorLifecycle` and `WorkspaceStore`
refining `WorkspaceSerial`, with proofs; then property commits, the widget
instances of the store, the catalogue, tasks and events, the layouts, the
behaviours, the tabs in the browser and the groups. What would come next:

1. The tabs' preferences and their cache; titles and the initial tab of
   `WorkspaceTabs` (`WorkspaceTab.js` 374 tests `changes.initial` on an array, so the
   former initial tab stays one).
2. `check_wiring` (`platform/wiring/utils.py` 312 reads the previous status for an
   operator that neither it nor the catalogue has) as an operator checked against a
   reference definition.
3. Proofs: the invariants of `Behaviours`.

### Not modelled

Templates, mashups and their generators, the parsing of descriptions and the
wording are conversions without state. The proxy streams one request to another
server. Sessions and tokens are records that each request reads anew; the protocols
of the identity providers belong to them. Markets, themes,
translations, the command line, the NGSI client and the webpack assets are
configuration or other programs' libraries. Most of what remains of the browser
(menus, windows, wizards, form fields, the widgets of `StyledElements`) is
presentation: its state is what is drawn. The free, full size and side bar layouts
place one widget without regard for the others; the grid layout repeats the
column layout. The creation, import and publication of workspaces are sequences over one new
document; permissions are reads.
