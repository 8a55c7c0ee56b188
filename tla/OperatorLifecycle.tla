------------------------- MODULE OperatorLifecycle -------------------------
(***************************************************************************)
(* The life of the operators of a workspace in the browser (Operator.js):  *)
(* loading through script elements shared by every component of the page   *)
(* or through an iframe, version changes behind a request, removal, the    *)
(* entrypoint instance of new style operators, and the events that arrive  *)
(* while an operator is not running (OperatorTargetEndpoint.js).           *)
(*                                                                         *)
(* An operator's callbacks run inside on_load, so delivering the queued    *)
(* events is a sequence of steps (flush) during which only what a callback *)
(* can do may happen.  What follows a promise runs before any other event: *)
(* while an operator is Due nothing else happens.                          *)
(***************************************************************************)
EXTENDS Integers, Sequences, FiniteSets

CONSTANTS
    Operators,   \* operator objects
    Versions,    \* versions of the component they are instances of
    Legacy,      \* those with macversion 1, which run in an iframe
    Missing,     \* the stand-in for an uninstalled version
    Scripts,     \* script files
    JsFiles,     \* the scripts of every version
    Inputs,      \* names of input endpoints
    InputList,   \* the inputs every version declares
    MaxEvents,   \* bound: events sent
    MaxChanges   \* bound: version changes of an operator

None == "none"

ASSUME ConstantsAssumption ==
    /\ Missing \notin Versions /\ None \notin Versions \cup {Missing}
    /\ Legacy \subseteq Versions
    /\ JsFiles \in [Versions -> SUBSET Scripts]
    /\ InputList \in [Versions \cup {Missing} -> SUBSET Inputs]
    /\ InputList[Missing] = {}
    /\ MaxEvents \in Nat /\ MaxChanges \in Nat

ASSUME OperatorsAssumption == IsFiniteSet(Operators) /\ None \notin Operators

VARIABLES
    status,     \* absent, created, loading, running, or failed
    present,    \* the operators the wiring engine handles
    meta,       \* the version of every operator
    changes,    \* version changes so far, the counter behind MaxChanges
    fetching,   \* change_meta requests without an answer
    frame,      \* operators built with an iframe (wrapperElement)
    framing,    \* iframes whose load event has not fired
    dom,        \* Wirecloud.loadedScripts: the script elements of the page
    users,      \* the users of every script element
    ready,      \* script elements whose load event has fired
    ran,        \* scripts that have run since the page was opened
    held,       \* loaded_scripts of every operator
    promised,   \* operators waiting in _loadScripts
    waits,      \* the scripts they wait for
    inst,       \* operatorClass: the version its entrypoint is of, or None
    inputs,     \* the input endpoints: real, ghost, or none of that name
    callback,   \* operators whose current inputs have their callbacks
    links,      \* the connections to the inputs: the endpoint they reach
    pending,    \* pending_events of every operator
    flush,      \* the events on_load still has to deliver, while it runs
    sent,       \* number of events sent
    delivered,  \* the events the callbacks of each operator were given
    retained    \* history: the events that were in a queue when on_load threw

loadVars  == <<dom, users, ready, ran, held, promised, waits, framing>>
eventVars == <<pending, flush, sent, delivered, retained>>
vars == <<status, present, meta, changes, fetching, frame, framing, dom,
          users, ready, ran, held, promised, waits, inst, inputs, callback,
          links, pending, flush, sent, delivered, retained>>

V2 == Versions \ Legacy
Event == [n : 1..MaxEvents, input : Inputs, queued : BOOLEAN]

\* called: the last event went to a callback, which has not returned.
Idle == [op |-> None, rest |-> <<>>, called |-> FALSE]

\* The promise of _loadScripts is resolved, on_load comes next.
Due(o) == o \in promised /\ waits[o] = {}
Quiet == flush = Idle /\ \A o \in Operators : ~Due(o)

-----------------------------------------------------------------------------
(* Loading.                                                                *)

\* Mutant: the element goes although another operator uses it.
AnyUser(o) == held[o]

\* What _unloadScripts leaves of the script elements: those the operator is
\* the only user of leave the page.
SoleUser(o) == {s \in held[o] : Cardinality(users[s]) = 1}

\* Mutant: the users of a script that stays are not updated.
UsersNotUpdated(o) ==
    [s \in Scripts |-> IF s \in SoleUser(o) THEN {} ELSE users[s]]

UsersWithout(o) ==
    [s \in Scripts |-> IF s \in SoleUser(o) THEN {}
                       ELSE IF s \in held[o] THEN users[s] \ {o} ELSE users[s]]

UnloadScripts(o) ==
    /\ dom' = dom \ SoleUser(o)
    /\ ready' = ready \ SoleUser(o)
    /\ users' = UsersWithout(o)
    /\ held' = [held EXCEPT ![o] = {}]

\* Mutant: a script that has already loaded is waited for.
AwaitedAnyway(js) == js

\* The scripts of js whose load event is still to come.
Awaited(js) == js \ ready'

\* load() of a new style operator: whatever scripts it holds are released
\* and those of its version requested, or shared if the page has them.
LoadScripts(o, v) ==
    LET js   == JsFiles[v]
        kept == dom \ SoleUser(o)
    IN /\ dom' = kept \cup js
       /\ ready' = ready \cap kept
       /\ users' = [s \in Scripts |-> IF s \in js THEN UsersWithout(o)[s] \cup {o}
                                                  ELSE UsersWithout(o)[s]]
       /\ held' = [held EXCEPT ![o] = js]
       /\ promised' = promised \cup {o}
       /\ waits' = [waits EXCEPT ![o] = Awaited(js)]
       /\ UNCHANGED <<ran, framing>>

\* The status load() leaves, from "created", for an operator with version v.
\* The branches are those of load(): an iframe, the stand-in of a missing
\* version, which runs at once, new style scripts, and otherwise nothing.
Load(o, v) ==
    IF o \in frame
    THEN /\ status' = [status EXCEPT ![o] = "loading"]
         /\ framing' = framing \cup {o}
         /\ UNCHANGED <<dom, users, ready, ran, held, promised, waits>>
    ELSE IF v = Missing
    THEN status' = [status EXCEPT ![o] = "running"] /\ UNCHANGED loadVars
    ELSE IF v \in V2
    THEN status' = [status EXCEPT ![o] = "loading"] /\ LoadScripts(o, v)
    ELSE status' = [status EXCEPT ![o] = "loading"] /\ UNCHANGED loadVars

BuildEndpoints(v) == [i \in Inputs |-> IF i \in InputList[v] THEN "real" ELSE None]

\* createOperator's append_operator: build the operator and load it.
Create(o, v) ==
    /\ Quiet
    /\ status[o] = "absent"
    /\ present' = present \cup {o}
    /\ meta' = [meta EXCEPT ![o] = v]
    /\ inputs' = [inputs EXCEPT ![o] = BuildEndpoints(v)]
    /\ IF v \in V2
       THEN /\ status' = [status EXCEPT ![o] = "loading"]
            /\ LoadScripts(o, v)
            /\ UNCHANGED frame
       ELSE /\ status' = [status EXCEPT ![o] = "loading"]
            /\ frame' = frame \cup {o}
            /\ framing' = framing \cup {o}
            /\ UNCHANGED <<dom, users, ready, ran, held, promised, waits>>
    /\ UNCHANGED <<changes, fetching, inst, callback, links, eventVars>>

\* The load event of a script element: it has run, and every operator that
\* waits for it waits for it no longer.
ScriptLoaded(s) ==
    /\ Quiet
    /\ s \in dom \ ready
    /\ ready' = ready \cup {s}
    /\ ran' = ran \cup {s}
    /\ waits' = [o \in Operators |-> waits[o] \ {s}]
    /\ UNCHANGED <<status, present, meta, changes, fetching, frame, framing,
                   dom, users, held, promised, inst, inputs, callback, links,
                   eventVars>>

\* Some script has registered the class of a new style version.
Registered(o) == o \notin frame /\ meta[o] \in V2 /\ JsFiles[meta[o]] \subseteq ran

\* on_load: run, with an instance of the class of the version if there is one,
\* and start delivering what was queued.
OnLoad(o) ==
    /\ status' = [status EXCEPT ![o] = "running"]
    /\ inst' = IF Registered(o) THEN [inst EXCEPT ![o] = meta[o]] ELSE inst
    /\ callback' = IF Registered(o) \/ (o \in frame /\ meta[o] # Missing)
                   THEN callback \cup {o} ELSE callback
    /\ flush' = [op |-> o, rest |-> pending[o], called |-> FALSE]
    /\ UNCHANGED <<present, meta, changes, fetching, frame, dom, users,
                   ready, ran, held, waits, inputs, links, pending, sent,
                   delivered, retained>>

ScriptsReady(o) ==
    /\ flush = Idle
    /\ Due(o)
    /\ promised' = promised \ {o}
    /\ OnLoad(o)
    /\ UNCHANGED framing

\* The constructor of the class throws and on_load with it.  The status stays
\* LOADING, with nothing to wait for; the model calls it failed.
EntrypointThrows(o) ==
    /\ flush = Idle
    /\ Due(o) /\ Registered(o)
    /\ promised' = promised \ {o}
    /\ status' = [status EXCEPT ![o] = "failed"]
    /\ UNCHANGED <<present, meta, changes, fetching, frame, framing, dom, users,
                   ready, ran, held, waits, inst, inputs, callback, links, eventVars>>

FrameLoaded(o) ==
    /\ Quiet
    /\ o \in framing
    /\ framing' = framing \ {o}
    /\ OnLoad(o)
    /\ UNCHANGED promised

-----------------------------------------------------------------------------
(* Events.                                                                 *)

\* Mutant: the event is processed only while its connection exists.
ProcessConnected(o, e) ==
    delivered' = IF links[o][e.input] = "bound" /\ o \in callback
                 THEN [delivered EXCEPT ![o] = Append(@, e)] ELSE delivered

\* Processing an event at the current endpoint of a running operator: it is
\* dropped at a ghost, and logged when no callback is registered.
Process(o, e) ==
    delivered' = IF inputs[o][e.input] = "real" /\ o \in callback
                 THEN [delivered EXCEPT ![o] = Append(@, e)] ELSE delivered

\* An event reaches an input over a connection.  A stale connection reaches
\* the endpoint of an earlier version, whose callback is of no use.
Send(o, i) ==
    /\ \A p \in Operators : ~Due(p)
    /\ sent < MaxEvents
    /\ sent' = sent + 1
    /\ links[o][i] \in {"bound", "stale"}
    /\ LET e(q) == [n |-> sent + 1, input |-> i, queued |-> q]
       IN IF status[o] # "running"
          THEN /\ pending' = [pending EXCEPT ![o] = Append(@, e(TRUE))]
               /\ UNCHANGED delivered
          ELSE /\ IF links[o][i] = "bound" THEN Process(o, e(FALSE))
                                           ELSE UNCHANGED delivered
               /\ UNCHANGED pending
    /\ UNCHANGED <<status, present, meta, changes, fetching, frame, inst,
                   inputs, callback, links, loadVars, flush, retained>>

\* on_load of o throws: what is in its queue stays there.
KeepQueue(o) == retained' = [retained EXCEPT ![o] = @ \cup {pending[o][k].n : k \in DOMAIN pending[o]}]

\* send_pending_event for the next event of the queue.  If the callback of an
\* earlier one removed the operator, the event is queued again.
Flush ==
    /\ flush # Idle /\ flush.rest # <<>>
    /\ LET o == flush.op
           e == Head(flush.rest)
       IN IF inputs[o][e.input] = None
          THEN \* this.inputs[...] is undefined: on_load throws
               /\ flush' = Idle
               /\ KeepQueue(o)
               /\ UNCHANGED <<pending, delivered>>
          ELSE /\ flush' = [flush EXCEPT !.rest = Tail(@),
                                         !.called = inputs[o][e.input] = "real" /\ o \in callback]
               /\ IF status[o] # "running" /\ inputs[o][e.input] = "real"
                  THEN pending' = [pending EXCEPT ![o] = Append(@, e)] /\ UNCHANGED delivered
                  ELSE Process(o, e) /\ UNCHANGED pending
               /\ UNCHANGED retained
    /\ UNCHANGED <<status, present, meta, changes, fetching, frame, inst,
                   inputs, callback, links, loadVars, sent>>

\* The callback rejects the event: propagate passes an EndpointTypeError or an
\* EndpointValueError on, which nobody catches, and on_load ends there.
EventRejected ==
    /\ flush # Idle /\ flush.called
    /\ flush' = Idle
    /\ KeepQueue(flush.op)
    /\ UNCHANGED <<status, present, meta, changes, fetching, frame, inst,
                   inputs, callback, links, loadVars, pending, sent, delivered>>

\* Mutant: on_load does not empty the queue.
FlushEndKeepsQueue ==
    /\ flush # Idle /\ flush.rest = <<>>
    /\ flush' = Idle
    /\ UNCHANGED <<status, present, meta, changes, fetching, frame, inst,
                   inputs, callback, links, loadVars, pending, sent,
                   delivered, retained>>

\* on_load's last statement empties the queue.
FlushEnd ==
    /\ flush # Idle /\ flush.rest = <<>>
    /\ pending' = [pending EXCEPT ![flush.op] = <<>>]
    /\ flush' = Idle
    /\ UNCHANGED <<status, present, meta, changes, fetching, frame, inst,
                   inputs, callback, links, loadVars, sent, delivered, retained>>

Connect(o, i) ==
    /\ Quiet
    /\ o \in present
    /\ inputs[o][i] # None
    /\ links[o][i] = None
    /\ links' = [links EXCEPT ![o][i] = IF inputs[o][i] = "real" THEN "bound" ELSE "ghost"]
    /\ UNCHANGED <<status, present, meta, changes, fetching, frame, inst,
                   inputs, callback, loadVars, eventVars>>

Disconnect(o, i) ==
    /\ \A p \in Operators : ~Due(p)
    /\ links[o][i] # None
    /\ links' = [links EXCEPT ![o][i] = None]
    /\ UNCHANGED <<status, present, meta, changes, fetching, frame, inst,
                   inputs, callback, loadVars, eventVars>>
-----------------------------------------------------------------------------
(* Version changes and removal.                                            *)

\* on_unload of a running operator with version v: only a new style version
\* releases the scripts and destroys the instance.
OnUnload(o) ==
    /\ status' = [status EXCEPT ![o] = "created"]
    /\ callback' = callback \ {o}
    /\ IF meta[o] \in V2
       THEN /\ UnloadScripts(o)
            /\ inst' = [inst EXCEPT ![o] = None]
       ELSE UNCHANGED <<dom, users, ready, held, inst>>

\* on_changecomponent rebinds the connections, adding ghosts for the inputs
\* the version lacks.
Rebound(o, v) ==
    /\ inputs' = [inputs EXCEPT ![o] = [i \in Inputs |->
                    IF i \in InputList[v] THEN "real"
                    ELSE IF links[o][i] # None /\ o \in present THEN "ghost" ELSE None]]
    /\ links' = [links EXCEPT ![o] = [i \in Inputs |->
                    IF @[i] = None \/ o \notin present THEN @[i]
                    ELSE IF i \in InputList[v] THEN "bound" ELSE "ghost"]]

\* The stand-in of a missing version runs before the change is announced and
\* throws if an event is still queued: nobody rebinds the connections.
Unannounced(o) ==
    /\ inputs' = [inputs EXCEPT ![o] = BuildEndpoints(Missing)]
    /\ links' = [links EXCEPT ![o] = [i \in Inputs |->
                    IF @[i] = None THEN None ELSE "stale"]]
    /\ KeepQueue(o)

\* The rest of change_meta: new endpoints for the version v the operator has
\* by now and, if it was running, on_unload and load.
Rebuilt(o, v) ==
    /\ callback' = callback \ {o}
    /\ IF status[o] = "running"
       THEN /\ Load(o, v)
            /\ inst' = IF v \in V2 THEN [inst EXCEPT ![o] = None] ELSE inst
       ELSE UNCHANGED <<status, inst, loadVars>>
    /\ IF status[o] = "running" /\ v = Missing /\ o \notin frame /\ pending[o] # <<>>
       THEN Unannounced(o)
       ELSE Rebound(o, v) /\ UNCHANGED retained

\* upgrade(): the version changes at once.  A missing one needs no request.
ChangeMeta(o, v) ==
    /\ Quiet
    /\ o \in present
    /\ v # meta[o]
    /\ changes[o] < MaxChanges
    /\ changes' = [changes EXCEPT ![o] = @ + 1]
    /\ meta' = [meta EXCEPT ![o] = v]
    /\ IF v = Missing
       THEN Rebuilt(o, v) /\ UNCHANGED fetching
       ELSE /\ fetching' = [fetching EXCEPT ![o] = @ + 1]
            /\ UNCHANGED <<status, inst, callback, inputs, links, loadVars, retained>>
    /\ UNCHANGED <<present, frame, pending, flush, sent, delivered>>

MetaLoaded(o) ==
    /\ Quiet
    /\ fetching[o] > 0
    /\ fetching' = [fetching EXCEPT ![o] = @ - 1]
    /\ Rebuilt(o, meta[o])
    /\ UNCHANGED <<present, meta, changes, frame, pending, flush, sent, delivered>>

MetaFailed(o) ==
    /\ Quiet
    /\ fetching[o] > 0
    /\ fetching' = [fetching EXCEPT ![o] = @ - 1]
    /\ UNCHANGED <<status, present, meta, changes, frame, inst, inputs,
                   callback, links, loadVars, eventVars>>

\* remove(): a callback may do it too.  An operator that is still loading is
\* not unloaded; its iframe leaves the page, its scripts do not.
Remove(o) ==
    /\ \A p \in Operators : ~Due(p)
    /\ o \in present
    /\ present' = present \ {o}
    /\ links' = [links EXCEPT ![o] = [i \in Inputs |-> None]]
    /\ framing' = framing \ {o}
    /\ IF status[o] = "running"
       THEN OnUnload(o)
       ELSE UNCHANGED <<status, callback, dom, users, ready, held, inst>>
    /\ UNCHANGED <<meta, changes, fetching, frame, ran, promised, waits,
                   inputs, eventVars>>

\* unload(true), when the user leaves the workspace: legacy operators are left
\* to the removal of their iframes.
Leave(o) ==
    /\ Quiet
    /\ o \in present
    /\ present' = present \ {o}
    /\ framing' = framing \ {o}
    /\ IF status[o] = "running" /\ meta[o] \notin Legacy
       THEN OnUnload(o)
       ELSE UNCHANGED <<status, callback, dom, users, ready, held, inst>>
    /\ UNCHANGED <<meta, changes, fetching, frame, ran, promised, waits,
                   inputs, links, eventVars>>

-----------------------------------------------------------------------------
Init ==
    /\ status = [o \in Operators |-> "absent"]
    /\ present = {}
    /\ meta = [o \in Operators |-> Missing]
    /\ changes = [o \in Operators |-> 0]
    /\ fetching = [o \in Operators |-> 0]
    /\ frame = {} /\ framing = {}
    /\ dom = {} /\ ready = {} /\ ran = {}
    /\ users = [s \in Scripts |-> {}]
    /\ held = [o \in Operators |-> {}]
    /\ promised = {}
    /\ waits = [o \in Operators |-> {}]
    /\ inst = [o \in Operators |-> None]
    /\ inputs = [o \in Operators |-> [i \in Inputs |-> None]]
    /\ callback = {}
    /\ links = [o \in Operators |-> [i \in Inputs |-> None]]
    /\ pending = [o \in Operators |-> <<>>]
    /\ flush = Idle
    /\ sent = 0
    /\ delivered = [o \in Operators |-> <<>>]
    /\ retained = [o \in Operators |-> {}]

Next ==
    \/ \E o \in Operators, v \in Versions \cup {Missing} : Create(o, v)
    \/ \E s \in Scripts : ScriptLoaded(s)
    \/ \E o \in Operators : ScriptsReady(o)
    \/ \E o \in Operators : EntrypointThrows(o)
    \/ \E o \in Operators : FrameLoaded(o)
    \/ \E o \in Operators, i \in Inputs : Send(o, i)
    \/ Flush
    \/ EventRejected
    \/ FlushEnd
    \/ \E o \in Operators, i \in Inputs : Connect(o, i)
    \/ \E o \in Operators, i \in Inputs : Disconnect(o, i)
    \/ \E o \in Operators, v \in Versions \cup {Missing} : ChangeMeta(o, v)
    \/ \E o \in Operators : MetaLoaded(o)
    \/ \E o \in Operators : MetaFailed(o)
    \/ \E o \in Operators : Remove(o)
    \/ \E o \in Operators : Leave(o)

\* The browser fires a load or an error event for every script and iframe it
\* was given, runs the continuations of settled promises, and a handler that
\* has started runs to its end.
Fairness ==
    /\ \A s \in Scripts : WF_vars(ScriptLoaded(s))
    /\ \A o \in Operators : WF_vars(ScriptsReady(o)) /\ WF_vars(FrameLoaded(o))
    /\ WF_vars(Flush) /\ WF_vars(FlushEnd)

Spec == Init /\ [][Next]_vars /\ Fairness

-----------------------------------------------------------------------------
(* Properties.                                                             *)

TypeOK ==
    /\ status \in [Operators -> {"absent", "created", "loading", "running", "failed"}]
    /\ present \subseteq Operators
    /\ meta \in [Operators -> Versions \cup {Missing}]
    /\ changes \in [Operators -> 0..MaxChanges]
    /\ fetching \in [Operators -> Nat]
    /\ frame \subseteq Operators /\ framing \subseteq frame
    /\ dom \subseteq Scripts /\ ready \subseteq Scripts /\ ran \subseteq Scripts
    /\ users \in [Scripts -> SUBSET Operators]
    /\ held \in [Operators -> SUBSET Scripts]
    /\ promised \subseteq Operators
    /\ waits \in [Operators -> SUBSET Scripts]
    /\ inst \in [Operators -> V2 \cup {None}]
    /\ inputs \in [Operators -> [Inputs -> {"real", "ghost", None}]]
    /\ callback \subseteq Operators
    /\ links \in [Operators -> [Inputs -> {"bound", "stale", "ghost", None}]]
    /\ pending \in [Operators -> Seq(Event)]
    /\ flush \in [op : Operators \cup {None}, rest : Seq(Event), called : BOOLEAN]
    /\ sent \in 0..MaxEvents
    /\ delivered \in [Operators -> Seq(Event)]
    /\ retained \in [Operators -> SUBSET (1..MaxEvents)]

\* Script elements are counted right however loads, unloads, upgrades and
\* removals of the operators that share them interleave: an element is on the
\* page exactly while it has users, and the users of a script are exactly the
\* operators that hold it.
ScriptsShared ==
    /\ ready \subseteq dom
    /\ \A s \in Scripts : (s \in dom) <=> (users[s] # {})
    /\ \A s \in Scripts, o \in Operators : (o \in users[s]) <=> (s \in held[o])

\* An operator never waits for a script that is no longer coming: those it
\* waits for are on the page, held by it and still loading, whatever the other
\* users of the script do.
WaitsAreComing ==
    \A o \in promised : /\ status[o] = "loading"
                        /\ waits[o] \subseteq (dom \ ready) \cap held[o]

\* Callbacks are given each event at most once and in the order they arrived,
\* but for two things: one that arrives after on_load overtakes those still in
\* the queue (a callback sent it, or on_load threw), and one that was in the
\* queue when on_load threw (a callback rejected an event, or an endpoint is
\* gone) may come again, and late.  Nothing else stays queued behind the back of
\* a running operator once on_load has ended.
DeliveredInOrder ==
    \A o \in Operators :
        /\ status[o] = "running" /\ flush.op # o =>
              \A k \in DOMAIN pending[o] : pending[o][k].n \in retained[o]
        /\ \A j, k \in DOMAIN delivered[o] :
              j < k => \/ delivered[o][j].n < delivered[o][k].n
                       \/ /\ delivered[o][j].n > delivered[o][k].n
                          /\ ~delivered[o][j].queued /\ delivered[o][k].queued
                       \/ delivered[o][k].queued /\ delivered[o][k].n \in retained[o]

\* An event leaves the queue of an operator the engine handles only once it
\* has been processed, unless its input is a ghost or nobody registered a
\* callback for it.
NoQueuedEventLost ==
    [][\A o \in present : \A k \in DOMAIN pending[o] :
          LET e == pending[o][k]
          IN \/ \E j \in DOMAIN pending'[o] : pending'[o][j] = e
             \/ \E j \in DOMAIN delivered'[o] : delivered'[o][j] = e
             \/ inputs[o][e.input] # "real" \/ o \notin callback]_vars

\* An operator that waits for its scripts or its iframe gets to run, unless its
\* constructor throws, or is removed: sharing a script with operators that come
\* and go never leaves it waiting.
LoadingEnds ==
    \A o \in Operators :
        (o \in promised \cup framing) ~> (status[o] \in {"running", "failed"} \/ o \notin present)

\* "The operator was downgraded to v... successfully" (Operator.js 702-710):
\* whatever version the user chooses, an operator that is loading ends up
\* running, unless the constructor of that version throws, or is removed.
EveryVersionLoads ==
    \A o \in Operators :
        status[o] = "loading" ~> (status[o] \in {"running", "failed"} \/ o \notin present)
=============================================================================
