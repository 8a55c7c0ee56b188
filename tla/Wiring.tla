------------------------------- MODULE Wiring -------------------------------
(***************************************************************************)
(* The wiring engine of a workspace opened in a browser: Wiring.js with    *)
(* the connections and endpoints it drives (wiring/Connection.js,          *)
(* SourceEndpoint.js, TargetEndpoint.js, MissingEndpoint.js), the part of  *)
(* Operator.js and Widget.js that rebuilds endpoints when a component      *)
(* changes version, and what the wiring editor asks of the engine.         *)
(*                                                                         *)
(* JavaScript runs one handler at a time, so an action is a handler; a     *)
(* request and its answer are two actions, and anything may happen between *)
(* them.  Every component has one output and one input, both named alike   *)
(* in every version that declares them.                                    *)
(***************************************************************************)
EXTENDS Integers, Sequences, FiniteSets

CONSTANTS
    Widgets,      \* widget objects
    Operators,    \* operator objects
    Conn,         \* connection objects
    Metas,        \* kinds of component versions, a subset of MetaKinds
    NoComp,       \* the component of a connection that does not exist yet
    WidgetNum,    \* what parseInt gives for the id of a widget
    MaxId,        \* bound: operator ids the counter hands out
    MaxGen        \* bound: endpoint generations of each component

Comp == Widgets \cup Operators

\* "full" declares the endpoints, "bare" is a version without them and
\* "missing" is the stand-in for an uninstalled component.
MetaKinds == {"full", "bare", "missing"}

ASSUME ConstantsAssumption ==
    /\ NoComp \notin Comp /\ Comp \cap Conn = {} /\ IsFiniteSet(Operators)
    /\ Widgets \cap Operators = {}
    /\ Metas \subseteq MetaKinds
    /\ WidgetNum \in Nat /\ MaxId \in Nat /\ MaxGen \in [Comp -> Nat]

VARIABLES
    fresh,      \* objects not created yet
    widgets,    \* widgets of the workspace the engine listens to
    ops,        \* priv.operators, in order
    byId,       \* priv.operatorsById
    opId,       \* the id of every operator object
    maker,      \* the component that created a volatile operator, or NoComp
    deaf,       \* operators that lost their listeners to destroy()
    nextId,     \* priv.operatorId
    opReqs,     \* operators whose creation the server has not answered
    meta,       \* the version every component has
    eps,        \* the current endpoints of every component
    fetching,   \* variables requests of change_meta without an answer
    conns,      \* priv.connections
    net,        \* the connection objects and the wires they laid
    creating,   \* connections whose creation the server has not answered
    drawn,      \* those of them the wiring editor already shows
    editor      \* the wiring editor: closed, open, or its close interrupted

opVars  == <<ops, byId, opId, maker, deaf, nextId, opReqs>>
metaVars == <<meta, eps, fetching>>
editVars == <<drawn, editor>>
vars == <<fresh, widgets, ops, byId, opId, maker, deaf, nextId, opReqs, meta,
          eps, fetching, conns, net, creating, drawn, editor>>

-----------------------------------------------------------------------------
(* Endpoints, connections and wires.                                       *)

\* The endpoints build_endpoints makes for a component, or the ghosts that
\* stand for those its version lacks.  The direction is given by position.
Endpoint == [comp : Comp \cup {NoComp}, gen : Nat, ghost : BOOLEAN]
NoEndpoint == [comp |-> NoComp, gen |-> 0, ghost |-> TRUE]

\* The id of an operator is "n" or, for a volatile one, that of its creator
\* followed by a number: "w/1", "n/1", "n/1/1".
Id == Seq(Nat \cup Widgets)
volatiles == {o \in Operators : maker[o] # NoComp}
Volatile(n, c) == {n.source[c].comp, n.target[c].comp} \cap volatiles # {}
Touches(n, c, x) == x \in {n.source[c].comp, n.target[c].comp}
Live == widgets \cup {ops[i] : i \in DOMAIN ops}

\* A wire is an entry of SourceEndpoint.outputList and connections with its
\* mirror in TargetEndpoint.inputs and connections.
WireOf(n, c) == <<n.source[c], n.target[c], c>>
Between(n, s, t) == {w \in n.wires : w[1] = s /\ w[2] = t}

\* Take down the wires in W; _disconnect marks the connection of each one.
Disconnect(n, W) ==
    [n EXCEPT !.wires = @ \ W,
              !.est = [c \in Conn |-> @[c] /\ \A w \in W : w[3] # c]]

\* Mutant: detach only marks the connection.
DetachWithoutDisconnect(n, C) ==
    [n EXCEPT !.est = [c \in Conn |-> @[c] /\ c \notin C]]

\* detach() on each connection of C: it disconnects the two endpoints, so it
\* takes down the wire between them whoever laid it.
Detach(n, C) ==
    LET W == {w \in n.wires : \E c \in C : n.est[c] /\ w[1] = n.source[c]
                                                   /\ w[2] = n.target[c]}
        m == Disconnect(n, W)
    IN [m EXCEPT !.est = [c \in Conn |-> @[c] /\ c \notin C]]

FullDisconnect(n, E) ==
    Disconnect(n, {w \in n.wires : w[1] \in E \/ w[2] \in E})

\* Mutant: establish does not tell missing endpoints.
EstablishGhosts(n, C) ==
    {[n EXCEPT !.est = [c \in Conn |-> @[c] \/ c \in C]]}

\* establish() on each connection of C: every connection between existing
\* endpoints ends up established, but connect() ignores all but the first
\* of those that join the same two endpoints.  The order among those
\* duplicates is left open, so the result is a set of states.
EstablishAll(n, C) ==
    LET ready == {c \in C : ~n.source[c].ghost /\ ~n.target[c].ghost /\ ~n.est[c]}
        Same(c, d) == n.source[c] = n.source[d] /\ n.target[c] = n.target[d]
        vacant == {c \in ready : Between(n, n.source[c], n.target[c]) = {}}
        Firsts == {F \in SUBSET vacant :
                     /\ \A c \in vacant : \E d \in F : Same(c, d)
                     /\ \A c, d \in F : Same(c, d) => c = d}
    IN {[n EXCEPT !.wires = @ \cup {WireOf(n, c) : c \in F},
                  !.est = [c \in Conn |-> @[c] \/ c \in ready]] : F \in Firsts}

-----------------------------------------------------------------------------
(* Operators.                                                              *)

\* The unload of the components in X calls destroy() on the operators they
\* created, which only drops their listeners.  A component without listeners
\* tells nobody.
Unload(X) == deaf' = deaf \cup {o \in Operators : maker[o] \in X \ deaf}

\* The list without the operators in X: each is spliced out.
Without(s, X) ==
    LET left[n \in 0..Len(s)] ==
            IF n = 0 THEN <<>>
            ELSE IF s[n] \in X THEN left[n - 1] ELSE Append(left[n - 1], s[n])
    IN  left[Len(s)]

RegisteredId(o) == opId[o] \in DOMAIN byId

\* append_operator: register the operator, replacing whoever has its id.
AppendOperator(o, id) ==
    /\ ops' = Append(ops, o)
    /\ byId' = [i \in DOMAIN byId \cup {id} |-> IF i = id THEN o ELSE byId[i]]

NewOperator(o, id, k) ==
    /\ o \in fresh \cap Operators
    /\ nextId < MaxId
    /\ fresh' = fresh \ {o}
    /\ opId' = [opId EXCEPT ![o] = id]
    /\ nextId' = nextId + 1
    /\ meta' = [meta EXCEPT ![o] = k]
    /\ eps' = [eps EXCEPT ![o] = [comp |-> o, gen |-> 0, ghost |-> k # "full"]]

\* createOperator from the editor: the id is taken when the request is sent.
CreateOperator(o, k) ==
    /\ editor = "open"
    /\ k # "missing"
    /\ NewOperator(o, <<nextId>>, k)
    /\ opReqs' = opReqs \cup {o}
    /\ UNCHANGED <<widgets, ops, byId, maker, deaf, fetching, conns, net,
                   creating, drawn, editor>>

OperatorCreated(o) ==
    /\ o \in opReqs
    /\ opReqs' = opReqs \ {o}
    /\ AppendOperator(o, opId[o])
    /\ UNCHANGED <<fresh, widgets, opId, maker, deaf, nextId, metaVars, conns,
                   net, creating, editVars>>

OperatorRejected(o) ==
    /\ o \in opReqs
    /\ opReqs' = opReqs \ {o}
    /\ UNCHANGED <<fresh, widgets, ops, byId, opId, maker, deaf, nextId,
                   metaVars, conns, net, creating, editVars>>

IdOf(x) == IF x \in Widgets THEN <<x>> ELSE opId[x]
ParseInt(id) == IF Head(id) \in Widgets THEN WidgetNum ELSE Head(id)

\* addOperator of the components' API: no request, and a number that counts
\* what the creator has created since it was loaded.
CreateVolatileOperator(o, creator, k) ==
    /\ creator \in Live
    /\ k # "missing"
    /\ LET made == {p \in Operators : maker[p] = creator} \ deaf
           id   == Append(IdOf(creator), Cardinality(made) + 1)
       IN NewOperator(o, id, k) /\ AppendOperator(o, id)
    /\ maker' = [maker EXCEPT ![o] = creator]
    /\ UNCHANGED <<widgets, deaf, opReqs, fetching, conns, net, creating, editVars>>

\* Mutant: only the connections that start at the component leave.
LeavingFromSource(n, X) == {c \in conns : n.source[c].comp \in X}

\* removeComponent: the connections of the components in X leave the engine.
LeavingConns(n, X) == {c \in conns : \E x \in X : Touches(n, c, x)}

\* The page of a component is unloaded, to be reloaded.
UnloadComponent(x) ==
    /\ x \in Live \ deaf
    /\ Unload({x})
    /\ deaf' # deaf
    /\ UNCHANGED <<fresh, widgets, ops, byId, opId, maker, nextId, opReqs,
                   metaVars, conns, net, creating, editVars>>

\* remove() on a volatile operator.  on_removeoperator does nothing when the
\* id is no longer registered, and nobody calls it without listeners.
RemoveOperator(o) ==
    /\ o \in Live \cap volatiles
    /\ LET n == FullDisconnect(net, {eps[o]})
           leaving == LeavingConns(net, {o})
       IN IF RegisteredId(o) /\ o \notin deaf
          THEN /\ ops' = Without(ops, {o})
               /\ byId' = [i \in DOMAIN byId \ {opId[o]} |-> byId[i]]
               /\ net' = Detach(n, leaving)
               /\ conns' = conns \ leaving
          ELSE net' = n /\ UNCHANGED <<ops, byId, conns>>
    /\ Unload({o})
    /\ UNCHANGED <<fresh, widgets, opId, maker, nextId, opReqs, metaVars,
                   creating, editVars>>

-----------------------------------------------------------------------------
(* Widgets.                                                                *)

AddWidget(w, k) ==
    /\ w \in fresh \cap Widgets
    /\ fresh' = fresh \ {w}
    /\ widgets' = widgets \cup {w}
    /\ meta' = [meta EXCEPT ![w] = k]
    /\ eps' = [eps EXCEPT ![w] = [comp |-> w, gen |-> 0, ghost |-> k # "full"]]
    /\ UNCHANGED <<opVars, fetching, conns, net, creating, editVars>>

RemoveWidget(w) ==
    /\ w \in widgets
    /\ widgets' = widgets \ {w}
    /\ LET leaving == LeavingConns(net, {w})
       IN /\ net' = Detach(FullDisconnect(net, {eps[w]}), leaving)
          /\ conns' = conns \ leaving
    /\ Unload({w})
    /\ UNCHANGED <<fresh, ops, byId, opId, maker, nextId, opReqs, metaVars,
                   creating, editVars>>

-----------------------------------------------------------------------------
(* Versions: upgrade, downgrade, uninstall and reinstall.                  *)

\* component.is: same type and same id.
Is(x, y) == x = y \/ ({x, y} \subseteq Operators /\ opId[x] = opId[y])

\* on_changecomponent: the connections whose source, and those whose target
\* alone, belongs to the component.
SourcesAt(x) == {c \in conns : Is(net.source[c].comp, x)}

\* Mutant: connections that are down are not rebound.
EstablishedTargetsAt(x) ==
    {c \in conns : net.est[c] /\ Is(net.target[c].comp, x)} \ SourcesAt(x)

TargetsAt(x) == {c \in conns : Is(net.target[c].comp, x)} \ SourcesAt(x)

\* change_meta's continuation: new endpoints from the version the component
\* has now, an unload and a load, then, if the engine listens to it, on_changecomponent binds its
\* connections to them.
Rebuild(x, k) ==
    LET new == [comp |-> x, gen |-> eps[x].gen + 1, ghost |-> k # "full"]
        n   == FullDisconnect(net, {new})
        rebound == SourcesAt(x) \cup TargetsAt(x)
        p   == [Detach(n, rebound) EXCEPT
                  !.source = [c \in Conn |-> IF c \in SourcesAt(x) THEN new ELSE @[c]],
                  !.target = [c \in Conn |-> IF c \in TargetsAt(x) THEN new ELSE @[c]]]
    IN /\ eps' = [eps EXCEPT ![x] = new]
       /\ Unload({x})
       /\ IF x \in Live \ deaf
          THEN net' \in EstablishAll(p, rebound)
          ELSE net' = net

\* upgrade(meta): the version changes at once.  The stand-in of a missing
\* component needs no request, so the rest follows in the same turn.
ChangeMeta(x, k) ==
    /\ x \in Live
    /\ k \in Metas
    /\ meta' = [meta EXCEPT ![x] = k]
    /\ eps[x].gen + fetching[x] < MaxGen[x]
    /\ IF k = "missing"
       THEN Rebuild(x, k) /\ UNCHANGED fetching
       ELSE /\ fetching' = [fetching EXCEPT ![x] = @ + 1]
            /\ UNCHANGED <<eps, net, deaf>>
    /\ UNCHANGED <<fresh, widgets, ops, byId, opId, maker, nextId, opReqs,
                   conns, creating, editVars>>

MetaLoaded(x) ==
    /\ fetching[x] > 0
    /\ fetching' = [fetching EXCEPT ![x] = @ - 1]
    /\ Rebuild(x, meta[x])
    /\ UNCHANGED <<fresh, widgets, ops, byId, opId, maker, nextId, opReqs,
                   meta, conns, creating, editVars>>

\* The request fails: the new version stays, the endpoints are not rebuilt.
MetaFailed(x) ==
    /\ fetching[x] > 0
    /\ fetching' = [fetching EXCEPT ![x] = @ - 1]
    /\ UNCHANGED <<fresh, widgets, opVars, meta, eps, conns, net, creating,
                   editVars>>

-----------------------------------------------------------------------------
(* Connections.                                                            *)

NewConnection(c, x, y) ==
    /\ c \in fresh \cap Conn
    /\ {x, y} \subseteq Live /\ x # y
    /\ fresh' = fresh \ {c}
    /\ UNCHANGED <<widgets, opVars, metaVars, editor>>

\* The endpoints of a connection that is being created.
Ends(c, x, y) ==
    [net EXCEPT !.source[c] = eps[x], !.target[c] = eps[y]]

\* createConnection between persistent components; the editor shows the
\* connections the user draws before the answer, those of a paste after it.
CreateConnection(c, x, y, shown) ==
    /\ NewConnection(c, x, y)
    /\ editor = "open"
    /\ {x, y} \cap volatiles = {}
    /\ net' = Ends(c, x, y)
    /\ creating' = creating \cup {c}
    /\ drawn' = IF shown THEN drawn \cup {c} ELSE drawn
    /\ UNCHANGED conns

\* Mutant: the editor is not told of the answer.
ConnectionStaysDrawn(c) ==
    /\ c \in creating
    /\ creating' = creating \ {c}
    /\ net' \in EstablishAll(net, {c})
    /\ conns' = conns \cup {c}
    /\ UNCHANGED <<fresh, widgets, opVars, metaVars, editVars>>

ConnectionCreated(c) ==
    /\ c \in creating
    /\ creating' = creating \ {c}
    /\ drawn' = drawn \ {c}
    /\ net' \in EstablishAll(net, {c})
    /\ conns' = conns \cup {c}
    /\ UNCHANGED <<fresh, widgets, opVars, metaVars, editor>>

ConnectionRejected(c) ==
    /\ c \in creating
    /\ creating' = creating \ {c}
    /\ drawn' = drawn \ {c}
    /\ UNCHANGED <<fresh, widgets, opVars, metaVars, conns, net, editor>>

\* createConnection with a volatile end: no request.
CreateVolatileConnection(c, x, y) ==
    /\ NewConnection(c, x, y)
    /\ {x, y} \cap volatiles # {}
    /\ net' \in EstablishAll(Ends(c, x, y), {c})
    /\ conns' = conns \cup {c}
    /\ UNCHANGED <<creating, drawn>>

\* disconnect() of the components' API: it finds the connection through the
\* wire and calls its remove().
RemoveConnection(w) ==
    /\ w \in net.wires
    /\ net' = Detach(net, {w[3]})
    /\ conns' = conns \ {w[3]}
    /\ UNCHANGED <<fresh, widgets, opVars, metaVars, creating, editVars>>

-----------------------------------------------------------------------------
(* The wiring editor and Wiring.load.                                      *)

Dangling == {c \in conns : ~{net.source[c].comp, net.target[c].comp} \subseteq Live}

\* WiringEditor.load shows every connection; one without its component
\* cannot be shown.
OpenEditor ==
    /\ editor # "open"
    /\ Dangling = {}
    /\ editor' = "open"
    /\ drawn' = {}
    /\ UNCHANGED <<fresh, widgets, opVars, metaVars, conns, net, creating>>

\* Persistent operators registered with an id outside keep.
Gone(keep) == {i \in DOMAIN ops : ops[i] \notin volatiles /\ opId[ops[i]] \notin keep}

\* Those on_removeoperator unregisters: with a repeated id, only the last.
Unregistered(keep) ==
    {ops[i] : i \in {i \in Gone(keep) :
        /\ RegisteredId(ops[i])
        /\ \A j \in Gone(keep) : j > i => opId[ops[j]] # opId[ops[i]]}}

\* Persistent connections leave the list, with those of the operators that
\* are removed; before that they are detached, and the operators the editor
\* does not show are disconnected.
Persistent == {c \in conns : ~Volatile(net, c)}
Kept(keep) == conns \ (Persistent \cup LeavingConns(net, Unregistered(keep)))
Unloaded(keep) ==
    Detach(FullDisconnect(Detach(net, Persistent),
                          {eps[ops[i]] : i \in Gone(keep)}),
           LeavingConns(net, Unregistered(keep)))

\* load(status), the operators: those not in it are removed and the id
\* counter restarts after the last operator of the list.
LoadOperators(keep) ==
    LET gone == Unregistered(keep)
        left == Without(ops, gone)
    IN /\ ops' = left
       /\ byId' = [i \in DOMAIN byId \ {opId[o] : o \in gone} |-> byId[i]]
       /\ nextId' = IF left = <<>> THEN 1 ELSE ParseInt(opId[left[Len(left)]]) + 1
       /\ Unload({ops[i] : i \in Gone(keep)})

\* Persistent connections the editor can show with the operators in keep.
Showable(keep) ==
    {c \in Persistent \ Dangling :
        \A o \in Operators : Touches(net, c, o) => opId[o] \in keep}

\* Mutant: load ends without establishing.
CloseEditorUnestablished(keep, C) ==
    /\ editor = "open"
    /\ drawn = {}
    /\ C \subseteq Showable(keep)
    /\ LoadOperators(keep)
    /\ conns' = Kept(keep) \cup C
    /\ net' = Unloaded(keep)
    /\ editor' = "closed"
    /\ UNCHANGED <<fresh, widgets, opId, maker, opReqs, metaVars,
                   creating, drawn>>

\* WiringEditor.unload: load what the editor shows.
CloseEditor(keep, C) ==
    /\ editor = "open"
    /\ drawn = {}
    /\ C \subseteq Showable(keep)
    /\ LoadOperators(keep)
    /\ conns' = Kept(keep) \cup C
    /\ net' \in EstablishAll(Unloaded(keep), Kept(keep) \cup C)
    /\ editor' = "closed"
    /\ UNCHANGED <<fresh, widgets, opId, maker, opReqs, metaVars,
                   creating, drawn>>

\* The same with a drawn connection still waiting for its answer: the status
\* holds an undefined connection and load throws on it, after adding the
\* connections before it and before establishing any.
CloseEditorInterrupted(keep, C) ==
    /\ editor = "open"
    /\ drawn # {}
    /\ C \subseteq Showable(keep)
    /\ LoadOperators(keep)
    /\ conns' = Kept(keep) \cup C
    /\ net' = Unloaded(keep)
    /\ editor' = "interrupted"
    /\ UNCHANGED <<fresh, widgets, opId, maker, opReqs, metaVars,
                   creating, drawn>>

-----------------------------------------------------------------------------
Init ==
    /\ fresh = Widgets \cup Operators \cup Conn
    /\ widgets = {}
    /\ ops = <<>>
    /\ byId = [i \in {} |-> NoComp]
    /\ opId = [o \in Operators |-> <<0>>]
    /\ maker = [o \in Operators |-> NoComp]
    /\ deaf = {}
    /\ nextId = 1
    /\ opReqs = {}
    /\ meta = [x \in Comp |-> "missing"]
    /\ eps = [x \in Comp |-> NoEndpoint]
    /\ fetching = [x \in Comp |-> 0]
    /\ conns = {}
    /\ net = [source |-> [c \in Conn |-> NoEndpoint],
              target |-> [c \in Conn |-> NoEndpoint],
              est    |-> [c \in Conn |-> FALSE],
              wires  |-> {}]
    /\ creating = {}
    /\ drawn = {}
    /\ editor = "closed"

\* Ids of the persistent operators the engine has registered.
EditableIds == {i \in DOMAIN byId : byId[i] \notin volatiles}

Next ==
    \/ \E w \in Widgets, k \in Metas : AddWidget(w, k)
    \/ \E w \in Widgets : RemoveWidget(w)
    \/ \E o \in Operators, k \in Metas : CreateOperator(o, k)
    \/ \E o \in Operators : OperatorCreated(o)
    \/ \E o \in Operators : OperatorRejected(o)
    \/ \E o \in Operators, x \in Comp, k \in Metas : CreateVolatileOperator(o, x, k)
    \/ \E x \in Comp : UnloadComponent(x)
    \/ \E o \in Operators : RemoveOperator(o)
    \/ \E x \in Comp, k \in Metas : ChangeMeta(x, k)
    \/ \E x \in Comp : MetaLoaded(x)
    \/ \E x \in Comp : MetaFailed(x)
    \/ \E c \in Conn, x, y \in Comp, shown \in BOOLEAN : CreateConnection(c, x, y, shown)
    \/ \E c \in Conn : ConnectionCreated(c)
    \/ \E c \in Conn : ConnectionRejected(c)
    \/ \E c \in Conn, x, y \in Comp : CreateVolatileConnection(c, x, y)
    \/ \E w \in net.wires : RemoveConnection(w)
    \/ OpenEditor
    \/ \E keep \in SUBSET EditableIds, C \in SUBSET conns : CloseEditor(keep, C)
    \/ \E keep \in SUBSET EditableIds, C \in SUBSET conns : CloseEditorInterrupted(keep, C)

Spec == Init /\ [][Next]_vars

-----------------------------------------------------------------------------
(* Properties.                                                             *)

Net == [source : [Conn -> Endpoint], target : [Conn -> Endpoint],
        est : [Conn -> BOOLEAN],
        wires : SUBSET (Endpoint \X Endpoint \X Conn)]

TypeOK ==
    /\ fresh \subseteq Widgets \cup Operators \cup Conn
    /\ widgets \subseteq Widgets
    /\ ops \in Seq(Operators)
    /\ DOMAIN byId \subseteq Id /\ \A i \in DOMAIN byId : byId[i] \in Operators
    /\ opId \in [Operators -> Id]
    /\ maker \in [Operators -> Comp \cup {NoComp}]
    /\ deaf \subseteq volatiles
    /\ nextId \in Nat
    /\ opReqs \subseteq Operators
    /\ meta \in [Comp -> MetaKinds]
    /\ eps \in [Comp -> Endpoint]
    /\ fetching \in [Comp -> Nat]
    /\ conns \subseteq Conn
    /\ net \in Net
    /\ creating \subseteq Conn
    /\ drawn \subseteq creating
    /\ editor \in {"closed", "open", "interrupted"}

\* Every wire of n was laid by a connection of K as that connection is now.
WiresSoundIn(n, K) ==
    \A w \in n.wires :
        /\ w[3] \in K
        /\ w = WireOf(n, w[3])
        /\ n.est[w[3]]
        /\ ~w[1].ghost /\ ~w[2].ghost
        /\ \A v \in n.wires : v[1] = w[1] /\ v[2] = w[2] => v = w

\* Events never travel over a wire the engine has lost track of: every entry
\* of an endpoint's output list was laid by a connection of the engine that
\* still joins those two endpoints and counts itself established, neither
\* endpoint is a ghost, and no pair of endpoints is wired twice (an event
\* would be delivered twice).
WiresSound == WiresSoundIn(net, conns)

\* Another connection was created between the same two components.
Duplicated(c) ==
    \E d \in Conn \ {c} : /\ net.source[d].comp = net.source[c].comp
                          /\ net.target[d].comp = net.target[c].comp

\* A connection that counts itself established has a wire that carries its
\* events.  The exception is a pair of components joined by two connection
\* objects: they share the wire, and it goes with the first one detached.
EstablishedWired ==
    \A c \in conns : net.est[c] => WireOf(net, c) \in net.wires \/ Duplicated(c)

\* The removal of an operator is not heard of when it has no listeners, nor
\* when another one that had its id has been removed.
Unheard(o) == o \in deaf \/ ~RegisteredId(o)

\* A connection the engine handles and whose endpoints exist is established
\* from the step that brings it in, stays so whatever happens to other
\* components, and is so again after every load that completes.  Only a load
\* that throws half way leaves it down, and the removal of an operator the
\* engine does not hear of (and the duplicates of above).
StaysEstablished ==
    [][\A c \in conns' :
          \/ net'.est[c] \/ net'.source[c].ghost \/ net'.target[c].ghost
          \/ Duplicated(c)' \/ editor' = "interrupted"
          \/ \E o \in volatiles : Unheard(o) /\ Touches(net', c, o)
          \/ c \in conns /\ ~net.est[c] /\ ~(editor = "open" /\ editor' = "closed")]_vars

\* Removing a component removes all of it from the engine: in the step in
\* which the engine forgets a component, no connection and no wire of it
\* survives.
RemovalComplete ==
    [][\A x \in Live \ Live' :
          /\ \A c \in conns' : ~Touches(net', c, x)
          /\ \A w \in net'.wires : x \notin {w[1].comp, w[2].comp}]_vars

\* Another operator has, or had, the id of this one.
SharedId(x) == \E y \in Operators \ (fresh \cup {x}) : Is(x, y)

\* A version change rebinds every connection of the component: in the step in
\* which a component the engine listens to gets new endpoints, none of the
\* engine's connections is left on the old ones, and none is lost.  Operators
\* that share an id are the exception, the engine cannot tell them apart, and
\* so are those that lost their listeners.
Rebound ==
    [][\A x \in Live : eps'[x] # eps[x] /\ x \notin deaf /\ ~SharedId(x) =>
          /\ conns' = conns
          /\ \A c \in conns :
              /\ net.source[c].comp = x => net'.source[c] = eps'[x]
              /\ net.target[c].comp = x => net'.target[c] = eps'[x]]_vars

\* "Operators handled by the current wiring configuration indexed by id"
\* (Wiring.js 371): the index holds every operator of the list.
OperatorsIndexed ==
    \A i \in DOMAIN ops : RegisteredId(ops[i]) /\ byId[opId[ops[i]]] = ops[i]
=============================================================================
