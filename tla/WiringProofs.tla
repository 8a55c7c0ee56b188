---------------------------- MODULE WiringProofs ----------------------------
(***************************************************************************)
(* Proofs about Wiring, for any number of widgets, operators, connections  *)
(* and versions: what detach, disconnect and establish do to the wires;    *)
(* that no handler leaves a wire the engine has lost track of, nor an      *)
(* established connection without its wire; and that a connection stays    *)
(* established, is rebound with its components and goes with them.         *)
(***************************************************************************)
EXTENDS Wiring, FiniteSetTheorems, WellFoundedInduction, TLAPS

-----------------------------------------------------------------------------
(* What the operations on wires preserve.                                  *)

\* Taking wires down leaves the others sound.
LEMMA DisconnectSound ==
    ASSUME NEW n \in Net, NEW K \in SUBSET Conn, NEW W \in SUBSET n.wires,
           WiresSoundIn(n, K)
    PROVE  /\ Disconnect(n, W) \in Net
           /\ Disconnect(n, W).wires \subseteq n.wires
           /\ Disconnect(n, W).source = n.source
           /\ Disconnect(n, W).target = n.target
           /\ WiresSoundIn(Disconnect(n, W), K)
<1> DEFINE m == Disconnect(n, W)
<1>1. /\ m.source = n.source /\ m.target = n.target
      /\ m.wires = n.wires \ W
      /\ m.est = [c \in Conn |-> n.est[c] /\ \A w \in W : w[3] # c]
      /\ m \in Net
  BY DEF Disconnect, Net
<1>2. ASSUME NEW w \in m.wires
      PROVE  /\ w[3] \in K /\ w = WireOf(m, w[3]) /\ m.est[w[3]]
             /\ ~w[1].ghost /\ ~w[2].ghost
             /\ \A v \in m.wires : v[1] = w[1] /\ v[2] = w[2] => v = w
  <2>1. w \in n.wires /\ w \notin W
    BY <1>1
  <2>2. /\ w[3] \in K /\ w = WireOf(n, w[3]) /\ n.est[w[3]]
        /\ ~w[1].ghost /\ ~w[2].ghost
        /\ \A v \in n.wires : v[1] = w[1] /\ v[2] = w[2] => v = w
    BY <2>1 DEF WiresSoundIn
  <2>3. \A v \in W : v[3] # w[3]
    BY <2>1, <2>2 DEF WiresSoundIn
  <2>. QED
    BY <1>1, <2>1, <2>2, <2>3 DEF WireOf
<1>. QED
  BY <1>1, <1>2 DEF WiresSoundIn

LEMMA FullDisconnectSound ==
    ASSUME NEW n \in Net, NEW K \in SUBSET Conn, NEW E, WiresSoundIn(n, K)
    PROVE  /\ FullDisconnect(n, E) \in Net
           /\ FullDisconnect(n, E).wires \subseteq n.wires
           /\ FullDisconnect(n, E).source = n.source
           /\ FullDisconnect(n, E).target = n.target
           /\ WiresSoundIn(FullDisconnect(n, E), K)
<1> DEFINE W == {w \in n.wires : w[1] \in E \/ w[2] \in E}
<1>1. W \in SUBSET n.wires
  OBVIOUS
<1>2. FullDisconnect(n, E) = Disconnect(n, W)
  BY DEF FullDisconnect
<1>. QED
  BY <1>1, <1>2, DisconnectSound

\* Detached connections can be forgotten: none of the wires left is theirs.
LEMMA DetachSound ==
    ASSUME NEW n \in Net, NEW K \in SUBSET Conn, NEW C \in SUBSET Conn,
           WiresSoundIn(n, K)
    PROVE  /\ Detach(n, C) \in Net
           /\ Detach(n, C).source = n.source
           /\ Detach(n, C).target = n.target
           /\ WiresSoundIn(Detach(n, C), K \ C)
<1> DEFINE W == {w \in n.wires : \E c \in C : n.est[c] /\ w[1] = n.source[c]
                                                       /\ w[2] = n.target[c]}
           m == Disconnect(n, W)
           d == Detach(n, C)
<1>1. W \in SUBSET n.wires
  OBVIOUS
<1>2. /\ m \in Net /\ m.source = n.source /\ m.target = n.target
      /\ WiresSoundIn(m, K)
  BY <1>1, DisconnectSound
<1>3. m.wires = n.wires \ W
  BY DEF Disconnect, Net
<1>4. d = [m EXCEPT !.est = [c \in Conn |-> m.est[c] /\ c \notin C]]
  BY DEF Detach
<1>5. /\ d.source = n.source /\ d.target = n.target /\ d.wires = m.wires
      /\ d.est = [c \in Conn |-> m.est[c] /\ c \notin C]
      /\ d \in Net
  <2>1. d.source = m.source /\ d.target = m.target /\ d.wires = m.wires
    BY <1>2, <1>4 DEF Net
  <2>2. d.est = [c \in Conn |-> m.est[c] /\ c \notin C]
    BY <1>2, <1>4 DEF Net
  <2>3. d \in Net
    <3>1. [c \in Conn |-> m.est[c] /\ c \notin C] \in [Conn -> BOOLEAN]
      BY <1>2, Zenon DEF Net
    <3>. DEFINE e == [c \in Conn |-> m.est[c] /\ c \notin C]
    <3>. HIDE DEF e, d, m
    <3>2. d = [m EXCEPT !.est = e] /\ e \in [Conn -> BOOLEAN]
      BY <1>4, <3>1 DEF e
    <3>. QED
      BY <1>2, <3>2 DEF Net
  <2>. QED
    BY <1>2, <2>1, <2>2, <2>3
<1>6. ASSUME NEW w \in m.wires
      PROVE  w[3] \notin C
  <2>1. w \in n.wires /\ w \notin W
    BY <1>3
  <2>2. w = WireOf(n, w[3]) /\ n.est[w[3]]
    BY <2>1 DEF WiresSoundIn
  <2>. QED
    BY <2>1, <2>2 DEF WireOf
<1>7. ASSUME NEW w \in d.wires
      PROVE  /\ w[3] \in K \ C /\ w = WireOf(d, w[3]) /\ d.est[w[3]]
             /\ ~w[1].ghost /\ ~w[2].ghost
             /\ \A v \in d.wires : v[1] = w[1] /\ v[2] = w[2] => v = w
  <2>1. /\ w[3] \in K /\ w = WireOf(m, w[3]) /\ m.est[w[3]]
        /\ ~w[1].ghost /\ ~w[2].ghost
        /\ \A v \in m.wires : v[1] = w[1] /\ v[2] = w[2] => v = w
    BY <1>2, <1>5 DEF WiresSoundIn
  <2>2. w[3] \notin C
    BY <1>5, <1>6
  <2>. QED
    BY <1>2, <1>5, <2>1, <2>2 DEF WireOf
<1>. QED
  BY <1>5, <1>7 DEF WiresSoundIn

\* Establishing connections adds their wires to sound ones, and no second
\* wire between two endpoints.
LEMMA EstablishSound ==
    ASSUME NEW n \in Net, NEW K \in SUBSET Conn, NEW C \in SUBSET Conn,
           WiresSoundIn(n, K), NEW m \in EstablishAll(n, C)
    PROVE  m \in Net /\ WiresSoundIn(m, K \cup C)
<1> DEFINE ready == {c \in C : ~n.source[c].ghost /\ ~n.target[c].ghost /\ ~n.est[c]}
           Same(c, d) == n.source[c] = n.source[d] /\ n.target[c] = n.target[d]
           vacant == {c \in ready : Between(n, n.source[c], n.target[c]) = {}}
<1>1. PICK F \in SUBSET vacant :
        /\ \A c, d \in F : Same(c, d) => c = d
        /\ m = [n EXCEPT !.wires = @ \cup {WireOf(n, c) : c \in F},
                         !.est = [c \in Conn |-> @[c] \/ c \in ready]]
  BY Zenon DEF EstablishAll
<1>2. F \subseteq ready /\ F \subseteq Conn /\ F \subseteq C
  OBVIOUS
<1>3. /\ m.source = n.source /\ m.target = n.target
      /\ m.wires = n.wires \cup {WireOf(n, c) : c \in F}
      /\ m.est = [c \in Conn |-> n.est[c] \/ c \in ready]
  BY <1>1 DEF Net
<1>4. m \in Net
  <2>1. \A c \in F : WireOf(n, c) \in Endpoint \X Endpoint \X Conn
    BY <1>2 DEF WireOf, Net
  <2>2. n.wires \cup {WireOf(n, c) : c \in F} \in SUBSET (Endpoint \X Endpoint \X Conn)
    BY <2>1 DEF Net
  <2>3. \A S : [c \in Conn |-> n.est[c] \/ c \in S] \in [Conn -> BOOLEAN]
    BY DEF Net
  <2>. QED
    BY <1>1, <2>2, <2>3 DEF Net
<1>5. ASSUME NEW c \in F
      PROVE  /\ WireOf(n, c)[1] = n.source[c] /\ WireOf(n, c)[2] = n.target[c]
             /\ WireOf(n, c)[3] = c
  BY DEF WireOf
<1>6. ASSUME NEW w \in m.wires
      PROVE  /\ w[3] \in K \cup C /\ w = WireOf(m, w[3]) /\ m.est[w[3]]
             /\ ~w[1].ghost /\ ~w[2].ghost
  <2>1. CASE w \in n.wires
    BY <1>3, <2>1 DEF WiresSoundIn, WireOf
  <2>2. CASE \E c \in F : w = WireOf(n, c)
    <3>1. PICK c \in F : w = WireOf(n, c)
      BY <2>2
    <3>2. w[1] = n.source[c] /\ w[2] = n.target[c] /\ w[3] = c
      BY <1>5, <3>1
    <3>3. c \in ready /\ c \in C /\ c \in Conn
      BY <1>2
    <3>. QED
      BY <1>3, <3>1, <3>2, <3>3 DEF WireOf
  <2>. QED
    BY <1>3, <2>1, <2>2
<1>7. ASSUME NEW v \in m.wires, NEW w \in m.wires, v[1] = w[1], v[2] = w[2]
      PROVE  v = w
  <2>1. CASE v \in n.wires /\ w \in n.wires
    BY <1>7, <2>1 DEF WiresSoundIn
  <2>2. ASSUME NEW c \in F, NEW x \in n.wires, x[1] = n.source[c], x[2] = n.target[c]
        PROVE  FALSE
    BY <2>2 DEF Between
  <2>3. CASE v \in n.wires /\ \E c \in F : w = WireOf(n, c)
    BY <1>5, <1>7, <2>2, <2>3
  <2>4. CASE w \in n.wires /\ \E c \in F : v = WireOf(n, c)
    BY <1>5, <1>7, <2>2, <2>4
  <2>5. CASE (\E c \in F : v = WireOf(n, c)) /\ \E c \in F : w = WireOf(n, c)
    BY <1>1, <1>5, <1>7, <2>5
  <2>. QED
    BY <1>3, <2>1, <2>3, <2>4, <2>5
<1>. QED
  BY <1>4, <1>6, <1>7 DEF WiresSoundIn

\* The endpoints of connections without wires may change.
LEMMA EndsSound ==
    ASSUME NEW n \in Net, NEW m \in Net, NEW K \in SUBSET Conn, WiresSoundIn(n, K),
           m.wires = n.wires, m.est = n.est,
           \A c \in K : m.source[c] = n.source[c] /\ m.target[c] = n.target[c]
    PROVE  WiresSoundIn(m, K)
BY DEF WiresSoundIn, WireOf

LEMMA MonotoneSound ==
    ASSUME NEW n, NEW K, NEW L, K \subseteq L, WiresSoundIn(n, K)
    PROVE  WiresSoundIn(n, L)
BY DEF WiresSoundIn

-----------------------------------------------------------------------------
(* The inductive invariant.                                                *)

\* An object that has not been created is not in use, and endpoints are
\* endpoints: what WiresSound needs to be inductive, because a connection
\* gets its first endpoints without anyone looking at its wires.
IInv ==
    /\ fresh \cap (conns \cup creating) = {}
    /\ conns \subseteq Conn /\ creating \subseteq Conn
    /\ eps \in [Comp -> Endpoint]
    /\ net \in Net
    /\ WiresSound

LEMMA InitIInv == Init => IInv
<1>. SUFFICES ASSUME Init PROVE IInv
  OBVIOUS
<1>1. NoEndpoint \in Endpoint
  BY DEF NoEndpoint, Endpoint
<1>2. net \in Net
  BY <1>1 DEF Init, Net
<1>. QED
  BY <1>1, <1>2 DEF Init, IInv, WiresSound, WiresSoundIn

\* What a handler has to do for IInv, once its wires are known to be sound.
LEMMA IInvStep ==
    ASSUME IInv, fresh' \subseteq fresh, conns' \subseteq conns \cup creating,
           creating' \subseteq creating, eps' \in [Comp -> Endpoint],
           net' \in Net, WiresSoundIn(net', conns')
    PROVE  IInv'
BY DEF IInv, WiresSound

\* A new connection has no wires yet.
LEMMA EndsFresh ==
    ASSUME IInv, NEW c \in fresh \cap Conn, NEW x \in Comp, NEW y \in Comp
    PROVE  Ends(c, x, y) \in Net /\ WiresSoundIn(Ends(c, x, y), conns)
<1>. DEFINE m == Ends(c, x, y)
<1>1. /\ m.wires = net.wires /\ m.est = net.est
      /\ m.source = [net.source EXCEPT ![c] = eps[x]]
      /\ m.target = [net.target EXCEPT ![c] = eps[y]]
      /\ m \in Net
  BY DEF Ends, IInv, Net
<1>2. c \notin conns
  BY DEF IInv
<1>3. \A d \in conns : m.source[d] = net.source[d] /\ m.target[d] = net.target[d]
  BY <1>1, <1>2 DEF IInv, Net
<1>. QED
  BY <1>1, <1>3, EndsSound DEF IInv, WiresSound

\* change_meta leaves no wire on the endpoints it replaces.
LEMMA RebuildSound ==
    ASSUME IInv, NEW x \in Comp, NEW k, Rebuild(x, k)
    PROVE  eps' \in [Comp -> Endpoint] /\ net' \in Net /\ WiresSoundIn(net', conns)
<1>. DEFINE new == [comp |-> x, gen |-> eps[x].gen + 1, ghost |-> k # "full"]
            n   == FullDisconnect(net, {new})
            R   == SourcesAt(x) \cup TargetsAt(x)
            d   == Detach(n, R)
            p   == [d EXCEPT
                      !.source = [c \in Conn |-> IF c \in SourcesAt(x) THEN new ELSE @[c]],
                      !.target = [c \in Conn |-> IF c \in TargetsAt(x) THEN new ELSE @[c]]]
<1>1. new \in Endpoint
  BY DEF IInv, Endpoint
<1>2. eps' \in [Comp -> Endpoint]
  BY <1>1 DEF Rebuild, IInv
<1>3. R \subseteq conns /\ R \in SUBSET Conn
  BY DEF SourcesAt, TargetsAt, IInv
<1>4. n \in Net /\ WiresSoundIn(n, conns)
  BY FullDisconnectSound DEF IInv, WiresSound
<1>5. d \in Net /\ WiresSoundIn(d, conns \ R)
  BY <1>3, <1>4, DetachSound DEF IInv
<1>6. /\ p.wires = d.wires /\ p.est = d.est
      /\ p.source = [c \in Conn |-> IF c \in SourcesAt(x) THEN new ELSE d.source[c]]
      /\ p.target = [c \in Conn |-> IF c \in TargetsAt(x) THEN new ELSE d.target[c]]
      /\ p \in Net
  <2>1. d.source \in [Conn -> Endpoint] /\ d.target \in [Conn -> Endpoint]
    BY <1>5 DEF Net
  <2>2. \A S : [c \in Conn |-> IF c \in S THEN new ELSE d.source[c]] \in [Conn -> Endpoint]
    BY <1>1, <2>1
  <2>3. \A S : [c \in Conn |-> IF c \in S THEN new ELSE d.target[c]] \in [Conn -> Endpoint]
    BY <1>1, <2>1
  <2>. QED
    BY <1>5, <2>2, <2>3 DEF Net
<1>7. \A c \in conns \ R : p.source[c] = d.source[c] /\ p.target[c] = d.target[c]
  BY <1>6 DEF IInv
<1>8. p \in Net /\ WiresSoundIn(p, conns \ R)
  <2>1. conns \ R \in SUBSET Conn
    BY DEF IInv
  <2>. HIDE DEF d, p, R
  <2>. QED
    BY <1>5, <1>6, <1>7, <2>1, EndsSound
<1>9. CASE x \in Live \ deaf
  <2>1. net' \in EstablishAll(p, R)
    BY <1>9 DEF Rebuild
  <2>2. net' \in Net /\ WiresSoundIn(net', (conns \ R) \cup R)
    BY <1>3, <1>8, <2>1, EstablishSound DEF IInv
  <2>3. (conns \ R) \cup R = conns
    BY <1>3
  <2>. QED
    BY <1>2, <2>2, <2>3
<1>10. CASE x \notin Live \ deaf
  BY <1>2, <1>10 DEF Rebuild, IInv, WiresSound
<1>. QED
  BY <1>9, <1>10

\* What load leaves of the wires belongs to the connections it keeps.
LEMMA UnloadedSound ==
    ASSUME IInv, NEW keep
    PROVE  Unloaded(keep) \in Net /\ WiresSoundIn(Unloaded(keep), Kept(keep))
<1>. DEFINE L == LeavingConns(net, Unregistered(keep))
            E == {eps[ops[i]] : i \in Gone(keep)}
            d == Detach(net, Persistent)
            f == FullDisconnect(d, E)
<1>1. Persistent \in SUBSET Conn /\ L \in SUBSET Conn /\ conns \in SUBSET Conn
  BY DEF Persistent, LeavingConns, IInv
<1>2. d \in Net /\ WiresSoundIn(d, conns \ Persistent)
  BY <1>1, DetachSound DEF IInv, WiresSound
<1>3. f \in Net /\ WiresSoundIn(f, conns \ Persistent)
  BY <1>1, <1>2, FullDisconnectSound
<1>4. Detach(f, L) \in Net /\ WiresSoundIn(Detach(f, L), (conns \ Persistent) \ L)
  BY <1>1, <1>3, DetachSound
<1>5. Unloaded(keep) = Detach(f, L) /\ Kept(keep) = (conns \ Persistent) \ L
  BY DEF Unloaded, Kept
<1>. QED
  BY <1>4, <1>5

\* No handler leaves a wire the engine has lost track of: one step per action.
LEMMA NextIInv == IInv /\ [Next]_vars => IInv'
<1>. SUFFICES ASSUME IInv, [Next]_vars PROVE IInv'
  OBVIOUS
<1>. USE DEF metaVars, editVars
<1>0. /\ conns \in SUBSET Conn /\ creating \in SUBSET Conn
      /\ eps \in [Comp -> Endpoint] /\ net \in Net /\ WiresSoundIn(net, conns)
  BY DEF IInv, WiresSound
<1>1. ASSUME fresh' \subseteq fresh, creating' \subseteq creating, conns' = conns, net' = net,
             eps' \in [Comp -> Endpoint]
      PROVE  IInv'
  BY <1>0, <1>1, IInvStep
<1>2. ASSUME NEW o \in Operators, NEW id, NEW k, NewOperator(o, id, k)
      PROVE  fresh' \subseteq fresh /\ eps' \in [Comp -> Endpoint]
  BY <1>0, <1>2 DEF NewOperator, Endpoint, Comp
<1>3. CASE \E w \in Widgets, k \in Metas : AddWidget(w, k)
  <2>1. eps' \in [Comp -> Endpoint]
    BY <1>0, <1>3 DEF AddWidget, Endpoint, Comp
  <2>. QED
    BY <1>0, <1>1, <1>3, <2>1 DEF AddWidget
<1>4. CASE \E w \in Widgets : RemoveWidget(w)
  <2>1. PICK w \in Widgets : RemoveWidget(w)
    BY <1>4
  <2>2. LeavingConns(net, {w}) \in SUBSET Conn
    BY <1>0 DEF LeavingConns
  <2>3. /\ FullDisconnect(net, {eps[w]}) \in Net
        /\ WiresSoundIn(FullDisconnect(net, {eps[w]}), conns)
    BY <1>0, FullDisconnectSound
  <2>4. net' \in Net /\ WiresSoundIn(net', conns')
    BY <1>0, <2>1, <2>2, <2>3, DetachSound DEF RemoveWidget
  <2>. QED
    BY <1>0, <2>1, <2>4, IInvStep DEF RemoveWidget
<1>5. CASE \E o \in Operators, k \in Metas : CreateOperator(o, k)
  BY <1>1, <1>2, <1>5 DEF CreateOperator
<1>6. CASE \E o \in Operators : OperatorCreated(o)
  BY <1>0, <1>1, <1>6 DEF OperatorCreated
<1>7. CASE \E o \in Operators : OperatorRejected(o)
  BY <1>0, <1>1, <1>7 DEF OperatorRejected
<1>8. CASE \E o \in Operators, x \in Comp, k \in Metas : CreateVolatileOperator(o, x, k)
  BY <1>1, <1>2, <1>8 DEF CreateVolatileOperator
<1>9. CASE \E x \in Comp : UnloadComponent(x)
  BY <1>0, <1>1, <1>9 DEF UnloadComponent
<1>10. CASE \E o \in Operators : RemoveOperator(o)
  <2>1. PICK o \in Operators : RemoveOperator(o)
    BY <1>10
  <2>. DEFINE n == FullDisconnect(net, {eps[o]})
              L == LeavingConns(net, {o})
  <2>2. L \in SUBSET Conn
    BY <1>0 DEF LeavingConns
  <2>3. n \in Net /\ WiresSoundIn(n, conns)
    BY <1>0, FullDisconnectSound
  <2>4. Detach(n, L) \in Net /\ WiresSoundIn(Detach(n, L), conns \ L)
    BY <1>0, <2>2, <2>3, DetachSound
  <2>5. \/ net' = n /\ conns' = conns
        \/ net' = Detach(n, L) /\ conns' = conns \ L
    BY <2>1 DEF RemoveOperator
  <2>. QED
    BY <1>0, <2>1, <2>3, <2>4, <2>5, IInvStep DEF RemoveOperator
<1>11. CASE \E x \in Comp, k \in Metas : ChangeMeta(x, k)
  <2>1. PICK x \in Comp, k \in Metas : ChangeMeta(x, k)
    BY <1>11
  <2>2. CASE k = "missing"
    BY <1>0, <2>1, <2>2, RebuildSound, IInvStep DEF ChangeMeta
  <2>3. CASE k # "missing"
    BY <1>0, <1>1, <2>1, <2>3 DEF ChangeMeta
  <2>. QED
    BY <2>2, <2>3
<1>12. CASE \E x \in Comp : MetaLoaded(x)
  BY <1>0, <1>12, RebuildSound, IInvStep DEF MetaLoaded
<1>13. CASE \E x \in Comp : MetaFailed(x)
  BY <1>0, <1>1, <1>13 DEF MetaFailed
<1>14. CASE \E c \in Conn, x, y \in Comp, shown \in BOOLEAN : CreateConnection(c, x, y, shown)
  <2>1. PICK c \in Conn, x \in Comp, y \in Comp, shown \in BOOLEAN :
          CreateConnection(c, x, y, shown)
    BY <1>14
  <2>2. /\ c \in fresh \cap Conn /\ fresh' = fresh \ {c} /\ eps' = eps
        /\ net' = Ends(c, x, y) /\ conns' = conns /\ creating' = creating \cup {c}
    BY <2>1 DEF CreateConnection, NewConnection
  <2>3. net' \in Net /\ WiresSoundIn(net', conns')
    BY <2>2, EndsFresh
  <2>. QED
    BY <2>2, <2>3 DEF IInv, WiresSound
<1>15. CASE \E c \in Conn : ConnectionCreated(c)
  <2>1. PICK c \in Conn : ConnectionCreated(c)
    BY <1>15
  <2>2. net' \in Net /\ WiresSoundIn(net', conns \cup {c})
    BY <1>0, <2>1, EstablishSound DEF ConnectionCreated
  <2>. QED
    BY <1>0, <2>1, <2>2, IInvStep DEF ConnectionCreated
<1>16. CASE \E c \in Conn : ConnectionRejected(c)
  BY <1>0, <1>1, <1>16 DEF ConnectionRejected
<1>17. CASE \E c \in Conn, x, y \in Comp : CreateVolatileConnection(c, x, y)
  <2>1. PICK c \in Conn, x \in Comp, y \in Comp : CreateVolatileConnection(c, x, y)
    BY <1>17
  <2>2. /\ c \in fresh \cap Conn /\ fresh' = fresh \ {c} /\ eps' = eps
        /\ net' \in EstablishAll(Ends(c, x, y), {c})
        /\ conns' = conns \cup {c} /\ creating' = creating
    BY <2>1 DEF CreateVolatileConnection, NewConnection
  <2>3. Ends(c, x, y) \in Net /\ WiresSoundIn(Ends(c, x, y), conns)
    BY <2>2, EndsFresh
  <2>4. net' \in Net /\ WiresSoundIn(net', conns')
    BY <1>0, <2>2, <2>3, EstablishSound
  <2>. QED
    BY <2>2, <2>4 DEF IInv, WiresSound
<1>18. CASE \E w \in net.wires : RemoveConnection(w)
  <2>1. PICK w \in net.wires : RemoveConnection(w)
    BY <1>18
  <2>2. w[3] \in Conn
    BY <1>0 DEF WiresSoundIn
  <2>3. net' \in Net /\ WiresSoundIn(net', conns')
    BY <1>0, <2>1, <2>2, DetachSound DEF RemoveConnection
  <2>. QED
    BY <1>0, <2>1, <2>3, IInvStep DEF RemoveConnection
<1>19. CASE OpenEditor
  BY <1>0, <1>1, <1>19 DEF OpenEditor
<1>20. ASSUME NEW keep, NEW C \in SUBSET conns, C \subseteq Showable(keep)
       PROVE  Kept(keep) \cup C \subseteq conns
  BY <1>20 DEF Kept, Showable, Persistent
<1>21. CASE \E keep \in SUBSET EditableIds, C \in SUBSET conns : CloseEditor(keep, C)
  <2>1. PICK keep \in SUBSET EditableIds, C \in SUBSET conns : CloseEditor(keep, C)
    BY <1>21
  <2>2. /\ conns' = Kept(keep) \cup C /\ conns' \subseteq conns
        /\ net' \in EstablishAll(Unloaded(keep), Kept(keep) \cup C)
        /\ fresh' = fresh /\ creating' = creating /\ eps' = eps
    BY <1>20, <2>1 DEF CloseEditor
  <2>3. Unloaded(keep) \in Net /\ WiresSoundIn(Unloaded(keep), Kept(keep))
    BY UnloadedSound
  <2>4. Kept(keep) \in SUBSET Conn /\ Kept(keep) \cup C \in SUBSET Conn
    BY <1>0, <2>2
  <2>5. net' \in Net /\ WiresSoundIn(net', Kept(keep) \cup (Kept(keep) \cup C))
    BY <2>2, <2>3, <2>4, EstablishSound
  <2>6. Kept(keep) \cup (Kept(keep) \cup C) = conns'
    BY <2>2
  <2>. QED
    BY <1>0, <2>2, <2>5, <2>6, IInvStep
<1>22. CASE \E keep \in SUBSET EditableIds, C \in SUBSET conns : CloseEditorInterrupted(keep, C)
  <2>1. PICK keep \in SUBSET EditableIds, C \in SUBSET conns : CloseEditorInterrupted(keep, C)
    BY <1>22
  <2>2. /\ conns' = Kept(keep) \cup C /\ conns' \subseteq conns
        /\ net' = Unloaded(keep)
        /\ fresh' = fresh /\ creating' = creating /\ eps' = eps
    BY <1>20, <2>1 DEF CloseEditorInterrupted
  <2>3. net' \in Net /\ WiresSoundIn(net', Kept(keep))
    BY <2>2, UnloadedSound
  <2>4. WiresSoundIn(net', conns')
    BY <2>2, <2>3, MonotoneSound
  <2>. QED
    BY <1>0, <2>2, <2>3, <2>4, IInvStep
<1>23. CASE UNCHANGED vars
  BY <1>0, <1>1, <1>23 DEF vars
<1>. QED
  BY <1>3, <1>4, <1>5, <1>6, <1>7, <1>8, <1>9, <1>10, <1>11, <1>12, <1>13, <1>14,
     <1>15, <1>16, <1>17, <1>18, <1>19, <1>21, <1>22, <1>23 DEF Next

\* For any number of components and connections: an event only ever travels
\* over a wire laid by a connection of the engine that still joins its two
\* endpoints, and never twice between the same two.
THEOREM WiresAlwaysSound == Spec => []WiresSound
<1>1. IInv => WiresSound
  BY DEF IInv
<1>. QED
  BY InitIInv, NextIInv, <1>1, PTL DEF Spec

-----------------------------------------------------------------------------
(* What splicing leaves of a list.  A least counterexample stands in for    *)
(* induction on the length of the list.                                    *)

LEMMA LeastOf ==
    ASSUME NEW S \in SUBSET Nat, S # {}
    PROVE  \E x \in S : \A y \in S : x <= y
<1>1. PICK x \in S : \A y \in S : ~ (<<y, x>> \in OpToRel(<, Nat))
  BY NatLessThanWellFounded, WFMin
<1>2. \A y \in S : ~(y < x)
  BY <1>1, Zenon DEF OpToRel
<1>3. \A y \in S : x <= y
  BY <1>2
<1>. QED
  BY <1>3

\* The list so far when its first n operators have been looked at.
Step(s, X, prev, n) ==
    IF n = 0 THEN <<>> ELSE IF s[n] \in X THEN prev ELSE Append(prev, s[n])
Splits(f, s, X, k) == f = [n \in 0..k |-> Step(s, X, f[n - 1], n)]

\* There is such a function, for every beginning of the list.
LEMMA LeftExists ==
    ASSUME NEW S, NEW s \in Seq(S), NEW X
    PROVE  \A k \in Nat : \E f : Splits(f, s, X, k)
<1>. DEFINE F(f, k) == Splits(f, s, X, k)
            B == {k \in Nat : ~ \E f : F(f, k)}
<1>. USE DEF Splits
<1>1. ASSUME B # {} PROVE FALSE
  <2>1. PICK k \in B : \A y \in B : k <= y
    BY <1>1, LeastOf
  <2>2. CASE k = 0
    <3>. DEFINE f == [n \in 0..k |-> <<>>]
    <3>1. F(f, k)
      BY <2>2 DEF Step
    <3>. QED
      BY <3>1
  <2>3. CASE k # 0
    <3>1. k - 1 \in Nat /\ k - 1 \notin B
      BY <2>1, <2>3
    <3>2. PICK f : F(f, k - 1)
      BY <3>1
    <3>. DEFINE g == [n \in 0..k |-> IF n = k THEN Step(s, X, f[k - 1], k) ELSE f[n]]
    <3>3. ASSUME NEW n \in 0..k PROVE g[n] = Step(s, X, g[n - 1], n)
      <4>0. k \in Nat
        OBVIOUS
      <4>1. CASE n = k
        <5>1. k - 1 \in 0..k /\ k - 1 # k
          BY <2>3, <4>0
        <5>2. g[n - 1] = f[k - 1]
          BY <4>1, <5>1
        <5>3. g[n] = Step(s, X, f[k - 1], k)
          BY <4>1
        <5>. QED
          BY <4>1, <5>2, <5>3
      <4>2. CASE n # k /\ n = 0
        BY <3>2, <4>0, <4>2 DEF Step
      <4>3. CASE n # k /\ n # 0
        <5>1. n \in 0..(k - 1) /\ n - 1 \in 0..k /\ n - 1 # k
          BY <4>0, <4>3
        <5>2. g[n] = f[n] /\ g[n - 1] = f[n - 1]
          BY <4>3, <5>1
        <5>3. f[n] = Step(s, X, f[n - 1], n)
          BY <3>2, <5>1
        <5>. QED
          BY <5>2, <5>3
      <4>. QED
        BY <4>1, <4>2, <4>3
    <3>4. F(g, k)
      <4>1. g = [n \in 0..k |-> g[n]]
        OBVIOUS
      <4>. HIDE DEF g
      <4>. QED
        BY <3>3, <4>1
    <3>. QED
      BY <3>4
  <2>. QED
    BY <2>2, <2>3
<1>. QED
  BY <1>1

Elements(s) == {s[i] : i \in DOMAIN s}

LEMMA AppendElements ==
    ASSUME NEW S, NEW s \in Seq(S), NEW e \in S
    PROVE  Append(s, e) \in Seq(S) /\ Elements(Append(s, e)) = Elements(s) \cup {e}
<1>1. Append(s, e) \in Seq(S) /\ Len(Append(s, e)) = Len(s) + 1 /\ Len(s) \in Nat
  OBVIOUS
<1>2. \A i \in 1..Len(s) : Append(s, e)[i] = s[i]
  OBVIOUS
<1>3. Append(s, e)[Len(s) + 1] = e
  OBVIOUS
<1>4. DOMAIN s = 1..Len(s) /\ DOMAIN Append(s, e) = 1..(Len(s) + 1)
  BY <1>1
<1>5. ASSUME NEW x PROVE x \in Elements(Append(s, e)) <=> x \in Elements(s) \cup {e}
  <2>1. x \in Elements(Append(s, e)) <=> \E i \in 1..(Len(s) + 1) : x = Append(s, e)[i]
    BY <1>4 DEF Elements
  <2>2. x \in Elements(s) <=> \E i \in 1..Len(s) : x = s[i]
    BY <1>4 DEF Elements
  <2>3. \A i : i \in 1..(Len(s) + 1) <=> i \in 1..Len(s) \/ i = Len(s) + 1
    BY <1>1
  <2>. QED
    BY <1>2, <1>3, <2>1, <2>2, <2>3
<1>. QED
  BY <1>1, <1>5

LEMMA WithoutProperties ==
    ASSUME NEW S, NEW s \in Seq(S), NEW X
    PROVE  Without(s, X) \in Seq(S) /\ Elements(Without(s, X)) = Elements(s) \ X
<1>. DEFINE left == CHOOSE f : f = [n \in 0..Len(s) |-> IF n = 0 THEN <<>>
                                  ELSE IF s[n] \in X THEN f[n - 1] ELSE Append(f[n - 1], s[n])]
<1>0. Len(s) \in Nat
  OBVIOUS
<1>1. Without(s, X) = left[Len(s)]
  BY DEF Without
<1>2. left = [n \in 0..Len(s) |-> Step(s, X, left[n - 1], n)]
  <2>0. \E f : Splits(f, s, X, Len(s))
    BY <1>0, LeftExists
  <2>1. \E f : f = [n \in 0..Len(s) |-> IF n = 0 THEN <<>>
                                 ELSE IF s[n] \in X THEN f[n - 1] ELSE Append(f[n - 1], s[n])]
    BY <2>0, Zenon DEF Splits, Step
  <2>2. left = [n \in 0..Len(s) |-> IF n = 0 THEN <<>>
                                 ELSE IF s[n] \in X THEN left[n - 1] ELSE Append(left[n - 1], s[n])]
    BY <2>1
  <2>. QED
    BY <2>2 DEF Step
<1>. HIDE DEF left
<1>. DEFINE P(k) == /\ left[k] \in Seq(S)
                    /\ Elements(left[k]) = {s[i] : i \in 1..k} \ X
            B == {k \in 0..Len(s) : ~P(k)}
<1>3. \A k \in 0..Len(s) : left[k] = Step(s, X, left[k - 1], k)
  BY <1>2
<1>4. P(0)
  <2>1. left[0] = <<>>
    BY <1>0, <1>3 DEF Step
  <2>2. Elements(<<>>) = {} /\ {s[i] : i \in 1..0} = {}
    BY DEF Elements
  <2>. QED
    BY <2>1, <2>2
<1>5. ASSUME NEW k \in 1..Len(s), P(k - 1) PROVE P(k)
  <2>. DEFINE q == left[k - 1]
  <2>1. k \in 0..Len(s) /\ k # 0
    BY <1>0
  <2>2. q \in Seq(S) /\ Elements(q) = {s[i] : i \in 1..(k - 1)} \ X
    BY <1>5
  <2>3. left[k] = IF s[k] \in X THEN q ELSE Append(q, s[k])
    BY <1>3, <2>1 DEF Step
  <2>4. {s[i] : i \in 1..k} = {s[i] : i \in 1..(k - 1)} \cup {s[k]}
    <3>1. \A i : i \in 1..k <=> i \in 1..(k - 1) \/ i = k
      BY <1>0
    <3>. QED
      BY <3>1
  <2>5. s[k] \in S
    OBVIOUS
  <2>. HIDE DEF q
  <2>6. CASE s[k] \in X
    BY <2>2, <2>3, <2>4, <2>6
  <2>7. CASE s[k] \notin X
    <3>1. Append(q, s[k]) \in Seq(S) /\ Elements(Append(q, s[k])) = Elements(q) \cup {s[k]}
      BY <2>2, <2>5, AppendElements
    <3>. QED
      BY <2>2, <2>3, <2>4, <2>7, <3>1
  <2>. QED
    BY <2>6, <2>7
<1>. HIDE DEF P
<1>6. ASSUME B # {} PROVE FALSE
  <2>1. B \in SUBSET Nat
    BY <1>0
  <2>2. PICK k \in B : \A y \in B : k <= y
    <3>. HIDE DEF B
    <3>. QED
      BY <1>6, <2>1, LeastOf
  <2>3. k # 0 /\ k \in 0..Len(s) /\ ~P(k)
    BY <1>4
  <2>4. k \in 1..Len(s) /\ k - 1 \in 0..Len(s) /\ ~(k <= k - 1)
    BY <1>0, <2>3
  <2>5. P(k - 1)
    BY <2>2, <2>4
  <2>. QED
    BY <1>5, <2>3, <2>4, <2>5
<1>7. P(Len(s))
  <2>1. Len(s) \in 0..Len(s)
    BY <1>0
  <2>. QED
    BY <1>6, <2>1
<1>8. {s[i] : i \in 1..Len(s)} = Elements(s)
  BY DEF Elements
<1>. QED
  BY <1>1, <1>7, <1>8 DEF P

-----------------------------------------------------------------------------
(* Types: ids are never empty, so that their number can be read, and an      *)
(* object in use is not created again.                                      *)

OperatorsTyped ==
    /\ ops \in Seq(Operators)
    /\ DOMAIN byId \subseteq Id /\ \A i \in DOMAIN byId : byId[i] \in Operators
    /\ opId \in [Operators -> Id] /\ \A o \in Operators : opId[o] # <<>>
    /\ maker \in [Operators -> Comp \cup {NoComp}]
    /\ deaf \subseteq volatiles
    /\ nextId \in Nat
    /\ opReqs \subseteq Operators

OthersTyped ==
    /\ fresh \subseteq Widgets \cup Operators \cup Conn
    /\ widgets \subseteq Widgets
    /\ meta \in [Comp -> MetaKinds]
    /\ fetching \in [Comp -> Nat]
    /\ drawn \subseteq creating
    /\ editor \in {"closed", "open", "interrupted"}

InUse == widgets \cup Elements(ops) \cup opReqs \subseteq Comp \ fresh

TypeInv == IInv /\ OperatorsTyped /\ OthersTyped /\ InUse

LEMMA TypeInvTypes == TypeInv => TypeOK
BY DEF TypeInv, TypeOK, OperatorsTyped, OthersTyped, IInv

LEMMA LiveElements == Live = widgets \cup Elements(ops)
BY DEF Live, Elements

LEMMA CompTypes == Operators \subseteq Comp /\ Widgets \subseteq Comp /\ NoComp \notin Comp
BY ConstantsAssumption DEF Comp

LEMMA NewId ==
    ASSUME NEW n \in Nat
    PROVE  /\ <<n>> \in Id /\ <<n>> # <<>>
           /\ \A i \in Id : Append(i, n) \in Id /\ Append(i, n) # <<>>
           /\ \A w \in Widgets : <<w>> \in Id
BY DEF Id

\* What unloading components leaves of the listeners.
LEMMA UnloadTyped ==
    ASSUME OperatorsTyped, NEW X \in SUBSET Comp, Unload(X)
    PROVE  deaf' \subseteq volatiles
BY CompTypes DEF OperatorsTyped, Unload, volatiles

\* The operators as they were, but for their listeners.
LEMMA OperatorsStay ==
    ASSUME OperatorsTyped, UNCHANGED <<ops, byId, opId, maker, nextId>>,
           opReqs' \subseteq opReqs, deaf' \subseteq volatiles
    PROVE  OperatorsTyped'
BY DEF OperatorsTyped, volatiles

LEMMA OthersStay ==
    ASSUME OthersTyped, fresh' \subseteq fresh, widgets' \subseteq widgets,
           UNCHANGED <<meta, fetching>>, drawn' \subseteq creating', editor' \in {"closed", "open", "interrupted"}
    PROVE  OthersTyped'
BY DEF OthersTyped

LEMMA InUseStays ==
    ASSUME InUse, fresh' \subseteq fresh, widgets' \subseteq widgets,
           Elements(ops') \subseteq Elements(ops) \cup opReqs, opReqs' \subseteq opReqs
    PROVE  InUse'
BY DEF InUse

LEMMA AppendOperatorTyped ==
    ASSUME OperatorsTyped, NEW o \in Operators, NEW id \in Id, AppendOperator(o, id)
    PROVE  /\ ops' \in Seq(Operators) /\ Elements(ops') = Elements(ops) \cup {o}
           /\ DOMAIN byId' \subseteq Id /\ \A i \in DOMAIN byId' : byId'[i] \in Operators
<1>1. ops' = Append(ops, o) /\ ops \in Seq(Operators)
  BY DEF AppendOperator, OperatorsTyped
<1>2. ops' \in Seq(Operators) /\ Elements(ops') = Elements(ops) \cup {o}
  BY <1>1, AppendElements
<1>3. DOMAIN byId' \subseteq Id /\ \A i \in DOMAIN byId' : byId'[i] \in Operators
  BY DEF AppendOperator, OperatorsTyped
<1>. QED
  BY <1>2, <1>3

LEMMA NewOperatorTyped ==
    ASSUME TypeInv, NEW o \in Operators, NEW k \in Metas, NEW id \in Id, id # <<>>, NewOperator(o, id, k)
    PROVE  /\ fresh' \subseteq fresh /\ o \in fresh /\ o \notin fresh' /\ fresh' = fresh \ {o}
           /\ opId' \in [Operators -> Id] /\ \A p \in Operators : opId'[p] # <<>>
           /\ nextId' \in Nat /\ meta' \in [Comp -> MetaKinds]
<1>1. opId' = [opId EXCEPT ![o] = id] /\ meta' = [meta EXCEPT ![o] = k]
  BY DEF NewOperator
<1>2. opId' \in [Operators -> Id] /\ \A p \in Operators : opId'[p] # <<>>
  BY <1>1 DEF TypeInv, OperatorsTyped
<1>3. meta' \in [Comp -> MetaKinds]
  BY <1>1, ConstantsAssumption DEF TypeInv, OthersTyped
<1>. QED
  BY <1>2, <1>3 DEF NewOperator, TypeInv, OperatorsTyped

LEMMA CreateOperatorTyped ==
    ASSUME TypeInv, IInv', NEW o \in Operators, NEW k \in Metas, CreateOperator(o, k)
    PROVE  TypeInv'
<1>1. <<nextId>> \in Id /\ <<nextId>> # <<>>
  BY NewId DEF TypeInv, OperatorsTyped
<1>2. /\ NewOperator(o, <<nextId>>, k) /\ opReqs' = opReqs \cup {o}
      /\ UNCHANGED <<widgets, ops, byId, maker, deaf, fetching, conns, net, creating, editVars>>
  BY DEF CreateOperator, editVars
<1>3. /\ fresh' = fresh \ {o} /\ opId' \in [Operators -> Id] /\ \A p \in Operators : opId'[p] # <<>>
      /\ nextId' \in Nat /\ meta' \in [Comp -> MetaKinds]
  BY <1>1, <1>2, NewOperatorTyped
<1>4. OperatorsTyped'
  BY <1>2, <1>3 DEF TypeInv, OperatorsTyped, volatiles
<1>5. OthersTyped'
  BY <1>2, <1>3 DEF TypeInv, OthersTyped, editVars
<1>6. InUse'
  BY <1>2, <1>3, CompTypes DEF TypeInv, InUse
<1>. QED
  BY <1>4, <1>5, <1>6 DEF TypeInv

LEMMA OperatorCreatedTyped ==
    ASSUME TypeInv, IInv', NEW o \in Operators, OperatorCreated(o)
    PROVE  TypeInv'
<1>1. /\ AppendOperator(o, opId[o]) /\ o \in opReqs /\ opReqs' = opReqs \ {o}
      /\ UNCHANGED <<fresh, widgets, opId, maker, deaf, nextId, meta, fetching, creating, drawn, editor>>
  BY DEF OperatorCreated, metaVars, editVars
<1>2. /\ ops' \in Seq(Operators) /\ Elements(ops') = Elements(ops) \cup {o}
      /\ DOMAIN byId' \subseteq Id /\ \A i \in DOMAIN byId' : byId'[i] \in Operators
  <2>1. opId[o] \in Id /\ OperatorsTyped
    BY DEF TypeInv, OperatorsTyped
  <2>. QED
    BY <1>1, <2>1, AppendOperatorTyped
<1>3. OperatorsTyped'
  BY <1>1, <1>2 DEF TypeInv, OperatorsTyped, volatiles
<1>4. OthersTyped'
  BY <1>1, OthersStay DEF TypeInv, OthersTyped
<1>5. InUse'
  BY <1>1, <1>2, InUseStays DEF TypeInv
<1>. QED
  BY <1>3, <1>4, <1>5 DEF TypeInv

LEMMA CreateVolatileOperatorTyped ==
    ASSUME TypeInv, IInv', NEW o \in Operators, NEW x \in Comp, NEW k \in Metas, CreateVolatileOperator(o, x, k)
    PROVE  TypeInv'
<1>. DEFINE made == {p \in Operators : maker[p] = x} \ deaf
            id == Append(IdOf(x), Cardinality(made) + 1)
<1>1. /\ NewOperator(o, id, k) /\ AppendOperator(o, id) /\ maker' = [maker EXCEPT ![o] = x]
      /\ UNCHANGED <<widgets, deaf, opReqs, fetching, conns, net, creating, editVars>>
  BY DEF CreateVolatileOperator
<1>2. Cardinality(made) + 1 \in Nat
  <2>1. IsFiniteSet(made)
    BY FS_Subset, ConstantsAssumption
  <2>. HIDE DEF made
  <2>. QED
    BY <2>1, FS_CardinalityType
<1>3. IdOf(x) \in Id
  <2>1. CASE x \in Widgets
    <3>1. <<x>> \in Id
      BY <2>1, NewId
    <3>. QED
      BY <2>1, <3>1 DEF IdOf
  <2>2. CASE x \notin Widgets
    BY <2>2 DEF IdOf, Comp, TypeInv, OperatorsTyped
  <2>. QED
    BY <2>1, <2>2
<1>4. id \in Id /\ id # <<>>
  <2>. HIDE DEF made
  <2>. QED
    BY <1>2, <1>3, NewId
<1>. HIDE DEF id
<1>5. /\ fresh' = fresh \ {o} /\ opId' \in [Operators -> Id] /\ \A p \in Operators : opId'[p] # <<>>
      /\ nextId' \in Nat /\ meta' \in [Comp -> MetaKinds]
  BY <1>1, <1>4, NewOperatorTyped
<1>6. /\ ops' \in Seq(Operators) /\ Elements(ops') = Elements(ops) \cup {o}
      /\ DOMAIN byId' \subseteq Id /\ \A i \in DOMAIN byId' : byId'[i] \in Operators
  <2>1. OperatorsTyped
    BY DEF TypeInv
  <2>. QED
    BY <1>1, <1>4, <2>1, AppendOperatorTyped
<1>7. maker' \in [Operators -> Comp \cup {NoComp}] /\ volatiles \subseteq volatiles'
  BY <1>1, CompTypes DEF TypeInv, OperatorsTyped, volatiles
<1>8. OperatorsTyped'
  BY <1>1, <1>5, <1>6, <1>7 DEF TypeInv, OperatorsTyped
<1>9. OthersTyped'
  BY <1>1, <1>5 DEF TypeInv, OthersTyped, editVars
<1>10. InUse'
  BY <1>1, <1>5, <1>6, CompTypes DEF TypeInv, InUse
<1>. QED
  BY <1>8, <1>9, <1>10 DEF TypeInv

\* The operators of the list are removed or kept, none added.
LEMMA LoadOperatorsTyped ==
    ASSUME TypeInv, NEW keep, LoadOperators(keep), UNCHANGED <<opId, maker, opReqs>>
    PROVE  OperatorsTyped' /\ Elements(ops') = Elements(ops) \ Unregistered(keep)
<1>. DEFINE gone == Unregistered(keep)
            left == Without(ops, gone)
            index == {opId[o] : o \in gone}
<1>1. /\ ops' = left
      /\ byId' = [i \in DOMAIN byId \ index |-> byId[i]]
      /\ nextId' = IF left = <<>> THEN 1 ELSE ParseInt(opId[left[Len(left)]]) + 1
      /\ Unload({ops[i] : i \in Gone(keep)})
  BY DEF LoadOperators
<1>2. left \in Seq(Operators) /\ Elements(left) = Elements(ops) \ gone
  BY WithoutProperties DEF TypeInv, OperatorsTyped
<1>. HIDE DEF left, gone, index
<1>3. nextId' \in Nat
  <2>1. CASE left = <<>>
    BY <1>1, <2>1
  <2>2. CASE left # <<>>
    <3>. DEFINE o == left[Len(left)]
    <3>1. o \in Operators
      BY <1>2, <2>2
    <3>. HIDE DEF o
    <3>2. opId[o] \in Seq(Nat \cup Widgets) /\ opId[o] # <<>>
      BY <3>1 DEF TypeInv, OperatorsTyped, Id
    <3>3. Head(opId[o]) \in Nat \cup Widgets
      BY <3>2
    <3>4. ParseInt(opId[o]) \in Nat
      BY <3>3, ConstantsAssumption DEF ParseInt
    <3>. QED
      BY <1>1, <2>2, <3>4 DEF o
  <2>. QED
    BY <2>1, <2>2
<1>4. deaf' \subseteq volatiles
  <2>1. {ops[i] : i \in Gone(keep)} \subseteq Comp
    BY CompTypes DEF Gone, TypeInv, OperatorsTyped
  <2>. QED
    BY <1>1, <2>1, UnloadTyped DEF TypeInv
<1>5. DOMAIN byId' \subseteq Id /\ \A i \in DOMAIN byId' : byId'[i] \in Operators
  BY <1>1 DEF TypeInv, OperatorsTyped
<1>6. OperatorsTyped'
  BY <1>1, <1>2, <1>3, <1>4, <1>5 DEF TypeInv, OperatorsTyped, volatiles
<1>. QED
  BY <1>1, <1>2, <1>6 DEF gone

LEMMA RemoveOperatorTyped ==
    ASSUME TypeInv, IInv', NEW o \in Operators, RemoveOperator(o)
    PROVE  TypeInv' /\ (ops' = ops \/ Elements(ops') = Elements(ops) \ {o})
<1>1. /\ Unload({o}) /\ UNCHANGED <<fresh, widgets, opId, maker, nextId, opReqs, meta, fetching, creating, drawn, editor>>
      /\ \/ /\ ops' = Without(ops, {o})
            /\ byId' = [i \in DOMAIN byId \ {opId[o]} |-> byId[i]]
         \/ ops' = ops /\ byId' = byId
  BY DEF RemoveOperator, metaVars, editVars
<1>2. /\ Without(ops, {o}) \in Seq(Operators)
      /\ Elements(Without(ops, {o})) = Elements(ops) \ {o}
  BY WithoutProperties DEF TypeInv, OperatorsTyped
<1>3. deaf' \subseteq volatiles
  BY <1>1, CompTypes, UnloadTyped DEF TypeInv
<1>4. OperatorsTyped'
  BY <1>1, <1>2, <1>3 DEF TypeInv, OperatorsTyped, volatiles
<1>5. OthersTyped'
  BY <1>1, OthersStay DEF TypeInv, OthersTyped
<1>6. InUse'
  BY <1>1, <1>2, InUseStays DEF TypeInv
<1>. QED
  BY <1>1, <1>2, <1>4, <1>5, <1>6 DEF TypeInv

\* A version change only unloads the component.
LEMMA VersionTyped ==
    ASSUME TypeInv, IInv', NEW x \in Comp, Unload({x}) \/ deaf' = deaf,
           UNCHANGED <<fresh, widgets, ops, byId, opId, maker, nextId, opReqs, creating, editVars>>,
           meta' \in [Comp -> MetaKinds], fetching' \in [Comp -> Nat]
    PROVE  TypeInv'
<1>1. deaf' \subseteq volatiles
  BY UnloadTyped DEF TypeInv, OperatorsTyped
<1>2. OperatorsTyped' /\ InUse'
  BY <1>1, OperatorsStay, InUseStays DEF TypeInv
<1>3. OthersTyped'
  BY DEF TypeInv, OthersTyped, editVars
<1>. QED
  BY <1>2, <1>3 DEF TypeInv

LEMMA EditorTyped ==
    ASSUME TypeInv, IInv', NEW keep, LoadOperators(keep), editor' \in {"closed", "open", "interrupted"},
           UNCHANGED <<fresh, widgets, opId, maker, opReqs, metaVars, creating, drawn>>
    PROVE  TypeInv'
<1>1. OperatorsTyped' /\ Elements(ops') \subseteq Elements(ops)
  BY LoadOperatorsTyped
<1>2. InUse'
  BY <1>1, InUseStays DEF TypeInv
<1>3. OthersTyped'
  BY OthersStay DEF TypeInv, OthersTyped, metaVars
<1>. QED
  BY <1>1, <1>2, <1>3 DEF TypeInv

LEMMA NextTypeInv == TypeInv /\ [Next]_vars => TypeInv'
<1>. SUFFICES ASSUME TypeInv, [Next]_vars PROVE TypeInv'
  OBVIOUS
<1>0. IInv' /\ OperatorsTyped /\ OthersTyped /\ InUse
  BY NextIInv DEF TypeInv
<1>1. ASSUME UNCHANGED <<ops, byId, opId, maker, deaf, nextId>>, opReqs' \subseteq opReqs,
             fresh' \subseteq fresh, widgets' \subseteq widgets,
             meta' = meta, fetching' \in [Comp -> Nat], drawn' \subseteq creating',
             editor' \in {"closed", "open", "interrupted"}
      PROVE  TypeInv'
  <2>1. deaf' \subseteq volatiles
    BY <1>0, <1>1 DEF OperatorsTyped
  <2>2. OperatorsTyped' /\ InUse'
    BY <1>0, <1>1, <2>1, OperatorsStay, InUseStays
  <2>3. OthersTyped'
    BY <1>0, <1>1 DEF OthersTyped
  <2>. QED
    BY <1>0, <2>2, <2>3 DEF TypeInv
<1>2. fetching \in [Comp -> Nat] /\ meta \in [Comp -> MetaKinds] /\ Metas \subseteq MetaKinds
      /\ drawn \subseteq creating /\ editor \in {"closed", "open", "interrupted"}
  BY <1>0, ConstantsAssumption DEF OthersTyped
<1>3. ASSUME NEW w \in Widgets, NEW k \in Metas, AddWidget(w, k) PROVE TypeInv'
  <2>1. /\ w \in fresh /\ fresh' = fresh \ {w} /\ widgets' = widgets \cup {w}
        /\ meta' = [meta EXCEPT ![w] = k]
        /\ UNCHANGED <<ops, byId, opId, maker, deaf, nextId, opReqs, fetching, creating, drawn, editor>>
    BY <1>3 DEF AddWidget, opVars, editVars
  <2>2. OperatorsTyped'
    BY <1>0, <2>1 DEF OperatorsTyped, volatiles
  <2>3. meta' \in [Comp -> MetaKinds]
    BY <1>2, <2>1
  <2>4. OthersTyped'
    BY <1>0, <1>2, <2>1, <2>3 DEF OthersTyped
  <2>5. Elements(ops) \subseteq Operators
    BY <1>0 DEF OperatorsTyped, Elements
  <2>6. InUse'
    BY <1>0, <2>1, <2>5, ConstantsAssumption DEF InUse, OperatorsTyped, Comp
  <2>. QED
    BY <1>0, <2>2, <2>4, <2>6 DEF TypeInv
<1>4. ASSUME NEW w \in Widgets, RemoveWidget(w) PROVE TypeInv'
  <2>1. /\ Unload({w}) /\ widgets' = widgets \ {w}
        /\ UNCHANGED <<fresh, ops, byId, opId, maker, nextId, opReqs, meta, fetching, creating, drawn, editor>>
    BY <1>4 DEF RemoveWidget, metaVars, editVars
  <2>2. deaf' \subseteq volatiles
    BY <1>0, <2>1, CompTypes, UnloadTyped
  <2>3. OperatorsTyped' /\ InUse'
    BY <1>0, <2>1, <2>2, OperatorsStay, InUseStays
  <2>4. OthersTyped'
    BY <1>0, <2>1, OthersStay DEF OthersTyped
  <2>. QED
    BY <1>0, <2>3, <2>4 DEF TypeInv
<1>5. ASSUME NEW o \in Operators, OperatorRejected(o) PROVE TypeInv'
  BY <1>1, <1>2, <1>5 DEF OperatorRejected, metaVars, editVars
<1>6. ASSUME NEW x \in Comp, UnloadComponent(x) PROVE TypeInv'
  BY <1>0, <1>2, <1>6, VersionTyped DEF UnloadComponent, metaVars
<1>7. ASSUME NEW x \in Comp, NEW k \in Metas, ChangeMeta(x, k) PROVE TypeInv'
  <2>1. meta' \in [Comp -> MetaKinds] /\ fetching' \in [Comp -> Nat]
    BY <1>2, <1>7 DEF ChangeMeta
  <2>2. Unload({x}) \/ deaf' = deaf
    BY <1>7 DEF ChangeMeta, Rebuild
  <2>. QED
    BY <1>0, <1>7, <2>1, <2>2, VersionTyped DEF ChangeMeta
<1>8. ASSUME NEW x \in Comp, MetaLoaded(x) PROVE TypeInv'
  <2>1. fetching' \in [Comp -> Nat] /\ Unload({x}) /\ meta' = meta
    BY <1>2, <1>8 DEF MetaLoaded, Rebuild
  <2>. QED
    BY <1>0, <1>2, <1>8, <2>1, VersionTyped DEF MetaLoaded
<1>9. ASSUME NEW x \in Comp, MetaFailed(x) PROVE TypeInv'
  <2>1. fetching' \in [Comp -> Nat]
    BY <1>2, <1>9 DEF MetaFailed
  <2>. QED
    BY <1>1, <1>2, <1>9, <2>1 DEF MetaFailed, opVars, editVars
<1>10. ASSUME NEW c \in Conn, NEW x \in Comp, NEW y \in Comp, NEW shown \in BOOLEAN, CreateConnection(c, x, y, shown)
       PROVE  TypeInv'
  BY <1>1, <1>2, <1>10 DEF CreateConnection, NewConnection, opVars, metaVars
<1>11. ASSUME NEW c \in Conn, ConnectionCreated(c) \/ ConnectionRejected(c) PROVE TypeInv'
  BY <1>1, <1>2, <1>11 DEF ConnectionCreated, ConnectionRejected, opVars, metaVars
<1>12. ASSUME NEW c \in Conn, NEW x \in Comp, NEW y \in Comp, CreateVolatileConnection(c, x, y) PROVE TypeInv'
  BY <1>1, <1>2, <1>12 DEF CreateVolatileConnection, NewConnection, opVars, metaVars
<1>13. ASSUME NEW w \in net.wires, RemoveConnection(w) PROVE TypeInv'
  BY <1>1, <1>2, <1>13 DEF RemoveConnection, opVars, metaVars, editVars
<1>14. CASE OpenEditor
  BY <1>1, <1>2, <1>14 DEF OpenEditor, opVars, metaVars
<1>15. ASSUME NEW keep \in SUBSET EditableIds, NEW C \in SUBSET conns, CloseEditor(keep, C) \/ CloseEditorInterrupted(keep, C)
       PROVE  TypeInv'
  BY <1>0, <1>15, EditorTyped DEF CloseEditor, CloseEditorInterrupted
<1>16. CASE UNCHANGED vars
  BY <1>1, <1>2, <1>16 DEF vars
<1>. QED
  BY <1>0, <1>3, <1>4, <1>5, <1>6, <1>7, <1>8, <1>9, <1>10, <1>11, <1>12, <1>13, <1>14, <1>15, <1>16,
     CreateOperatorTyped, OperatorCreatedTyped, CreateVolatileOperatorTyped, RemoveOperatorTyped DEF Next

LEMMA InitTypeInv == Init => TypeInv
<1>. SUFFICES ASSUME Init PROVE TypeInv
  OBVIOUS
<1>1. /\ fresh = Widgets \cup Operators \cup Conn /\ widgets = {} /\ ops = <<>>
      /\ byId = [i \in {} |-> NoComp] /\ opId = [o \in Operators |-> <<0>>]
      /\ maker = [o \in Operators |-> NoComp] /\ deaf = {} /\ nextId = 1 /\ opReqs = {}
      /\ meta = [x \in Comp |-> "missing"] /\ fetching = [x \in Comp |-> 0]
      /\ creating = {} /\ drawn = {} /\ editor = "closed"
  BY DEF Init
<1>2. <<0>> \in Id
  BY NewId
<1>3. OperatorsTyped
  BY <1>1, <1>2 DEF OperatorsTyped
<1>4. OthersTyped
  BY <1>1 DEF OthersTyped, MetaKinds
<1>5. InUse
  BY <1>1 DEF InUse, Elements
<1>. QED
  BY <1>3, <1>4, <1>5, InitIInv DEF TypeInv

\* The engine's lists, ids, versions and requests keep their types: ids are
\* made of numbers and of the widgets that create operators, and only volatile
\* operators lose their listeners.
THEOREM EngineAlwaysTyped == Spec => []TypeOK
BY InitTypeInv, NextTypeInv, TypeInvTypes, PTL DEF Spec

-----------------------------------------------------------------------------
(* Connections that count themselves established have their wire.           *)

DuplicatedIn(n, c) ==
    \E d \in Conn \ {c} : n.source[d].comp = n.source[c].comp /\ n.target[d].comp = n.target[c].comp

WiredIn(n) == \A c \in Conn : n.est[c] => WireOf(n, c) \in n.wires \/ DuplicatedIn(n, c)

SameEnds(n, m) == n.source = m.source /\ n.target = m.target

LEMMA WireOfFields ==
    ASSUME NEW n, NEW c
    PROVE  WireOf(n, c)[1] = n.source[c] /\ WireOf(n, c)[2] = n.target[c] /\ WireOf(n, c)[3] = c
BY DEF WireOf

\* Whatever wires are taken down, the connections that laid them know.
LEMMA DisconnectWired ==
    ASSUME NEW n \in Net, NEW W \in SUBSET n.wires
    PROVE  LET m == Disconnect(n, W)
           IN  /\ m \in Net /\ SameEnds(n, m) /\ m.wires = n.wires \ W
               /\ \A c \in Conn : m.est[c] <=> n.est[c] /\ \A w \in W : w[3] # c
               /\ WiredIn(n) => WiredIn(m)
<1>. DEFINE m == Disconnect(n, W)
<1>1. /\ m.source = n.source /\ m.target = n.target
      /\ m.wires = n.wires \ W
      /\ m.est = [c \in Conn |-> n.est[c] /\ \A w \in W : w[3] # c]
      /\ m \in Net
  BY DEF Disconnect, Net
<1>. HIDE DEF m
<1>2. \A c \in Conn : m.est[c] <=> n.est[c] /\ \A w \in W : w[3] # c
  BY <1>1
<1>3. \A c \in Conn : WireOf(m, c) = WireOf(n, c) /\ DuplicatedIn(m, c) = DuplicatedIn(n, c)
  BY <1>1 DEF WireOf, DuplicatedIn
<1>4. ASSUME WiredIn(n), NEW c \in Conn, m.est[c] PROVE WireOf(m, c) \in m.wires \/ DuplicatedIn(m, c)
  <2>1. n.est[c] /\ WireOf(n, c) \notin W
    BY <1>2, <1>4, WireOfFields
  <2>. QED
    BY <1>1, <1>3, <1>4, <2>1 DEF WiredIn
<1>5. WiredIn(n) => WiredIn(m)
  BY <1>4 DEF WiredIn
<1>. QED
  BY <1>1, <1>2, <1>5 DEF SameEnds, m

LEMMA FullDisconnectWired ==
    ASSUME NEW n \in Net, NEW E
    PROVE  LET m == FullDisconnect(n, E)
           IN  /\ m \in Net /\ SameEnds(n, m)
               /\ \A c \in Conn : m.est[c] => n.est[c]
               /\ WiredIn(n) => WiredIn(m)
               /\ \A K \in SUBSET Conn : WiresSoundIn(n, K) =>
                     \A c \in Conn : n.est[c] /\ ~m.est[c] => n.source[c] \in E \/ n.target[c] \in E
<1>. DEFINE W == {w \in n.wires : w[1] \in E \/ w[2] \in E}
            m == FullDisconnect(n, E)
<1>1. m = Disconnect(n, W) /\ W \in SUBSET n.wires
  BY DEF FullDisconnect
<1>2. /\ m \in Net /\ SameEnds(n, m)
      /\ WiredIn(n) => WiredIn(m)
      /\ \A c \in Conn : m.est[c] <=> n.est[c] /\ \A w \in W : w[3] # c
  BY <1>1, DisconnectWired
<1>. HIDE DEF m
<1>3. ASSUME NEW K \in SUBSET Conn, WiresSoundIn(n, K), NEW c \in Conn, n.est[c], ~m.est[c]
      PROVE  n.source[c] \in E \/ n.target[c] \in E
  <2>1. PICK w \in W : w[3] = c
    BY <1>2, <1>3
  <2>2. w = WireOf(n, c) /\ (w[1] \in E \/ w[2] \in E)
    BY <1>3, <2>1 DEF WiresSoundIn
  <2>. QED
    BY <2>2, WireOfFields
<1>. QED
  BY <1>2, <1>3 DEF m

LEMMA DetachWired ==
    ASSUME NEW n \in Net, NEW C \in SUBSET Conn
    PROVE  LET m == Detach(n, C)
           IN  /\ m \in Net /\ SameEnds(n, m)
               /\ \A c \in Conn : m.est[c] => n.est[c] /\ c \notin C
               /\ WiredIn(n) => WiredIn(m)
               /\ \A K \in SUBSET Conn : WiresSoundIn(n, K) =>
                     \A c \in Conn \ C : n.est[c] /\ ~m.est[c] =>
                        \E d \in C : n.source[d] = n.source[c] /\ n.target[d] = n.target[c]
<1>. DEFINE W == {w \in n.wires : \E c \in C : n.est[c] /\ w[1] = n.source[c]
                                                       /\ w[2] = n.target[c]}
            p == Disconnect(n, W)
            m == Detach(n, C)
            e == [c \in Conn |-> p.est[c] /\ c \notin C]
<1>1. /\ p \in Net /\ SameEnds(n, p) /\ p.wires = n.wires \ W
      /\ WiredIn(n) => WiredIn(p)
      /\ \A c \in Conn : p.est[c] <=> n.est[c] /\ \A w \in W : w[3] # c
  <2>1. W \in SUBSET n.wires
    OBVIOUS
  <2>. HIDE DEF W
  <2>. QED
    BY <2>1, DisconnectWired
<1>2. m = [p EXCEPT !.est = e]
  BY DEF Detach
<1>3. e \in [Conn -> BOOLEAN]
  BY Zenon
<1>4. \A c \in Conn : e[c] <=> p.est[c] /\ c \notin C
  BY Zenon
<1>. HIDE DEF p, m, e
<1>5. m \in Net /\ m.source = p.source /\ m.target = p.target /\ m.wires = p.wires /\ m.est = e
  BY <1>1, <1>2, <1>3 DEF Net
<1>6. \A c \in Conn : WireOf(m, c) = WireOf(p, c) /\ DuplicatedIn(m, c) = DuplicatedIn(p, c)
  BY <1>5 DEF WireOf, DuplicatedIn
<1>7. WiredIn(p) => WiredIn(m)
  BY <1>4, <1>5, <1>6 DEF WiredIn
<1>8. ASSUME NEW K \in SUBSET Conn, WiresSoundIn(n, K), NEW c \in Conn \ C, n.est[c], ~m.est[c]
      PROVE  \E d \in C : n.source[d] = n.source[c] /\ n.target[d] = n.target[c]
  <2>1. PICK w \in W : w[3] = c
    BY <1>1, <1>4, <1>5, <1>8
  <2>2. w = WireOf(n, c)
    BY <1>8, <2>1 DEF WiresSoundIn
  <2>. QED
    BY <2>1, <2>2, WireOfFields
<1>9. \A c \in Conn : m.est[c] => n.est[c] /\ c \notin C
  BY <1>1, <1>4, <1>5
<1>. QED
  BY <1>1, <1>5, <1>7, <1>8, <1>9 DEF SameEnds, m

\* What can be established is, and has its wire or shares that of another.
LEMMA EstablishWired ==
    ASSUME NEW n \in Net, NEW C \in SUBSET Conn, NEW m \in EstablishAll(n, C)
    PROVE  /\ SameEnds(n, m)
           /\ \A c \in Conn : n.est[c] => m.est[c]
           /\ \A c \in Conn \ C : m.est[c] => n.est[c]
           /\ \A c \in C : m.est[c] \/ n.source[c].ghost \/ n.target[c].ghost
           /\ \A K \in SUBSET Conn : WiresSoundIn(n, K) /\ WiredIn(n) => WiredIn(m)
<1>. DEFINE ready == {c \in C : ~n.source[c].ghost /\ ~n.target[c].ghost /\ ~n.est[c]}
            Same(c, d) == n.source[c] = n.source[d] /\ n.target[c] = n.target[d]
            vacant == {c \in ready : Between(n, n.source[c], n.target[c]) = {}}
<1>1. PICK F \in SUBSET vacant :
        /\ \A c \in vacant : \E d \in F : Same(c, d)
        /\ \A c, d \in F : Same(c, d) => c = d
        /\ m = [n EXCEPT !.wires = @ \cup {WireOf(n, c) : c \in F},
                         !.est = [c \in Conn |-> @[c] \/ c \in ready]]
  BY Zenon DEF EstablishAll
<1>2. /\ m.source = n.source /\ m.target = n.target
      /\ m.wires = n.wires \cup {WireOf(n, c) : c \in F}
      /\ m.est = [c \in Conn |-> n.est[c] \/ c \in ready]
  BY <1>1 DEF Net
<1>3. \A c \in Conn : m.est[c] <=> n.est[c] \/ c \in ready
  BY <1>2
<1>4. \A c \in Conn : WireOf(m, c) = WireOf(n, c) /\ DuplicatedIn(m, c) = DuplicatedIn(n, c)
  BY <1>2 DEF WireOf, DuplicatedIn
<1>5. ASSUME NEW K \in SUBSET Conn, WiresSoundIn(n, K), WiredIn(n), NEW c \in Conn, m.est[c]
      PROVE  WireOf(m, c) \in m.wires \/ DuplicatedIn(m, c)
  <2>1. CASE n.est[c]
    BY <1>2, <1>4, <1>5, <2>1 DEF WiredIn
  <2>2. CASE ~n.est[c] /\ c \in vacant
    <3>1. PICK d \in F : Same(c, d)
      BY <1>1, <2>2
    <3>2. CASE d = c
      BY <1>2, <1>4, <3>1, <3>2
    <3>3. CASE d # c
      BY <1>4, <3>1, <3>3 DEF DuplicatedIn
    <3>. QED
      BY <3>2, <3>3
  <2>3. CASE ~n.est[c] /\ c \notin vacant
    <3>1. PICK w \in n.wires : w[1] = n.source[c] /\ w[2] = n.target[c]
      BY <1>3, <1>5, <2>3 DEF Between
    <3>2. w[3] \in Conn /\ w = WireOf(n, w[3]) /\ n.est[w[3]]
      BY <1>5, <3>1 DEF WiresSoundIn
    <3>3. w[3] # c /\ n.source[w[3]] = n.source[c] /\ n.target[w[3]] = n.target[c]
      BY <2>3, <3>1, <3>2, WireOfFields
    <3>. QED
      BY <1>4, <3>2, <3>3 DEF DuplicatedIn
  <2>. QED
    BY <2>1, <2>2, <2>3
<1>6. \A K \in SUBSET Conn : WiresSoundIn(n, K) /\ WiredIn(n) => WiredIn(m)
  BY <1>5 DEF WiredIn
<1>. HIDE DEF Same, vacant
<1>. QED
  BY <1>2, <1>3, <1>6 DEF SameEnds

-----------------------------------------------------------------------------
(* Connections join what exists.                                           *)

EndsKnown ==
    /\ \A c \in Conn \cap fresh : net.source[c].comp = NoComp
    /\ \A c \in conns \cup creating : /\ {net.source[c].comp, net.target[c].comp} \subseteq Comp \ fresh
                                      /\ \/ net.source[c].comp # net.target[c].comp
                                         \/ SharedId(net.source[c].comp)
    /\ \A x \in Comp \ fresh : eps[x].comp = x
    /\ \A c \in Conn : net.est[c] => c \in conns

EdgeInv == TypeInv /\ EndsKnown /\ WiredIn(net)

\* What StaysEstablished, RemovalComplete and Rebound say of a step.
StaysStep ==
    \A c \in conns' :
        \/ net'.est[c] \/ net'.source[c].ghost \/ net'.target[c].ghost
        \/ Duplicated(c)' \/ editor' = "interrupted"
        \/ \E o \in volatiles : Unheard(o) /\ Touches(net', c, o)
        \/ c \in conns /\ ~net.est[c] /\ ~(editor = "open" /\ editor' = "closed")
RemovalStep ==
    \A x \in Live \ Live' :
        /\ \A c \in conns' : ~Touches(net', c, x)
        /\ \A w \in net'.wires : x \notin {w[1].comp, w[2].comp}
ReboundStep ==
    \A x \in Live : eps'[x] # eps[x] /\ x \notin deaf /\ ~SharedId(x) =>
        /\ conns' = conns
        /\ \A c \in conns :
            /\ net.source[c].comp = x => net'.source[c] = eps'[x]
            /\ net.target[c].comp = x => net'.target[c] = eps'[x]
Steps == StaysStep /\ RemovalStep /\ ReboundStep

LEMMA EdgeTypes ==
    ASSUME EdgeInv
    PROVE  /\ net \in Net /\ conns \in SUBSET Conn /\ creating \in SUBSET Conn /\ WiresSoundIn(net, conns)
           /\ Live \subseteq Comp \ fresh /\ eps \in [Comp -> Endpoint]
           /\ WiredIn(net) /\ OperatorsTyped /\ OthersTyped
BY LiveElements DEF EdgeInv, TypeInv, IInv, WiresSound, InUse

LEMMA SharedStays ==
    ASSUME NEW x \in Comp \ fresh, SharedId(x), fresh' \subseteq fresh,
           \A o \in Operators \ fresh : opId'[o] = opId[o]
    PROVE  SharedId(x)'
BY DEF SharedId, Is

\* Steps after which every connection joins what it joined.
LEMMA EdgeStays ==
    ASSUME EdgeInv, TypeInv', fresh' \subseteq fresh, SameEnds(net, net'),
           conns' \cup creating' \subseteq conns \cup creating,
           \A x \in Comp \ fresh' : eps'[x].comp = x,
           \A o \in Operators \ fresh : opId'[o] = opId[o],
           \A c \in Conn : net'.est[c] => c \in conns',
           WiredIn(net')
    PROVE  EdgeInv'
<1>1. ASSUME NEW c \in conns' \cup creating'
      PROVE  /\ {net'.source[c].comp, net'.target[c].comp} \subseteq Comp \ fresh'
             /\ net'.source[c].comp # net'.target[c].comp \/ SharedId(net.source[c].comp)'
  <2>1. /\ {net.source[c].comp, net.target[c].comp} \subseteq Comp \ fresh
        /\ net.source[c].comp # net.target[c].comp \/ SharedId(net.source[c].comp)
    BY DEF EdgeInv, EndsKnown
  <2>2. net'.source[c].comp = net.source[c].comp /\ net'.target[c].comp = net.target[c].comp
    BY DEF SameEnds
  <2>3. \A x \in Comp \ fresh : SharedId(x) => SharedId(x)'
    BY SharedStays
  <2>4. PICK a \in Comp \ fresh : a = net.source[c].comp
    BY <2>1
  <2>5. a # net.target[c].comp \/ SharedId(a)
    BY <2>1, <2>4
  <2>6. a = net'.source[c].comp
    BY <2>2, <2>4
  <2>7. a # net'.target[c].comp \/ SharedId(a)'
    BY <2>2, <2>3, <2>5
  <2>8. SharedId(a)' => SharedId(net.source[c].comp)'
    BY <2>6 DEF SharedId, Is
  <2>. QED
    BY <2>1, <2>2, <2>6, <2>7, <2>8
<1>. QED
  BY <1>1 DEF EdgeInv, EndsKnown, SameEnds

\* Steps that touch no connection and lose no component.
LEMMA QuietStep ==
    ASSUME EdgeInv, TypeInv', fresh' \subseteq fresh, net' = net, conns' = conns, creating' \subseteq creating,
           \A x \in Comp \ fresh' : eps'[x].comp = x, \A x \in Comp \ fresh : eps'[x] = eps[x],
           \A o \in Operators \ fresh : opId'[o] = opId[o],
           Live \subseteq Live', editor' = "closed" => editor = "closed"
    PROVE  EdgeInv' /\ Steps
<1>1. EdgeInv'
  BY EdgeStays DEF EdgeInv, EndsKnown, SameEnds
<1>2. Steps
  BY EdgeTypes DEF Steps, StaysStep, RemovalStep, ReboundStep
<1>. QED
  BY <1>1, <1>2

\* A wire joins what its connection joins.
LEMMA WireEnds ==
    ASSUME NEW n, NEW K, WiresSoundIn(n, K), NEW x, \A c \in K : ~Touches(n, c, x)
    PROVE  \A w \in n.wires : x \notin {w[1].comp, w[2].comp}
<1>1. ASSUME NEW w \in n.wires PROVE x \notin {w[1].comp, w[2].comp}
  <2>1. w[3] \in K /\ w = WireOf(n, w[3])
    BY DEF WiresSoundIn
  <2>2. w[1] = n.source[w[3]] /\ w[2] = n.target[w[3]]
    BY <2>1, WireOfFields
  <2>. QED
    BY <2>1, <2>2 DEF Touches
<1>. QED
  BY <1>1

\* The removal of a component the engine hears of.
LEMMA RemovalStep1 ==
    ASSUME EdgeInv, TypeInv', NEW x \in Comp \ fresh,
           net' = Detach(FullDisconnect(net, {eps[x]}), LeavingConns(net, {x})),
           conns' = conns \ LeavingConns(net, {x}),
           UNCHANGED <<fresh, creating, eps, opId, editor>>, Live \ Live' \subseteq {x}
    PROVE  EdgeInv' /\ Steps
<1>. DEFINE L == LeavingConns(net, {x})
            n == FullDisconnect(net, {eps[x]})
<1>1. L \in SUBSET Conn /\ \A c \in conns : c \in L <=> Touches(net, c, x)
  BY EdgeTypes DEF LeavingConns
<1>2. /\ n \in Net /\ SameEnds(net, n) /\ WiredIn(n)
      /\ \A c \in Conn : n.est[c] => net.est[c]
      /\ \A c \in Conn : net.est[c] /\ ~n.est[c] => net.source[c] = eps[x] \/ net.target[c] = eps[x]
  BY EdgeTypes, FullDisconnectWired
<1>3. WiresSoundIn(n, conns)
  BY EdgeTypes, FullDisconnectSound
<1>. HIDE DEF n, L
<1>4. /\ net' \in Net /\ SameEnds(n, net') /\ WiredIn(net')
      /\ \A c \in Conn : net'.est[c] => n.est[c] /\ c \notin L
      /\ \A c \in Conn \ L : n.est[c] /\ ~net'.est[c] =>
            \E d \in L : n.source[d] = n.source[c] /\ n.target[d] = n.target[c]
  <2>1. net' = Detach(n, L)
    BY DEF n, L
  <2>2. /\ net' \in Net /\ SameEnds(n, net') /\ WiredIn(net')
        /\ \A c \in Conn : net'.est[c] => n.est[c] /\ c \notin L
    <3>1. /\ Detach(n, L) \in Net /\ SameEnds(n, Detach(n, L)) /\ WiredIn(Detach(n, L))
          /\ \A c \in Conn : Detach(n, L).est[c] => n.est[c] /\ c \notin L
      BY <1>1, <1>2, DetachWired
    <3>. QED
      BY <2>1, <3>1
  <2>3. \A K \in SUBSET Conn : WiresSoundIn(n, K) =>
            \A c \in Conn \ L : n.est[c] /\ ~net'.est[c] =>
               \E d \in L : n.source[d] = n.source[c] /\ n.target[d] = n.target[c]
    BY <1>1, <1>2, <2>1, DetachWired
  <2>. QED
    BY <1>3, <2>2, <2>3, EdgeTypes
<1>5. SameEnds(net, net') /\ conns' = conns \ L
  BY <1>2, <1>4 DEF SameEnds, L
<1>6. EdgeInv'
  <2>1. \A c \in Conn : net'.est[c] => c \in conns'
    BY <1>2, <1>4, <1>5 DEF EdgeInv, EndsKnown
  <2>2. \A y \in Comp \ fresh' : eps'[y].comp = y
    BY DEF EdgeInv, EndsKnown
  <2>. QED
    BY <1>4, <1>5, <2>1, <2>2, EdgeStays
<1>7. \A c \in conns' : ~Touches(net', c, x)
  BY <1>1, <1>5 DEF SameEnds, Touches
<1>8. RemovalStep
  <2>1. WiresSoundIn(net', conns')
    BY <1>6 DEF EdgeInv, TypeInv, IInv, WiresSound
  <2>2. \A w \in net'.wires : x \notin {w[1].comp, w[2].comp}
    BY <1>7, <2>1, WireEnds
  <2>. QED
    BY <1>7, <2>2 DEF RemovalStep
<1>9. ASSUME NEW c \in conns', net.est[c] PROVE net'.est[c]
  <2>1. c \in conns /\ c \in Conn \ L /\ ~Touches(net, c, x) /\ eps[x].comp = x
    BY <1>1, <1>5, EdgeTypes DEF EdgeInv, EndsKnown
  <2>2. net.source[c] # eps[x] /\ net.target[c] # eps[x]
    BY <2>1 DEF Touches
  <2>3. n.est[c]
    BY <1>2, <1>9, <2>1, <2>2
  <2>4. \A d \in L : Touches(net, d, x)
    BY DEF L, LeavingConns
  <2>5. ASSUME NEW d \in L, n.source[d] = n.source[c], n.target[d] = n.target[c] PROVE FALSE
    BY <1>2, <2>1, <2>4, <2>5 DEF Touches, SameEnds
  <2>. QED
    BY <1>4, <2>1, <2>3, <2>5
<1>10. StaysStep
  BY <1>5, <1>9 DEF StaysStep
<1>11. ReboundStep
  BY DEF ReboundStep
<1>. QED
  BY <1>6, <1>8, <1>10, <1>11 DEF Steps

-----------------------------------------------------------------------------
(* The handlers, one by one.                                               *)

LEMMA LiveElementsNext == Live' = widgets' \cup Elements(ops')
BY DEF Live, Elements

LEMMA NewOperatorQuiet ==
    ASSUME EdgeInv, NEW o \in Operators, NEW id, NEW k, NewOperator(o, id, k)
    PROVE  /\ fresh' \subseteq fresh /\ fresh' = fresh \ {o}
           /\ \A x \in Comp \ fresh' : eps'[x].comp = x
           /\ \A x \in Comp \ fresh : eps'[x] = eps[x]
           /\ \A p \in Operators \ fresh : opId'[p] = opId[p]
<1>1. /\ fresh' = fresh \ {o} /\ opId' = [opId EXCEPT ![o] = id] /\ o \in fresh
      /\ eps' = [eps EXCEPT ![o] = [comp |-> o, gen |-> 0, ghost |-> k # "full"]]
  BY DEF NewOperator
<1>2. eps \in [Comp -> Endpoint] /\ opId \in [Operators -> Id] /\ \A x \in Comp \ fresh : eps[x].comp = x
  BY EdgeTypes DEF EdgeInv, EndsKnown, OperatorsTyped
<1>. QED
  BY <1>1, <1>2, CompTypes

LEMMA AddWidgetEdge ==
    ASSUME EdgeInv, TypeInv', NEW w \in Widgets, NEW k \in Metas, AddWidget(w, k)
    PROVE  EdgeInv' /\ Steps
<1>1. /\ w \in fresh /\ fresh' = fresh \ {w} /\ widgets' = widgets \cup {w}
      /\ eps' = [eps EXCEPT ![w] = [comp |-> w, gen |-> 0, ghost |-> k # "full"]]
      /\ UNCHANGED <<ops, opId, conns, net, creating, editor>>
  BY DEF AddWidget, opVars, editVars
<1>2. eps \in [Comp -> Endpoint] /\ \A x \in Comp \ fresh : eps[x].comp = x
  BY EdgeTypes DEF EdgeInv, EndsKnown
<1>3. \A x \in Comp \ fresh' : eps'[x].comp = x
  BY <1>1, <1>2, CompTypes
<1>4. \A x \in Comp \ fresh : eps'[x] = eps[x]
  BY <1>1, <1>2, CompTypes
<1>5. Live \subseteq Live'
  BY <1>1 DEF Live
<1>. QED
  BY <1>1, <1>3, <1>4, <1>5, QuietStep

LEMMA NewOperatorsEdge ==
    ASSUME EdgeInv, TypeInv', NEW o \in Operators, NEW x \in Comp, NEW k \in Metas,
           CreateOperator(o, k) \/ CreateVolatileOperator(o, x, k)
    PROVE  EdgeInv' /\ Steps
<1>1. /\ \E id : NewOperator(o, id, k)
      /\ UNCHANGED <<widgets, conns, net, creating, editor>>
      /\ ops' = ops \/ ops' = Append(ops, o)
  BY DEF CreateOperator, CreateVolatileOperator, editVars, AppendOperator
<1>2. ops \in Seq(Operators)
  BY EdgeTypes DEF OperatorsTyped
<1>3. Live \subseteq Live'
  BY <1>1, <1>2, LiveElements, LiveElementsNext, AppendElements
<1>. QED
  BY <1>1, <1>3, NewOperatorQuiet, QuietStep

LEMMA QuietActions ==
    ASSUME EdgeInv, TypeInv', UNCHANGED <<fresh, widgets, eps, opId, conns, net>>, creating' \subseteq creating,
           ops' = ops \/ \E o \in Operators : ops' = Append(ops, o), editor' = "closed" => editor = "closed"
    PROVE  EdgeInv' /\ Steps
<1>1. ops \in Seq(Operators)
  BY EdgeTypes DEF OperatorsTyped
<1>2. Live \subseteq Live'
  BY <1>1, LiveElements, LiveElementsNext, AppendElements
<1>. QED
  BY <1>2, QuietStep DEF EdgeInv, EndsKnown

LEMMA RemoveWidgetEdge ==
    ASSUME EdgeInv, TypeInv', NEW w \in Widgets, RemoveWidget(w)
    PROVE  EdgeInv' /\ Steps
<1>1. /\ w \in widgets /\ widgets' = widgets \ {w}
      /\ net' = Detach(FullDisconnect(net, {eps[w]}), LeavingConns(net, {w}))
      /\ conns' = conns \ LeavingConns(net, {w})
      /\ UNCHANGED <<fresh, ops, opId, eps, creating, editor>>
  BY DEF RemoveWidget, metaVars, editVars
<1>2. w \in Comp \ fresh /\ Live \ Live' \subseteq {w}
  BY <1>1, EdgeTypes DEF Live
<1>. QED
  BY <1>1, <1>2, RemovalStep1

LEMMA RemoveOperatorEdge ==
    ASSUME EdgeInv, TypeInv', NEW o \in Operators, RemoveOperator(o),
           ops' = ops \/ Elements(ops') = Elements(ops) \ {o}
    PROVE  EdgeInv' /\ Steps
<1>1. /\ o \in Live \cap volatiles
      /\ UNCHANGED <<fresh, widgets, opId, eps, creating, editor>>
  BY DEF RemoveOperator, metaVars, editVars
<1>2. o \in Comp \ fresh /\ Live \ Live' \subseteq {o}
  BY <1>1, EdgeTypes, LiveElements, LiveElementsNext
<1>3. CASE RegisteredId(o) /\ o \notin deaf
  <2>1. /\ net' = Detach(FullDisconnect(net, {eps[o]}), LeavingConns(net, {o}))
        /\ conns' = conns \ LeavingConns(net, {o})
    BY <1>3 DEF RemoveOperator
  <2>. QED
    BY <1>1, <1>2, <2>1, RemovalStep1
<1>4. CASE Unheard(o)
  <2>1. net' = FullDisconnect(net, {eps[o]}) /\ UNCHANGED <<ops, conns>>
    BY <1>4 DEF RemoveOperator, Unheard
  <2>2. /\ SameEnds(net, net') /\ WiredIn(net')
        /\ \A c \in Conn : net'.est[c] => net.est[c]
        /\ \A c \in Conn : net.est[c] /\ ~net'.est[c] => net.source[c] = eps[o] \/ net.target[c] = eps[o]
    <3>. DEFINE n == FullDisconnect(net, {eps[o]})
    <3>1. /\ SameEnds(net, n) /\ WiredIn(n)
          /\ \A c \in Conn : n.est[c] => net.est[c]
          /\ \A c \in Conn : net.est[c] /\ ~n.est[c] => net.source[c] = eps[o] \/ net.target[c] = eps[o]
      BY EdgeTypes, FullDisconnectWired
    <3>. QED
      BY <2>1, <3>1
  <2>3. EdgeInv'
    BY <1>1, <2>1, <2>2, EdgeStays DEF EdgeInv, EndsKnown
  <2>4. eps[o].comp = o /\ conns \subseteq Conn
    BY <1>2, EdgeTypes DEF EdgeInv, EndsKnown
  <2>5. StaysStep
    <3>1. ASSUME NEW c \in conns, net.est[c], ~net'.est[c] PROVE Touches(net', c, o)
      BY <2>2, <2>4, <3>1 DEF SameEnds, Touches
    <3>. QED
      BY <1>1, <1>4, <2>1, <3>1 DEF StaysStep
  <2>6. RemovalStep /\ ReboundStep
    <3>1. Live' = Live
      BY <1>1, <2>1 DEF Live
    <3>. QED
      BY <1>1, <3>1 DEF RemovalStep, ReboundStep
  <2>. QED
    BY <2>3, <2>5, <2>6 DEF Steps
<1>. QED
  BY <1>3, <1>4 DEF Unheard

\* A new connection between components of the engine, not established yet.
LEMMA EndsEdge ==
    ASSUME EdgeInv, NEW c \in fresh \cap Conn, NEW x \in Live, NEW y \in Live, x # y
    PROVE  LET n == Ends(c, x, y)
           IN  /\ n \in Net /\ WiresSoundIn(n, conns) /\ WiredIn(n)
               /\ n.est = net.est
               /\ n.source[c].comp = x /\ n.target[c].comp = y
               /\ \A d \in Conn \ {c} : n.source[d] = net.source[d] /\ n.target[d] = net.target[d]
<1>. DEFINE n == Ends(c, x, y)
<1>0. x \in Comp \ fresh /\ y \in Comp \ fresh /\ eps[x].comp = x /\ eps[y].comp = y
  BY EdgeTypes DEF EdgeInv, EndsKnown
<1>1. n \in Net /\ WiresSoundIn(n, conns)
  BY <1>0, EndsFresh DEF EdgeInv, TypeInv
<1>2. /\ n.est = net.est /\ n.wires = net.wires
      /\ n.source = [net.source EXCEPT ![c] = eps[x]] /\ n.target = [net.target EXCEPT ![c] = eps[y]]
  BY EdgeTypes DEF Ends, Net
<1>3. net.source \in [Conn -> Endpoint] /\ net.target \in [Conn -> Endpoint]
  BY EdgeTypes DEF Net
<1>. HIDE DEF n
<1>4. \A d \in Conn \ {c} : n.source[d] = net.source[d] /\ n.target[d] = net.target[d]
  BY <1>2, <1>3
<1>5. n.source[c].comp = x /\ n.target[c].comp = y
  BY <1>0, <1>2, <1>3
<1>6. ASSUME NEW e \in Conn, n.est[e] PROVE WireOf(n, e) \in n.wires \/ DuplicatedIn(n, e)
  <2>1. /\ e \in conns /\ e # c /\ net.source[c].comp = NoComp /\ net.source[e].comp \in Comp
    BY <1>2, <1>6, EdgeTypes DEF EdgeInv, EndsKnown, TypeInv, IInv
  <2>2. CASE WireOf(net, e) \in net.wires
    BY <1>2, <1>4, <2>1, <2>2 DEF WireOf
  <2>3. CASE DuplicatedIn(net, e)
    <3>1. PICK d \in Conn \ {e} : net.source[d].comp = net.source[e].comp /\ net.target[d].comp = net.target[e].comp
      BY <2>3 DEF DuplicatedIn
    <3>2. d # c
      BY <2>1, <3>1, CompTypes
    <3>. QED
      BY <1>4, <2>1, <3>1, <3>2 DEF DuplicatedIn
  <2>. QED
    BY <1>2, <1>6, <2>2, <2>3, EdgeTypes DEF WiredIn
<1>7. WiredIn(n)
  BY <1>6 DEF WiredIn
<1>. QED
  BY <1>1, <1>2, <1>4, <1>5, <1>7 DEF n

\* Steps that bring a connection in.
LEMMA NewConnectionEdge ==
    ASSUME EdgeInv, TypeInv', NEW c \in Conn, NEW x \in Comp, NEW y \in Comp, NewConnection(c, x, y),
           conns' \cup creating' = conns \cup creating \cup {c}, WiredIn(net'), SameEnds(Ends(c, x, y), net'),
           \/ conns' = conns /\ net'.est = net.est
           \/ /\ conns' = conns \cup {c}
              /\ \A d \in Conn \ {c} : net'.est[d] = net.est[d]
              /\ net'.est[c] \/ net'.source[c].ghost \/ net'.target[c].ghost
    PROVE  EdgeInv' /\ Steps
<1>1. /\ c \in fresh \cap Conn /\ x \in Live /\ y \in Live /\ x # y /\ fresh' = fresh \ {c}
      /\ UNCHANGED <<widgets, ops, opId, eps, editor>>
  BY DEF NewConnection, opVars, metaVars
<1>2. c \notin Comp /\ Comp \ fresh' = Comp \ fresh /\ Operators \ fresh' = Operators \ fresh
  BY <1>1, ConstantsAssumption DEF Comp
<1>3. /\ net'.source[c].comp = x /\ net'.target[c].comp = y
      /\ \A d \in Conn \ {c} : net'.source[d] = net.source[d] /\ net'.target[d] = net.target[d]
  BY <1>1, EndsEdge DEF SameEnds
<1>4. /\ \A d \in Conn \cap fresh : net.source[d].comp = NoComp
      /\ \A d \in conns \cup creating : /\ {net.source[d].comp, net.target[d].comp} \subseteq Comp \ fresh
                                        /\ \/ net.source[d].comp # net.target[d].comp
                                           \/ SharedId(net.source[d].comp)
      /\ \A z \in Comp \ fresh : eps[z].comp = z
      /\ \A d \in Conn : net.est[d] => d \in conns
      /\ c \notin conns \cup creating /\ conns \cup creating \subseteq Conn
  BY <1>1, EdgeTypes DEF EdgeInv, EndsKnown, TypeInv, IInv
<1>5. \A z \in Comp \ fresh : SharedId(z) => SharedId(z)'
  BY <1>1, SharedStays
<1>6. ASSUME NEW d \in conns' \cup creating'
      PROVE  /\ {net'.source[d].comp, net'.target[d].comp} \subseteq Comp \ fresh'
             /\ net'.source[d].comp # net'.target[d].comp \/ SharedId(net.source[d].comp)'
  <2>1. CASE d = c
    BY <1>1, <1>2, <1>3, <2>1, EdgeTypes
  <2>2. CASE d # c
    <3>1. d \in conns \cup creating /\ d \in Conn \ {c}
      BY <1>4, <2>2
    <3>2. PICK a \in Comp \ fresh : a = net.source[d].comp
      BY <1>4, <3>1
    <3>3. a = net'.source[d].comp
      BY <1>3, <3>1, <3>2
    <3>4. a # net'.target[d].comp \/ SharedId(a)'
      BY <1>3, <1>4, <1>5, <3>1, <3>2
    <3>5. SharedId(a)' => SharedId(net.source[d].comp)'
      BY <3>3 DEF SharedId, Is
    <3>. QED
      BY <1>2, <1>3, <1>4, <3>1, <3>3, <3>4, <3>5
  <2>. QED
    BY <2>1, <2>2
<1>7. \A d \in Conn \cap fresh' : net'.source[d].comp = NoComp
  BY <1>1, <1>3, <1>4
<1>8. \A d \in Conn : net'.est[d] => d \in conns'
  BY <1>4
<1>9. EdgeInv'
  BY <1>1, <1>2, <1>4, <1>6, <1>7, <1>8 DEF EdgeInv, EndsKnown
<1>10. StaysStep
  BY <1>1, <1>4 DEF StaysStep
<1>11. RemovalStep /\ ReboundStep
  <2>1. Live' = Live
    BY <1>1 DEF Live
  <2>. QED
    BY <1>1, <2>1 DEF RemovalStep, ReboundStep
<1>. QED
  BY <1>9, <1>10, <1>11 DEF Steps

LEMMA CreateConnectionEdge ==
    ASSUME EdgeInv, TypeInv', NEW c \in Conn, NEW x \in Comp, NEW y \in Comp, NEW shown \in BOOLEAN,
           CreateConnection(c, x, y, shown)
    PROVE  EdgeInv' /\ Steps
<1>1. /\ NewConnection(c, x, y) /\ net' = Ends(c, x, y) /\ creating' = creating \cup {c} /\ conns' = conns
      /\ c \in fresh \cap Conn /\ x \in Live /\ y \in Live /\ x # y
  BY DEF CreateConnection, NewConnection
<1>2. WiredIn(net') /\ net'.est = net.est
  BY <1>1, EndsEdge
<1>. QED
  BY <1>1, <1>2, NewConnectionEdge DEF SameEnds

LEMMA CreateVolatileConnectionEdge ==
    ASSUME EdgeInv, TypeInv', NEW c \in Conn, NEW x \in Comp, NEW y \in Comp,
           CreateVolatileConnection(c, x, y)
    PROVE  EdgeInv' /\ Steps
<1>. DEFINE n == Ends(c, x, y)
<1>1. /\ NewConnection(c, x, y) /\ net' \in EstablishAll(n, {c}) /\ conns' = conns \cup {c} /\ creating' = creating
      /\ c \in fresh \cap Conn /\ x \in Live /\ y \in Live /\ x # y
  BY DEF CreateVolatileConnection, NewConnection
<1>2. n \in Net /\ WiresSoundIn(n, conns) /\ WiredIn(n) /\ n.est = net.est
  BY <1>1, EndsEdge
<1>3. net' \in Net
  BY DEF TypeInv, IInv
<1>. HIDE DEF n
<1>4. /\ SameEnds(n, net') /\ WiredIn(net')
      /\ \A d \in Conn : n.est[d] => net'.est[d]
      /\ \A d \in Conn \ {c} : net'.est[d] => n.est[d]
      /\ net'.est[c] \/ n.source[c].ghost \/ n.target[c].ghost
  BY <1>1, <1>2, EdgeTypes, EstablishWired
<1>5. \A d \in Conn \ {c} : net'.est[d] = net.est[d]
  <2>1. net.est \in [Conn -> BOOLEAN] /\ net'.est \in [Conn -> BOOLEAN]
    BY <1>3, EdgeTypes DEF Net
  <2>2. \A d \in Conn \ {c} : net'.est[d] <=> net.est[d]
    BY <1>2, <1>4
  <2>. QED
    BY <2>1, <2>2, Zenon
<1>6. SameEnds(Ends(c, x, y), net')
  BY <1>4 DEF n
<1>7. net'.est[c] \/ net'.source[c].ghost \/ net'.target[c].ghost
  BY <1>4 DEF SameEnds
<1>. QED
  BY <1>1, <1>4, <1>5, <1>6, <1>7, NewConnectionEdge

LEMMA ConnectionCreatedEdge ==
    ASSUME EdgeInv, TypeInv', NEW c \in Conn, ConnectionCreated(c)
    PROVE  EdgeInv' /\ Steps
<1>1. /\ c \in creating /\ creating' = creating \ {c} /\ net' \in EstablishAll(net, {c})
      /\ conns' = conns \cup {c} /\ UNCHANGED <<fresh, widgets, ops, opId, eps, editor>>
  BY DEF ConnectionCreated, opVars, metaVars
<1>2. /\ SameEnds(net, net') /\ WiredIn(net')
      /\ \A d \in Conn : net.est[d] => net'.est[d]
      /\ \A d \in Conn \ {c} : net'.est[d] => net.est[d]
      /\ net'.est[c] \/ net.source[c].ghost \/ net.target[c].ghost
  BY <1>1, EdgeTypes, EstablishWired
<1>3. EdgeInv'
  <2>1. \A d \in Conn : net'.est[d] => d \in conns'
    BY <1>1, <1>2 DEF EdgeInv, EndsKnown
  <2>2. \A x \in Comp \ fresh' : eps'[x].comp = x
    BY <1>1 DEF EdgeInv, EndsKnown
  <2>. QED
    BY <1>1, <1>2, <2>1, <2>2, EdgeStays
<1>4. StaysStep
  BY <1>1, <1>2, EdgeTypes DEF StaysStep, SameEnds
<1>5. RemovalStep /\ ReboundStep
  <2>1. Live' = Live
    BY <1>1 DEF Live
  <2>. QED
    BY <1>1, <2>1 DEF RemovalStep, ReboundStep
<1>. QED
  BY <1>3, <1>4, <1>5 DEF Steps

LEMMA RemoveConnectionEdge ==
    ASSUME EdgeInv, TypeInv', NEW w \in net.wires, RemoveConnection(w)
    PROVE  EdgeInv' /\ Steps
<1>. DEFINE c == w[3]
<1>1. /\ c \in conns /\ c \in Conn /\ net' = Detach(net, {c}) /\ conns' = conns \ {c}
      /\ UNCHANGED <<fresh, widgets, ops, opId, eps, creating, editor>>
  BY EdgeTypes DEF RemoveConnection, opVars, metaVars, editVars, WiresSoundIn
<1>. HIDE DEF c
<1>2. /\ SameEnds(net, net') /\ WiredIn(net')
      /\ \A d \in Conn : net'.est[d] => net.est[d] /\ d # c
      /\ \A d \in Conn \ {c} : net.est[d] /\ ~net'.est[d] =>
            net.source[c] = net.source[d] /\ net.target[c] = net.target[d]
  <2>. DEFINE m == Detach(net, {c})
  <2>0. {c} \in SUBSET Conn
    BY <1>1
  <2>1. /\ SameEnds(net, m) /\ WiredIn(m)
        /\ \A d \in Conn : m.est[d] => net.est[d] /\ d \notin {c}
    BY <2>0, EdgeTypes, DetachWired
  <2>2. \A d \in Conn \ {c} : net.est[d] /\ ~m.est[d] =>
            \E e \in {c} : net.source[e] = net.source[d] /\ net.target[e] = net.target[d]
    BY <2>0, EdgeTypes, DetachWired
  <2>. HIDE DEF m
  <2>3. net' = m
    BY <1>1 DEF m
  <2>. QED
    BY <2>1, <2>2, <2>3
<1>3. EdgeInv'
  <2>1. \A d \in Conn : net'.est[d] => d \in conns'
    BY <1>1, <1>2 DEF EdgeInv, EndsKnown
  <2>2. \A x \in Comp \ fresh' : eps'[x].comp = x
    BY <1>1 DEF EdgeInv, EndsKnown
  <2>. QED
    BY <1>1, <1>2, <2>1, <2>2, EdgeStays
<1>4. StaysStep
  <2>1. ASSUME NEW d \in conns', net.est[d], ~net'.est[d] PROVE Duplicated(d)'
    <3>1. d \in Conn \ {c}
      BY <1>1, EdgeTypes
    <3>. QED
      BY <1>1, <1>2, <2>1, <3>1 DEF Duplicated, SameEnds
  <2>. QED
    BY <1>1, <2>1, EdgeTypes DEF StaysStep
<1>5. RemovalStep /\ ReboundStep
  <2>1. Live' = Live
    BY <1>1 DEF Live
  <2>. QED
    BY <1>1, <2>1 DEF RemovalStep, ReboundStep
<1>. QED
  BY <1>3, <1>4, <1>5 DEF Steps

\* A version change of a component whose endpoints nobody rebinds.
LEMMA RebuildUnheard ==
    ASSUME EdgeInv, TypeInv', NEW x \in Comp, NEW k, Rebuild(x, k), x \notin Live \ deaf,
           UNCHANGED <<fresh, widgets, ops, opId, conns, creating, editor>>
    PROVE  EdgeInv' /\ Steps
<1>1. net' = net /\ eps' = [eps EXCEPT ![x] = [comp |-> x, gen |-> eps[x].gen + 1, ghost |-> k # "full"]]
  BY DEF Rebuild
<1>2. eps \in [Comp -> Endpoint] /\ \A y \in Comp \ fresh : eps[y].comp = y
  BY EdgeTypes DEF EdgeInv, EndsKnown
<1>3. (\A y \in Comp \ fresh' : eps'[y].comp = y) /\ \A y \in Comp \ {x} : eps'[y] = eps[y]
  BY <1>1, <1>2
<1>4. EdgeInv'
  BY <1>1, <1>3, EdgeStays DEF EdgeInv, EndsKnown, SameEnds
<1>5. Live' = Live
  BY DEF Live
<1>6. Live \subseteq Comp
  BY EdgeTypes
<1>7. Steps
  BY <1>1, <1>3, <1>5, <1>6 DEF Steps, StaysStep, RemovalStep, ReboundStep
<1>. QED
  BY <1>4, <1>7

\* A version change the engine hears of rebinds the connections of the
\* component, whatever their state, and leaves the others alone.
LEMMA RebuildHeard ==
    ASSUME EdgeInv, TypeInv', NEW x \in Comp, NEW k, Rebuild(x, k), x \in Live \ deaf,
           UNCHANGED <<fresh, widgets, ops, opId, conns, creating, editor>>
    PROVE  EdgeInv' /\ Steps
<1>. DEFINE new == [comp |-> x, gen |-> eps[x].gen + 1, ghost |-> k # "full"]
            S   == SourcesAt(x)
            T   == TargetsAt(x)
            R   == S \cup T
            n   == FullDisconnect(net, {new})
            d   == Detach(n, R)
            p   == [d EXCEPT
                      !.source = [c \in Conn |-> IF c \in S THEN new ELSE @[c]],
                      !.target = [c \in Conn |-> IF c \in T THEN new ELSE @[c]]]
<1>1. eps' = [eps EXCEPT ![x] = new] /\ net' \in EstablishAll(p, R)
  BY DEF Rebuild
<1>2. new \in Endpoint /\ new.comp = x
  BY EdgeTypes DEF Endpoint
<1>3. /\ \A c \in conns : c \in S <=> Is(net.source[c].comp, x)
      /\ \A c \in conns : c \in T <=> Is(net.target[c].comp, x) /\ c \notin S
      /\ S \subseteq conns /\ T \subseteq conns /\ R \subseteq conns /\ R \in SUBSET Conn /\ R = S \cup T
  BY EdgeTypes DEF SourcesAt, TargetsAt
<1>4. /\ n \in Net /\ SameEnds(net, n) /\ WiredIn(n)
      /\ \A c \in Conn : n.est[c] => net.est[c]
      /\ \A c \in Conn : net.est[c] /\ ~n.est[c] => net.source[c] = new \/ net.target[c] = new
  BY EdgeTypes, FullDisconnectWired
<1>5. WiresSoundIn(n, conns)
  BY EdgeTypes, FullDisconnectSound
<1>. HIDE DEF new, S, T, R, n
<1>6. /\ d \in Net /\ SameEnds(n, d) /\ WiredIn(d)
      /\ \A c \in Conn : d.est[c] => n.est[c] /\ c \notin R
  BY <1>3, <1>4, DetachWired
<1>7. \A c \in Conn \ R : n.est[c] /\ ~d.est[c] =>
            \E e \in R : n.source[e] = n.source[c] /\ n.target[e] = n.target[c]
  <2>1. \A K \in SUBSET Conn : WiresSoundIn(n, K) =>
            \A c \in Conn \ R : n.est[c] /\ ~d.est[c] =>
               \E e \in R : n.source[e] = n.source[c] /\ n.target[e] = n.target[c]
    BY <1>3, <1>4, DetachWired
  <2>. QED
    BY <1>5, <2>1, EdgeTypes
<1>8. WiresSoundIn(d, conns \ R)
  BY <1>3, <1>4, <1>5, EdgeTypes, DetachSound
<1>. HIDE DEF d
<1>9. /\ p.wires = d.wires /\ p.est = d.est /\ p \in Net
      /\ p.source = [c \in Conn |-> IF c \in S THEN new ELSE d.source[c]]
      /\ p.target = [c \in Conn |-> IF c \in T THEN new ELSE d.target[c]]
  <2>1. d.source \in [Conn -> Endpoint] /\ d.target \in [Conn -> Endpoint]
    BY <1>6 DEF Net
  <2>2. \A A : [c \in Conn |-> IF c \in A THEN new ELSE d.source[c]] \in [Conn -> Endpoint]
    BY <1>2, <2>1
  <2>3. \A A : [c \in Conn |-> IF c \in A THEN new ELSE d.target[c]] \in [Conn -> Endpoint]
    BY <1>2, <2>1
  <2>. QED
    BY <1>6, <2>2, <2>3 DEF Net
<1>. HIDE DEF p
<1>10. /\ \A c \in S : p.source[c] = new
       /\ \A c \in T : p.target[c] = new
       /\ \A c \in Conn \ S : p.source[c] = net.source[c]
       /\ \A c \in Conn \ T : p.target[c] = net.target[c]
  BY <1>3, <1>4, <1>6, <1>9 DEF SameEnds
<1>11. WiresSoundIn(p, conns \ R)
  <2>1. \A c \in conns \ R : p.source[c] = d.source[c] /\ p.target[c] = d.target[c]
    BY <1>3, <1>4, <1>6, <1>10, EdgeTypes DEF SameEnds
  <2>2. conns \ R \in SUBSET Conn
    BY EdgeTypes
  <2>. QED
    BY <1>6, <1>8, <1>9, <2>1, <2>2, EndsSound
<1>12. ASSUME NEW c \in conns \ R, NEW e \in Conn,
              net.source[e].comp = net.source[c].comp, net.target[e].comp = net.target[c].comp
       PROVE  e \notin R
  <2>1. ~Is(net.source[c].comp, x) /\ ~Is(net.target[c].comp, x)
    BY <1>3, <1>12
  <2>. QED
    BY <1>3, <1>12, <2>1
<1>13. ASSUME NEW c \in Conn, p.est[c] PROVE WireOf(p, c) \in p.wires \/ DuplicatedIn(p, c)
  <2>1. c \in conns \ R /\ c \in Conn /\ d.est[c]
    BY <1>4, <1>6, <1>9, <1>13 DEF EdgeInv, EndsKnown
  <2>2. CASE WireOf(d, c) \in d.wires
    BY <1>3, <1>4, <1>6, <1>9, <1>10, <2>1, <2>2 DEF WireOf, SameEnds
  <2>3. CASE DuplicatedIn(d, c)
    <3>1. PICK e \in Conn \ {c} : net.source[e].comp = net.source[c].comp /\ net.target[e].comp = net.target[c].comp
      BY <1>4, <1>6, <2>3 DEF DuplicatedIn, SameEnds
    <3>2. e \notin R
      BY <1>12, <2>1, <3>1
    <3>3. c \notin S /\ c \notin T /\ e \notin S /\ e \notin T
      BY <1>3, <2>1, <3>2
    <3>4. p.source[e] = net.source[e] /\ p.target[e] = net.target[e] /\ p.source[c] = net.source[c] /\ p.target[c] = net.target[c]
      BY <1>10, <3>3
    <3>. QED
      BY <3>1, <3>4 DEF DuplicatedIn
  <2>. QED
    BY <1>6, <2>1, <2>2, <2>3 DEF WiredIn
<1>14. WiredIn(p)
  BY <1>13 DEF WiredIn
<1>15. /\ SameEnds(p, net')
       /\ \A c \in Conn : p.est[c] => net'.est[c]
       /\ \A c \in Conn \ R : net'.est[c] => p.est[c]
       /\ \A c \in R : net'.est[c] \/ p.source[c].ghost \/ p.target[c].ghost
       /\ \A K \in SUBSET Conn : WiresSoundIn(p, K) /\ WiredIn(p) => WiredIn(net')
  BY <1>1, <1>3, <1>9, EstablishWired
<1>16. WiredIn(net')
  <2>1. conns \ R \in SUBSET Conn
    BY EdgeTypes
  <2>. QED
    BY <1>11, <1>14, <1>15, <2>1
<1>17. /\ \A c \in Conn \cap fresh : net.source[c].comp = NoComp
       /\ \A c \in conns \cup creating : /\ {net.source[c].comp, net.target[c].comp} \subseteq Comp \ fresh
                                         /\ \/ net.source[c].comp # net.target[c].comp
                                            \/ SharedId(net.source[c].comp)
       /\ \A z \in Comp \ fresh : eps[z].comp = z
       /\ \A c \in Conn : net.est[c] => c \in conns
       /\ x \in Comp \ fresh /\ conns \cup creating \subseteq Conn /\ fresh \cap conns = {}
  BY EdgeTypes DEF EdgeInv, EndsKnown, TypeInv, IInv
<1>18. \A c \in Conn : net'.est[c] => c \in conns
  BY <1>3, <1>4, <1>6, <1>9, <1>15, <1>17
<1>19. /\ \A c \in Conn : net'.source[c] = IF c \in S THEN new ELSE net.source[c]
       /\ \A c \in Conn : net'.target[c] = IF c \in T THEN new ELSE net.target[c]
  BY <1>3, <1>10, <1>15 DEF SameEnds
<1>21. ASSUME NEW c \in conns, Is(net.source[c].comp, x), net.source[c].comp # x PROVE SharedId(x)
  BY <1>17, <1>21 DEF SharedId, Is
<1>22. ASSUME NEW c \in conns \cup creating
       PROVE  /\ {net'.source[c].comp, net'.target[c].comp} \subseteq Comp \ fresh'
              /\ net'.source[c].comp # net'.target[c].comp \/ SharedId(net'.source[c].comp)
  <2>0. c \in Conn
    BY <1>17
  <2>1. CASE c \in S
    <3>1. c \in conns /\ c \notin T /\ net'.source[c].comp = x /\ net'.target[c] = net.target[c]
      BY <1>2, <1>3, <1>19, <2>0, <2>1
    <3>2. CASE net.source[c].comp = x
      BY <1>17, <3>1, <3>2
    <3>3. CASE net.source[c].comp # x
      BY <1>3, <1>17, <1>21, <2>1, <3>1, <3>3
    <3>. QED
      BY <3>2, <3>3
  <2>2. CASE c \in T
    <3>1. c \in conns /\ c \notin S /\ net'.target[c].comp = x /\ net'.source[c] = net.source[c]
      BY <1>2, <1>3, <1>19, <2>0, <2>2
    <3>2. net.source[c].comp # x
      BY <1>3, <3>1 DEF Is
    <3>. QED
      BY <1>17, <3>1, <3>2
  <2>3. CASE c \notin S /\ c \notin T
    BY <1>17, <1>19, <2>0, <2>3
  <2>. QED
    BY <2>1, <2>2, <2>3
<1>23. \A z \in Comp \ fresh : SharedId(z) => SharedId(z)'
  BY SharedStays
<1>24. ASSUME NEW c \in conns' \cup creating'
       PROVE  /\ {net'.source[c].comp, net'.target[c].comp} \subseteq Comp \ fresh'
              /\ net'.source[c].comp # net'.target[c].comp \/ SharedId(net.source[c].comp)'
  <2>1. PICK a \in Comp \ fresh : a = net'.source[c].comp
    BY <1>22
  <2>2. a # net'.target[c].comp \/ SharedId(a)'
    BY <1>22, <1>23, <2>1
  <2>3. SharedId(a)' => SharedId(net.source[c].comp)'
    BY <2>1 DEF SharedId, Is
  <2>. QED
    BY <1>22, <2>1, <2>2, <2>3
<1>25. \A z \in Comp \ fresh' : eps'[z].comp = z
  BY <1>1, <1>2, <1>17, EdgeTypes
<1>26. \A c \in Conn \cap fresh' : net'.source[c].comp = NoComp
  BY <1>3, <1>17, <1>19
<1>27. EdgeInv'
  BY <1>16, <1>18, <1>24, <1>25, <1>26 DEF EdgeInv, EndsKnown
<1>28. StaysStep
  <2>1. ASSUME NEW c \in conns, net.est[c], c \notin R PROVE net'.est[c]
    <3>1. c \in Conn /\ ~Is(net.source[c].comp, x) /\ ~Is(net.target[c].comp, x)
      BY <1>3, <1>17, <2>1
    <3>2. net.source[c].comp # x /\ net.target[c].comp # x
      BY <3>1 DEF Is
    <3>3. n.est[c]
      BY <1>2, <1>4, <2>1, <3>1, <3>2
    <3>4. ASSUME NEW e \in R, n.source[e] = n.source[c], n.target[e] = n.target[c] PROVE FALSE
      <4>1. e \in Conn /\ net.source[e].comp = net.source[c].comp /\ net.target[e].comp = net.target[c].comp
        BY <1>3, <1>4, <3>4 DEF SameEnds
      <4>. QED
        BY <1>12, <2>1, <4>1
    <3>5. d.est[c]
      BY <1>7, <2>1, <3>1, <3>3, <3>4
    <3>. QED
      BY <1>9, <1>15, <3>1, <3>5
  <2>2. ASSUME NEW c \in R PROVE net'.est[c] \/ net'.source[c].ghost \/ net'.target[c].ghost
    BY <1>15 DEF SameEnds
  <2>. QED
    BY <2>1, <2>2 DEF StaysStep
<1>29. RemovalStep
  <2>1. Live' = Live
    BY DEF Live
  <2>. QED
    BY <2>1 DEF RemovalStep
<1>30. ReboundStep
  <2>1. ASSUME NEW y \in Live, eps'[y] # eps[y], ~SharedId(y), NEW c \in conns
        PROVE  /\ net.source[c].comp = y => net'.source[c] = eps'[y]
               /\ net.target[c].comp = y => net'.target[c] = eps'[y]
    <3>1. y = x /\ eps'[y] = new /\ c \in Conn
      BY <1>1, <1>17, <2>1, EdgeTypes
    <3>2. ASSUME net.source[c].comp = x PROVE c \in S
      BY <1>3, <3>2 DEF Is
    <3>3. ASSUME net.target[c].comp = x PROVE c \in T
      <4>1. ~Is(net.source[c].comp, x)
        BY <1>17, <1>21, <2>1, <3>1, <3>3
      <4>. QED
        BY <1>3, <3>3, <4>1 DEF Is
    <3>. QED
      BY <1>19, <3>1, <3>2, <3>3
  <2>. QED
    BY <2>1 DEF ReboundStep
<1>. QED
  BY <1>27, <1>28, <1>29, <1>30 DEF Steps

LEMMA VersionEdge ==
    ASSUME EdgeInv, TypeInv', NEW x \in Comp, NEW k, ChangeMeta(x, k) \/ MetaLoaded(x) \/ MetaFailed(x)
    PROVE  EdgeInv' /\ Steps
<1>1. UNCHANGED <<fresh, widgets, ops, opId, conns, creating, editor>>
  BY DEF ChangeMeta, MetaLoaded, MetaFailed, opVars, editVars
<1>2. (\E l : Rebuild(x, l)) \/ UNCHANGED <<eps, net>>
  BY DEF ChangeMeta, MetaLoaded, MetaFailed
<1>3. CASE \E l : Rebuild(x, l)
  BY <1>1, <1>3, RebuildHeard, RebuildUnheard
<1>4. CASE UNCHANGED <<eps, net>>
  BY <1>1, <1>4, QuietActions
<1>. QED
  BY <1>2, <1>3, <1>4

\* What load leaves of the connections.
LEMMA UnloadedWired ==
    ASSUME EdgeInv, NEW keep
    PROVE  LET u == Unloaded(keep)
           IN  /\ u \in Net /\ SameEnds(net, u) /\ WiredIn(u)
               /\ \A c \in Conn : u.est[c] => c \in Kept(keep)
<1>. DEFINE L == LeavingConns(net, Unregistered(keep))
            E == {eps[ops[i]] : i \in Gone(keep)}
            d == Detach(net, Persistent)
            f == FullDisconnect(d, E)
            u == Detach(f, L)
<1>1. Persistent \in SUBSET Conn /\ L \in SUBSET Conn
  BY EdgeTypes DEF Persistent, LeavingConns
<1>2. u = Unloaded(keep) /\ Kept(keep) = conns \ (Persistent \cup L)
  BY DEF Unloaded, Kept
<1>3. d \in Net /\ SameEnds(net, d) /\ WiredIn(d) /\ \A c \in Conn : d.est[c] => net.est[c] /\ c \notin Persistent
  BY <1>1, EdgeTypes, DetachWired
<1>. HIDE DEF d, E, L
<1>4. f \in Net /\ SameEnds(d, f) /\ WiredIn(f) /\ \A c \in Conn : f.est[c] => d.est[c]
  BY <1>3, FullDisconnectWired
<1>. HIDE DEF f
<1>5. u \in Net /\ SameEnds(f, u) /\ WiredIn(u) /\ \A c \in Conn : u.est[c] => f.est[c] /\ c \notin L
  BY <1>1, <1>4, DetachWired
<1>. HIDE DEF u
<1>6. \A c \in Conn : u.est[c] => c \in Kept(keep)
  BY <1>2, <1>3, <1>4, <1>5 DEF EdgeInv, EndsKnown
<1>. QED
  BY <1>2, <1>3, <1>4, <1>5, <1>6 DEF SameEnds

\* Load removes operators with all their connections, whatever it then
\* establishes.
LEMMA LoadEdge ==
    ASSUME EdgeInv, TypeInv', NEW keep, NEW C \in SUBSET conns, C \subseteq Showable(keep), LoadOperators(keep),
           conns' = Kept(keep) \cup C, SameEnds(net, net'), WiredIn(net'),
           \A c \in Conn : net'.est[c] => c \in conns',
           UNCHANGED <<fresh, widgets, opId, maker, opReqs, eps, creating>>
    PROVE  EdgeInv' /\ RemovalStep /\ ReboundStep
<1>1. conns' \subseteq conns
  BY DEF Kept
<1>2. EdgeInv'
  <2>1. \A x \in Comp \ fresh' : eps'[x].comp = x
    BY DEF EdgeInv, EndsKnown
  <2>. QED
    BY <1>1, <2>1, EdgeStays
<1>3. Elements(ops') = Elements(ops) \ Unregistered(keep)
  BY LoadOperatorsTyped DEF EdgeInv
<1>4. ASSUME NEW x \in Live \ Live'
      PROVE  /\ \A c \in conns' : ~Touches(net', c, x)
             /\ \A w \in net'.wires : x \notin {w[1].comp, w[2].comp}
  <2>1. x \in Unregistered(keep)
    BY <1>3, LiveElements, LiveElementsNext
  <2>2. opId[x] \notin keep /\ x \in Operators
    BY <2>1, EdgeTypes DEF Unregistered, Gone, OperatorsTyped
  <2>3. ASSUME NEW c \in conns', Touches(net, c, x) PROVE FALSE
    BY <1>1, <2>1, <2>2, <2>3 DEF Kept, LeavingConns, Showable
  <2>4. \A c \in conns' : ~Touches(net', c, x)
    BY <2>3 DEF Touches, SameEnds
  <2>5. WiresSoundIn(net', conns')
    BY DEF TypeInv, IInv, WiresSound
  <2>. QED
    BY <2>4, <2>5, WireEnds
<1>5. RemovalStep
  BY <1>4 DEF RemovalStep
<1>6. ReboundStep
  BY DEF ReboundStep
<1>. QED
  BY <1>2, <1>5, <1>6

LEMMA CloseEditorEdge ==
    ASSUME EdgeInv, TypeInv', NEW keep, NEW C \in SUBSET conns, CloseEditor(keep, C)
    PROVE  EdgeInv' /\ Steps
<1>. DEFINE u == Unloaded(keep)
<1>1. /\ C \subseteq Showable(keep) /\ LoadOperators(keep) /\ conns' = Kept(keep) \cup C
      /\ net' \in EstablishAll(u, Kept(keep) \cup C)
      /\ UNCHANGED <<fresh, widgets, opId, maker, opReqs, eps, creating>>
  BY DEF CloseEditor, metaVars
<1>2. /\ u \in Net /\ SameEnds(net, u) /\ WiredIn(u)
      /\ \A c \in Conn : u.est[c] => c \in Kept(keep)
  BY UnloadedWired
<1>3. WiresSoundIn(u, Kept(keep))
  BY UnloadedSound DEF EdgeInv, TypeInv
<1>4. Kept(keep) \in SUBSET Conn /\ Kept(keep) \cup C \in SUBSET Conn
  BY EdgeTypes DEF Kept
<1>. HIDE DEF u
<1>5. /\ SameEnds(u, net')
      /\ \A c \in Conn \ (Kept(keep) \cup C) : net'.est[c] => u.est[c]
      /\ \A c \in Kept(keep) \cup C : net'.est[c] \/ u.source[c].ghost \/ u.target[c].ghost
      /\ \A K \in SUBSET Conn : WiresSoundIn(u, K) /\ WiredIn(u) => WiredIn(net')
  BY <1>1, <1>2, <1>4, EstablishWired
<1>6. SameEnds(net, net') /\ WiredIn(net') /\ \A c \in Conn : net'.est[c] => c \in conns'
  BY <1>1, <1>2, <1>3, <1>4, <1>5 DEF SameEnds
<1>7. EdgeInv' /\ RemovalStep /\ ReboundStep
  BY <1>1, <1>6, LoadEdge
<1>8. StaysStep
  BY <1>1, <1>5 DEF StaysStep, SameEnds
<1>. QED
  BY <1>7, <1>8 DEF Steps

LEMMA CloseEditorInterruptedEdge ==
    ASSUME EdgeInv, TypeInv', NEW keep, NEW C \in SUBSET conns, CloseEditorInterrupted(keep, C)
    PROVE  EdgeInv' /\ Steps
<1>1. /\ C \subseteq Showable(keep) /\ LoadOperators(keep) /\ conns' = Kept(keep) \cup C
      /\ net' = Unloaded(keep) /\ editor' = "interrupted"
      /\ UNCHANGED <<fresh, widgets, opId, maker, opReqs, eps, creating>>
  BY DEF CloseEditorInterrupted, metaVars
<1>2. SameEnds(net, net') /\ WiredIn(net') /\ \A c \in Conn : net'.est[c] => c \in conns'
  BY <1>1, UnloadedWired
<1>3. EdgeInv' /\ RemovalStep /\ ReboundStep
  BY <1>1, <1>2, LoadEdge
<1>4. StaysStep
  BY <1>1 DEF StaysStep
<1>. QED
  BY <1>3, <1>4 DEF Steps

\* One step per action: the invariant, and what the step may not do.
LEMMA NextEdgeInv == EdgeInv /\ [Next]_vars => EdgeInv' /\ Steps
<1>. SUFFICES ASSUME EdgeInv, [Next]_vars PROVE EdgeInv' /\ Steps
  OBVIOUS
<1>1. TypeInv'
  BY NextTypeInv DEF EdgeInv
<1>3. ASSUME NEW c \in Conn, ConnectionRejected(c) PROVE EdgeInv' /\ Steps
  <2>1. creating' \subseteq creating /\ UNCHANGED <<fresh, widgets, eps, opId, conns, net, ops, editor>>
    BY <1>3 DEF ConnectionRejected, opVars, metaVars
  <2>. QED
    BY <1>1, <2>1, QuietActions
<1>4. ASSUME OpenEditor \/ UNCHANGED vars PROVE EdgeInv' /\ Steps
  BY <1>1, <1>4, QuietActions DEF OpenEditor, vars, opVars, metaVars
<1>5. ASSUME NEW x \in Comp, UnloadComponent(x) PROVE EdgeInv' /\ Steps
  BY <1>1, <1>5, QuietActions DEF UnloadComponent, metaVars, editVars
<1>6. ASSUME NEW o \in Operators, OperatorCreated(o) \/ OperatorRejected(o) PROVE EdgeInv' /\ Steps
  BY <1>1, <1>6, QuietActions DEF OperatorCreated, OperatorRejected, metaVars, editVars, AppendOperator
<1>7. ASSUME NEW o \in Operators, RemoveOperator(o) PROVE EdgeInv' /\ Steps
  <2>1. IInv' /\ TypeInv
    BY <1>1 DEF EdgeInv, TypeInv
  <2>2. ops' = ops \/ Elements(ops') = Elements(ops) \ {o}
    BY <1>7, <2>1, RemoveOperatorTyped
  <2>. QED
    BY <1>1, <1>7, <2>2, RemoveOperatorEdge
<1>8. ASSUME NEW w \in Widgets, NEW k \in Metas, AddWidget(w, k) PROVE EdgeInv' /\ Steps
  BY <1>1, <1>8, AddWidgetEdge
<1>9. ASSUME NEW w \in Widgets, RemoveWidget(w) PROVE EdgeInv' /\ Steps
  BY <1>1, <1>9, RemoveWidgetEdge
<1>10. ASSUME NEW o \in Operators, NEW k \in Metas, CreateOperator(o, k) PROVE EdgeInv' /\ Steps
  BY <1>1, <1>10, NewOperatorsEdge, CompTypes
<1>11. ASSUME NEW o \in Operators, NEW x \in Comp, NEW k \in Metas, CreateVolatileOperator(o, x, k)
       PROVE  EdgeInv' /\ Steps
  BY <1>1, <1>11, NewOperatorsEdge
<1>12. ASSUME NEW x \in Comp, NEW k \in Metas, ChangeMeta(x, k) PROVE EdgeInv' /\ Steps
  BY <1>1, <1>12, VersionEdge
<1>13. ASSUME NEW x \in Comp, MetaLoaded(x) \/ MetaFailed(x) PROVE EdgeInv' /\ Steps
  BY <1>1, <1>13, VersionEdge
<1>14. ASSUME NEW c \in Conn, NEW x \in Comp, NEW y \in Comp, NEW shown \in BOOLEAN, CreateConnection(c, x, y, shown)
       PROVE  EdgeInv' /\ Steps
  BY <1>1, <1>14, CreateConnectionEdge
<1>15. ASSUME NEW c \in Conn, ConnectionCreated(c) PROVE EdgeInv' /\ Steps
  BY <1>1, <1>15, ConnectionCreatedEdge
<1>16. ASSUME NEW c \in Conn, NEW x \in Comp, NEW y \in Comp, CreateVolatileConnection(c, x, y)
       PROVE  EdgeInv' /\ Steps
  BY <1>1, <1>16, CreateVolatileConnectionEdge
<1>17. ASSUME NEW w \in net.wires, RemoveConnection(w) PROVE EdgeInv' /\ Steps
  BY <1>1, <1>17, RemoveConnectionEdge
<1>18. ASSUME NEW keep \in SUBSET EditableIds, NEW C \in SUBSET conns,
              CloseEditor(keep, C) \/ CloseEditorInterrupted(keep, C)
       PROVE  EdgeInv' /\ Steps
  BY <1>1, <1>18, CloseEditorEdge, CloseEditorInterruptedEdge
<1>. QED
  BY <1>3, <1>4, <1>5, <1>6, <1>7, <1>8, <1>9, <1>10, <1>11, <1>12, <1>13, <1>14, <1>15, <1>16, <1>17, <1>18 DEF Next

LEMMA InitEdgeInv == Init => EdgeInv
<1>. SUFFICES ASSUME Init PROVE EdgeInv
  OBVIOUS
<1>1. /\ fresh = Comp \cup Conn /\ conns = {} /\ creating = {}
      /\ net.source = [c \in Conn |-> NoEndpoint] /\ net.est = [c \in Conn |-> FALSE]
  BY DEF Init, Comp
<1>2. EndsKnown
  BY <1>1 DEF EndsKnown, NoEndpoint
<1>3. WiredIn(net)
  BY <1>1 DEF WiredIn
<1>. QED
  BY <1>2, <1>3, InitTypeInv DEF EdgeInv

\* A connection that counts itself established carries events: its wire is
\* there, unless it shares one with another connection of the same pair of
\* components.
THEOREM EstablishedAlwaysWired == Spec => []EstablishedWired
<1>1. EdgeInv => EstablishedWired
  BY EdgeTypes DEF EstablishedWired, WiredIn, DuplicatedIn, Duplicated
<1>. QED
  BY InitEdgeInv, NextEdgeInv, <1>1, PTL DEF Spec

\* A connection between existing endpoints is established from the step that
\* brings it in until one of its ends goes, but for the exceptions the
\* property names.
THEOREM AlwaysStaysEstablished == Spec => StaysEstablished
<1>1. EdgeInv /\ [Next]_vars => StaysStep
  BY NextEdgeInv DEF Steps
<1>. QED
  BY InitEdgeInv, NextEdgeInv, <1>1, PTL DEF Spec, StaysEstablished, StaysStep

\* A component leaves the engine with all its connections and wires, whoever
\* removes it: its user, its creator or a load.
THEOREM RemovalAlwaysComplete == Spec => RemovalComplete
<1>1. EdgeInv /\ [Next]_vars => RemovalStep
  BY NextEdgeInv DEF Steps
<1>. QED
  BY InitEdgeInv, NextEdgeInv, <1>1, PTL DEF Spec, RemovalComplete, RemovalStep

\* A version change rebinds every connection of the component and loses none.
THEOREM AlwaysRebound == Spec => Rebound
<1>1. EdgeInv /\ [Next]_vars => ReboundStep
  BY NextEdgeInv DEF Steps
<1>. QED
  BY InitEdgeInv, NextEdgeInv, <1>1, PTL DEF Spec, Rebound, ReboundStep
=============================================================================
