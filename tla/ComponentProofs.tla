--------------------------- MODULE ComponentProofs ---------------------------
(***************************************************************************)
(* Proofs about what components keep. OperatorLifecycle, for any finite    *)
(* set of operators and any versions, scripts and inputs: the script       *)
(* elements operators share are counted right, whoever waits for one gets  *)
(* it, and queued events are not lost, and are delivered once and in order *)
(* as long as on_load does not throw.                                      *)
(* PropertyCommits, for any properties and bounds: the last value set of a *)
(* property is somewhere.                                                  *)
(***************************************************************************)
EXTENDS OperatorLifecycle, PropertyCommits, FiniteSetTheorems, TLAPS

-----------------------------------------------------------------------------
(* The inductive invariant of OperatorLifecycle.                           *)

ScriptTypes ==
    /\ status \in [Operators -> {"absent", "created", "loading", "running", "failed"}]
    /\ meta \in [Operators -> Versions \cup {Missing}]
    /\ dom \subseteq Scripts
    /\ users \in [Scripts -> SUBSET Operators]
    /\ held \in [Operators -> SUBSET Scripts]
    /\ waits \in [Operators -> SUBSET Scripts]
    /\ promised \subseteq Operators

\* An operator waits for an iframe or for scripts, never for both.
OneWait ==
    /\ frame \subseteq Operators /\ framing \subseteq frame
    /\ frame \cap promised = {}
    /\ \A o \in frame : status[o] # "absent"

IInv == ScriptTypes /\ OneWait /\ ScriptsShared /\ WaitsAreComing

-----------------------------------------------------------------------------
(* What loading and unloading scripts does.                                *)

LEMMA OnlyMember ==
    ASSUME NEW U \in SUBSET Operators, NEW o \in U
    PROVE  Cardinality(U) = 1 <=> U = {o}
<1>1. IsFiniteSet(U)
  BY OperatorsAssumption, FS_Subset
<1>2. IsFiniteSet(U \ {o}) /\ Cardinality(U \ {o}) = Cardinality(U) - 1
  BY <1>1, FS_RemoveElement
<1>3. U \ {o} = {} <=> Cardinality(U \ {o}) = 0
  BY <1>2, FS_EmptySet
<1>4. Cardinality(U) \in Nat
  BY <1>1, FS_CardinalityType
<1>. QED
  BY <1>2, <1>3, <1>4

\* _unloadScripts takes the operator out of the users of every script, and
\* the elements it leaves without users out of the page.
LEMMA Released ==
    ASSUME ScriptTypes, ScriptsShared, NEW o \in Operators
    PROVE  /\ SoleUser(o) = {s \in Scripts : users[s] = {o}}
           /\ UsersWithout(o) = [s \in Scripts |-> users[s] \ {o}]
<1>1. \A s \in Scripts : users[s] \in SUBSET Operators /\ (o \in users[s] <=> s \in held[o])
  BY DEF ScriptTypes, ScriptsShared
<1>2. held[o] \subseteq Scripts
  BY DEF ScriptTypes
<1>3. SoleUser(o) = {s \in Scripts : users[s] = {o}}
  <2>1. ASSUME NEW s \in Scripts, s \in held[o]
        PROVE  Cardinality(users[s]) = 1 <=> users[s] = {o}
    BY <1>1, <2>1, OnlyMember
  <2>2. ASSUME NEW s \in Scripts, users[s] = {o}
        PROVE  s \in held[o]
    BY <1>1, <2>2
  <2>. QED
    BY <1>2, <2>1, <2>2 DEF SoleUser
<1>4. UsersWithout(o) = [s \in Scripts |-> users[s] \ {o}]
  <2>1. ASSUME NEW s \in Scripts
        PROVE  users[s] \ {o} = IF s \in SoleUser(o) THEN {}
                                ELSE IF s \in held[o] THEN users[s] \ {o} ELSE users[s]
    BY <1>1, <1>3
  <2>. QED
    BY <2>1 DEF UsersWithout
<1>. QED
  BY <1>3, <1>4

\* Unloading a running operator.
LEMMA UnloadScriptsKeeps ==
    ASSUME IInv, NEW o \in Operators, status[o] = "running",
           status' = [status EXCEPT ![o] = "created"], UnloadScripts(o),
           UNCHANGED <<meta, frame, promised, waits>>, framing' \subseteq framing
    PROVE  IInv'
<1>1. /\ dom' = dom \ {s \in Scripts : users[s] = {o}}
      /\ ready' = ready \ {s \in Scripts : users[s] = {o}}
      /\ users' = [s \in Scripts |-> users[s] \ {o}]
      /\ held' = [held EXCEPT ![o] = {}]
  BY Released DEF UnloadScripts, IInv
<1>2. ScriptTypes'
  BY <1>1 DEF IInv, ScriptTypes
<1>3. OneWait'
  BY DEF IInv, OneWait, ScriptTypes
<1>4. ScriptsShared'
  <2>1. ready' \subseteq dom'
    BY <1>1 DEF IInv, ScriptsShared
  <2>2. \A s \in Scripts : s \in dom' <=> users'[s] # {}
    BY <1>1 DEF IInv, ScriptsShared, ScriptTypes
  <2>3. \A s \in Scripts, p \in Operators : p \in users'[s] <=> s \in held'[p]
    BY <1>1 DEF IInv, ScriptsShared, ScriptTypes
  <2>. QED
    BY <2>1, <2>2, <2>3 DEF ScriptsShared
<1>5. WaitsAreComing'
  <2>1. ASSUME NEW p \in promised
        PROVE  status'[p] = "loading" /\ waits'[p] \subseteq (dom' \ ready') \cap held'[p]
    <3>1. p \in Operators /\ p # o /\ status[p] = "loading"
      BY DEF IInv, WaitsAreComing, ScriptTypes
    <3>2. waits[p] \subseteq (dom \ ready) \cap held[p]
      BY DEF IInv, WaitsAreComing
    <3>3. \A s \in waits[p] : p \in users[s]
      BY <3>1, <3>2 DEF IInv, ScriptsShared, ScriptTypes
    <3>4. status'[p] = "loading"
      BY <3>1 DEF IInv, ScriptTypes
    <3>5. held'[p] = held[p]
      BY <1>1, <3>1 DEF IInv, ScriptTypes
    <3>. QED
      BY <1>1, <3>1, <3>2, <3>3, <3>4, <3>5
  <2>. QED
    BY <2>1 DEF WaitsAreComing
<1>. QED
  BY <1>2, <1>3, <1>4, <1>5 DEF IInv

\* Loading an operator that waits for nothing yet.
LEMMA LoadScriptsKeeps ==
    ASSUME IInv, NEW o \in Operators \ frame, NEW v \in V2, o \notin promised,
           status' = [status EXCEPT ![o] = "loading"], LoadScripts(o, v),
           meta' \in [Operators -> Versions \cup {Missing}], UNCHANGED frame
    PROVE  IInv'
<1> DEFINE js == JsFiles[v]
<1>1. js \subseteq Scripts
  BY ConstantsAssumption DEF V2
<1>2. /\ dom' = (dom \ {s \in Scripts : users[s] = {o}}) \cup js
      /\ ready' = ready \cap (dom \ {s \in Scripts : users[s] = {o}})
      /\ users' = [s \in Scripts |-> IF s \in js THEN (users[s] \ {o}) \cup {o}
                                               ELSE users[s] \ {o}]
      /\ held' = [held EXCEPT ![o] = js]
      /\ promised' = promised \cup {o}
      /\ waits' = [waits EXCEPT ![o] = js \ ready']
      /\ framing' = framing
  BY Released DEF LoadScripts, Awaited, IInv
<1>3. ScriptTypes'
  BY <1>1, <1>2 DEF IInv, ScriptTypes
<1>4. OneWait'
  BY <1>2 DEF IInv, OneWait, ScriptTypes
<1>5. ScriptsShared'
  <2>1. ready' \subseteq dom'
    BY <1>2
  <2>2. \A s \in Scripts : s \in dom' <=> users'[s] # {}
    BY <1>2 DEF IInv, ScriptsShared, ScriptTypes
  <2>3. \A s \in Scripts, p \in Operators : p \in users'[s] <=> s \in held'[p]
    BY <1>2 DEF IInv, ScriptsShared, ScriptTypes
  <2>. QED
    BY <2>1, <2>2, <2>3 DEF ScriptsShared
<1>6. WaitsAreComing'
  <2>1. status'[o] = "loading" /\ waits'[o] \subseteq (dom' \ ready') \cap held'[o]
    BY <1>2 DEF IInv, ScriptTypes
  <2>2. ASSUME NEW p \in promised
        PROVE  status'[p] = "loading" /\ waits'[p] \subseteq (dom' \ ready') \cap held'[p]
    <3>1. p \in Operators /\ p # o /\ status[p] = "loading"
      BY DEF IInv, WaitsAreComing, ScriptTypes
    <3>2. waits[p] \subseteq (dom \ ready) \cap held[p]
      BY DEF IInv, WaitsAreComing
    <3>3. \A s \in waits[p] : p \in users[s]
      BY <3>1, <3>2 DEF IInv, ScriptsShared, ScriptTypes
    <3>4. status'[p] = "loading"
      BY <3>1 DEF IInv, ScriptTypes
    <3>5. held'[p] = held[p] /\ waits'[p] = waits[p]
      BY <1>2, <3>1 DEF IInv, ScriptTypes
    <3>. QED
      BY <1>2, <3>1, <3>2, <3>3, <3>4, <3>5
  <2>. QED
    BY <1>2, <2>1, <2>2 DEF WaitsAreComing
<1>. QED
  BY <1>3, <1>4, <1>5, <1>6 DEF IInv

\* A step that changes the status of one operator, out of reach of those that
\* wait for scripts, and none of the scripts.
LEMMA StatusKeeps ==
    ASSUME IInv, NEW o \in Operators \ promised, NEW st \in {"created", "loading", "running"},
           status' = [status EXCEPT ![o] = st],
           meta' \in [Operators -> Versions \cup {Missing}],
           UNCHANGED <<dom, users, ready, held, promised, waits>>,
           frame' \subseteq frame \cup {o}, frame \subseteq frame', framing' \subseteq frame'
    PROVE  IInv'
<1>1. ScriptTypes'
  BY DEF IInv, ScriptTypes
<1>2. OneWait'
  BY DEF IInv, OneWait, ScriptTypes
<1>3. ScriptsShared'
  BY DEF IInv, ScriptsShared
<1>4. WaitsAreComing'
  BY DEF IInv, WaitsAreComing, ScriptTypes
<1>. QED
  BY <1>1, <1>2, <1>3, <1>4 DEF IInv

LEMMA UntouchedKeeps ==
    ASSUME IInv, meta' \in [Operators -> Versions \cup {Missing}],
           UNCHANGED <<status, frame, dom, users, ready, held, promised, waits>>,
           framing' \subseteq framing
    PROVE  IInv'
<1>1. ScriptTypes' /\ OneWait'
  BY DEF IInv, ScriptTypes, OneWait
<1>2. ScriptsShared' /\ WaitsAreComing'
  BY DEF IInv, ScriptsShared, WaitsAreComing
<1>. QED
  BY <1>1, <1>2 DEF IInv

\* load() of an operator that was running, whichever branch it takes.
LEMMA LoadKeeps ==
    ASSUME IInv, NEW o \in Operators, NEW v \in Versions \cup {Missing},
           status[o] = "running", Load(o, v),
           meta' \in [Operators -> Versions \cup {Missing}], UNCHANGED frame
    PROVE  IInv'
<1>1. o \notin promised
  BY DEF IInv, WaitsAreComing
<1>2. CASE o \in frame
  BY <1>1, <1>2, StatusKeeps DEF Load, IInv, OneWait
<1>3. CASE o \notin frame /\ v = Missing
  BY <1>1, <1>3, StatusKeeps DEF Load, loadVars, IInv, OneWait
<1>4. CASE o \notin frame /\ v # Missing /\ v \in V2
  <2>1. status' = [status EXCEPT ![o] = "loading"] /\ LoadScripts(o, v)
    BY <1>4 DEF Load
  <2>. QED
    BY <1>1, <1>4, <2>1, LoadScriptsKeeps
<1>5. CASE o \notin frame /\ v # Missing /\ v \notin V2
  BY <1>1, <1>5, StatusKeeps DEF Load, loadVars, IInv, OneWait
<1>. QED
  BY <1>2, <1>3, <1>4, <1>5

\* The continuation of a version change.
LEMMA RebuiltKeeps ==
    ASSUME IInv, NEW o \in Operators, NEW v \in Versions \cup {Missing},
           Rebuilt(o, v), meta' \in [Operators -> Versions \cup {Missing}],
           UNCHANGED frame
    PROVE  IInv'
<1>1. CASE status[o] = "running"
  <2>1. Load(o, v)
    BY <1>1 DEF Rebuilt
  <2>. QED
    BY <1>1, <2>1, LoadKeeps
<1>2. CASE status[o] # "running"
  <2>1. UNCHANGED <<status, inst, loadVars>>
    BY <1>2 DEF Rebuilt
  <2>. QED
    BY <2>1, UntouchedKeeps DEF loadVars
<1>. QED
  BY <1>1, <1>2

\* on_unload of a running operator, and the iframe it may have leaves the page.
LEMMA OnUnloadKeeps ==
    ASSUME IInv, NEW o \in Operators, status[o] = "running", OnUnload(o),
           UNCHANGED <<meta, frame, promised, waits>>, framing' \subseteq framing
    PROVE  IInv'
<1>1. o \notin promised
  BY DEF IInv, WaitsAreComing
<1>2. CASE meta[o] \in V2
  BY <1>2, UnloadScriptsKeeps DEF OnUnload
<1>3. CASE meta[o] \notin V2
  <2>1. UNCHANGED <<dom, users, ready, held>> /\ status' = [status EXCEPT ![o] = "created"]
    BY <1>3 DEF OnUnload
  <2>. QED
    BY <1>1, <2>1, StatusKeeps DEF IInv, OneWait, ScriptTypes
<1>. QED
  BY <1>2, <1>3

-----------------------------------------------------------------------------
(* The invariant.                                                          *)

LEMMA InitIInv == Init => IInv
<1>. SUFFICES ASSUME Init PROVE IInv
  OBVIOUS
<1>1. ScriptTypes /\ OneWait
  BY DEF Init, ScriptTypes, OneWait
<1>2. ScriptsShared /\ WaitsAreComing
  BY DEF Init, ScriptsShared, WaitsAreComing
<1>. QED
  BY <1>1, <1>2 DEF IInv

LEMMA NextIInv == IInv /\ [Next]_vars => IInv'
<1>. SUFFICES ASSUME IInv, [Next]_vars PROVE IInv'
  OBVIOUS
<1>. USE DEF loadVars, eventVars
<1>0. meta \in [Operators -> Versions \cup {Missing}]
  BY DEF IInv, ScriptTypes
<1>1. ASSUME NEW o \in Operators, NEW v \in Versions \cup {Missing}, Create(o, v)
      PROVE  IInv'
  <2>1. o \notin promised /\ o \notin frame
    BY <1>1 DEF Create, IInv, WaitsAreComing, OneWait
  <2>2. meta' \in [Operators -> Versions \cup {Missing}]
    BY <1>0, <1>1 DEF Create
  <2>3. CASE v \in V2
    <3>1. status' = [status EXCEPT ![o] = "loading"] /\ LoadScripts(o, v) /\ UNCHANGED frame
      BY <1>1, <2>3 DEF Create
    <3>. QED
      BY <2>1, <2>2, <2>3, <3>1, LoadScriptsKeeps
  <2>4. CASE v \notin V2
    <3>1. /\ status' = [status EXCEPT ![o] = "loading"]
          /\ frame' = frame \cup {o} /\ framing' = framing \cup {o}
          /\ UNCHANGED <<dom, users, ready, held, promised, waits>>
      BY <1>1, <2>4 DEF Create
    <3>. QED
      BY <2>1, <2>2, <3>1, StatusKeeps DEF IInv, OneWait
  <2>. QED
    BY <2>3, <2>4
<1>2. ASSUME NEW s \in Scripts, ScriptLoaded(s)
      PROVE  IInv'
  <2>1. /\ s \in dom /\ ready' = ready \cup {s}
        /\ waits' = [o \in Operators |-> waits[o] \ {s}]
        /\ UNCHANGED <<status, meta, frame, framing, dom, users, held, promised>>
    BY <1>2 DEF ScriptLoaded
  <2>2. ScriptTypes' /\ OneWait'
    BY <2>1 DEF IInv, ScriptTypes, OneWait
  <2>3. ScriptsShared'
    BY <2>1 DEF IInv, ScriptsShared
  <2>4. WaitsAreComing'
    BY <2>1 DEF IInv, WaitsAreComing, ScriptTypes
  <2>. QED
    BY <2>2, <2>3, <2>4 DEF IInv
<1>3. ASSUME NEW o \in Operators, ScriptsReady(o) \/ EntrypointThrows(o)
      PROVE  IInv'
  <2>1. /\ promised' = promised \ {o}
        /\ \E st \in {"running", "failed"} : status' = [status EXCEPT ![o] = st]
        /\ UNCHANGED <<meta, frame, framing, dom, users, ready, held, waits>>
    BY <1>3 DEF ScriptsReady, OnLoad, EntrypointThrows
  <2>2. ScriptTypes' /\ OneWait'
    BY <2>1 DEF IInv, ScriptTypes, OneWait
  <2>3. ScriptsShared'
    BY <2>1 DEF IInv, ScriptsShared
  <2>4. WaitsAreComing'
    BY <2>1 DEF IInv, WaitsAreComing, ScriptTypes
  <2>. QED
    BY <2>2, <2>3, <2>4 DEF IInv
<1>4. ASSUME NEW o \in Operators, FrameLoaded(o)
      PROVE  IInv'
  <2>1. o \notin promised
    BY <1>4 DEF FrameLoaded, IInv, OneWait
  <2>2. /\ framing' = framing \ {o} /\ status' = [status EXCEPT ![o] = "running"]
        /\ UNCHANGED <<meta, frame, dom, users, ready, held, promised, waits>>
    BY <1>4 DEF FrameLoaded, OnLoad
  <2>. QED
    BY <1>0, <2>1, <2>2, StatusKeeps DEF IInv, OneWait
<1>5. ASSUME NEW o \in Operators, NEW i \in Inputs,
             Send(o, i) \/ Connect(o, i) \/ Disconnect(o, i)
      PROVE  IInv'
  BY <1>0, <1>5, UntouchedKeeps DEF Send, Connect, Disconnect
<1>6. ASSUME Flush \/ EventRejected \/ FlushEnd
      PROVE  IInv'
  BY <1>0, <1>6, UntouchedKeeps DEF Flush, EventRejected, FlushEnd
<1>7. ASSUME NEW o \in Operators, NEW v \in Versions \cup {Missing}, ChangeMeta(o, v)
      PROVE  IInv'
  <2>1. meta' \in [Operators -> Versions \cup {Missing}] /\ UNCHANGED frame
    BY <1>0, <1>7 DEF ChangeMeta
  <2>2. CASE v = Missing
    <3>1. Rebuilt(o, v)
      BY <1>7, <2>2 DEF ChangeMeta
    <3>. QED
      BY <2>1, <3>1, RebuiltKeeps
  <2>3. CASE v # Missing
    <3>1. UNCHANGED <<status, loadVars>>
      BY <1>7, <2>3 DEF ChangeMeta
    <3>. QED
      BY <2>1, <3>1, UntouchedKeeps
  <2>. QED
    BY <2>2, <2>3
<1>8. ASSUME NEW o \in Operators, MetaLoaded(o)
      PROVE  IInv'
  <2>1. Rebuilt(o, meta[o]) /\ UNCHANGED <<meta, frame>>
    BY <1>8 DEF MetaLoaded
  <2>2. meta[o] \in Versions \cup {Missing}
    BY <1>0
  <2>. QED
    BY <1>0, <2>1, <2>2, RebuiltKeeps
<1>9. ASSUME NEW o \in Operators, MetaFailed(o)
      PROVE  IInv'
  BY <1>0, <1>9, UntouchedKeeps DEF MetaFailed
<1>10. ASSUME NEW o \in Operators, Remove(o)
       PROVE  IInv'
  <2>1. UNCHANGED <<meta, frame, promised, waits>> /\ framing' \subseteq framing
    BY <1>10 DEF Remove
  <2>2. CASE status[o] = "running"
    BY <1>10, <2>1, <2>2, OnUnloadKeeps DEF Remove
  <2>3. CASE status[o] # "running"
    <3>1. UNCHANGED <<status, dom, users, ready, held>>
      BY <1>10, <2>3 DEF Remove
    <3>. QED
      BY <1>0, <2>1, <3>1, UntouchedKeeps
  <2>. QED
    BY <2>2, <2>3
<1>11. ASSUME NEW o \in Operators, Leave(o)
       PROVE  IInv'
  <2>1. UNCHANGED <<meta, frame, promised, waits>> /\ framing' \subseteq framing
    BY <1>11 DEF Leave
  <2>2. CASE status[o] = "running" /\ meta[o] \notin Legacy
    BY <1>11, <2>1, <2>2, OnUnloadKeeps DEF Leave
  <2>3. CASE ~(status[o] = "running" /\ meta[o] \notin Legacy)
    <3>1. UNCHANGED <<status, dom, users, ready, held>>
      BY <1>11, <2>3 DEF Leave
    <3>. QED
      BY <1>0, <2>1, <3>1, UntouchedKeeps
  <2>. QED
    BY <2>2, <2>3
<1>12. CASE UNCHANGED vars
  BY <1>0, <1>12, UntouchedKeeps DEF vars
<1>. QED
  BY <1>1, <1>2, <1>3, <1>4, <1>5, <1>6, <1>7, <1>8, <1>9, <1>10, <1>11, <1>12
     DEF Next

-----------------------------------------------------------------------------
\* Script elements are on the page exactly while they have users, and their
\* users are exactly the operators that hold them (_loadScripts and
\* _unloadScripts), for any number of operators and versions.
THEOREM ScriptsAlwaysShared == Spec => []ScriptsShared
<1>1. IInv => ScriptsShared
  BY DEF IInv
<1>. QED
  BY <1>1, InitIInv, NextIInv, PTL DEF Spec

\* No operator waits for a script whose load event is not coming: the safety
\* half of the promise that loading ends.
THEOREM WaitsAlwaysComing == Spec => []WaitsAreComing
<1>1. IInv => WaitsAreComing
  BY DEF IInv
<1>. QED
  BY <1>1, InitIInv, NextIInv, PTL DEF Spec

-----------------------------------------------------------------------------
(* Types.                                                                  *)

\* A delivery is some operator's, until it ends.
FlushOwned == flush.op \in Operators \/ flush = Idle

LEMMA FlushStaysOwned ==
    ASSUME TypeOK, FlushOwned, [Next]_vars
    PROVE  FlushOwned'
<1>. USE DEF FlushOwned, loadVars, eventVars
<1>1. CASE UNCHANGED flush \/ flush' = Idle
  BY <1>1 DEF Idle
<1>2. ASSUME NEW o \in Operators, flush' = [op |-> o, rest |-> pending[o], called |-> FALSE]
      PROVE  FlushOwned'
  BY <1>2
<1>3. ASSUME NEW c, flush # Idle, flush' = [flush EXCEPT !.rest = Tail(@), !.called = c]
      PROVE  FlushOwned'
  BY <1>3 DEF TypeOK
<1>4. CASE Flush \/ EventRejected \/ FlushEnd
  BY <1>1, <1>3, <1>4 DEF Flush, EventRejected, FlushEnd
<1>5. ASSUME NEW o \in Operators, ScriptsReady(o) \/ FrameLoaded(o)
      PROVE  FlushOwned'
  BY <1>2, <1>5 DEF ScriptsReady, FrameLoaded, OnLoad
<1>. QED
  BY <1>1, <1>4, <1>5
     DEF Next, Create, ScriptLoaded, EntrypointThrows, Send, Connect, Disconnect, ChangeMeta,
         MetaLoaded, MetaFailed, Remove, Leave, vars

LEMMA InitTypes == Init => TypeOK
BY ConstantsAssumption DEF Init, TypeOK, Idle, Event

LEMMA UsersWithoutType ==
    ASSUME TypeOK, NEW o \in Operators
    PROVE  UsersWithout(o) \in [Scripts -> SUBSET Operators]
BY DEF TypeOK, UsersWithout

LEMMA UnloadTypes ==
    ASSUME TypeOK, NEW o \in Operators, UnloadScripts(o)
    PROVE  /\ dom' \subseteq Scripts /\ ready' \subseteq Scripts
           /\ users' \in [Scripts -> SUBSET Operators] /\ held' \in [Operators -> SUBSET Scripts]
BY UsersWithoutType DEF TypeOK, UnloadScripts, SoleUser

LEMMA LoadScriptsTypes ==
    ASSUME TypeOK, NEW o \in Operators, NEW v \in V2, LoadScripts(o, v)
    PROVE  /\ dom' \subseteq Scripts /\ ready' \subseteq Scripts
           /\ users' \in [Scripts -> SUBSET Operators] /\ held' \in [Operators -> SUBSET Scripts]
           /\ promised' \subseteq Operators /\ waits' \in [Operators -> SUBSET Scripts]
           /\ UNCHANGED <<ran, framing>>
<1>1. JsFiles[v] \subseteq Scripts
  BY ConstantsAssumption DEF V2
<1>2. UsersWithout(o) \in [Scripts -> SUBSET Operators]
  BY UsersWithoutType
<1>3. Awaited(JsFiles[v]) \subseteq Scripts
  BY <1>1 DEF Awaited
<1>. QED
  BY <1>1, <1>2, <1>3 DEF TypeOK, LoadScripts

LoadTypes ==
    /\ status \in [Operators -> {"absent", "created", "loading", "running", "failed"}]
    /\ framing \subseteq frame
    /\ dom \subseteq Scripts /\ ready \subseteq Scripts /\ ran \subseteq Scripts
    /\ users \in [Scripts -> SUBSET Operators]
    /\ held \in [Operators -> SUBSET Scripts]
    /\ promised \subseteq Operators
    /\ waits \in [Operators -> SUBSET Scripts]

LEMMA LoadKeepsTypes ==
    ASSUME TypeOK, NEW o \in Operators, NEW v \in Versions \cup {Missing}, Load(o, v), UNCHANGED frame
    PROVE  LoadTypes'
<1>1. CASE o \in frame
  <2>1. status' = [status EXCEPT ![o] = "loading"] /\ framing' = framing \cup {o}
    BY <1>1 DEF Load
  <2>2. UNCHANGED <<dom, users, ready, ran, held, promised, waits>>
    BY <1>1 DEF Load
  <2>3. status' \in [Operators -> {"absent", "created", "loading", "running", "failed"}]
    BY <2>1 DEF TypeOK
  <2>4. framing' \subseteq frame'
    BY <1>1, <2>1 DEF TypeOK
  <2>. QED
    BY <2>2, <2>3, <2>4 DEF TypeOK, LoadTypes
<1>2. CASE o \notin frame /\ v # Missing /\ v \in V2
  BY <1>2, LoadScriptsTypes DEF Load, TypeOK, LoadTypes
<1>3. CASE o \notin frame /\ (v = Missing \/ v \notin V2)
  BY <1>3 DEF Load, TypeOK, LoadTypes, loadVars
<1>. QED
  BY <1>1, <1>2, <1>3

LEMMA KeepQueueType ==
    ASSUME TypeOK, NEW o \in Operators, KeepQueue(o)
    PROVE  retained' \in [Operators -> SUBSET (1..MaxEvents)]
<1>1. pending[o] \in Seq(Event)
  BY DEF TypeOK
<1>2. \A k \in DOMAIN pending[o] : pending[o][k].n \in 1..MaxEvents
  <2>1. \A k \in DOMAIN pending[o] : pending[o][k] \in Event
    BY <1>1
  <2>. QED
    BY <2>1 DEF Event
<1>. QED
  BY <1>2 DEF TypeOK, KeepQueue

LEMMA RebuiltKeepsTypes ==
    ASSUME TypeOK, NEW o \in Operators, NEW v \in Versions \cup {Missing}, Rebuilt(o, v), UNCHANGED frame
    PROVE  /\ LoadTypes' 
           /\ inst' \in [Operators -> V2 \cup {None}]
           /\ inputs' \in [Operators -> [Inputs -> {"real", "ghost", None}]]
           /\ callback' \subseteq Operators
           /\ links' \in [Operators -> [Inputs -> {"bound", "stale", "ghost", None}]]
           /\ retained' \in [Operators -> SUBSET (1..MaxEvents)]
<1>1. LoadTypes'
  <2>1. CASE status[o] = "running"
    BY <2>1, LoadKeepsTypes DEF Rebuilt
  <2>2. CASE status[o] # "running"
    BY <2>2 DEF Rebuilt, loadVars, TypeOK, LoadTypes
  <2>. QED
    BY <2>1, <2>2
<1>2. inst' \in [Operators -> V2 \cup {None}] /\ callback' \subseteq Operators
  BY DEF Rebuilt, TypeOK
<1>3. CASE Unannounced(o)
  <2>1. BuildEndpoints(Missing) \in [Inputs -> {"real", "ghost", None}]
    BY DEF BuildEndpoints
  <2>2. inputs' \in [Operators -> [Inputs -> {"real", "ghost", None}]]
    BY <1>3, <2>1 DEF TypeOK, Unannounced
  <2>3. links' \in [Operators -> [Inputs -> {"bound", "stale", "ghost", None}]]
    BY <1>3 DEF TypeOK, Unannounced
  <2>4. retained' \in [Operators -> SUBSET (1..MaxEvents)]
    BY <1>3, KeepQueueType DEF Unannounced
  <2>. QED
    BY <1>1, <1>2, <2>2, <2>3, <2>4
<1>4. CASE Rebound(o, v) /\ UNCHANGED retained
  <2>2. inputs' \in [Operators -> [Inputs -> {"real", "ghost", None}]]
    BY <1>4 DEF TypeOK, Rebound
  <2>3. /\ links' \in [Operators -> [Inputs -> {"bound", "stale", "ghost", None}]]
        /\ retained' \in [Operators -> SUBSET (1..MaxEvents)]
    BY <1>4 DEF TypeOK, Rebound
  <2>. QED
    BY <1>1, <1>2, <2>2, <2>3
<1>. QED
  BY <1>3, <1>4 DEF Rebuilt

LEMMA OnLoadKeepsTypes ==
    ASSUME TypeOK, NEW o \in Operators, OnLoad(o)
    PROVE  /\ status' \in [Operators -> {"absent", "created", "loading", "running", "failed"}]
           /\ inst' \in [Operators -> V2 \cup {None}]
           /\ callback' \subseteq Operators
           /\ flush' \in [op : Operators \cup {None}, rest : Seq(Event), called : BOOLEAN]
BY DEF TypeOK, OnLoad, Registered

LEMMA OnUnloadKeepsTypes ==
    ASSUME TypeOK, NEW o \in Operators, OnUnload(o)
    PROVE  /\ status' \in [Operators -> {"absent", "created", "loading", "running", "failed"}]
           /\ inst' \in [Operators -> V2 \cup {None}]
           /\ callback' \subseteq Operators
           /\ dom' \subseteq Scripts /\ ready' \subseteq Scripts
           /\ users' \in [Scripts -> SUBSET Operators] /\ held' \in [Operators -> SUBSET Scripts]
<1>1. CASE meta[o] \in V2
  BY <1>1, UnloadTypes DEF TypeOK, OnUnload
<1>2. CASE meta[o] \notin V2
  BY <1>2 DEF TypeOK, OnUnload
<1>. QED
  BY <1>1, <1>2

LEMMA ProcessKeepsTypes ==
    ASSUME TypeOK, NEW o \in Operators, NEW e \in Event, Process(o, e)
    PROVE  delivered' \in [Operators -> Seq(Event)]
BY DEF TypeOK, Process

\* A delivery that has not ended is an operator's.
LEMMA FlushHasOperator ==
    ASSUME TypeOK, FlushOwned, flush # Idle
    PROVE  flush.op \in Operators
BY DEF TypeOK, FlushOwned

LEMMA NextTypes == TypeOK /\ FlushOwned /\ [Next]_vars => TypeOK' /\ FlushOwned'
<1>. SUFFICES ASSUME TypeOK, FlushOwned, [Next]_vars PROVE TypeOK'
  BY FlushStaysOwned
<1>. USE DEF loadVars, eventVars
<1>1. ASSUME NEW o \in Operators, NEW v \in Versions \cup {Missing}, Create(o, v)
      PROVE  TypeOK'
  <2>1. inputs' \in [Operators -> [Inputs -> {"real", "ghost", None}]]
    <3>1. BuildEndpoints(v) \in [Inputs -> {"real", "ghost", None}]
      BY DEF BuildEndpoints
    <3>. QED
      BY <1>1, <3>1 DEF Create, TypeOK
  <2>2. CASE v \in V2
    <3>1. LoadScripts(o, v)
      BY <1>1, <2>2 DEF Create
    <3>. QED
      BY <1>1, <2>1, <2>2, <3>1, LoadScriptsTypes DEF Create, TypeOK
  <2>3. CASE v \notin V2
    <3>1. /\ status' = [status EXCEPT ![o] = "loading"]
          /\ frame' = frame \cup {o} /\ framing' = framing \cup {o}
          /\ present' = present \cup {o} /\ meta' = [meta EXCEPT ![o] = v]
          /\ UNCHANGED <<dom, users, ready, ran, held, promised, waits>>
          /\ UNCHANGED <<changes, fetching, inst, callback, links, eventVars>>
      BY <1>1, <2>3 DEF Create
    <3>2. /\ status' \in [Operators -> {"absent", "created", "loading", "running", "failed"}]
          /\ meta' \in [Operators -> Versions \cup {Missing}] /\ present' \subseteq Operators
      BY <3>1 DEF TypeOK
    <3>3. frame' \subseteq Operators /\ framing' \subseteq frame'
      BY <3>1 DEF TypeOK
    <3>. QED
      BY <2>1, <3>1, <3>2, <3>3 DEF TypeOK
  <2>. QED
    BY <2>2, <2>3
<1>2. ASSUME NEW s \in Scripts, ScriptLoaded(s)
      PROVE  TypeOK'
  BY <1>2 DEF ScriptLoaded, TypeOK
<1>3. ASSUME NEW o \in Operators, ScriptsReady(o) \/ FrameLoaded(o)
      PROVE  TypeOK'
  <2>1. OnLoad(o)
    BY <1>3 DEF ScriptsReady, FrameLoaded
  <2>2. UNCHANGED <<present, meta, changes, fetching, frame, dom, users,
                      ready, ran, held, waits, inputs, links, pending, sent,
                      delivered, retained>>
    BY <2>1 DEF OnLoad
  <2>3. promised' \subseteq Operators /\ framing' \subseteq frame
    BY <1>3 DEF ScriptsReady, FrameLoaded, TypeOK
  <2>4. /\ present' \subseteq Operators /\ meta' \in [Operators -> Versions \cup {Missing}]
        /\ changes' \in [Operators -> 0..MaxChanges] /\ fetching' \in [Operators -> Nat]
        /\ frame' \subseteq Operators /\ framing' \subseteq frame'
        /\ dom' \subseteq Scripts /\ ready' \subseteq Scripts /\ ran' \subseteq Scripts
        /\ users' \in [Scripts -> SUBSET Operators] /\ held' \in [Operators -> SUBSET Scripts]
        /\ waits' \in [Operators -> SUBSET Scripts]
    BY <2>2, <2>3 DEF TypeOK
  <2>5. /\ inputs' \in [Operators -> [Inputs -> {"real", "ghost", None}]]
        /\ links' \in [Operators -> [Inputs -> {"bound", "stale", "ghost", None}]]
        /\ pending' \in [Operators -> Seq(Event)] /\ sent' \in 0..MaxEvents
        /\ delivered' \in [Operators -> Seq(Event)] /\ retained' \in [Operators -> SUBSET (1..MaxEvents)]
    BY <2>2 DEF TypeOK
  <2>. QED
    BY <2>1, <2>3, <2>4, <2>5, OnLoadKeepsTypes DEF TypeOK
<1>13. ASSUME NEW o \in Operators, EntrypointThrows(o)
       PROVE  TypeOK'
  BY <1>13 DEF EntrypointThrows, TypeOK
<1>4. ASSUME NEW o \in Operators, NEW i \in Inputs, Send(o, i)
      PROVE  TypeOK'
  <2>1. sent' \in 0..MaxEvents /\ sent + 1 \in 1..MaxEvents
    BY <1>4, ConstantsAssumption DEF Send, TypeOK
  <2>2. \A q \in BOOLEAN : [n |-> sent + 1, input |-> i, queued |-> q] \in Event
    BY <2>1 DEF Event
  <2>3. pending' \in [Operators -> Seq(Event)] /\ delivered' \in [Operators -> Seq(Event)]
    <3>1. CASE status[o] # "running"
      <4>. DEFINE e == [n |-> sent + 1, input |-> i, queued |-> TRUE]
      <4>1. pending' = [pending EXCEPT ![o] = Append(@, e)] /\ delivered' = delivered
        BY <1>4, <3>1 DEF Send
      <4>2. e \in Event
        BY <2>2
      <4>. HIDE DEF e
      <4>3. Append(pending[o], e) \in Seq(Event)
        BY <4>2 DEF TypeOK
      <4>. QED
        BY <4>1, <4>3 DEF TypeOK
    <3>2. CASE status[o] = "running"
      BY <1>4, <2>2, <3>2, ProcessKeepsTypes DEF Send, TypeOK
    <3>. QED
      BY <3>1, <3>2
  <2>. QED
    BY <1>4, <2>1, <2>3 DEF Send, TypeOK
<1>5. ASSUME Flush
      PROVE  TypeOK'
  <2>. DEFINE o == flush.op  e == Head(flush.rest)
  <2>1. o \in Operators \cup {None} /\ flush.rest \in Seq(Event) /\ flush.rest # <<>>
    BY <1>5 DEF Flush, TypeOK
  <2>2. o \in Operators
    BY <1>5, FlushHasOperator DEF Flush, TypeOK
  <2>3. e \in Event /\ Tail(flush.rest) \in Seq(Event)
    BY <2>1
  <2>4. flush' \in [op : Operators \cup {None}, rest : Seq(Event), called : BOOLEAN] /\ retained' \in [Operators -> SUBSET (1..MaxEvents)]
    <3>1. CASE flush' = Idle /\ KeepQueue(o)
      BY <2>2, <3>1, KeepQueueType DEF Idle
    <3>2. ASSUME NEW c \in BOOLEAN,
                 flush' = [flush EXCEPT !.rest = Tail(@), !.called = c], retained' = retained
          PROVE  flush' \in [op : Operators \cup {None}, rest : Seq(Event), called : BOOLEAN]
                 /\ retained' \in [Operators -> SUBSET (1..MaxEvents)]
      BY <2>3, <3>2 DEF TypeOK
    <3>. QED
      BY <1>5, <3>1, <3>2 DEF Flush
  <2>5. pending' \in [Operators -> Seq(Event)] /\ delivered' \in [Operators -> Seq(Event)]
    <3>1. CASE UNCHANGED <<pending, delivered>>
      BY <3>1 DEF TypeOK
    <3>2. CASE pending' = [pending EXCEPT ![o] = Append(@, e)] /\ UNCHANGED delivered
      <4>1. Append(pending[o], e) \in Seq(Event)
        BY <2>2, <2>3 DEF TypeOK
      <4>. QED
        BY <2>2, <3>2, <4>1 DEF TypeOK
    <3>3. CASE Process(o, e) /\ UNCHANGED pending
      BY <2>2, <2>3, <3>3, ProcessKeepsTypes DEF TypeOK
    <3>. QED
      BY <1>5, <3>1, <3>2, <3>3 DEF Flush
  <2>6. UNCHANGED <<status, present, meta, changes, fetching, frame, inst,
                    inputs, callback, links, loadVars, sent>>
    BY <1>5 DEF Flush
  <2>. QED
    BY <2>4, <2>5, <2>6 DEF TypeOK
<1>6. ASSUME EventRejected \/ FlushEnd
      PROVE  TypeOK'
  <2>1. CASE EventRejected
    <3>1. retained' \in [Operators -> SUBSET (1..MaxEvents)]
      BY <2>1, FlushHasOperator, KeepQueueType DEF EventRejected
    <3>2. flush' \in [op : Operators \cup {None}, rest : Seq(Event), called : BOOLEAN]
      BY <2>1 DEF EventRejected, Idle
    <3>3. UNCHANGED <<status, present, meta, changes, fetching, frame, inst,
                      inputs, callback, links, loadVars, pending, sent, delivered>>
      BY <2>1 DEF EventRejected
    <3>. QED
      BY <3>1, <3>2, <3>3 DEF TypeOK
  <2>2. CASE FlushEnd
    BY <2>2 DEF FlushEnd, TypeOK, Idle
  <2>. QED
    BY <1>6, <2>1, <2>2
<1>7. ASSUME NEW o \in Operators, NEW i \in Inputs, Connect(o, i) \/ Disconnect(o, i)
      PROVE  TypeOK'
  <2>1. UNCHANGED <<status, present, meta, changes, fetching, frame, inst,
                    inputs, callback, loadVars, eventVars>>
    BY <1>7 DEF Connect, Disconnect
  <2>2. links' \in [Operators -> [Inputs -> {"bound", "stale", "ghost", None}]]
    <3>1. PICK l \in {"bound", "stale", "ghost", None} : links' = [links EXCEPT ![o][i] = l]
      BY <1>7 DEF Connect, Disconnect
    <3>. QED
      BY <3>1 DEF TypeOK
  <2>. QED
    BY <2>1, <2>2 DEF TypeOK
<1>8. ASSUME NEW o \in Operators, NEW v \in Versions \cup {Missing}, ChangeMeta(o, v)
      PROVE  TypeOK'
  <2>1. meta' \in [Operators -> Versions \cup {Missing}] /\ changes' \in [Operators -> 0..MaxChanges]
    BY <1>8, ConstantsAssumption DEF ChangeMeta, TypeOK
  <2>2. UNCHANGED <<present, frame, pending, flush, sent, delivered>>
    BY <1>8 DEF ChangeMeta
  <2>3. CASE v = Missing
    <3>1. Rebuilt(o, v) /\ fetching' = fetching
      BY <1>8, <2>3 DEF ChangeMeta
    <3>. QED
      BY <2>1, <2>2, <3>1, RebuiltKeepsTypes DEF TypeOK, LoadTypes
  <2>4. CASE v # Missing
    <3>1. UNCHANGED <<status, inst, callback, inputs, links, loadVars, retained>>
      BY <1>8, <2>4 DEF ChangeMeta
    <3>2. fetching' = [fetching EXCEPT ![o] = @ + 1]
      BY <1>8, <2>4 DEF ChangeMeta
    <3>3. fetching' \in [Operators -> Nat]
      BY <3>2 DEF TypeOK
    <3>. QED
      BY <2>1, <2>2, <3>1, <3>3 DEF TypeOK
  <2>. QED
    BY <2>3, <2>4
<1>9. ASSUME NEW o \in Operators, MetaLoaded(o)
      PROVE  TypeOK'
  <2>1. fetching' \in [Operators -> Nat]
    BY <1>9 DEF MetaLoaded, TypeOK
  <2>2. UNCHANGED <<present, meta, changes, frame, pending, flush, sent, delivered>>
    BY <1>9 DEF MetaLoaded
  <2>3. Rebuilt(o, meta[o]) /\ meta[o] \in Versions \cup {Missing}
    BY <1>9 DEF MetaLoaded, TypeOK
  <2>4. /\ LoadTypes'
        /\ inst' \in [Operators -> V2 \cup {None}] /\ callback' \subseteq Operators
        /\ inputs' \in [Operators -> [Inputs -> {"real", "ghost", None}]]
        /\ links' \in [Operators -> [Inputs -> {"bound", "stale", "ghost", None}]]
        /\ retained' \in [Operators -> SUBSET (1..MaxEvents)]
    BY <2>2, <2>3, RebuiltKeepsTypes
  <2>5. /\ present' \subseteq Operators /\ meta' \in [Operators -> Versions \cup {Missing}]
        /\ changes' \in [Operators -> 0..MaxChanges] /\ frame' \subseteq Operators
        /\ pending' \in [Operators -> Seq(Event)] /\ sent' \in 0..MaxEvents
        /\ flush' \in [op : Operators \cup {None}, rest : Seq(Event), called : BOOLEAN]
        /\ delivered' \in [Operators -> Seq(Event)]
    BY <2>2 DEF TypeOK
  <2>. QED
    BY <2>1, <2>4, <2>5 DEF TypeOK, LoadTypes
<1>10. ASSUME NEW o \in Operators, MetaFailed(o)
       PROVE  TypeOK'
  <2>1. fetching' \in [Operators -> Nat]
    BY <1>10 DEF MetaFailed, TypeOK
  <2>2. UNCHANGED <<status, present, meta, changes, frame, inst, inputs, callback, links, framing, dom,
                    users, ready, ran, held, promised, waits, pending, flush, sent, delivered, retained>>
    BY <1>10 DEF MetaFailed, loadVars, eventVars
  <2>. QED
    BY <2>1, <2>2 DEF TypeOK
<1>11. ASSUME NEW o \in Operators, Remove(o) \/ Leave(o)
       PROVE  TypeOK'
  <2>1. UNCHANGED <<meta, changes, fetching, frame, ran, promised, waits, inputs, eventVars>>
    BY <1>11 DEF Remove, Leave
  <2>0. present' \subseteq Operators /\ framing' \subseteq frame'
    BY <1>11, <2>1 DEF Remove, Leave, TypeOK
  <2>4. links' \in [Operators -> [Inputs -> {"bound", "stale", "ghost", None}]]
    <3>1. CASE links' = links
      BY <3>1 DEF TypeOK
    <3>2. CASE links' = [links EXCEPT ![o] = [i \in Inputs |-> None]]
      BY <3>2 DEF TypeOK
    <3>. QED
      BY <1>11, <3>1, <3>2 DEF Remove, Leave
  <2>2. CASE OnUnload(o)
    BY <2>0, <2>1, <2>2, <2>4, OnUnloadKeepsTypes DEF TypeOK
  <2>3. CASE UNCHANGED <<status, callback, dom, users, ready, held, inst>>
    BY <2>0, <2>1, <2>3, <2>4 DEF TypeOK
  <2>. QED
    BY <1>11, <2>2, <2>3 DEF Remove, Leave
<1>12. CASE UNCHANGED vars
  BY <1>12 DEF vars, TypeOK
<1>. QED
  BY <1>1, <1>2, <1>3, <1>4, <1>5, <1>6, <1>7, <1>8, <1>9, <1>10, <1>11, <1>12, <1>13
     DEF Next

-----------------------------------------------------------------------------
(* The queues: the inductive invariant and what each step does to it.      *)

\* Events that were in the queue of o when its on_load threw.
Late(o, e) == e.queued /\ e.n \in retained[o]

Rising(o, s) == \A j, k \in DOMAIN s : j < k => s[j].n < s[k].n \/ Late(o, s[k])
Queued(s) == \A k \in DOMAIN s : s[k].queued /\ s[k].n <= sent

\* What the pairs of DeliveredInOrder compare: d may be delivered before e.
InTurn(o, d, e) == d.n < e.n \/ (d.n > e.n /\ ~d.queued /\ e.queued) \/ Late(o, e)

\* The queue of an operator nobody is delivering.
Waiting(o) ==
    /\ Rising(o, pending[o])
    /\ status[o] = "running" => \A k \in DOMAIN pending[o] : Late(o, pending[o][k])
    /\ \A j \in DOMAIN delivered[o], k \in DOMAIN pending[o] :
          delivered[o][j].n < pending[o][k].n \/ Late(o, pending[o][k])

\* What is left of the queue that is being delivered.
Delivering(o) ==
    /\ Rising(o, flush.rest) /\ Queued(flush.rest)
    /\ \A j \in DOMAIN delivered[o], k \in DOMAIN flush.rest : InTurn(o, delivered[o][j], flush.rest[k])

Delivered(o) ==
    /\ \A k \in DOMAIN delivered[o] : delivered[o][k].n <= sent
    /\ \A j, k \in DOMAIN delivered[o] : j < k => InTurn(o, delivered[o][j], delivered[o][k])

InOrder(o) ==
    /\ Queued(pending[o]) /\ Delivered(o)
    /\ flush.op = o => Delivering(o)
    /\ flush.op # o => Waiting(o)

Occurs(e, s) == \E k \in DOMAIN s : s[k] = e

\* Nothing that on_load will take out of the queue is unprocessed.
NothingDropped ==
    \A o \in present :
        flush.op = o =>
            /\ status[o] = "running"
            /\ \A k \in DOMAIN pending[o] :
                  \/ Occurs(pending[o][k], flush.rest)
                  \/ Occurs(pending[o][k], delivered[o])
                  \/ inputs[o][pending[o][k].input] # "real"
                  \/ o \notin callback

QueueInv == 
    /\ TypeOK /\ FlushOwned
    /\ \A o \in Operators : InOrder(o)
    /\ NothingDropped

LEMMA NumbersAreNat ==
    ASSUME NEW s \in Seq(Event), NEW k \in DOMAIN s
    PROVE  s[k] \in Event /\ s[k].n \in Nat
<1>1. s[k] \in Event
  OBVIOUS
<1>. QED
  BY <1>1, ConstantsAssumption DEF Event

\* More events are sent and p's queues stay.
LEMMA MoreSent ==
    ASSUME TypeOK, NEW p \in Operators, InOrder(p), sent' \in Nat, sent <= sent',
           delivered'[p] = delivered[p], UNCHANGED <<flush, status, retained>>
    PROVE  /\ Delivered(p)'
           /\ flush'.op = p => Delivering(p)'
           /\ pending'[p] = pending[p] => InOrder(p)'
<1>0. /\ sent \in Nat /\ pending[p] \in Seq(Event) /\ delivered[p] \in Seq(Event)
      /\ flush.rest \in Seq(Event)
  BY DEF TypeOK
<1>1. Delivered(p)'
  BY <1>0, NumbersAreNat DEF InOrder, Delivered, InTurn, Late
<1>2. ASSUME flush'.op = p PROVE Delivering(p)'
  <2>1. Delivering(p)
    BY <1>2 DEF InOrder
  <2>2. Queued(flush.rest)'
    BY <1>0, <2>1, NumbersAreNat DEF Delivering, Queued
  <2>. QED
    BY <2>1, <2>2 DEF Delivering, Rising, InTurn, Late
<1>3. ASSUME pending'[p] = pending[p] PROVE Queued(pending[p])'
  BY <1>0, <1>3, NumbersAreNat DEF InOrder, Queued
<1>4. ASSUME flush'.op # p, pending'[p] = pending[p] PROVE Waiting(p)'
  <2>1. Waiting(p)
    BY <1>4 DEF InOrder
  <2>. QED
    BY <1>4, <2>1 DEF Waiting, Rising, Late
<1>. QED
  BY <1>1, <1>2, <1>3, <1>4 DEF InOrder

\* The queues of p stay, but more of its events may be exempt, and nothing
\* puts it to run.
LEMMA OrderStays ==
    ASSUME TypeOK, NEW p \in Operators, InOrder(p),
           pending'[p] = pending[p], delivered'[p] = delivered[p], sent' = sent,
           retained[p] \subseteq retained'[p], status'[p] = "running" => status[p] = "running"
    PROVE  /\ Queued(pending[p])' /\ Delivered(p)'
           /\ flush.op = p /\ flush' = flush => Delivering(p)'
           /\ flush.op # p => Waiting(p)'
<1>1. \A e : Late(p, e) => Late(p, e)'
  BY DEF Late
<1>2. \A d, e : InTurn(p, d, e) => InTurn(p, d, e)'
  BY <1>1 DEF InTurn
<1>3. Queued(pending[p])' /\ Delivered(p)'
  BY <1>2 DEF InOrder, Queued, Delivered
<1>4. ASSUME flush.op = p, flush' = flush PROVE Delivering(p)'
  BY <1>1, <1>2, <1>4 DEF InOrder, Delivering, Queued, Rising
<1>5. ASSUME flush.op # p PROVE Waiting(p)'
  BY <1>1, <1>5 DEF InOrder, Waiting, Rising
<1>. QED
  BY <1>3, <1>4, <1>5

\* Steps that leave the queues alone.
LEMMA QueuesUntouched ==
    ASSUME QueueInv, TypeOK', FlushOwned', UNCHANGED <<pending, flush, sent, delivered>>,
           \A o \in Operators : retained[o] \subseteq retained'[o],
           \A o \in Operators : status'[o] = "running" => status[o] = "running",
           \/ flush = Idle
           \/ \A o \in present' : /\ o \in present
                                  /\ inputs'[o] = inputs[o]
                                  /\ (status[o] = "running" => status'[o] = "running")
                                  /\ (o \in callback' => o \in callback)
    PROVE  QueueInv'
<1>1. ASSUME NEW o \in Operators PROVE InOrder(o)'
  <2>1. InOrder(o) /\ TypeOK
    BY <1>1 DEF QueueInv
  <2>2. /\ Queued(pending[o])' /\ Delivered(o)'
        /\ flush.op = o => Delivering(o)'
        /\ flush.op # o => Waiting(o)'
    BY <2>1, OrderStays
  <2>. QED
    BY <2>2 DEF InOrder
<1>2. NothingDropped'
  <2>1. CASE flush = Idle
    <3>1. flush'.op = None
      BY <2>1 DEF Idle
    <3>. QED
      BY <3>1, OperatorsAssumption DEF NothingDropped, TypeOK
  <2>2. CASE flush # Idle
    <3>1. ASSUME NEW o \in present', flush'.op = o
          PROVE  /\ status'[o] = "running"
                 /\ \A k \in DOMAIN pending'[o] :
                      \/ Occurs(pending'[o][k], flush'.rest)
                      \/ Occurs(pending'[o][k], delivered'[o])
                      \/ inputs'[o][pending'[o][k].input] # "real"
                      \/ o \notin callback'
      <4>1. flush.op = o
        BY <3>1
      <4>2. /\ o \in present /\ inputs'[o] = inputs[o] /\ (o \in callback' => o \in callback)
            /\ status[o] = "running" => status'[o] = "running"
        BY <2>2, <3>1
      <4>. QED
        BY <4>1, <4>2 DEF QueueInv, NothingDropped
    <3>. QED
      BY <3>1 DEF NothingDropped, Occurs
  <2>. QED
    BY <2>1, <2>2
<1>. QED
  BY <1>1, <1>2 DEF QueueInv

\* on_load of o throws: its queue stays, and all that is in it is exempt.
LEMMA ThrowKeepsOrder ==
    ASSUME QueueInv, TypeOK', NEW o \in Operators, flush.op = o, flush' = Idle, KeepQueue(o),
           UNCHANGED <<status, present, pending, sent, delivered>>
    PROVE  QueueInv'
<1>0. /\ flush'.op = None /\ TypeOK
      /\ \A p \in Operators : retained[p] \subseteq retained'[p]
      /\ retained'[o] = retained[o] \cup {pending[o][k].n : k \in DOMAIN pending[o]}
  BY DEF Idle, KeepQueue, QueueInv, TypeOK
<1>1. ASSUME NEW p \in Operators PROVE InOrder(p)'
  <2>1. InOrder(p) /\ flush'.op # p
    BY <1>0, OperatorsAssumption DEF QueueInv
  <2>2. Queued(pending[p])' /\ Delivered(p)' /\ (flush.op # p => Waiting(p)')
    BY <1>0, <2>1, OrderStays
  <2>3. ASSUME p = o PROVE Waiting(p)'
    <3>1. \A k \in DOMAIN pending'[p] : Late(p, pending[p][k])'
      BY <1>0, <2>1, <2>3 DEF InOrder, Queued, Late
    <3>. QED
      BY <3>1 DEF Waiting, Rising
  <2>. QED
    BY <2>1, <2>2, <2>3 DEF InOrder
<1>2. NothingDropped'
  BY <1>0, OperatorsAssumption DEF NothingDropped, TypeOK
<1>3. FlushOwned'
  BY DEF FlushOwned
<1>. QED
  BY <1>1, <1>2, <1>3 DEF QueueInv

\* What a sequence has once nothing, or one more, was appended to it.
LEMMA AppendEither ==
    ASSUME NEW s \in Seq(Event), NEW e, NEW t, t = s \/ t = Append(s, e)
    PROVE  /\ \A j \in DOMAIN t : (j \in DOMAIN s /\ t[j] = s[j]) \/ t[j] = e
           /\ \A j \in DOMAIN s : j \in DOMAIN t /\ t[j] = s[j]
<1>1. CASE t = s
  BY <1>1
<1>2. CASE t = Append(s, e)
  <2>1. \A j \in DOMAIN t : (j \in DOMAIN s /\ t[j] = s[j]) \/ t[j] = e
    BY <1>2
  <2>2. \A j \in DOMAIN s : j \in DOMAIN t /\ t[j] = s[j]
    BY <1>2
  <2>. QED
    BY <2>1, <2>2
<1>. QED
  BY <1>1, <1>2

LEMMA InTurnAppend ==
    ASSUME NEW o, NEW s \in Seq(Event), NEW e \in Event,
           \A j, k \in DOMAIN s : j < k => InTurn(o, s[j], s[k]),
           \A j \in DOMAIN s : InTurn(o, s[j], e)
    PROVE  LET t == Append(s, e) IN \A j, k \in DOMAIN t : j < k => InTurn(o, t[j], t[k])
<1>. DEFINE t == Append(s, e)
<1>1. ASSUME NEW j \in DOMAIN t, NEW k \in DOMAIN t, j < k
      PROVE  InTurn(o, t[j], t[k])
  <2>1. j \in DOMAIN s /\ t[j] = s[j]
    BY <1>1
  <2>2. (k \in DOMAIN s /\ t[k] = s[k]) \/ t[k] = e
    BY <1>1
  <2>. QED
    BY <1>1, <2>1, <2>2
<1>. QED
  BY <1>1

\* An event that is sent.
LEMMA SendKeepsOrder ==
    ASSUME QueueInv, NEW o \in Operators, NEW i \in Inputs, Send(o, i), TypeOK',
           NEW p \in Operators
    PROVE  InOrder(p)'
<1>0. /\ InOrder(p) /\ sent' = sent + 1 /\ sent \in Nat /\ UNCHANGED <<flush, status, retained>>
      /\ pending[p] \in Seq(Event) /\ delivered[p] \in Seq(Event) /\ flush.rest \in Seq(Event)
  BY DEF QueueInv, TypeOK, Send
<1>a. /\ \A k \in DOMAIN pending[p] : pending[p][k].n \in Nat /\ pending[p][k].n <= sent
      /\ \A k \in DOMAIN delivered[p] : delivered[p][k].n \in Nat /\ delivered[p][k].n <= sent
  BY <1>0, NumbersAreNat DEF InOrder, Queued, Delivered
<1>1. CASE delivered'[p] = delivered[p] /\ pending'[p] = pending[p]
  BY <1>0, <1>1, MoreSent DEF QueueInv
<1>2. CASE status[p] # "running" /\ delivered'[p] = delivered[p]
           /\ pending'[p] = Append(pending[p], [n |-> sent + 1, input |-> i, queued |-> TRUE])
  <2>. DEFINE e == [n |-> sent + 1, input |-> i, queued |-> TRUE]
  <2>1. Delivered(p)' /\ (flush'.op = p => Delivering(p)')
    BY <1>0, <1>2, MoreSent DEF QueueInv
  <2>2. e.n = sent + 1 /\ e.queued
    OBVIOUS
  <2>. HIDE DEF e
  <2>3. \A k \in DOMAIN pending'[p] :
           \/ k \in DOMAIN pending[p] /\ k <= Len(pending[p]) /\ pending'[p][k] = pending[p][k]
           \/ k = Len(pending[p]) + 1 /\ pending'[p][k] = e
    BY <1>0, <1>2 DEF e
  <2>4. Queued(pending[p])'
    BY <1>0, <1>a, <2>2, <2>3 DEF InOrder, Queued
  <2>5. ASSUME flush'.op # p PROVE Waiting(p)'
    <3>1. Waiting(p)
      BY <1>0, <2>5 DEF InOrder
    <3>2. \A d : Late(p, d)' <=> Late(p, d)
      BY <1>0 DEF Late
    <3>3. Rising(p, pending[p])'
      <4>1. ASSUME NEW j \in DOMAIN pending'[p], NEW k \in DOMAIN pending'[p], j < k
            PROVE  pending'[p][j].n < pending'[p][k].n \/ Late(p, pending[p][k])'
        <5>1. j \in DOMAIN pending[p] /\ pending'[p][j] = pending[p][j]
          BY <1>0, <2>3, <4>1
        <5>2. CASE k \in DOMAIN pending[p] /\ pending'[p][k] = pending[p][k]
          BY <3>1, <3>2, <4>1, <5>1, <5>2 DEF Waiting, Rising
        <5>3. CASE pending'[p][k] = e
          BY <1>0, <1>a, <2>2, <5>1, <5>3
        <5>. QED
          BY <2>3, <5>2, <5>3
      <4>. QED
        BY <4>1 DEF Rising
    <3>4. ASSUME NEW j \in DOMAIN delivered'[p], NEW k \in DOMAIN pending'[p]
          PROVE  delivered'[p][j].n < pending'[p][k].n \/ Late(p, pending[p][k])'
      <4>1. j \in DOMAIN delivered[p] /\ delivered'[p][j] = delivered[p][j]
        BY <1>2
      <4>2. CASE k \in DOMAIN pending[p] /\ pending'[p][k] = pending[p][k]
        BY <3>1, <3>2, <4>1, <4>2 DEF Waiting
      <4>3. CASE pending'[p][k] = e
        BY <1>0, <1>a, <2>2, <4>1, <4>3
      <4>. QED
        BY <2>3, <4>2, <4>3
    <3>. QED
      BY <1>0, <1>2, <3>3, <3>4 DEF Waiting
  <2>. QED
    BY <2>1, <2>4, <2>5 DEF InOrder
<1>3. CASE status[p] = "running" /\ pending'[p] = pending[p]
           /\ delivered'[p] = Append(delivered[p], [n |-> sent + 1, input |-> i, queued |-> FALSE])
  <2>. DEFINE e == [n |-> sent + 1, input |-> i, queued |-> FALSE]
  <2>1. e \in Event /\ e.n = sent + 1 /\ ~e.queued
    BY ConstantsAssumption DEF Send, QueueInv, TypeOK, Event
  <2>. HIDE DEF e
  <2>2. \A k \in DOMAIN delivered'[p] :
           (k \in DOMAIN delivered[p] /\ delivered'[p][k] = delivered[p][k]) \/ delivered'[p][k] = e
    BY <1>0, <1>3 DEF e
  <2>3. \A d, f : InTurn(p, d, f) <=> InTurn(p, d, f)'
    BY <1>0 DEF InTurn, Late
  <2>4. Queued(pending[p])'
    BY <1>0, <1>3, <1>a DEF InOrder, Queued
  <2>5. Delivered(p)'
    <3>1. \A j \in DOMAIN delivered[p] : InTurn(p, delivered[p][j], e)
      BY <1>a, <1>0, <2>1 DEF InTurn
    <3>2. \A j, k \in DOMAIN delivered[p] : j < k => InTurn(p, delivered[p][j], delivered[p][k])
      BY <1>0 DEF InOrder, Delivered
    <3>3. \A j, k \in DOMAIN delivered'[p] : j < k => InTurn(p, delivered'[p][j], delivered'[p][k])
      BY <1>0, <1>3, <2>1, <3>1, <3>2, InTurnAppend DEF e
    <3>4. \A k \in DOMAIN delivered'[p] : delivered'[p][k].n <= sent'
      BY <1>0, <1>a, <2>1, <2>2
    <3>. QED
      BY <2>3, <3>3, <3>4 DEF Delivered
  <2>6. ASSUME flush'.op = p PROVE Delivering(p)'
    <3>1. Delivering(p)
      BY <1>0, <2>6 DEF InOrder
    <3>2. \A k \in DOMAIN flush.rest : flush.rest[k].n \in Nat /\ flush.rest[k].n <= sent
      BY <1>0, <3>1, NumbersAreNat DEF Delivering, Queued
    <3>3. \A k \in DOMAIN flush.rest : InTurn(p, e, flush.rest[k])
      BY <1>0, <2>1, <3>1, <3>2 DEF InTurn, Delivering, Queued
    <3>4. \A j \in DOMAIN delivered'[p], k \in DOMAIN flush'.rest :
             InTurn(p, delivered'[p][j], flush'.rest[k])
      BY <1>0, <2>2, <3>1, <3>3 DEF Delivering
    <3>5. Rising(p, flush.rest)' /\ Queued(flush.rest)'
      BY <1>0, <3>1, <3>2 DEF Delivering, Rising, Queued, Late
    <3>. QED
      BY <2>3, <3>4, <3>5 DEF Delivering
  <2>7. ASSUME flush'.op # p PROVE Waiting(p)'
    <3>1. \A k \in DOMAIN pending'[p] : Late(p, pending[p][k])'
      BY <1>0, <1>3, <2>7 DEF InOrder, Waiting, Late
    <3>. QED
      BY <3>1 DEF Waiting, Rising
  <2>. QED
    BY <2>4, <2>5, <2>6, <2>7 DEF InOrder
<1>4. CASE p # o
  <2>1. delivered'[p] = delivered[p] /\ pending'[p] = pending[p]
    BY <1>4 DEF Send, Process, QueueInv, TypeOK
  <2>. QED
    BY <1>1, <2>1
<1>5. CASE p = o
  <2>1. CASE status[o] # "running"
    BY <1>2, <1>5, <2>1 DEF Send, QueueInv, TypeOK
  <2>2. CASE status[o] = "running"
    <3>1. /\ pending' = pending
          /\ \/ delivered' = delivered
             \/ delivered' = [delivered EXCEPT ![o] = Append(@, [n |-> sent + 1, input |-> i, queued |-> FALSE])]
      BY <2>2 DEF Send, Process
    <3>. QED
      BY <1>1, <1>3, <1>5, <2>2, <3>1 DEF QueueInv, TypeOK
  <2>. QED
    BY <2>1, <2>2
<1>. QED
  BY <1>4, <1>5

LEMMA SendDropsNothing ==
    ASSUME QueueInv, NEW o \in Operators, NEW i \in Inputs, Send(o, i), TypeOK'
    PROVE  NothingDropped'
<1>1. UNCHANGED <<present, flush, status, inputs, callback>>
  BY DEF Send
<1>2. ASSUME NEW p \in present, flush.op = p
      PROVE  /\ status[p] = "running" /\ pending'[p] = pending[p]
             /\ \A e : Occurs(e, delivered[p]) => Occurs(e, delivered'[p])
  <2>1. status[p] = "running"
    BY <1>2 DEF QueueInv, NothingDropped
  <2>2. pending'[p] = pending[p]
    BY <2>1 DEF Send, QueueInv, TypeOK
  <2>3. delivered[p] \in Seq(Event) /\ p \in Operators
    BY DEF QueueInv, TypeOK
  <2>4. delivered'[p] = delivered[p] \/ \E e : delivered'[p] = Append(delivered[p], e)
    <3>1. \/ delivered' = delivered
          \/ delivered' = [delivered EXCEPT ![o] = Append(@, [n |-> sent + 1, input |-> i, queued |-> FALSE])]
      BY DEF Send, Process
    <3>2. p # o => delivered'[p] = delivered[p]
      BY <2>3, <3>1 DEF QueueInv, TypeOK
    <3>3. p = o => \/ delivered'[p] = delivered[p]
                   \/ delivered'[p] = Append(delivered[p], [n |-> sent + 1, input |-> i, queued |-> FALSE])
      BY <2>3, <3>1 DEF QueueInv, TypeOK
    <3>. QED
      BY <3>2, <3>3
  <2>. QED
    BY <2>1, <2>2, <2>3, <2>4 DEF Occurs
<1>. QED
  BY <1>1, <1>2 DEF QueueInv, NothingDropped

\* on_load starts the delivery of what was queued.
LEMMA OnLoadKeepsOrder ==
    ASSUME QueueInv, NEW o \in Operators, flush = Idle, OnLoad(o), TypeOK'
    PROVE  QueueInv'
<1>0. /\ flush' = [op |-> o, rest |-> pending[o], called |-> FALSE] /\ flush.op = None
      /\ status' = [status EXCEPT ![o] = "running"]
      /\ UNCHANGED <<present, pending, delivered, sent, retained, inputs>>
  BY DEF OnLoad, Idle
<1>1. ASSUME NEW p \in Operators PROVE InOrder(p)'
  <2>1. Queued(pending[p]) /\ Delivered(p) /\ Waiting(p)
    BY <1>0, <1>1, OperatorsAssumption DEF QueueInv, InOrder
  <2>2. Queued(pending[p])' /\ Delivered(p)'
    BY <1>0, <2>1 DEF Queued, Delivered, InTurn, Late
  <2>3. CASE p = o
    <3>1. flush'.op = p /\ flush'.rest = pending[p]
      BY <1>0, <2>3
    <3>2. \A j \in DOMAIN delivered[p], k \in DOMAIN pending[p] : InTurn(p, delivered[p][j], pending[p][k])
      BY <2>1 DEF Waiting, InTurn
    <3>3. Delivering(p)'
      BY <1>0, <2>1, <3>1, <3>2 DEF Waiting, Delivering, Rising, Queued, InTurn, Late
    <3>. QED
      BY <2>2, <3>1, <3>3 DEF InOrder
  <2>4. CASE p # o
    <3>1. flush'.op # p /\ status'[p] = status[p]
      BY <1>0, <2>4 DEF QueueInv, TypeOK
    <3>2. Waiting(p)'
      BY <1>0, <2>1, <3>1 DEF Waiting, Rising, Late
    <3>. QED
      BY <2>2, <3>1, <3>2 DEF InOrder
  <2>. QED
    BY <2>3, <2>4
<1>2. NothingDropped'
  <2>1. status'[o] = "running" /\ \A k \in DOMAIN pending'[o] : Occurs(pending'[o][k], flush'.rest)
    BY <1>0 DEF QueueInv, TypeOK, Occurs
  <2>. QED
    BY <1>0, <2>1 DEF NothingDropped
<1>3. FlushOwned'
  BY <1>0 DEF FlushOwned
<1>. QED
  BY <1>1, <1>2, <1>3 DEF QueueInv

LEMMA RestInOrder ==
    ASSUME NEW o, NEW s \in Seq(Event), s # <<>>, Rising(o, s)
    PROVE  /\ Rising(o, Tail(s))
           /\ \A k \in DOMAIN Tail(s) : /\ Head(s).n < Tail(s)[k].n \/ Late(o, Tail(s)[k])
                                        /\ \E j \in DOMAIN s : Tail(s)[k] = s[j]
<1>1. \A k \in DOMAIN Tail(s) : k + 1 \in DOMAIN s /\ Tail(s)[k] = s[k + 1] /\ k \in Nat /\ k > 0
  OBVIOUS
<1>2. Rising(o, Tail(s))
  BY <1>1 DEF Rising
<1>3. 1 \in DOMAIN s /\ Head(s) = s[1]
  OBVIOUS
<1>4. \A k \in DOMAIN Tail(s) : Head(s).n < Tail(s)[k].n \/ Late(o, Tail(s)[k])
  BY <1>1, <1>3 DEF Rising
<1>. QED
  BY <1>1, <1>2, <1>4

LEMMA TailOccurs ==
    ASSUME NEW s \in Seq(Event), s # <<>>, NEW x, Occurs(x, s)
    PROVE  x = Head(s) \/ Occurs(x, Tail(s))
<1>1. PICK k \in DOMAIN s : s[k] = x
  BY DEF Occurs
<1>2. CASE k = 1
  BY <1>1, <1>2
<1>3. CASE k # 1
  <2>1. k - 1 \in DOMAIN Tail(s) /\ Tail(s)[k - 1] = s[k]
    BY <1>3
  <2>. QED
    BY <1>1, <2>1 DEF Occurs
<1>. QED
  BY <1>2, <1>3

\* One event of the queue is processed.
LEMMA FlushKeepsOrder ==
    ASSUME QueueInv, Flush, TypeOK', FlushOwned'
    PROVE  QueueInv'
<1>. DEFINE o == flush.op  e == Head(flush.rest)
<1>0. /\ UNCHANGED <<status, present, inputs, callback, sent>>
      /\ flush.rest \in Seq(Event) /\ flush.rest # <<>> /\ e \in Event /\ o \in Operators
      /\ sent \in Nat
  BY FlushHasOperator DEF Flush, QueueInv, TypeOK
<1>1. CASE flush' = Idle /\ KeepQueue(o) /\ UNCHANGED <<pending, delivered>>
  BY <1>0, <1>1, ThrowKeepsOrder
<1>2. CASE /\ \E c \in BOOLEAN : flush' = [flush EXCEPT !.rest = Tail(@), !.called = c]
           /\ retained' = retained
           /\ IF status[o] # "running" /\ inputs[o][e.input] = "real"
              THEN pending' = [pending EXCEPT ![o] = Append(@, e)] /\ UNCHANGED delivered
              ELSE Process(o, e) /\ UNCHANGED pending
  <2>0. flush'.op = o /\ flush'.rest = Tail(flush.rest)
    BY <1>2 DEF QueueInv, TypeOK
  <2>a. pending \in [Operators -> Seq(Event)] /\ delivered \in [Operators -> Seq(Event)]
    BY DEF QueueInv, TypeOK
  <2>b. /\ pending' = pending \/ pending' = [pending EXCEPT ![o] = Append(@, e)]
        /\ delivered' = delivered \/ delivered' = [delivered EXCEPT ![o] = Append(@, e)]
    BY <1>2 DEF Process
  <2>1. \A p \in Operators : p # o => delivered'[p] = delivered[p] /\ pending'[p] = pending[p]
    <3>. HIDE DEF o, e
    <3>. QED
      BY <2>a, <2>b
  <2>2. delivered'[o] = delivered[o] \/ delivered'[o] = Append(delivered[o], e)
    <3>. HIDE DEF e
    <3>. QED
      BY <1>0, <2>a, <2>b
  <2>c. pending'[o] = pending[o] \/ pending'[o] = Append(pending[o], e)
    <3>. HIDE DEF e
    <3>. QED
      BY <1>0, <2>a, <2>b
  <2>d. \A p \in Operators : \A d, f : InTurn(p, d, f) <=> InTurn(p, d, f)'
    BY <1>2 DEF InTurn, Late
  <2>3. ASSUME NEW p \in Operators PROVE InOrder(p)'
    <3>1. InOrder(p)
      BY <2>3 DEF QueueInv
    <3>2. CASE p # o
      <4>1. Queued(pending[p])' /\ Waiting(p)' /\ Delivered(p)'
        BY <1>0, <1>2, <2>1, <3>1, <3>2, OrderStays DEF QueueInv
      <4>. QED
        BY <2>0, <3>2, <4>1 DEF InOrder
    <3>3. CASE p = o
      <4>0. /\ flush.op = p /\ flush'.op = p
            /\ delivered'[p] = delivered[p] \/ delivered'[p] = Append(delivered[p], e)
            /\ pending'[p] = pending[p] \/ pending'[p] = Append(pending[p], e)
        BY <2>0, <2>2, <2>c, <3>3
      <4>1. Delivered(p) /\ Delivering(p)
        BY <3>1, <4>0 DEF InOrder
      <4>2. e.queued /\ e.n <= sent /\ \E k \in DOMAIN flush.rest : e = flush.rest[k]
        <5>1. 1 \in DOMAIN flush.rest /\ e = flush.rest[1]
          BY <1>0
        <5>. QED
          BY <4>1, <5>1 DEF Delivering, Queued
      <4>3. /\ Rising(p, Tail(flush.rest))
            /\ \A k \in DOMAIN Tail(flush.rest) : /\ e.n < Tail(flush.rest)[k].n \/ Late(p, Tail(flush.rest)[k])
                                                  /\ \E j \in DOMAIN flush.rest : Tail(flush.rest)[k] = flush.rest[j]
        BY <1>0, <4>1, RestInOrder DEF Delivering
      <4>4. \A j \in DOMAIN delivered[p] : InTurn(p, delivered[p][j], e)
        BY <4>1, <4>2 DEF Delivering
      <4>5. delivered[p] \in Seq(Event)
        BY <1>0 DEF QueueInv, TypeOK
      <4>6. Delivered(p)'
        <5>1. CASE delivered'[p] = delivered[p]
          BY <1>0, <2>0, <2>d, <4>1, <5>1 DEF Delivered
        <5>2. CASE delivered'[p] = Append(delivered[p], e)
          <6>1. \A j, k \in DOMAIN delivered'[p] : j < k => InTurn(p, delivered'[p][j], delivered'[p][k])
            BY <1>0, <4>1, <4>4, <4>5, <5>2, InTurnAppend DEF Delivered
          <6>2. \A k \in DOMAIN delivered'[p] : delivered'[p][k].n <= sent
            BY <1>0, <4>1, <4>2, <4>5, <5>2 DEF Delivered
          <6>. QED
            BY <1>0, <2>0, <2>d, <6>1, <6>2 DEF Delivered
        <5>. QED
          BY <4>0, <5>1, <5>2
      <4>7. \A j \in DOMAIN delivered'[p] : 
               (j \in DOMAIN delivered[p] /\ delivered'[p][j] = delivered[p][j]) \/ delivered'[p][j] = e
        <5>. HIDE DEF e
        <5>1. delivered'[p] = delivered[p] \/ delivered'[p] = Append(delivered[p], e)
          BY <4>0
        <5>. QED
          BY <4>5, <5>1, AppendEither
      <4>8. \A j \in DOMAIN delivered'[p], k \in DOMAIN Tail(flush.rest) : 
               InTurn(p, delivered'[p][j], Tail(flush.rest)[k])
        BY <4>1, <4>3, <4>7 DEF Delivering, InTurn
      <4>9. Queued(Tail(flush.rest))
        BY <4>1, <4>3 DEF Delivering, Queued
      <4>10. Delivering(p)'
        <5>1. Rising(p, flush.rest)' /\ Queued(flush.rest)'
          BY <1>0, <1>2, <2>0, <4>3, <4>9 DEF Rising, Queued, Late
        <5>. QED
          BY <2>0, <2>d, <4>0, <4>8, <5>1 DEF Delivering
      <4>11. Queued(pending[p])'
        <5>1. \A k \in DOMAIN pending'[p] :
                 (k \in DOMAIN pending[p] /\ pending'[p][k] = pending[p][k]) \/ pending'[p][k] = e
          <6>1. pending[p] \in Seq(Event)
            BY <2>a
          <6>. HIDE DEF e
          <6>2. pending'[p] = pending[p] \/ pending'[p] = Append(pending[p], e)
            BY <4>0
          <6>. QED
            BY <6>1, <6>2, AppendEither
        <5>. QED
          BY <1>0, <3>1, <4>2, <5>1 DEF InOrder, Queued
      <4>. QED
        BY <4>0, <4>6, <4>10, <4>11 DEF InOrder
    <3>. QED
      BY <3>2, <3>3
  <2>4. NothingDropped'
    <3>1. SUFFICES ASSUME o \in present, NEW k \in DOMAIN pending'[o]
                   PROVE  /\ status'[o] = "running"
                          /\ \/ Occurs(pending'[o][k], flush'.rest)
                             \/ Occurs(pending'[o][k], delivered'[o])
                             \/ inputs'[o][pending'[o][k].input] # "real"
                             \/ o \notin callback'
      <4>1. o \in present => status[o] = "running"
        BY DEF QueueInv, NothingDropped
      <4>. QED
        BY <1>0, <2>0, <4>1 DEF NothingDropped
    <3>2. status[o] = "running"
      BY <3>1 DEF QueueInv, NothingDropped
    <3>3. Process(o, e) /\ pending' = pending
      BY <1>2, <3>2
    <3>. DEFINE x == pending[o][k]
    <3>4. \/ Occurs(x, flush.rest) \/ Occurs(x, delivered[o])
          \/ inputs[o][x.input] # "real" \/ o \notin callback
      BY <3>1, <3>3 DEF QueueInv, NothingDropped
    <3>. HIDE DEF x
    <3>5. delivered[o] \in Seq(Event)
      BY <1>0 DEF QueueInv, TypeOK
    <3>6. Occurs(x, delivered[o]) => Occurs(x, delivered'[o])
      <4>. HIDE DEF e
      <4>1. \A j \in DOMAIN delivered[o] : j \in DOMAIN delivered'[o] /\ delivered'[o][j] = delivered[o][j]
        BY <2>2, <3>5, AppendEither
      <4>. QED
        BY <4>1 DEF Occurs
    <3>7. Occurs(x, flush.rest) => x = e \/ Occurs(x, Tail(flush.rest))
      BY <1>0, TailOccurs
    <3>8. inputs[o][e.input] = "real" /\ o \in callback => Occurs(e, delivered'[o])
      <4>1. ASSUME inputs[o][e.input] = "real", o \in callback
            PROVE  delivered'[o] = Append(delivered[o], e)
        BY <1>0, <3>3, <4>1 DEF Process, QueueInv, TypeOK
      <4>2. ASSUME delivered'[o] = Append(delivered[o], e)
            PROVE  Occurs(e, delivered'[o])
        BY <3>5, <4>2 DEF Occurs
      <4>. QED
        BY <4>1, <4>2
    <3>. QED
      BY <1>0, <2>0, <3>2, <3>3, <3>4, <3>6, <3>7, <3>8 DEF x
  <2>. QED
    BY <2>3, <2>4 DEF QueueInv
<1>. QED
  BY <1>1, <1>2 DEF Flush

LEMMA FlushEndKeepsOrder ==
    ASSUME QueueInv, FlushEnd, TypeOK', FlushOwned'
    PROVE  QueueInv'
<1>0. /\ UNCHANGED <<status, present, inputs, callback, sent, delivered, retained>>
      /\ flush' = Idle /\ flush'.op = None
      /\ pending' = [pending EXCEPT ![flush.op] = <<>>]
  BY DEF FlushEnd, Idle
<1>1. ASSUME NEW p \in Operators PROVE InOrder(p)'
  <2>1. InOrder(p) /\ p # None
    BY <1>0, <1>1, OperatorsAssumption DEF QueueInv
  <2>2. Delivered(p)'
    BY <1>0, <2>1 DEF InOrder, Delivered, InTurn, Late
  <2>3. CASE p = flush.op
    <3>1. pending'[p] = <<>>
      BY <1>0, <2>3 DEF QueueInv, TypeOK
    <3>. QED
      BY <1>0, <2>1, <2>2, <3>1 DEF InOrder, Waiting, Rising, Queued
  <2>4. CASE p # flush.op
    <3>1. pending'[p] = pending[p] /\ TypeOK
      BY <1>0, <2>1, <2>4 DEF QueueInv, TypeOK
    <3>2. Queued(pending[p])' /\ Waiting(p)'
      BY <1>0, <2>1, <2>4, <3>1, OrderStays
    <3>. QED
      BY <1>0, <2>1, <2>2, <3>2 DEF InOrder
  <2>. QED
    BY <2>3, <2>4
<1>2. NothingDropped'
  BY <1>0, OperatorsAssumption DEF NothingDropped, TypeOK
<1>. QED
  BY <1>1, <1>2 DEF QueueInv

LEMMA InitQueueInv == Init => QueueInv
<1>. SUFFICES ASSUME Init PROVE QueueInv
  OBVIOUS
<1>1. TypeOK
  BY InitTypes
<1>2. flush = Idle /\ flush.op = None /\ present = {}
  BY DEF Init, Idle
<1>3. ASSUME NEW o \in Operators PROVE InOrder(o)
  <2>1. pending[o] = <<>> /\ delivered[o] = <<>> /\ flush.op # o
    BY <1>2, OperatorsAssumption DEF Init
  <2>. QED
    BY <2>1 DEF InOrder, Waiting, Delivered, Rising, Queued
<1>. QED
  BY <1>1, <1>2, <1>3 DEF QueueInv, FlushOwned, NothingDropped

\* A version change puts no operator to run that was not running.
LEMMA RebuiltStatus ==
    ASSUME TypeOK, NEW o \in Operators, NEW v, Rebuilt(o, v)
    PROVE  /\ \A p \in Operators : retained[p] \subseteq retained'[p]
           /\ \A p \in Operators : status'[p] = "running" => status[p] = "running"
<1>1. \A p \in Operators : retained[p] \subseteq retained'[p]
  <2>1. KeepQueue(o) \/ UNCHANGED retained
    BY DEF Rebuilt, Unannounced
  <2>2. retained \in [Operators -> SUBSET (1..MaxEvents)]
    BY DEF TypeOK
  <2>3. CASE KeepQueue(o)
    <3>1. PICK S : retained' = [retained EXCEPT ![o] = @ \cup S]
      BY <2>3 DEF KeepQueue
    <3>. QED
      BY <2>2, <3>1
  <2>. QED
    BY <2>1, <2>2, <2>3
<1>2. CASE status[o] = "running"
  <2>1. \E st : status' = [status EXCEPT ![o] = st]
    BY <1>2 DEF Rebuilt, Load
  <2>. QED
    BY <1>1, <1>2, <2>1 DEF TypeOK
<1>3. CASE status[o] # "running"
  BY <1>1, <1>3 DEF Rebuilt
<1>. QED
  BY <1>2, <1>3

LEMMA NextQueueInv == QueueInv /\ [Next]_vars => QueueInv'
<1>. SUFFICES ASSUME QueueInv, [Next]_vars PROVE QueueInv'
  OBVIOUS
<1>0. TypeOK /\ FlushOwned /\ TypeOK' /\ FlushOwned'
  BY NextTypes DEF QueueInv
<1>. USE DEF loadVars, eventVars
<1>1. ASSUME NEW o \in Operators, NEW v \in Versions \cup {Missing}, Create(o, v)
      PROVE  QueueInv'
  <2>1. status' = [status EXCEPT ![o] = "loading"]
    BY <1>1 DEF Create
  <2>2. \A p \in Operators : status'[p] = "running" => status[p] = "running"
    BY <1>0, <2>1 DEF TypeOK
  <2>. QED
    BY <1>0, <1>1, <2>2, QueuesUntouched DEF Create, Quiet
<1>2. ASSUME NEW s \in Scripts, ScriptLoaded(s)
      PROVE  QueueInv'
  BY <1>0, <1>2, QueuesUntouched DEF ScriptLoaded, Quiet
<1>3. ASSUME NEW o \in Operators, ScriptsReady(o) \/ FrameLoaded(o)
      PROVE  QueueInv'
  BY <1>0, <1>3, OnLoadKeepsOrder DEF ScriptsReady, FrameLoaded, Quiet
<1>4. ASSUME NEW o \in Operators, NEW i \in Inputs, Send(o, i)
      PROVE  QueueInv'
  BY <1>0, <1>4, SendKeepsOrder, SendDropsNothing DEF QueueInv
<1>5. CASE Flush
  BY <1>0, <1>5, FlushKeepsOrder
<1>6. CASE FlushEnd
  BY <1>0, <1>6, FlushEndKeepsOrder
<1>12. CASE EventRejected
  BY <1>0, <1>12, FlushHasOperator, ThrowKeepsOrder DEF EventRejected
<1>13. ASSUME NEW o \in Operators, EntrypointThrows(o)
       PROVE  QueueInv'
  <2>1. \A p \in Operators : status'[p] = "running" => status[p] = "running"
    BY <1>0, <1>13 DEF EntrypointThrows, TypeOK
  <2>. QED
    BY <1>0, <1>13, <2>1, QueuesUntouched DEF EntrypointThrows
<1>7. ASSUME NEW o \in Operators, NEW i \in Inputs, Connect(o, i) \/ Disconnect(o, i)
      PROVE  QueueInv'
  <2>1. UNCHANGED <<status, present, inputs, callback, pending, flush, sent, delivered, retained>>
    BY <1>7 DEF Connect, Disconnect
  <2>. QED
    BY <1>0, <2>1, QueuesUntouched
<1>8. ASSUME NEW o \in Operators, NEW v \in Versions \cup {Missing}, ChangeMeta(o, v)
      PROVE  QueueInv'
  <2>1. flush = Idle /\ UNCHANGED <<pending, flush, sent, delivered>>
    BY <1>8 DEF ChangeMeta, Quiet
  <2>2. /\ \A p \in Operators : retained[p] \subseteq retained'[p]
        /\ \A p \in Operators : status'[p] = "running" => status[p] = "running"
    BY <1>0, <1>8, RebuiltStatus DEF ChangeMeta
  <2>. QED
    BY <1>0, <2>1, <2>2, QueuesUntouched
<1>9. ASSUME NEW o \in Operators, MetaLoaded(o) \/ MetaFailed(o)
      PROVE  QueueInv'
  <2>1. flush = Idle /\ UNCHANGED <<pending, flush, sent, delivered>>
    BY <1>9 DEF MetaLoaded, MetaFailed, Quiet
  <2>2. /\ \A p \in Operators : retained[p] \subseteq retained'[p]
        /\ \A p \in Operators : status'[p] = "running" => status[p] = "running"
    BY <1>0, <1>9, RebuiltStatus DEF MetaLoaded, MetaFailed
  <2>. QED
    BY <1>0, <2>1, <2>2, QueuesUntouched
<1>10. ASSUME NEW o \in Operators, Remove(o) \/ Leave(o)
       PROVE  QueueInv'
  <2>1. UNCHANGED <<inputs, pending, flush, sent, delivered, retained>> /\ present' = present \ {o}
    BY <1>10 DEF Remove, Leave
  <2>2. \/ UNCHANGED <<status, callback>>
        \/ status' = [status EXCEPT ![o] = "created"] /\ callback' = callback \ {o}
    BY <1>10 DEF Remove, Leave, OnUnload
  <2>3. \A p \in Operators : status'[p] = "running" => status[p] = "running"
    BY <1>0, <2>2 DEF TypeOK
  <2>4. \A p \in present' : /\ p \in present
                            /\ (status[p] = "running" => status'[p] = "running")
                            /\ (p \in callback' => p \in callback)
    BY <1>0, <2>1, <2>2 DEF TypeOK
  <2>. QED
    BY <1>0, <2>1, <2>3, <2>4, QueuesUntouched
<1>11. CASE UNCHANGED vars
  <2>1. UNCHANGED <<status, present, inputs, callback, pending, flush, sent, delivered, retained>>
    BY <1>11 DEF vars
  <2>. QED
    BY <1>0, <2>1, QueuesUntouched
<1>. QED
  BY <1>1, <1>2, <1>3, <1>4, <1>5, <1>6, <1>7, <1>8, <1>9, <1>10, <1>11, <1>12, <1>13 DEF Next

\* What the code does to a queue.
LEMMA QueueStep ==
    ASSUME QueueInv, [Next]_vars, NEW o \in present, NEW k \in DOMAIN pending[o],
           ~ \E j \in DOMAIN pending'[o] : pending'[o][j] = pending[o][k]
    PROVE  FlushEnd /\ o = flush.op
<1>. USE DEF loadVars, eventVars
<1>0. o \in Operators /\ pending[o] \in Seq(Event) /\ pending'[o] # pending[o]
  BY DEF QueueInv, TypeOK
<1>1. ASSUME NEW p, NEW e, pending' = [pending EXCEPT ![p] = Append(@, e)]
      PROVE  FALSE
  <2>1. CASE p = o
    <3>1. pending'[o] = Append(pending[o], e)
      BY <1>0, <1>1, <2>1
    <3>. QED
      BY <1>0, <3>1
  <2>2. CASE p # o
    BY <1>0, <1>1, <2>2 DEF QueueInv, TypeOK
  <2>. QED
    BY <2>1, <2>2
<1>2. CASE Flush
  <2>1. \/ pending' = pending
        \/ pending' = [pending EXCEPT ![flush.op] = Append(@, Head(flush.rest))]
    BY <1>2 DEF Flush
  <2>. QED
    BY <1>0, <1>1, <2>1
<1>3. ASSUME NEW p \in Operators, NEW i \in Inputs, Send(p, i)
      PROVE  FALSE
  <2>1. \/ pending' = pending
        \/ pending' = [pending EXCEPT ![p] = Append(@, [n |-> sent + 1, input |-> i, queued |-> TRUE])]
    BY <1>3 DEF Send
  <2>. QED
    BY <1>0, <1>1, <2>1
<1>4. CASE FlushEnd
  BY <1>0, <1>4 DEF FlushEnd, QueueInv, TypeOK
<1>. QED
  BY <1>0, <1>2, <1>3, <1>4
     DEF Next, Create, ScriptLoaded, ScriptsReady, EntrypointThrows, FrameLoaded, OnLoad, EventRejected,
         Connect, Disconnect, ChangeMeta, MetaLoaded, MetaFailed, Remove, Leave, vars

LEMMA QueuedEventStays ==
    ASSUME QueueInv, [Next]_vars, NEW o \in present, NEW k \in DOMAIN pending[o]
    PROVE  LET e == pending[o][k]
           IN \/ \E j \in DOMAIN pending'[o] : pending'[o][j] = e
              \/ \E j \in DOMAIN delivered'[o] : delivered'[o][j] = e
              \/ inputs[o][e.input] # "real" \/ o \notin callback
<1>1. SUFFICES ASSUME ~ \E j \in DOMAIN pending'[o] : pending'[o][j] = pending[o][k]
               PROVE  \/ \E j \in DOMAIN delivered'[o] : delivered'[o][j] = pending[o][k]
                      \/ inputs[o][pending[o][k].input] # "real" \/ o \notin callback
  OBVIOUS
<1>2. FlushEnd /\ o = flush.op
  BY <1>1, QueueStep
<1>3. flush.rest = <<>> /\ delivered' = delivered
  BY <1>2 DEF FlushEnd
<1>. QED
  BY <1>2, <1>3 DEF QueueInv, NothingDropped, Occurs

-----------------------------------------------------------------------------
\* The variables of an operator always have the values its code gives them.
THEOREM OperatorsAlwaysTyped == Spec => []TypeOK
<1>1. QueueInv => TypeOK
  BY DEF QueueInv
<1>. QED
  BY <1>1, InitQueueInv, NextQueueInv, PTL DEF Spec

\* Callbacks are given each event at most once and in the order they arrived
\* (on_load, OperatorTargetEndpoint.propagate), but for events that arrive after
\* on_load and overtake those still queued, and for those that were in the
\* queue when on_load threw, which stay there and may come again: however
\* loads, upgrades, removals, deliveries and rejections interleave.
THEOREM AlwaysInOrder == Spec => []DeliveredInOrder
<1>1. QueueInv => DeliveredInOrder
  BY DEF QueueInv, InOrder, Waiting, Delivered, InTurn, Late, DeliveredInOrder
<1>. QED
  BY <1>1, InitQueueInv, NextQueueInv, PTL DEF Spec

\* on_load empties the queue of an operator the engine handles only when each
\* of its events was processed or had no callback to go to.
THEOREM QueuedEventsNeverLost == Spec => NoQueuedEventLost
<1>1. QueueInv /\ [Next]_vars =>
        [\A o \in present : \A k \in DOMAIN pending[o] :
          LET e == pending[o][k]
          IN \/ \E j \in DOMAIN pending'[o] : pending'[o][j] = e
             \/ \E j \in DOMAIN delivered'[o] : delivered'[o][j] = e
             \/ inputs[o][e.input] # "real" \/ o \notin callback]_vars
  BY QueuedEventStays
<1>. QED
  BY <1>1, InitQueueInv, NextQueueInv, PTL DEF Spec, NoQueuedEventLost

-----------------------------------------------------------------------------
(* The inductive invariant of PropertyCommits, each property on its own.   *)

Settings == Values \cup {Null}

CommitType ==
    /\ current \in Values /\ server \in Values
    /\ values \in Settings /\ pendingValues \in Settings
    /\ sets \in 0..MaxSets
    /\ \A q \in flying : /\ q = [id |-> q.id, body |-> q.body, stored |-> q.stored]
                         /\ q.body \in Values /\ q.stored \in BOOLEAN

\* At most one request is in flight, with the values to send; what is set
\* meanwhile has a place to go.
OneInFlight ==
    /\ values # Null
    /\ \A q \in flying : flying = {q} /\ q.body = values /\ pendingValues # Null

\* A property that was never set is nowhere.
NeverSet(n) ==
    current[n] = Unset => server[n] = Unset /\ values[n] = Unset

\* The values set while a request is in flight are the last ones; so are
\* those to send otherwise.
Latest(n) ==
    /\ pendingValues # Null => pendingValues[n] \in {Unset, current[n]}
    /\ n \notin limbo /\ values[n] # Unset =>
          values[n] = current[n] \/ (flying # {} /\ pendingValues[n] = current[n])
    /\ n \notin limbo /\ flying = {} /\ pendingValues # Null /\ pendingValues[n] # Unset =>
          values[n] = pendingValues[n]

\* What the server has taken of a request is there until it answers.
Taken(n) == \A q \in flying : q.stored /\ q.body[n] # Unset => server[n] = q.body[n]

Kept(n) ==
    n \notin limbo => \/ server[n] = current[n]
                      \/ values[n] = current[n]
                      \/ Holds(pendingValues, n)

CommitSound == OneInFlight /\ \A n \in Names : NeverSet(n) /\ Latest(n) /\ Taken(n) /\ Kept(n)

CommitInv == CommitType /\ (overlapped \/ CommitSound)

-----------------------------------------------------------------------------
(* Sets of values.                                                           *)

LEMMA NullIsNoSetting == Null \notin Values /\ NoValues \in Values /\ Unset \in 0..MaxSets
BY CommitBounds DEF Null, Values, NoValues, Unset

LEMMA Merged ==
    ASSUME NEW a \in Values, NEW b \in Settings
    PROVE  /\ Merge(a, b) \in Values
           /\ \A n \in Names : Merge(a, b)[n] = IF b # Null /\ b[n] # Unset THEN b[n] ELSE a[n]
BY NullIsNoSetting DEF Merge, Values, Settings

LEMMA CommitInitHolds == CommitInit => CommitInv
<1>. SUFFICES ASSUME CommitInit PROVE CommitInv
  OBVIOUS
<1>1. CommitType
  BY NullIsNoSetting, CommitBounds DEF CommitInit, CommitType, Settings
<1>2. CommitSound
  BY NullIsNoSetting DEF CommitInit, CommitSound, OneInFlight, NeverSet, Latest, Taken, Kept, NoValues
<1>. QED
  BY <1>1, <1>2 DEF CommitInv

-----------------------------------------------------------------------------
(* The actions.                                                              *)

LEMMA SetKeeps == ASSUME CommitInv, NEW m \in Names, SetProperty(m) PROVE CommitInv'
<1>. DEFINE v == sets + 1
<1>1. v \in 0..MaxSets /\ v # Unset
  BY CommitBounds DEF CommitInv, CommitType, SetProperty, Unset
<1>2. /\ current' \in Values
      /\ \A n \in Names : current'[n] = IF n = m THEN v ELSE current[n]
  BY <1>1 DEF CommitInv, CommitType, SetProperty, Values
<1>3. UNCHANGED <<flying, server, overlapped>> /\ sets' = v
  BY DEF SetProperty
<1>4. CASE pendingValues # Null
  <2>1. /\ values' = values
        /\ pendingValues' \in Values
        /\ \A n \in Names : pendingValues'[n] = IF n = m THEN v ELSE pendingValues[n]
    BY <1>1, <1>4 DEF CommitInv, CommitType, SetProperty, Add, Values, Settings
  <2>2. CommitType'
    BY <1>1, <1>2, <1>3, <2>1 DEF CommitInv, CommitType, Settings
  <2>3. limbo' = IF flying = {} THEN limbo \cup {m} ELSE limbo \ {m}
    BY <1>4 DEF SetProperty
  <2>4. ASSUME CommitSound, NEW n \in Names
        PROVE  NeverSet(n)' /\ Latest(n)' /\ Taken(n)' /\ Kept(n)'
    <3>1. NeverSet(n)'
      BY <1>1, <1>2, <1>3, <2>1, <2>4 DEF CommitSound, NeverSet
    <3>2. Latest(n)'
      BY <1>2, <1>3, <1>4, <2>1, <2>3, <2>4, NullIsNoSetting DEF CommitSound, Latest
    <3>3. Taken(n)'
      BY <1>3, <2>4 DEF CommitSound, Taken
    <3>4. Kept(n)'
      BY <1>2, <1>3, <1>4, <2>1, <2>3, <2>4, NullIsNoSetting DEF CommitSound, Kept, Holds
    <3>. QED
      BY <3>1, <3>2, <3>3, <3>4
  <2>5. CommitSound => OneInFlight'
    BY <1>3, <2>1, NullIsNoSetting DEF CommitSound, OneInFlight
  <2>. QED
    BY <1>3, <2>2, <2>4, <2>5 DEF CommitInv, CommitSound
<1>5. CASE pendingValues = Null /\ values # Null
  <2>1. /\ pendingValues' = Null
        /\ values' \in Values
        /\ \A n \in Names : values'[n] = IF n = m THEN v ELSE values[n]
    BY <1>1, <1>5 DEF CommitInv, CommitType, SetProperty, Add, Values, Settings
  <2>2. CommitType'
    BY <1>1, <1>2, <1>3, <2>1 DEF CommitInv, CommitType, Settings
  <2>3. limbo' = limbo \ {m}
    BY <1>5 DEF SetProperty
  <2>4. ASSUME CommitSound, NEW n \in Names
        PROVE  NeverSet(n)' /\ Latest(n)' /\ Taken(n)' /\ Kept(n)'
    <3>1. NeverSet(n)'
      BY <1>1, <1>2, <1>3, <2>1, <2>4 DEF CommitSound, NeverSet
    <3>2. Latest(n)'
      BY <1>2, <1>3, <1>5, <2>1, <2>3, <2>4 DEF CommitSound, Latest
    <3>3. Taken(n)'
      BY <1>3, <2>4 DEF CommitSound, Taken
    <3>4. Kept(n)'
      BY <1>2, <1>3, <1>5, <2>1, <2>3, <2>4 DEF CommitSound, Kept, Holds
    <3>. QED
      BY <3>1, <3>2, <3>3, <3>4
  <2>5. CommitSound => OneInFlight'
    BY <1>3, <1>5, <2>1, NullIsNoSetting DEF CommitSound, OneInFlight
  <2>. QED
    BY <1>3, <2>2, <2>4, <2>5 DEF CommitInv, CommitSound
<1>6. CASE pendingValues = Null /\ values = Null
  <2>1. UNCHANGED <<values, pendingValues>>
    BY <1>6 DEF SetProperty, Add
  <2>2. CommitType'
    BY <1>1, <1>2, <1>3, <2>1 DEF CommitInv, CommitType, Settings
  <2>. QED
    BY <1>3, <1>6, <2>2 DEF CommitInv, CommitSound, OneInFlight
<1>. QED
  BY <1>4, <1>5, <1>6

LEMMA CommitKeeps == ASSUME CommitInv, NEW left, Commit(left) PROVE CommitInv'
<1>1. UNCHANGED <<current, values, server, sets, limbo>>
  BY DEF Commit
<1>2. CASE values \in {Null, NoValues}
  <2>1. UNCHANGED <<pendingValues, flying, overlapped>>
    BY <1>2 DEF Commit
  <2>. QED
    BY <1>1, <2>1 DEF CommitInv, CommitType, CommitSound, OneInFlight, NeverSet, Latest, Taken, Kept, Holds
<1>3. CASE values \notin {Null, NoValues}
  <2>. DEFINE q == [id |-> FreshId, body |-> values, stored |-> FALSE]
  <2>1. /\ pendingValues' = NoValues
        /\ flying' = flying \cup {q}
        /\ overlapped' = (overlapped \/ flying # {})
    BY <1>3 DEF Commit
  <2>2. values \in Values
    BY <1>3 DEF CommitInv, CommitType, Settings
  <2>3. /\ q = [id |-> q.id, body |-> q.body, stored |-> q.stored]
        /\ q.body = values /\ q.stored = FALSE
    OBVIOUS
  <2>4. CommitType'
    BY <1>1, <2>1, <2>2, <2>3, NullIsNoSetting DEF CommitInv, CommitType, Settings
  <2>5. ASSUME CommitSound, flying = {} PROVE CommitSound'
    <3>1. flying' = {q}
      BY <2>1, <2>5
    <3>2. OneInFlight'
      BY <1>1, <2>1, <2>3, <2>5, <3>1, NullIsNoSetting DEF CommitSound, OneInFlight
    <3>3. ASSUME NEW n \in Names PROVE NeverSet(n)' /\ Latest(n)' /\ Taken(n)' /\ Kept(n)'
      <4>1. NoValues[n] = Unset
        BY DEF NoValues
      <4>2. NeverSet(n) /\ Latest(n) /\ Kept(n)
        BY <2>5 DEF CommitSound
      <4>3. NeverSet(n)'
        BY <1>1, <4>2 DEF NeverSet
      <4>4. Latest(n)'
        BY <1>1, <2>1, <2>5, <4>1, <4>2 DEF Latest
      <4>5. Taken(n)'
        BY <2>3, <3>1 DEF Taken
      <4>6. Kept(n)'
        BY <1>1, <2>1, <2>5, <4>1, <4>2 DEF Kept, Latest, NeverSet, Holds
      <4>. QED
        BY <4>3, <4>4, <4>5, <4>6
    <3>. QED
      BY <3>2, <3>3 DEF CommitSound
  <2>. QED
    BY <2>1, <2>4, <2>5 DEF CommitInv
<1>. QED
  BY <1>2, <1>3

LEMMA StoreKeeps == ASSUME CommitInv, NEW q \in flying, Store(q) PROVE CommitInv'
<1>0. PICK p : p = [q EXCEPT !.stored = TRUE]
  OBVIOUS
<1>1. /\ UNCHANGED <<current, values, pendingValues, sets, overlapped, limbo>>
      /\ server' = Merge(server, q.body) /\ flying' = (flying \ {q}) \cup {p}
  BY <1>0 DEF Store, countVars
<1>2. q.body \in Values /\ q = [id |-> q.id, body |-> q.body, stored |-> q.stored]
  BY DEF CommitInv, CommitType
<1>3. p = [id |-> q.id, body |-> q.body, stored |-> TRUE]
  BY <1>0, <1>2
<1>4. /\ server' \in Values
      /\ \A n \in Names : server'[n] = IF q.body[n] # Unset THEN q.body[n] ELSE server[n]
  BY <1>1, <1>2, Merged, NullIsNoSetting DEF CommitInv, CommitType, Settings
<1>5. /\ p = [id |-> p.id, body |-> p.body, stored |-> p.stored]
      /\ p.body = q.body /\ p.stored = TRUE
  BY <1>3
<1>6. CommitType'
  BY <1>1, <1>2, <1>4, <1>5 DEF CommitInv, CommitType
<1>7. ASSUME CommitSound PROVE CommitSound'
  <2>1. flying = {q} /\ q.body = values /\ pendingValues # Null
    BY <1>7 DEF CommitSound, OneInFlight
  <2>2. flying' = {p}
    BY <1>1, <2>1
  <2>3. OneInFlight'
    BY <1>1, <1>5, <1>7, <2>1, <2>2 DEF CommitSound, OneInFlight
  <2>4. ASSUME NEW n \in Names PROVE NeverSet(n)' /\ Latest(n)' /\ Taken(n)' /\ Kept(n)'
    <3>1. NeverSet(n) /\ Latest(n) /\ Kept(n)
      BY <1>7 DEF CommitSound
    <3>2. NeverSet(n)'
      BY <1>1, <1>4, <2>1, <3>1 DEF NeverSet
    <3>3. Latest(n)'
      BY <1>1, <2>1, <2>2, <3>1 DEF Latest
    <3>4. Taken(n)'
      BY <1>4, <1>5, <2>2 DEF Taken
    <3>5. Kept(n)'
      BY <1>1, <1>4, <2>1, <3>1 DEF Kept, Latest, Holds
    <3>. QED
      BY <3>2, <3>3, <3>4, <3>5
  <2>. QED
    BY <2>3, <2>4 DEF CommitSound
<1>. QED
  BY <1>1, <1>6, <1>7 DEF CommitInv

LEMMA SucceedKeeps == ASSUME CommitInv, NEW q \in flying, Succeed(q) PROVE CommitInv'
<1>1. /\ UNCHANGED <<current, server, sets, overlapped, limbo>>
      /\ flying' = flying \ {q} /\ values' = pendingValues /\ pendingValues' = Null
      /\ q.stored
  BY DEF Succeed, countVars
<1>2. CommitType'
  BY <1>1 DEF CommitInv, CommitType, Settings
<1>3. ASSUME CommitSound PROVE CommitSound'
  <2>1. flying' = {} /\ q.body = values /\ pendingValues # Null
    BY <1>1, <1>3 DEF CommitSound, OneInFlight
  <2>2. OneInFlight'
    BY <1>1, <2>1 DEF OneInFlight
  <2>3. ASSUME NEW n \in Names PROVE NeverSet(n)' /\ Latest(n)' /\ Taken(n)' /\ Kept(n)'
    <3>1. NeverSet(n) /\ Latest(n) /\ Kept(n) /\ Taken(n)
      BY <1>3 DEF CommitSound
    <3>2. NeverSet(n)' /\ Latest(n)'
      BY <1>1, <2>1, <3>1 DEF NeverSet, Latest
    <3>3. Taken(n)'
      BY <2>1 DEF Taken
    <3>4. Kept(n)'
      BY <1>1, <2>1, <3>1 DEF Kept, Taken, NeverSet, Holds
    <3>. QED
      BY <3>2, <3>3, <3>4
  <2>. QED
    BY <2>2, <2>3 DEF CommitSound
<1>. QED
  BY <1>1, <1>2, <1>3 DEF CommitInv

LEMMA FailKeeps == ASSUME CommitInv, NEW q \in flying, Fail(q) PROVE CommitInv'
<1>1. /\ UNCHANGED <<current, pendingValues, server, sets, overlapped, limbo>>
      /\ flying' = flying \ {q}
      /\ values' = IF values = Null THEN values ELSE Merge(values, pendingValues)
  BY DEF Fail
<1>2. values # Null =>
        /\ values' \in Values
        /\ \A n \in Names : values'[n] = IF pendingValues # Null /\ pendingValues[n] # Unset
                                         THEN pendingValues[n] ELSE values[n]
  BY <1>1, Merged DEF CommitInv, CommitType, Settings
<1>3. CommitType'
  BY <1>1, <1>2 DEF CommitInv, CommitType, Settings
<1>4. ASSUME CommitSound PROVE CommitSound'
  <2>1. flying' = {} /\ flying # {} /\ values # Null /\ pendingValues # Null
    BY <1>1, <1>4 DEF CommitSound, OneInFlight
  <2>2. OneInFlight'
    BY <1>2, <2>1, NullIsNoSetting DEF OneInFlight
  <2>3. ASSUME NEW n \in Names PROVE NeverSet(n)' /\ Latest(n)' /\ Taken(n)' /\ Kept(n)'
    <3>1. NeverSet(n) /\ Latest(n) /\ Kept(n)
      BY <1>4 DEF CommitSound
    <3>2. values'[n] = IF pendingValues[n] # Unset THEN pendingValues[n] ELSE values[n]
      BY <1>2, <2>1
    <3>3. NeverSet(n)'
      BY <1>1, <2>1, <3>1, <3>2 DEF NeverSet, Latest
    <3>4. Latest(n)'
      BY <1>1, <2>1, <3>1, <3>2 DEF NeverSet, Latest
    <3>5. Taken(n)'
      BY <2>1 DEF Taken
    <3>6. Kept(n)'
      BY <1>1, <2>1, <3>1, <3>2 DEF Kept, Latest, Holds
    <3>. QED
      BY <3>3, <3>4, <3>5, <3>6
  <2>. QED
    BY <2>2, <2>3 DEF CommitSound
<1>. QED
  BY <1>1, <1>3, <1>4 DEF CommitInv

-----------------------------------------------------------------------------
(* For any properties and any bounds: as long as no commits overlap, the     *)
(* value a component reads back is stored or on its way, but for properties  *)
(* set between a failure and its retry.                                      *)
THEOREM ValuesAlwaysKept == CommitSpec => []ValueKept
<1>1. CommitInv => ValueKept
  <2>. SUFFICES ASSUME CommitInv, ~overlapped, NEW n \in Names \ limbo
                PROVE  server[n] = current[n] \/ Holds(values, n) \/ Holds(pendingValues, n)
    BY DEF ValueKept
  <2>. QED
    BY DEF CommitInv, CommitSound, OneInFlight, Kept, Holds
<1>2. CommitInv /\ [CommitNext]_commitVars => CommitInv'
  <2>. SUFFICES ASSUME CommitInv, [CommitNext]_commitVars PROVE CommitInv'
    OBVIOUS
  <2>1. CASE \E n \in Names : SetProperty(n)
    BY <2>1, SetKeeps
  <2>2. CASE TimerFires
    BY <2>2, CommitKeeps DEF TimerFires
  <2>3. CASE StrayFires
    BY <2>3, CommitKeeps DEF StrayFires
  <2>4. CASE UnloadWidget
    BY <2>4, CommitKeeps DEF UnloadWidget
  <2>5. CASE \E q \in flying : Store(q)
    BY <2>5, StoreKeeps
  <2>6. CASE \E q \in flying : Succeed(q)
    BY <2>6, SucceedKeeps
  <2>7. CASE \E q \in flying : Fail(q)
    BY <2>7, FailKeeps
  <2>8. CASE UNCHANGED commitVars
    BY <2>8 DEF commitVars, timerVars, countVars, CommitInv, CommitType, CommitSound, OneInFlight, NeverSet,
                Latest, Taken, Kept, Holds
  <2>. QED
    BY <2>1, <2>2, <2>3, <2>4, <2>5, <2>6, <2>7, <2>8 DEF CommitNext
<1>. QED
  BY <1>1, <1>2, CommitInitHolds, PTL DEF CommitSpec
=============================================================================
