--------------------------- MODULE EventDispatch ---------------------------
(* How events reach their listeners: one StyledElements.Event (Event.js),    *)
(* and the propagation of a value by one output endpoint                     *)
(* (wiring/SourceEndpoint.js).  A handler may add and remove handlers,       *)
(* trigger its own event again or throw; the callback of an input may make   *)
(* and break connections or throw.                                           *)
EXTENDS Naturals, Sequences, FiniteSets, SequencesExt

CONSTANTS
    Handlers,       \* functions that may be registered
    Inputs,         \* target endpoints
    MaxHandlers,    \* bound: length of the list of handlers
    MaxDispatch,    \* bound: dispatches of the event inside one another
    MaxMeddling     \* bound: changes made by handlers and callbacks

ASSUME DispatchBounds == {MaxHandlers, MaxDispatch, MaxMeddling} \subseteq Nat

Hole == "hole"      \* a removed handler while the event is being dispatched

VARIABLES
    \* Event
    handlers,       \* the list, Hole for null
    dispatching,    \* priv.dispatching
    frames,         \* dispatches in progress, innermost first
    skipped,        \* history: a handler left out by a dispatch that ended
    \* SourceEndpoint
    wired,          \* outputList and connections: the target of each connection
    walk,           \* the propagation in progress: its copy and its position
    logs,           \* history: failures logged, <<target, connection logged to>>
    cut,            \* history: a propagation ended before the end of its copy
    meddling        \* what MaxMeddling counts

eventVars == <<handlers, dispatching, frames, skipped>>
propagationVars == <<wired, walk, logs, cut>>
dispatchVars == <<eventVars, propagationVars, meddling>>

Idle == [targets |-> <<>>, i |-> 0, busy |-> FALSE, moved |-> FALSE]

DispatchInit ==
    /\ handlers = <<>> /\ dispatching = FALSE /\ frames = <<>> /\ skipped = {}
    /\ wired = <<>> /\ walk = Idle /\ logs = {} /\ cut = FALSE
    /\ meddling = 0

----------------------------------------------------------------------------
(* Event.  The outside calls it when no dispatch runs, a running handler     *)
(* while it does.  A frame keeps the position of its loop, whether a handler *)
(* is running, the handlers called, those that have been there since it      *)
(* began (due), and whether the list closed up under it (disturbed).         *)

\* hs without x, the gaps closed: the k-th of what is left is the one with
\* k - 1 of them before it.
Closed(hs, x) ==
    LET left == {i \in DOMAIN hs : hs[i] # x} IN
    [k \in 1..Cardinality(left) |-> hs[CHOOSE i \in left : Cardinality({j \in left : j < i}) = k - 1]]

Listening == Range(handlers) \ {Hole}
Live(hs) == Closed(hs, Hole)

Meddle == IF frames = <<>> /\ walk = Idle
          THEN meddling' = meddling
          ELSE /\ walk.busy \/ (frames # <<>> /\ Head(frames).busy)
               /\ meddling < MaxMeddling
               /\ meddling' = meddling + 1

\* Mutant: removal always closes the gap.
CloseUp(h) == Closed(handlers, h)

\* removeEventListener takes away every registration of the handler.
Without(h) ==
    IF dispatching THEN [i \in DOMAIN handlers |-> IF handlers[i] = h THEN Hole ELSE handlers[i]]
    ELSE Closed(handlers, h)

AddEventListener(h) ==
    /\ Len(handlers) < MaxHandlers
    /\ Meddle
    /\ handlers' = Append(handlers, h)
    /\ UNCHANGED <<dispatching, frames, skipped, propagationVars>>

\* Outside the flag, inside a loop, the list closes up under the outer loop.
RemoveEventListener(h) ==
    /\ h \in Listening
    /\ Meddle
    /\ handlers' = Without(h)
    /\ frames' = [i \in DOMAIN frames |->
                    [frames[i] EXCEPT !.due = @ \ {h}, !.disturbed = @ \/ ~dispatching]]
    /\ UNCHANGED <<dispatching, skipped, propagationVars>>

ClearEventListeners ==
    /\ Listening # {}
    /\ Meddle
    /\ handlers' = IF dispatching THEN [i \in DOMAIN handlers |-> Hole] ELSE <<>>
    /\ frames' = [i \in DOMAIN frames |->
                    [frames[i] EXCEPT !.due = {}, !.disturbed = @ \/ ~dispatching]]
    /\ UNCHANGED <<dispatching, skipped, propagationVars>>

\* dispatch(): from outside, or from a handler of the same event.
Dispatch ==
    /\ Len(frames) < MaxDispatch
    /\ Meddle
    /\ dispatching' = TRUE
    /\ frames' = <<[i |-> 1, busy |-> FALSE, called |-> {}, due |-> Listening, disturbed |-> FALSE]>> \o frames
    /\ UNCHANGED <<handlers, skipped, propagationVars>>

\* The loop calls the next handler, or passes over a hole; an exception is
\* caught, so a handler that throws is one that does nothing more.
CallHandler ==
    /\ frames # <<>>
    /\ Head(frames).i <= Len(handlers)
    /\ LET f == Head(frames)  h == handlers[f.i] IN
       frames' = <<[f EXCEPT !.i = @ + 1, !.busy = (h # Hole), !.called = @ \cup ({h} \ {Hole})]>> \o Tail(frames)
    /\ UNCHANGED <<handlers, dispatching, skipped, propagationVars, meddling>>

\* The end of the loop closes the gaps and lowers the flag, whether or not
\* another dispatch of the event is still going on.
EndDispatch ==
    /\ frames # <<>>
    /\ Head(frames).i > Len(handlers)
    /\ handlers' = Live(handlers)
    /\ dispatching' = FALSE
    /\ LET f == Head(frames)  closed == Hole \in Range(handlers) IN
       /\ frames' = [j \in DOMAIN Tail(frames) |->
                        [Tail(frames)[j] EXCEPT !.disturbed = @ \/ closed]]
       /\ skipped' = IF f.disturbed THEN skipped ELSE skipped \cup (f.due \ f.called)
    /\ UNCHANGED <<propagationVars, meddling>>

----------------------------------------------------------------------------
(* SourceEndpoint: position i of wired is both outputList[i] and the target  *)
(* of connections[i].                                                        *)

Connect(t) ==
    /\ t \notin Range(wired)
    /\ Meddle
    /\ wired' = Append(wired, t)
    /\ UNCHANGED <<eventVars, walk, logs, cut>>

DisconnectInput(t) ==
    /\ Meddle
    /\ \E i \in DOMAIN wired : wired[i] = t /\ wired' = RemoveAt(wired, i)
    /\ walk' = [walk EXCEPT !.moved = walk # Idle]
    /\ UNCHANGED <<eventVars, logs, cut>>

\* propagate() walks a copy of outputList.
Propagate ==
    /\ walk = Idle /\ wired # <<>>
    /\ walk' = [targets |-> wired, i |-> 1, busy |-> FALSE, moved |-> FALSE]
    /\ UNCHANGED <<eventVars, wired, logs, cut, meddling>>

\* The next target takes the value.
Take == /\ walk # Idle /\ walk.i <= Len(walk.targets)
        /\ walk' = [walk EXCEPT !.i = @ + 1, !.busy = TRUE]
        /\ UNCHANGED <<eventVars, wired, logs, cut, meddling>>

\* Mutant: the failure is logged to the next connection.
LogNext(i) == i + 1
LogTo(i) == i

\* The target just called throws an EndpointTypeError: it is logged to the
\* connection now at that position; with none there, the loop breaks.
TakeFails ==
    /\ walk.busy
    /\ LET i == walk.i - 1  t == walk.targets[i]  p == LogTo(i) IN
       IF p \in DOMAIN wired
       THEN /\ logs' = IF walk.moved THEN logs ELSE logs \cup {<<t, wired[p]>>}
            /\ walk' = [walk EXCEPT !.busy = FALSE]
            /\ cut' = cut
       ELSE /\ walk' = Idle
            /\ cut' = (cut \/ ~walk.moved)
            /\ logs' = logs
    /\ UNCHANGED <<eventVars, wired, meddling>>

EndPropagation ==
    /\ walk # Idle /\ walk.i > Len(walk.targets)
    /\ walk' = Idle
    /\ UNCHANGED <<eventVars, wired, logs, cut, meddling>>

\* The two parts are independent: one runs at a time.
DispatchNext ==
    \/ /\ wired = <<>> /\ walk = Idle
       /\ \/ \E h \in Handlers : AddEventListener(h)
          \/ \E h \in Handlers : RemoveEventListener(h)
          \/ ClearEventListeners
          \/ Dispatch
          \/ CallHandler
          \/ EndDispatch
    \/ /\ handlers = <<>> /\ frames = <<>>
       /\ \/ \E t \in Inputs : Connect(t)
          \/ \E t \in Inputs : DisconnectInput(t)
          \/ Propagate
          \/ Take
          \/ TakeFails
          \/ EndPropagation

DispatchSpec == DispatchInit /\ [][DispatchNext]_dispatchVars

----------------------------------------------------------------------------
DispatchTypeOK ==
    /\ handlers \in Seq(Handlers \cup {Hole})
    /\ dispatching \in BOOLEAN
    /\ \A i \in DOMAIN frames : /\ frames[i].i \in 1..(MaxHandlers + 1)
                                /\ frames[i].called \cup frames[i].due \subseteq Handlers
    /\ wired \in Seq(Inputs)
    /\ walk.targets \in Seq(Inputs) /\ walk.i \in 0..(Cardinality(Inputs) + 1)

\* A dispatch calls every handler that is registered from its beginning to its
\* end, whatever the handlers add, remove or throw; only a nested dispatch of
\* the same event, which closes the gaps of the list or lets the next removal
\* do so, can make the outer one pass over a handler.
NobodySkipped == skipped = {}

\* The failure of an input is logged to its own connection and keeps the value
\* from no other input, unless a callback broke a connection meanwhile.
LoggedToItsConnection == (\A l \in logs : l[1] = l[2]) /\ ~cut
=============================================================================
