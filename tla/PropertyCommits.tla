-------------------------- MODULE PropertyCommits --------------------------
(* The saves of the properties of one widget or operator:                    *)
(* PropertyCommiter.js and PersistentVariable.js.  Values set are gathered   *)
(* and sent a second later; while a request is in flight they gather apart,  *)
(* as pending; a request that fails is sent again after thirty seconds.      *)
(* Time is left out: an armed timer may fire at any moment.                  *)
EXTENDS Naturals, FiniteSets

CONSTANTS
    Names,          \* the properties
    MaxSets,        \* bound: values set
    MaxFailures,    \* bound: requests that fail
    MaxUnloads      \* bound: times the widget is unloaded

ASSUME CommitBounds == {MaxSets, MaxFailures, MaxUnloads} \subseteq Nat /\ Names # {}

Unset == 0                      \* a property not in a set of values
Null == [n \in {} |-> Unset]    \* a set of values that is null
NoValues == [n \in Names |-> Unset]

VARIABLES
    current,    \* current[n]: the value the component reads back
    values,     \* the values to send, or Null
    pendingValues, \* those set since the last commit, or Null
    armed,      \* this.timeout is a timer that has not fired
    strays,     \* timers armed that this.timeout no longer names
    flying,     \* requests not answered: [id, body, stored]
    server,     \* server[n]: the stored value
    sets, failures, unloads,    \* what the bounds count
    overlapped, \* history: a commit was sent with another in flight
    limbo       \* history: properties last set between a failure and its retry

timerVars == <<armed, strays>>
countVars == <<sets, failures, unloads>>
commitVars == <<current, values, pendingValues, timerVars, flying, server, countVars, overlapped, limbo>>

Merge(a, b) == IF b = Null THEN a ELSE [n \in Names |-> IF b[n] # Unset THEN b[n] ELSE a[n]]
FreshId == CHOOSE i \in 0..Cardinality(flying) : \A q \in flying : q.id # i

CommitInit ==
    /\ current = NoValues /\ values = NoValues /\ pendingValues = Null
    /\ armed = FALSE /\ strays = 0
    /\ flying = {} /\ server = NoValues
    /\ sets = 0 /\ failures = 0 /\ unloads = 0
    /\ overlapped = FALSE /\ limbo = {}

\* Mutant: what is set while a request is in flight joins what it sends.
AddTogether(n, v) ==
    /\ values' = [values EXCEPT ![n] = v]
    /\ armed' = TRUE
    /\ UNCHANGED <<pendingValues, strays>>

\* PropertyCommiter.add: with both sets null it throws, after the component
\* has seen the new value.
Add(n, v) ==
    CASE pendingValues # Null ->
            pendingValues' = [pendingValues EXCEPT ![n] = v] /\ UNCHANGED <<values, timerVars>>
      [] pendingValues = Null /\ values # Null ->
            /\ values' = [values EXCEPT ![n] = v]
            /\ armed' = TRUE
            /\ UNCHANGED <<pendingValues, strays>>
      [] OTHER -> UNCHANGED <<values, pendingValues, timerVars>>

\* PersistentVariable.set
SetProperty(n) ==
    /\ sets < MaxSets
    /\ sets' = sets + 1
    /\ current' = [current EXCEPT ![n] = sets + 1]
    /\ Add(n, sets + 1)
    /\ limbo' = IF pendingValues # Null /\ flying = {} THEN limbo \cup {n} ELSE limbo \ {n}
    /\ UNCHANGED <<flying, server, failures, unloads, overlapped>>

\* PropertyCommiter.commit, with strays left over its timers.
Commit(left) ==
    /\ armed' = FALSE
    /\ strays' = left
    /\ IF values \in {Null, NoValues}
       THEN UNCHANGED <<pendingValues, flying, overlapped>>
       ELSE /\ pendingValues' = NoValues
            /\ flying' = flying \cup {[id |-> FreshId, body |-> values, stored |-> FALSE]}
            /\ overlapped' = (overlapped \/ flying # {})
    /\ UNCHANGED <<current, values, server, sets, failures, limbo>>

TimerFires == armed /\ Commit(strays) /\ UNCHANGED unloads
StrayFires == strays > 0 /\ Commit(strays - 1) /\ UNCHANGED unloads

\* on_unload of a widget commits at once (a reload keeps the commiter).
UnloadWidget ==
    /\ unloads < MaxUnloads
    /\ unloads' = unloads + 1
    /\ Commit(strays)

\* The server takes a request.
Store(q) ==
    /\ ~q.stored
    /\ server' = Merge(server, q.body)
    /\ flying' = (flying \ {q}) \cup {[q EXCEPT !.stored = TRUE]}
    /\ UNCHANGED <<current, values, pendingValues, timerVars, countVars, overlapped, limbo>>

\* setTimeout: the previous timer, when it has not fired, is out of reach.
Arm == /\ armed' = TRUE
       /\ strays' = IF armed THEN strays + 1 ELSE strays

\* Mutant: what was set meanwhile waits for the next value.
SucceedIdle(q) ==
    /\ q.stored
    /\ flying' = flying \ {q}
    /\ values' = pendingValues
    /\ pendingValues' = Null
    /\ UNCHANGED <<current, timerVars, server, countVars, overlapped, limbo>>

\* onSuccess: with pendingValues null (another answer came first) values is null
\* from then on, and Object.keys throws.
Succeed(q) ==
    /\ q.stored
    /\ flying' = flying \ {q}
    /\ values' = pendingValues
    /\ pendingValues' = Null
    /\ IF pendingValues \notin {Null, NoValues} THEN Arm ELSE UNCHANGED timerVars
    /\ UNCHANGED <<current, server, countVars, overlapped, limbo>>

\* onFailure, which the server may have stored all the same; Object.assign
\* throws when values is null.
Fail(q) ==
    /\ failures < MaxFailures
    /\ failures' = failures + 1
    /\ flying' = flying \ {q}
    /\ IF values = Null
       THEN UNCHANGED <<values, timerVars>>
       ELSE values' = Merge(values, pendingValues) /\ Arm
    /\ UNCHANGED <<current, pendingValues, server, sets, unloads, overlapped, limbo>>

Reply == \E q \in flying : Store(q) \/ Succeed(q) \/ Fail(q)
Fires == TimerFires \/ StrayFires

CommitNext ==
    \/ \E n \in Names : SetProperty(n)
    \/ TimerFires
    \/ StrayFires
    \/ UnloadWidget
    \/ \E q \in flying : Store(q)
    \/ \E q \in flying : Succeed(q)
    \/ \E q \in flying : Fail(q)

\* Timers fire, requests are answered.
CommitFairness == WF_commitVars(Fires) /\ WF_commitVars(Reply)
CommitSpec == CommitInit /\ [][CommitNext]_commitVars /\ CommitFairness

----------------------------------------------------------------------------
Values == [Names -> 0..MaxSets]

CommitTypeOK ==
    /\ current \in Values /\ server \in Values
    /\ values \in Values \cup {Null} /\ pendingValues \in Values \cup {Null}
    /\ armed \in BOOLEAN /\ strays \in Nat
    /\ \A q \in flying : q.id \in Nat /\ q.body \in Values /\ q.stored \in BOOLEAN
    /\ sets \in 0..MaxSets /\ failures \in 0..MaxFailures /\ unloads \in 0..MaxUnloads
    /\ overlapped \in BOOLEAN /\ limbo \subseteq Names

Holds(vs, n) == vs # Null /\ vs[n] = current[n]

\* The value a component reads back is stored, or on its way to the server, in
\* whatever order answers, failures and timers come; but commits that overlap
\* (a widget unloaded with a save in flight) and values set between a failure
\* and its retry lose some.
ValueKept ==
    overlapped \/ \A n \in Names \ limbo :
        \/ server[n] = current[n]
        \/ Holds(values, n)
        \/ Holds(pendingValues, n)
        \/ \E q \in flying : Holds(q.body, n)

\* Once the component stops setting values and requests stop failing, the last
\* value of each property gets to the server, with the same two exceptions.
LastValueStored == <>[](overlapped \/ \A n \in Names \ limbo : server[n] = current[n])
=============================================================================
