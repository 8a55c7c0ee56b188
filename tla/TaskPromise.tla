---------------------------- MODULE TaskPromise ----------------------------
(* Wirecloud.Task (commons/static/js/wirecloud/Task.js): promises that can   *)
(* be aborted, continued (then), grouped and wrapped (toTask).               *)
(*                                                                           *)
(* Everything a settled task causes happens inside one call, through the     *)
(* listeners of its events.  calls is that stack of calls, innermost first;  *)
(* the outside (an answer, the user, a callback that is running) acts when   *)
(* it is empty or a callback is on top.                                      *)
(*                                                                           *)
(* Progress events are left out: no listener of theirs settles a task.  Tasks *)
(* resolved with a task as their value are left out too.                      *)
EXTENDS Naturals, Sequences, FiniteSets, SequencesExt, FiniteSetsExt

CONSTANTS
    MaxTasks,       \* bound: tasks created
    MaxOf,          \* bound: tasks of each kind
    MaxGroup,       \* bound: tasks in a group
    MaxDepth,       \* bound: calls nested inside callbacks
    Profiles        \* what continuations may register: functions from Events
                    \* to {"none", "value", "throw", "task"}

ASSUME TaskBounds == MaxTasks \in Nat /\ MaxDepth \in Nat /\ MaxGroup \in Nat

Kinds == {"root", "then", "group", "wrap"}
Events == {"finish", "fail", "abort"}
Settled == {"resolved", "rejected", "aborted"}
Answers == {"none", "value", "throw", "task"}

VARIABLES
    kind,       \* kind[t]: "none" until created, then how it was made
    status,     \* status[t]
    subtasks,   \* subtasks[t]: what abort() passes on to, in order
    parent,     \* parent[t]: the task t continues, or 0
    chain,      \* chain[w]: tasks whose "nexttask" the wrapper w listens to
    callback,   \* callback[c]: the profile of the continuation c
    links,      \* links[t]: who listens to the events of t, in order
    calls,      \* the calls in progress, innermost first
    returned        \* history: <<c, r, s>>, the callback of c returned the task r
                    \* when c had status s

taskVars == <<kind, status, subtasks, parent, chain, callback, links, calls, returned>>

Tasks == 1..MaxTasks
Created == {t \in Tasks : kind[t] # "none"}
Fresh == Cardinality(Created) + 1
Quiet == calls = <<>>
CanMake(k) == Quiet /\ Fresh \in Tasks /\ Cardinality({t \in Created : kind[t] = k}) < MaxOf[k]
NoCallback == [e \in Events |-> "none"]

(* The calls: settle(t) is resolve or reject, abort(t) the method, abortSub  *)
(* its walk over the live list of subtasks, notify the dispatch of an event  *)
(* to the listeners from the i-th on, deliver one listener, run a callback   *)
(* of c in progress, up the retroactive part of abort().                     *)
Settle(t, s) == [op |-> "settle", t |-> t, s |-> s]
Abort(t) == [op |-> "abort", t |-> t]
AbortSub(t, i, n) == [op |-> "abortSub", t |-> t, i |-> i, n |-> n]
Notify(t, e, i) == [op |-> "notify", t |-> t, e |-> e, i |-> i]
Deliver(to, how, t, e) == [op |-> "deliver", to |-> to, how |-> how, t |-> t, e |-> e]
Running(c, e) == [op |-> "run", t |-> c, e |-> e]
Up(t) == [op |-> "up", t |-> t]

(* A walk that is over leaves the stack at once. *)
Over(f) == \/ f.op = "notify" /\ f.i > Len(links[f.t])
           \/ f.op = "abortSub" /\ f.i > f.n
FromFirstLive(cs) ==
    LET live == {i \in DOMAIN cs : ~Over(cs[i])}
    IN  IF live = {} THEN <<>> ELSE SubSeq(cs, Min(live), Len(cs))
Return(frames) == calls' = FromFirstLive(frames \o Tail(calls))
NestedRuns == Cardinality({i \in DOMAIN calls : calls[i].op = "run"})

\* The outside acts between calls, or answers and aborts from inside a
\* running callback.
Free == IF calls = <<>> THEN TRUE ELSE Head(calls).op = "run" /\ NestedRuns <= MaxDepth

TaskInit ==
    /\ kind = [t \in Tasks |-> "none"]
    /\ status = [t \in Tasks |-> "pending"]
    /\ subtasks = [t \in Tasks |-> <<>>]
    /\ parent = [t \in Tasks |-> 0]
    /\ chain = [t \in Tasks |-> {}]
    /\ callback = [t \in Tasks |-> NoCallback]
    /\ links = [t \in Tasks |-> <<>>]
    /\ calls = <<>>
    /\ returned = {}

----------------------------------------------------------------------------
(* What the outside does.                                                    *)

\* new Task(title, function): settled later by an answer.
NewTask ==
    /\ CanMake("root")
    /\ kind' = [kind EXCEPT ![Fresh] = "root"]
    /\ UNCHANGED <<status, subtasks, parent, chain, callback, links, calls, returned>>

\* Mutant: a continuation of a settled task waits for it.
JoinedLate(c, how, p, ls) ==
    /\ links' = [ls EXCEPT ![p] = Append(@, [to |-> c, how |-> how])]
    /\ calls' = calls

\* A continuation of a settled task runs at once, any other waits for p.
Joined(c, how, p, ls) ==
    IF status[p] = "pending"
    THEN /\ links' = [ls EXCEPT ![p] = Append(@, [to |-> c, how |-> how])]
         /\ calls' = calls
    ELSE /\ links' = ls
         /\ calls' = <<Deliver(c, how, p,
                        CASE status[p] = "resolved" -> "finish"
                          [] status[p] = "rejected" -> "fail"
                          [] status[p] = "aborted" -> "abort")>> \o calls

\* p.then(...), p.catch(...), p.finally(...)
Then(p, cb) ==
    /\ CanMake("then") /\ p \in Created
    /\ kind' = [kind EXCEPT ![Fresh] = "then"]
    /\ parent' = [parent EXCEPT ![Fresh] = p]
    /\ callback' = [callback EXCEPT ![Fresh] = cb]
    /\ Joined(Fresh, "then", p, links)
    /\ UNCHANGED <<status, subtasks, chain, returned>>

\* new Task(title, [tasks]): listens to each, then looks at them once.
NewGroup(ts) ==
    /\ CanMake("group") /\ Range(ts) \subseteq Created /\ IsInjective(ts)
    /\ kind' = [kind EXCEPT ![Fresh] = "group"]
    /\ subtasks' = [subtasks EXCEPT ![Fresh] = ts]
    /\ links' = [t \in Tasks |-> IF t \in Range(ts) THEN Append(links[t], [to |-> Fresh, how |-> "group"])
                                 ELSE links[t]]
    /\ calls' = <<Deliver(Fresh, "group", Fresh, "finish")>> \o calls
    /\ UNCHANGED <<status, parent, chain, callback, returned>>

\* The tasks from the root down to t.
Line[t \in Tasks] == IF parent[t] = 0 THEN <<t>> ELSE Append(Line[parent[t]], t)

\* t.toTask(): settled as t is, but not aborted with it; of a continuation,
\* it also holds every task t hangs from, and follows what they return.
ToTask(t) ==
    /\ CanMake("wrap") /\ t \in Created
    /\ kind' = [kind EXCEPT ![Fresh] = "wrap"]
    /\ subtasks' = [subtasks EXCEPT ![Fresh] = Line[t]]
    /\ chain' = [chain EXCEPT ![Fresh] = IF kind[t] = "then" THEN Range(Line[t]) ELSE {}]
    /\ Joined(Fresh, "adopt", t, links)
    /\ UNCHANGED <<status, parent, callback, returned>>

\* The executor of a task answers; it may do so twice, or after an abort.
Answer(t, s) ==
    /\ Free /\ kind[t] = "root"
    /\ calls' = <<Settle(t, s)>> \o calls
    /\ UNCHANGED <<kind, status, subtasks, parent, chain, callback, links, returned>>

\* t.abort(reason) and t.abort(reason, true).
UserAbort(t, retroactive) ==
    /\ Free /\ t \in Created /\ status[t] = "pending"
    /\ calls' = (IF retroactive THEN <<Abort(t), Up(t)>> ELSE <<Abort(t)>>) \o calls
    /\ UNCHANGED <<kind, status, subtasks, parent, chain, callback, links, returned>>

----------------------------------------------------------------------------
(* The calls.                                                                *)

EventOf(s) == IF s = "resolved" THEN "finish" ELSE "fail"

\* Mutant: an answer after the abort goes ahead.
SettleAborted ==
    LET f == Head(calls) IN
    /\ f.op = "settle"
    /\ IF status[f.t] \notin {"pending", "aborted"}
       THEN Return(<<>>) /\ status' = status
       ELSE Return(<<Notify(f.t, EventOf(f.s), 1)>>) /\ status' = [status EXCEPT ![f.t] = f.s]
    /\ UNCHANGED <<kind, subtasks, parent, chain, callback, links, returned>>
\* resolve, reject: nothing for an aborted task; the error for a settled one
\* is caught by the dispatch of the event that led here.
SettleStep ==
    LET f == Head(calls) IN
    /\ f.op = "settle"
    /\ IF status[f.t] # "pending"
       THEN Return(<<>>) /\ status' = status
       ELSE Return(<<Notify(f.t, EventOf(f.s), 1)>>) /\ status' = [status EXCEPT ![f.t] = f.s]
    /\ UNCHANGED <<kind, subtasks, parent, chain, callback, links, returned>>

AbortStep ==
    LET f == Head(calls) IN
    /\ f.op = "abort"
    /\ IF status[f.t] # "pending"
       THEN Return(<<>>) /\ status' = status
       ELSE /\ Return(<<AbortSub(f.t, 1, Len(subtasks[f.t])), Notify(f.t, "abort", 1)>>)
            /\ status' = [status EXCEPT ![f.t] = "aborted"]
    /\ UNCHANGED <<kind, subtasks, parent, chain, callback, links, returned>>

\* forEach visits as many positions as there were, with what they hold now.
AbortSubStep ==
    LET f == Head(calls) IN
    /\ f.op = "abortSub"
    /\ Return(<<Abort(subtasks[f.t][f.i]), AbortSub(f.t, f.i + 1, f.n)>>)
    /\ UNCHANGED <<kind, status, subtasks, parent, chain, callback, links, returned>>

UpStep ==
    LET f == Head(calls)  p == parent[f.t] IN
    /\ f.op = "up"
    /\ Return(IF p # 0 /\ status[p] = "pending"
              THEN <<Abort(p), Up(p)>> ELSE <<>>)
    /\ UNCHANGED <<kind, status, subtasks, parent, chain, callback, links, returned>>

\* Listeners added while the event is dispatched are called as well.
NotifyStep ==
    LET f == Head(calls) IN
    /\ f.op = "notify"
    /\ Return(<<Deliver(links[f.t][f.i].to, links[f.t][f.i].how, f.t, f.e),
                Notify(f.t, f.e, f.i + 1)>>)
    /\ UNCHANGED <<kind, status, subtasks, parent, chain, callback, links, returned>>

\* resolve_then: the callback for the event, or the outcome passed on.
DeliverThen ==
    LET f == Head(calls) IN
    /\ f.op = "deliver" /\ f.how = "then"
    /\ IF status[f.to] = "aborted"
       THEN Return(<<>>)
       ELSE IF callback[f.to][f.e] # "none"
       THEN Return(<<Running(f.to, f.e)>>)
       ELSE Return(<<CASE f.e = "finish" -> Settle(f.to, "resolved")
                       [] f.e = "fail" -> Settle(f.to, "rejected")
                       [] f.e = "abort" -> Abort(f.to)>>)
    /\ UNCHANGED <<kind, status, subtasks, parent, chain, callback, links, returned>>

\* What then(resolve, reject) does inside toTask() and for a returned task.
DeliverAdopt ==
    LET f == Head(calls) IN
    /\ f.op = "deliver" /\ f.how = "adopt"
    /\ Return(CASE f.e = "finish" -> <<Settle(f.to, "resolved")>>
                [] f.e = "fail" -> <<Settle(f.to, "rejected")>>
                [] f.e = "abort" -> <<>>)
    /\ UNCHANGED <<kind, status, subtasks, parent, chain, callback, links, returned>>

\* on_task_finish: what the subtasks make of their group.
Overall(ts) ==
    LET is == {status[ts[i]] : i \in DOMAIN ts} IN
    CASE "pending" \in is -> "pending"
      [] "pending" \notin is /\ "aborted" \in is -> "aborted"
      [] is \cap {"pending", "aborted"} = {} /\ "rejected" \in is -> "rejected"
      [] OTHER -> "resolved"

DeliverGroup ==
    LET f == Head(calls)  s == Overall(subtasks[f.to]) IN
    /\ f.op = "deliver" /\ f.how = "group"
    /\ IF s = "pending"
       THEN Return(<<>>) /\ status' = status
       ELSE /\ status' = [status EXCEPT ![f.to] = s]
            /\ Return(<<Notify(f.to, EventOf(s), 1)>>)
    /\ UNCHANGED <<kind, subtasks, parent, chain, callback, links, returned>>

\* A callback ends with a value, an error or a task.
CallbackEnds ==
    LET f == Head(calls)  answer == callback[f.t][f.e] IN
    /\ f.op = "run" /\ answer \in {"value", "throw"}
    /\ Return(<<Settle(f.t, IF answer = "value" THEN "resolved" ELSE "rejected")>>)
    /\ UNCHANGED <<kind, status, subtasks, parent, chain, callback, links, returned>>

\* The first place of c in the list of a wrapper goes to the task c returned.
FirstIndex(s, c) == CHOOSE i \in DOMAIN s : s[i] = c /\ \A j \in 1..(i - 1) : s[j] # c
\* Mutant: the task is not among the subtasks of its continuation.
NextTaskUnheld(subs, c, r) == subs
NextTask(subs, c, r) ==
    [w \in Tasks |-> IF w = c THEN Append(subs[w], r)
                     ELSE IF c \in chain[w] /\ c \in Range(subs[w])
                     THEN [subs[w] EXCEPT ![FirstIndex(subs[w], c)] = r]
                     ELSE subs[w]]

CallbackReturnsTask ==
    LET f == Head(calls) IN
    /\ f.op = "run" /\ callback[f.t][f.e] = "task"
    /\ \E r \in {t \in Created : kind[t] = "root"} :
         /\ subtasks' = NextTask(subtasks, f.t, r)
         /\ returned' = returned \cup {<<f.t, r, status[f.t]>>}
         /\ IF status[r] = "pending"
            THEN /\ links' = [links EXCEPT ![r] = Append(@, [to |-> f.t, how |-> "adopt"])]
                 /\ Return(<<>>)
            ELSE /\ links' = links
                 /\ Return(IF status[r] = "aborted" THEN <<>> ELSE <<Settle(f.t, status[r])>>)
    /\ UNCHANGED <<kind, status, parent, chain, callback>>

Step == /\ calls # <<>>
        /\ \/ SettleStep \/ AbortStep \/ AbortSubStep \/ UpStep \/ NotifyStep
           \/ DeliverThen \/ DeliverAdopt \/ DeliverGroup
           \/ CallbackEnds \/ CallbackReturnsTask

TaskNext ==
    \/ NewTask
    \/ \E p \in Tasks, cb \in Profiles : Then(p, cb)
    \/ \E n \in 1..MaxGroup : \E ts \in [1..n -> Tasks] : NewGroup(ts)
    \/ \E t \in Tasks : ToTask(t)
    \/ \E t \in Tasks, s \in {"resolved", "rejected"} : Answer(t, s)
    \/ \E t \in Tasks, retroactive \in BOOLEAN : UserAbort(t, retroactive)
    \/ Step

TaskSpec == TaskInit /\ [][TaskNext]_taskVars

----------------------------------------------------------------------------
TaskTypeOK ==
    /\ kind \in [Tasks -> Kinds \cup {"none"}]
    /\ status \in [Tasks -> Settled \cup {"pending"}]
    /\ subtasks \in [Tasks -> Seq(Tasks)]
    /\ parent \in [Tasks -> Tasks \cup {0}]
    /\ chain \in [Tasks -> SUBSET Tasks]
    /\ callback \in [Tasks -> [Events -> Answers]]
    /\ \A t \in Tasks : \A i \in DOMAIN links[t] :
          links[t][i].to \in Created /\ links[t][i].how \in {"then", "group", "adopt"}

\* A settled task never changes its mind, whatever answers after the abort;
\* only a group aborted by a callback while its last subtask was reporting
\* takes what its subtasks say afterwards.
StatusFinal == [][\A t \in Tasks : status[t] \in Settled =>
                    \/ status'[t] = status[t]
                    \/ kind[t] = "group" /\ status[t] = "aborted" /\ status'[t] # "pending"]_status

\* Between calls nobody waits for something that already happened: what is
\* still pending hangs from a pending task, or adopted one that was aborted
\* (adoption passes on answers, not aborts).
NobodyForgotten ==
    Quiet => \A t \in Created : status[t] = "pending" =>
        CASE kind[t] = "root" -> TRUE
          [] kind[t] = "group" -> Overall(subtasks[t]) = "pending"
          [] kind[t] = "wrap" -> \E p \in Range(subtasks[t]) \cup chain[t] : status[p] \in {"pending", "aborted"}
          [] kind[t] = "then" ->
                \/ status[parent[t]] = "pending"
                \/ /\ subtasks[t] # <<>>
                   /\ \A r \in Range(subtasks[t]) : status[r] \in {"pending", "aborted"}

\* An abort stops all the work that was done for the task, at any depth: an
\* aborted task has no pending subtask, nor task its callback returned in
\* time, except one returned by the callback of a continuation that was over:
\* aborted, or settled and called again by a group that had been aborted.
AbortReaches ==
    Quiet => \A t \in Created : status[t] = "aborted" => \A r \in Tasks :
        /\ <<t, r, "pending">> \in returned => status[r] # "pending"
        /\ r \in Range(subtasks[t]) /\ status[r] = "pending" =>
              \E c \in Tasks, s \in Settled : <<c, r, s>> \in returned
=============================================================================
