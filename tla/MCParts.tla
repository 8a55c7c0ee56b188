------------------------------ MODULE MCParts ------------------------------
(* Model checking of the parts of the system that keep a state of their own: *)
(* tasks, events and propagation, the layouts, the behaviours of the wiring  *)
(* editor, the tabs of a workspace, the catalogue and the groups of the      *)
(* server, and the events of an operator.  A run of the model is of one      *)
(* part, chosen at the start; the others stay as they began, so that their   *)
(* states add and do not multiply.                                           *)
EXTENDS TaskPromise, EventDispatch, ColumnLayouts, Behaviours, WorkspaceTabs, Catalogue, MCGroups

CONSTANTS Operators, Versions, Legacy, Missing, Scripts, JsFiles, Endpoints, InputList, MaxEvents, MaxChanges

VARIABLES
    part,
    opStatus, present, meta, changes, fetching, frame, framing, dom, users, ready, ran, held,
    promised, waits, inst, inputs, opCallback, opLinks, pending, flush, sent, delivered, retained

Life == INSTANCE OperatorLifecycle
           WITH Inputs <- Endpoints, status <- opStatus, callback <- opCallback, links <- opLinks

lifeVars == <<opStatus, present, meta, changes, fetching, frame, framing, dom, users, ready, ran, held,
              promised, waits, inst, inputs, opCallback, opLinks, pending, flush, sent, delivered, retained>>

PartNames == {"task", "dispatch", "layout", "behaviours", "tabs", "catalogue", "groups", "operator"}
partsVars == <<taskVars, dispatchVars, layoutVars, behaviourVars, tabVars, catalogueVars, groupVars,
               topic, lifeVars, part>>

Shape(w, h) == [width |-> w, height |-> h]
MCShapes == {Shape(1, 1), Shape(2, 1), Shape(1, 2)}

\* Each event has a continuation that registers nothing for it or another that
\* does, and a callback returns a value, a task or throws.
Profile(onFulfilled, onRejected, onAborted) ==
    [e \in Events |-> CASE e = "finish" -> onFulfilled
                        [] e = "fail" -> onRejected
                        [] e = "abort" -> onAborted]
MCProfiles == {Profile("none", "value", "task"), Profile("task", "throw", "none")}
MCMaxOf == [k \in Kinds |-> IF k \in {"root", "then"} THEN 2 ELSE 1]

\* Two connections that share an end, one of a component with itself.
MCLinks == {<<"a", "b">>, <<"b", "b">>}

\* Versions a and b are new style; b lacks an input.  old runs in an iframe.
MCJsFiles == [v \in Versions |-> CASE v = "a" -> {"lib", "a.js"} [] v = "b" -> {"lib", "b.js"} [] OTHER -> {}]
MCInputList == [v \in Versions \cup {Missing} |->
    CASE v = "a" -> {"in1", "in2"} [] v = "b" -> {"in1"} [] v = "old" -> {"in1"} [] OTHER -> {}]

\* The parts that begin in many ways begin in one when they are not followed;
\* of the users of the catalogue u1 is the one who has the resource, if only one
\* has, and all have it where it is a -dev version, which is installed with
\* transactions, and where there are none.
PartsInit ==
    /\ part \in PartNames
    /\ TopicInit /\ (part # "groups" => topic = "hierarchy" /\ atomic)
    /\ TaskInit /\ DispatchInit /\ Life!Init
    /\ LayoutInit /\ (part # "layout" => placed = {} /\ ~smart)
    /\ BehaviourInit /\ (part # "behaviours" => stored.links = {})
    /\ TabsInit /\ (part # "tabs" => Len(tabList) = 1)
    /\ CatalogueInit /\ (part # "catalogue" => told = {} /\ ~dev /\ Transaction)
    /\ told # {"u2"} /\ (dev => Transaction) /\ (told = People \/ (Transaction /\ ~dev))

\* A part moves and the rest does not.
Follow(name) == part = name /\ part' = name
StillTasks == UNCHANGED <<taskVars, dispatchVars>>
StillDashboard == UNCHANGED <<layoutVars, behaviourVars, tabVars>>
StillServer == UNCHANGED <<catalogueVars, groupVars, topic>>
StillOperator == UNCHANGED lifeVars

PartsNext ==
    \/ /\ Follow("task") /\ TaskNext
       /\ UNCHANGED dispatchVars /\ StillDashboard /\ StillServer /\ StillOperator
    \/ /\ Follow("dispatch") /\ DispatchNext
       /\ UNCHANGED taskVars /\ StillDashboard /\ StillServer /\ StillOperator
    \/ /\ Follow("layout") /\ LayoutNext
       /\ UNCHANGED <<behaviourVars, tabVars>> /\ StillTasks /\ StillServer /\ StillOperator
    \/ /\ Follow("behaviours") /\ BehaviourNext
       /\ UNCHANGED <<layoutVars, tabVars>> /\ StillTasks /\ StillServer /\ StillOperator
    \/ /\ Follow("tabs") /\ TabsNext
       /\ UNCHANGED <<layoutVars, behaviourVars>> /\ StillTasks /\ StillServer /\ StillOperator
    \/ /\ Follow("catalogue") /\ CatalogueNext
       /\ UNCHANGED <<groupVars, topic>> /\ StillTasks /\ StillDashboard /\ StillOperator
    \/ /\ Follow("groups") /\ TopicNext
       /\ UNCHANGED catalogueVars /\ StillTasks /\ StillDashboard /\ StillOperator
    \/ /\ Follow("operator") /\ Life!Next
       /\ StillTasks /\ StillDashboard /\ StillServer

PartsSpec == PartsInit /\ [][PartsNext]_partsVars

\* The variables of each part have the values its code gives them.
PartsTypeOK ==
    CASE part = "task" -> TaskTypeOK
      [] part = "dispatch" -> DispatchTypeOK
      [] part = "layout" -> LayoutTypeOK
      [] part = "behaviours" -> BehaviourTypeOK
      [] part = "tabs" -> TabsTypeOK
      [] part = "catalogue" -> CatalogueTypeOK
      [] part = "groups" -> GroupsTypeOK
      [] part = "operator" -> Life!TypeOK

\* The queue of an operator: in order, and drained (OperatorLifecycle).
DeliveredInOrder == Life!DeliveredInOrder

\* No event leaves it without being processed (OperatorLifecycle).
NoQueuedEventLost == Life!NoQueuedEventLost
=============================================================================
