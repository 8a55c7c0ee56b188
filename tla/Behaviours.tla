----------------------------- MODULE Behaviours -----------------------------
(* The behaviours of the wiring editor (WiringEditor/BehaviourEngine.js,     *)
(* Behaviour.js, ConnectionEngine.js, Connection.js and the handlers of      *)
(* WiringEditor.js): each behaviour shows a part of the wiring, and what the *)
(* active one does not have is drawn in the background.                      *)
(*                                                                           *)
(* A connection is drawn at once, and created by a request to the server     *)
(* whose answer may come after anything else the user does.  Endpoints,      *)
(* positions, handles and the dialogs that ask for a confirmation are left   *)
(* out: accepting one is the action, and nothing else can be done meanwhile. *)
EXTENDS Naturals, Sequences, FiniteSets, SequencesExt, FiniteSetsExt

CONSTANTS
    Parts,          \* components: widgets and operators
    Links,          \* pairs <<source, target>> of components
    MaxDrawn,       \* bound: connections drawn at once
    MaxBehaviours,  \* bound: behaviours
    GoOn            \* bound: what follows a hasty step is explored too

ASSUME BehaviourConstants == /\ Links \subseteq Parts \X Parts
                             /\ {MaxDrawn, MaxBehaviours} \subseteq Nat
                             /\ GoOn \in BOOLEAN

VARIABLES
    editor,      \* the editor: its behaviour engine and its connection engine
    stored,     \* the wiring as it was left, while the editor is not shown
    editing,    \* the editor is shown
    hasty       \* history: a connection was not created, or was touched before

behaviourVars == <<editor, stored, editing, hasty>>

(* enabled, behaviours, active (the index of one, or 0), parts (components   *)
(* present), described (visualdescription.connections) and dim (components   *)
(* in the background) belong to the behaviour engine and its components;     *)
(* ends[k] is the link of connection k; drawn are the connections of the     *)
(* connection engine, bound those the server created, which the endpoints    *)
(* list, and faded those in the background.                                  *)
Drawings == 1..MaxDrawn
Behaviour == [parts : SUBSET Parts, links : SUBSET Links]
NewBehaviour == [parts |-> {}, links |-> {}]
Blank == [enabled |-> FALSE, behaviours |-> <<>>, active |-> 0, parts |-> {}, dim |-> {},
          described |-> <<>>, ends |-> [k \in {} |-> <<>>], drawn |-> {}, bound |-> {}, faded |-> {}]

Somewhere(e, p) == \E i \in DOMAIN e.behaviours : p \in e.behaviours[i].parts
LinkSomewhere(e, l) == \E i \in DOMAIN e.behaviours : l \in e.behaviours[i].links
Undrawn(e) == Drawings \ e.drawn
Touches(l, p) == p \in {l[1], l[2]}

----------------------------------------------------------------------------
(* What the engine does: each operator takes the editor to the editor.       *)

UpdatePart(e, p, share) ==
    IF e.enabled /\ (p \notin e.dim \/ share)
    THEN [e EXCEPT !.behaviours[e.active].parts = @ \cup {p}, !.parts = @ \cup {p}, !.dim = @ \ {p}]
    ELSE [e EXCEPT !.parts = @ \cup {p}]

\* Mutant: the components of a connection are not shared with it.
UpdateLinkAlone(e, k, share) ==
    LET l == e.ends[k]
        shared == [e EXCEPT !.behaviours[e.active].links = @ \cup {l}]
        next == IF e.enabled /\ (k \notin e.faded \/ share) THEN [shared EXCEPT !.faded = @ \ {k}] ELSE e
    IN  [next EXCEPT !.described = IF Contains(@, l) THEN @ ELSE Append(@, l)]

UpdateLink(e, k, share) ==
    LET l == e.ends[k]
        shared == UpdatePart(UpdatePart([e EXCEPT !.behaviours[e.active].links = @ \cup {l}], l[1], TRUE), l[2], TRUE)
        next == IF e.enabled /\ (k \notin e.faded \/ share) THEN [shared EXCEPT !.faded = @ \ {k}] ELSE e
    IN  [next EXCEPT !.described = IF Contains(@, l) THEN @ ELSE Append(@, l)]

\* Mutant: the connection is looked up when its description has gone.
UndescribeLast(ls, l) == IF ls = <<>> THEN ls ELSE Front(ls)
\* connection.remove(), and its description's: none found removes the last.
Undescribe(ls, l) ==
    IF Contains(ls, l) THEN RemoveFirst(ls, l) ELSE IF ls = <<>> THEN ls ELSE Front(ls)
DropLink(e, k) ==
    [e EXCEPT !.described = Undescribe(@, e.ends[k]), !.drawn = @ \ {k}, !.bound = @ \ {k}, !.faded = @ \ {k}]

RemoveLink(e, k, cascade) ==
    LET l == e.ends[k]
        Without(i) == [e.behaviours[i] EXCEPT !.links = @ \ {l}]
        cut == IF ~e.enabled THEN e
               ELSE [e EXCEPT !.behaviours = [i \in DOMAIN @ |-> IF cascade \/ i = e.active THEN Without(i) ELSE @[i]]]
    IN  IF e.enabled /\ ~cascade /\ LinkSomewhere(cut, l)
        THEN [cut EXCEPT !.faded = @ \cup {k}] ELSE DropLink(cut, k)

\* removeConnections: the connections its endpoints list.
RemoveLinks(e, p, cascade) ==
    FoldSet(LAMBDA k, f : RemoveLink(f, k, cascade), e, {k \in e.bound : Touches(e.ends[k], p)})

RemovePart(e, p, cascade) ==
    LET cut == [e EXCEPT !.behaviours = [i \in DOMAIN @ |->
                   IF cascade \/ i = e.active THEN [@[i] EXCEPT !.parts = @ \ {p}] ELSE @[i]]]
    IN  IF ~e.enabled THEN RemoveLinks([e EXCEPT !.parts = @ \ {p}], p, FALSE)
        ELSE IF ~cascade /\ Somewhere(cut, p) THEN [RemoveLinks(cut, p, FALSE) EXCEPT !.dim = @ \cup {p}]
        ELSE RemoveLinks([cut EXCEPT !.parts = @ \ {p}, !.dim = @ \ {p}], p, TRUE)

\* deactivateAllExcept and behaviour_onactivate
Activated(e, i) ==
    LET b == e.behaviours[i]
    IN  [e EXCEPT !.active = i, !.dim = e.parts \ b.parts,
                  !.faded = (@ \ e.drawn) \cup {k \in e.drawn : e.ends[k] \notin b.links}]
Activate(e, i) == IF e.enabled /\ e.active # i THEN Activated(e, i) ELSE e

CreateBehaviour(e, b, active) ==
    LET longer == [e EXCEPT !.behaviours = Append(@, b)]
    IN  IF active \/ e.active = 0 THEN Activated(longer, Len(longer.behaviours)) ELSE longer

EmptyBehaviour(e, i) ==
    LET shown == Activate(e, i)
        none == FoldSet(LAMBDA p, f : RemovePart(f, p, FALSE), shown, shown.parts \cap e.behaviours[i].parts)
    IN  Activate([none EXCEPT !.behaviours[i] = NewBehaviour], e.active)

\* Mutant: it is removed with what it has.
RemoveFull(e, i) ==
    LET others == DOMAIN e.behaviours \ {i}
        next == IF e.active # i THEN e.active ELSE IF others = {} THEN i ELSE Min(others)
        rest == Activate(e, next)
    IN  [rest EXCEPT !.behaviours = RemoveAt(@, i), !.active = IF next > i THEN next - 1 ELSE next]
\* The first of the others is activated when it is the active one.
RemoveBehaviour(e, i) ==
    LET others == DOMAIN e.behaviours \ {i}
        next == IF e.active # i THEN e.active ELSE IF others = {} THEN i ELSE Min(others)
        rest == Activate(EmptyBehaviour(e, i), next)
    IN  [rest EXCEPT !.behaviours = RemoveAt(@, i), !.active = IF next > i THEN next - 1 ELSE next]

\* behaviourengine_onenable
Refreshed(e) ==
    LET links == FoldSet(LAMBDA k, f : UpdateLink(f, k, FALSE), [e EXCEPT !.faded = @ \ e.drawn], e.drawn)
    IN  FoldSet(LAMBDA p, f : UpdatePart(f, p, FALSE), [links EXCEPT !.dim = {}], links.parts)
Disabled(e) == Refreshed([e EXCEPT !.enabled = FALSE, !.behaviours = <<>>, !.active = 0])

\* Mutant: the loop stops before the first.
EmptiedButOne(e) ==
    FoldRight(LAMBDA i, f : RemoveBehaviour(f, i), [i \in DOMAIN Tail(e.behaviours) |-> i + 1], e)
\* clear(): the behaviours one by one, from the last; or the components.
Emptied(e) == FoldRight(LAMBDA i, f : RemoveBehaviour(f, i), [i \in DOMAIN e.behaviours |-> i], e)
Clear(e) ==
    IF e.enabled THEN Disabled([Emptied(e) EXCEPT !.described = <<>>])
    ELSE [FoldSet(LAMBDA p, f : RemovePart(f, p, FALSE), e, e.parts) EXCEPT !.described = <<>>]

\* loadWiringStatus: a connection of no behaviour is loaded all the same.
Load(e, w) ==
    LET ids == CHOOSE f \in [w.links -> Undrawn(e)] : \A l, m \in w.links : l # m => f[l] # f[m]
        loaded == FoldSet(LAMBDA l, f : UpdateLink([f EXCEPT !.ends = (ids[l] :> l) @@ @, !.drawn = @ \cup {ids[l]},
                                                             !.bound = @ \cup {ids[l]}], ids[l], FALSE),
                          [e EXCEPT !.parts = @ \cup w.parts \cup UNION {{l[1], l[2]} : l \in w.links}], w.links)
        listed == FoldLeft(LAMBDA f, i : CreateBehaviour(f, w.behaviours[i], i = w.active),
                           loaded, [i \in DOMAIN w.behaviours |-> i])
    IN  [listed EXCEPT !.enabled = w.behaviours # <<>>]

\* The wiring the editor is left with: toJSON().
Wirings == [parts : SUBSET Parts, links : SUBSET Links, behaviours : Seq(Behaviour), active : Nat]
Status(e) == [parts |-> e.parts, links |-> {e.ends[k] : k \in e.drawn},
              behaviours |-> e.behaviours, active |-> e.active]

\* Connections that are gone are forgotten.
Trimmed(e) == [e EXCEPT !.ends = [k \in e.drawn |-> @[k]]]
Now(e) == editing /\ editor' = Trimmed(e) /\ UNCHANGED <<stored, editing>>
NonePending == editor.drawn = editor.bound
Hasty(b) == (hasty => GoOn) /\ hasty' = (hasty \/ b)
Calm == Hasty(FALSE)
Rash == Hasty(~NonePending)

\* Every component of a connection is in the wiring.
BehaviourInit ==
    /\ editor = Blank /\ editing = FALSE /\ hasty = FALSE
    /\ stored \in [parts : {Parts}, links : SUBSET Links, behaviours : {<<>>}, active : {0}]

----------------------------------------------------------------------------
\* load(), with what is left of the last time cleared first
Open ==
    /\ ~editing /\ Cardinality(stored.links) <= Cardinality(Undrawn(Clear(editor)))
    /\ editor' = Trimmed(Load(Clear(editor), stored))
    /\ editing' = TRUE /\ stored' = Status(Blank)
    /\ Calm

\* unload(): a connection that is still being created would raise.
Leave ==
    /\ editing /\ NonePending
    /\ stored' = Status(editor)
    /\ editor' = Trimmed(Clear(editor))
    /\ editing' = FALSE
    /\ Calm

\* A component dragged from the showcase.
AddPart(p) == p \notin editor.parts /\ Now(UpdatePart(editor, p, FALSE)) /\ Calm
SharePart(p) == p \in editor.dim /\ Now(UpdatePart(editor, p, TRUE)) /\ Calm

\* removeComponent and removeComponentList: those of this behaviour only are
\* removed when the user accepts.
RemoveParts(ps) ==
    /\ ps # {} /\ ps \subseteq editor.parts \ editor.dim
    /\ Now(FoldSet(LAMBDA p, f : RemovePart(f, p, FALSE), editor, ps))
    /\ Rash
RemoveEverywhere(p) ==
    /\ editor.enabled /\ p \in editor.parts
    /\ Now(RemovePart(editor, p, TRUE))
    /\ Rash

\* The end of a drag between endpoints that are not connected yet, as far as
\* they know; old is the connection one of whose ends was dragged, or 0.
Moved(e, old, everywhere) ==
    IF old = 0 THEN e
    ELSE LET cut == RemoveLink(e, old, FALSE)
         IN  IF everywhere /\ LinkSomewhere(cut, e.ends[old]) THEN RemoveLink(cut, old, TRUE) ELSE cut
Draggable(old, l) ==
    \/ old = 0
    \/ /\ old \in editor.bound \ editor.faded
       /\ editor.ends[old][1] = l[1] \/ editor.ends[old][2] = l[2]
Connected(l) == {k \in editor.bound : editor.ends[k] = l}

Draw(l, old, everywhere) ==
    /\ Undrawn(editor) # {} /\ {l[1], l[2]} \subseteq editor.parts
    /\ Connected(l) = {} /\ Draggable(old, l)
    /\ LET k == Min(Undrawn(editor))
           drawn == [editor EXCEPT !.ends = (k :> l) @@ @, !.drawn = @ \cup {k}]
       IN Now(Moved(UpdateLink(drawn, k, FALSE), old, everywhere))
    /\ Hasty(\E k \in editor.drawn : editor.ends[k] = l)

\* The endpoints are connected: the connection is shared if it was not here.
DrawAgain(l, old, everywhere) ==
    /\ Draggable(old, l) /\ editor.enabled
    /\ \E k \in Connected(l) \cap editor.faded :
          Now(Moved(UpdateLink(editor, k, TRUE), old, everywhere))
    /\ Rash

\* createAndBind: the answer of the server.
LinkCreated(k) ==
    /\ k \in editor.drawn \ editor.bound
    /\ Now([editor EXCEPT !.bound = @ \cup {k}])
    /\ Calm
LinkRefused(k) ==
    /\ k \in editor.drawn \ editor.bound
    /\ Now([editor EXCEPT !.drawn = @ \ {k}, !.faded = @ \ {k}])
    /\ Hasty(TRUE)

\* The buttons of a connection, which are shown once it is created.
ShareLink(k) == k \in editor.bound \cap editor.faded /\ Now(UpdateLink(editor, k, TRUE)) /\ Calm
CutLink(k) == k \in editor.bound \ editor.faded /\ Now(RemoveLink(editor, k, FALSE)) /\ Calm

\* The buttons of the behaviours.
Enable ==
    /\ ~editor.enabled /\ MaxBehaviours > 0
    /\ Now(Refreshed([CreateBehaviour(editor, NewBehaviour, FALSE) EXCEPT !.enabled = TRUE]))
    /\ Calm
Disable == editor.enabled /\ Now(Disabled(editor)) /\ Calm
NewOne ==
    /\ editor.enabled /\ Len(editor.behaviours) < MaxBehaviours
    /\ Now(CreateBehaviour(editor, NewBehaviour, FALSE))
    /\ Calm
Switch(i) == editor.enabled /\ i # editor.active /\ Now(Activate(editor, i)) /\ Calm
RemoveOne(i) ==
    /\ editor.enabled /\ Len(editor.behaviours) > 1
    /\ Now(RemoveBehaviour(editor, i))
    /\ Rash
\* moveBehaviour, of two that are next to each other.
Reorder(i) ==
    LET bs == editor.behaviours  a == editor.active
    IN  /\ editor.enabled /\ i + 1 \in DOMAIN bs
        /\ Now([editor EXCEPT !.behaviours = [bs EXCEPT ![i] = bs[i + 1], ![i + 1] = bs[i]],
                             !.active = IF a = i THEN i + 1 ELSE IF a = i + 1 THEN i ELSE a])
        /\ Calm

BehaviourNext ==
    \/ Open \/ Leave \/ Enable \/ Disable \/ NewOne
    \/ \E p \in Parts : AddPart(p) \/ SharePart(p) \/ RemoveEverywhere(p)
    \/ \E ps \in SUBSET Parts : RemoveParts(ps)
    \/ \E l \in Links, old \in editor.bound \cup {0}, everywhere \in BOOLEAN :
          Draw(l, old, everywhere) \/ DrawAgain(l, old, everywhere)
    \/ \E k \in editor.drawn : LinkCreated(k) \/ LinkRefused(k) \/ ShareLink(k) \/ CutLink(k)
    \/ \E i \in DOMAIN editor.behaviours : Switch(i) \/ RemoveOne(i) \/ Reorder(i)

BehaviourSpec == BehaviourInit /\ [][BehaviourNext]_behaviourVars

----------------------------------------------------------------------------
BehaviourTypeOK ==
    /\ editor.parts \subseteq Parts /\ editor.dim \subseteq editor.parts
    /\ editor.behaviours \in Seq(Behaviour) /\ Len(editor.behaviours) <= MaxBehaviours
    /\ editor.enabled <=> editor.behaviours # <<>>
    /\ editor.active \in DOMAIN editor.behaviours \cup (IF editor.enabled THEN {} ELSE {0})
    /\ editor.drawn \subseteq Drawings /\ editor.ends \in [editor.drawn -> Links]
    /\ editor.bound \cup editor.faded \subseteq editor.drawn

\* A behaviour that has a connection has both of its components, whatever is
\* shared, removed, moved or emptied in it or in another.
BehavioursClosed ==
    ~hasty => \A i \in DOMAIN editor.behaviours : \A l \in editor.behaviours[i].links :
                 {l[1], l[2]} \subseteq editor.behaviours[i].parts

\* With behaviours, each component and each connection is in some of them, and
\* what is in the background is what the active one does not have: nothing can
\* only be seen in the background.
NothingHidden ==
    editor.enabled =>
        LET b == editor.behaviours[editor.active]
        IN  /\ ~hasty => /\ \A p \in editor.parts : Somewhere(editor, p)
                         /\ \A k \in editor.drawn : LinkSomewhere(editor, editor.ends[k])
                         /\ editor.faded = {k \in editor.drawn : editor.ends[k] \notin b.links}
            /\ editor.dim = editor.parts \ b.parts

\* The description has the connections that are drawn, each once.
AllDescribed ==
    ~hasty => /\ ToSet(editor.described) = {editor.ends[k] : k \in editor.drawn}
              /\ Len(editor.described) = Cardinality(editor.drawn)

\* Nothing of the wiring that was left is there for the next.
NothingLeft == ~hasty /\ ~editing => editor = Blank
============================================================================
