------------------------------ MODULE MCWiring ------------------------------
(* Instances of Wiring for TLC. *)
EXTENDS Wiring, TLC
CONSTANTS w1, o1, o2, c1, c2

MCWidgets == {w1}
OneOperator == {o1}
TwoOperators == {o1, o2}
MCConn == {c1, c2}
\* Operators and connections are created in any order: objects of a kind are
\* interchangeable.
SymConn == Permutations(MCConn)
OneConn == {c1}
SymOps == Permutations(TwoOperators)
SymBoth == Permutations(TwoOperators) \cup Permutations(MCConn)
\* Version changes: none, or two of a widget and one of an operator.
NoChanges == [x \in Comp |-> 0]
SomeChanges == [x \in Comp |-> IF x \in Widgets THEN 2 ELSE 1]

(* A run is of a workspace whose components keep their versions, or of one    *)
(* where they change and there is one operator; chosen at the start, so that  *)
(* their states add and do not multiply.                                     *)
VARIABLE about

Fits == CASE about = "editor" -> \A x \in Comp : fetching[x] = 0 /\ (meta[x] = "full" \/ x \in fresh)
          [] about = "versions" -> Cardinality(Operators \ fresh) <= 1 /\ nextId <= 2
          [] about = "everything" -> TRUE

MixInit == about \in {"editor", "versions"} /\ Init
MixNext == about' = about /\ Next /\ Fits'
MixSpec == MixInit /\ [][MixNext]_<<vars, about>>
WholeSpec == about = "everything" /\ Init /\ [][Next /\ about' = about]_<<vars, about>>
=============================================================================
