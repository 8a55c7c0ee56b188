----------------------------- MODULE MCGroups -----------------------------
(* Instances of Groups for TLC: requests about the hierarchy of three        *)
(* organizations, or about the members of a group.                           *)
EXTENDS Groups
CONSTANTS ann, bob

TwoMembers == {ann, bob}

\* What the requests of a run of the model are about, chosen at the start.
VARIABLE topic

Hierarchy == {op \in GroupOps : op.kind \in {"move", "delete", "deleteOrganization"}}
\* bob only joins and leaves with others.
Membership == {op \in GroupOps :
    /\ op.kind # "move"
    /\ op.kind \in {"login", "editUser", "deleteUser"} => op.user = ann}

\* Two of the ways GroupsInit begins; without transactions only the paths of
\* the organizations are of interest.
TopicInit ==
    \/ topic = "hierarchy" /\ born = 3 /\ Holding(GroupIds, [u \in Users |-> {}])
    \/ /\ topic = "members" /\ born = 1
       /\ \E orgs, gs \in SUBSET {1} : Holding(orgs, [u \in Users |-> IF u = ann THEN gs ELSE {}])
       /\ ~atomic => records[1].org /\ records[1].users = {}

\* Three requests about the hierarchy, the first of which is about group 1 (the
\* three are alike), or two about members.
TopicNext ==
    /\ topic' = topic
    /\ \E r \in Servers :
          \/ /\ topic = "hierarchy"
             /\ \E op \in Hierarchy : (requests = 0 => op.group = 1) /\ Request(r, op)
          \/ /\ topic = "members" /\ requests < 2
             /\ \E op \in Membership : Request(r, op)
          \/ UpdateRecords(r) \/ UpdateListing(r) \/ Finish(r) \/ FailRequest(r)
=============================================================================
