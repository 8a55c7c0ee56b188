-------------------------- MODULE MCWorkspaceStore --------------------------
(* Instances of WorkspaceStore for TLC. *)
EXTENDS WorkspaceStore
CONSTANTS r1, r2, p, q, s, t

TwoRequests == {r1, r2}
OneRequest == {r1}
TwoPrefs == {p, q}
OnePref == {p}
TwoTitles == {s, t}
OneTitle == {t}
Sym == Permutations(TwoRequests) \cup Permutations(TwoPrefs) \cup Permutations(TwoTitles)
SymReq == Permutations(TwoRequests)

(* A run is of the requests about the widgets, their tabs and the removal of  *)
(* the workspace, or of those about the rest of it, which write only from    *)
(* last_modified 0 on; chosen at the start, so that their states add and do   *)
(* not multiply.                                                             *)
VARIABLE about

AboutWidgets == {"addWidget", "editWidget", "dropWidget"}
AboutBoth == {"addTab", "dropTab", "remove"}
Fits(op) ==
    IF about = "widgets" THEN op.kind \in AboutWidgets \cup AboutBoth /\ (op.kind = "addTab" => op.named)
    ELSE op.kind \notin AboutWidgets /\ (op.kind # "view" => now = 0)

MixInit ==
    /\ about \in {"widgets", "the rest"}
    /\ Init
    /\ about = "the rest" => WidgetIds(doc.c) = {}
    /\ about = "widgets" => doc.c.pref = p /\ doc.c.title = t /\ doc.c.tabs[1].name = "a"
MixNext ==
    /\ about' = about
    /\ Next
    /\ \A r \in Requests : req[r] = Idle /\ req'[r] # Idle => Fits(req'[r].op)

MixSpec == MixInit /\ [][MixNext]_<<vars, about>>
WholeSpec == about = "everything" /\ Init /\ [][Next /\ about' = about]_<<vars, about>>
=============================================================================
