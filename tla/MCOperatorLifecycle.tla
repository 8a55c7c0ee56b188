------------------------ MODULE MCOperatorLifecycle ------------------------
(* Instances of OperatorLifecycle for TLC. *)
EXTENDS OperatorLifecycle, TLC
CONSTANTS op1, op2

OneOp == {op1}
TwoOps == {op1, op2}

\* Versions a and b are new style and share a library; b lacks an input.
\* old runs in an iframe.
MCJsFiles == [v \in Versions |->
    CASE v = "a" -> {"lib", "a.js"} [] v = "b" -> {"lib", "b.js"} [] OTHER -> {}]
MCInputList == [v \in Versions \cup {Missing} |->
    CASE v = "a" -> {"in1", "in2"} [] v = "b" -> {"in1"} [] v = "old" -> {"in1"}
      [] OTHER -> {}]
=============================================================================
