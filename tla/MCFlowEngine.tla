---------------------------- MODULE MCFlowEngine ----------------------------
(* Small instances of FlowEngine: a linear chain, and one with a branch.   *)
EXTENDS FlowEngine, TLC

ChainKind == ("t" :> "trigger") @@ ("s" :> "script") @@ ("n" :> "notify")
ChainEdge == ("t" :> {"s"}) @@ ("s" :> {"n"}) @@ ("n" :> {"end"})

BranchKind == ChainKind @@ ("c" :> "check")
BranchEdge == ("t" :> {"s"}) @@ ("s" :> {"c"}) @@ ("c" :> {"n", "end"})
              @@ ("n" :> {"end"})

WorkerSymmetry == Permutations(Worker)
=============================================================================
