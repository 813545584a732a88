------------------------------ MODULE MCParts ------------------------------
(***************************************************************************)
(* Parts of the server that share no variable: every behaviour checked     *)
(* moves one and leaves the others in an initial state.                    *)
(***************************************************************************)
EXTENDS Accounts, Desk, AgentActions, FlowGraph, DataExport, ReportRuns, TLC

(***************************************************************************)
(* The graphs submitted, and those tried as edits.                         *)
(***************************************************************************)

Vertices(id) ==
  [id : {id}, kind : {"check"}, next : Targets \X Targets, fine : {TRUE}]
  \cup [id : {id}, kind : {"trigger", "schedule", "notify"}, next : {<<t>> : t \in Targets}, fine : {TRUE}]

\* Up to three nodes; two of them may share an id, one may lack its id or a field.
SmallGraphs ==
  LET a == CHOOSE x \in NodeId : TRUE
      b == CHOOSE x \in NodeId \ {a} : TRUE
      c == CHOOSE x \in NodeId \ {a, b} : TRUE
  IN  {<<>>} \cup {<<x>> : x \in Vertices(a) \cup Vertices(Nowhere)}
      \cup (Vertices(a) \X Vertices(b))
      \cup {<<[x EXCEPT !.fine = FALSE], y>> : x \in Vertices(a), y \in Vertices(b)}
      \cup {<<x, y>> : x \in Vertices(a), y \in Vertices(a)}
      \cup (Vertices(a) \X Vertices(b) \X Vertices(c))

\* The chains through all ids, each starting at a trigger.
Chains ==
  LET Chain(p) == [i \in DOMAIN p |-> [id |-> p[i], kind |-> IF i = 1 THEN "trigger" ELSE "notify",
                                       next |-> <<IF i = Len(p) THEN Nowhere ELSE p[i + 1]>>, fine |-> TRUE]]
  IN  {Chain(p) : p \in SetToSeqs(NodeId)}

CONSTANT Pairs \* the actions of the commands an agent is given

VARIABLE focus

Parts == {"accounts", "desk", "actions", "graph", "export", "reports"}

\* The inputs of the parts that stand still are fixed.
Init ==
  /\ focus \in Parts
  /\ kind \in {k \in [Cmd -> ForAction] :
                 IF focus = "actions" THEN {k[c] : c \in Cmd} \in Pairs ELSE \A c \in Cmd : k[c] = "script"}
  /\ focus # "graph" => submitted = <<>>
  /\ focus # "export" => since = 0
  /\ focus # "reports" => devices = {} /\ asked = [j \in Job |-> CHOOSE r \in Request : TRUE]
  /\ AccInit /\ DeskInit /\ ActInit /\ FlowInit /\ ExportInit /\ ReportInit

Next ==
  /\ UNCHANGED focus
  /\ \/ focus = "accounts" /\ AccNext /\ UNCHANGED <<deskVars, actVars, flowVars, exportVars, reportVars>>
     \/ focus = "desk" /\ DeskNext /\ UNCHANGED <<accVars, actVars, flowVars, exportVars, reportVars>>
     \/ focus = "actions" /\ ActNext /\ UNCHANGED <<accVars, deskVars, flowVars, exportVars, reportVars>>
     \/ focus = "graph" /\ FlowNext /\ UNCHANGED <<accVars, deskVars, actVars, exportVars, reportVars>>
     \/ focus = "export" /\ ExportNext /\ UNCHANGED <<accVars, deskVars, actVars, flowVars, reportVars>>
     \/ focus = "reports" /\ ReportNext /\ UNCHANGED <<accVars, deskVars, actVars, flowVars, exportVars>>

Symmetry == Permutations(Login)
=============================================================================
