------------------------------ MODULE MCDevice ------------------------------
(***************************************************************************)
(* The agent's identity and its updates share no variable, so a behaviour  *)
(* of one says nothing about the other: every behaviour checked moves one  *)
(* of them and leaves the other in its initial state.                      *)
(***************************************************************************)
EXTENDS DeviceIdentity, SelfUpdate

VARIABLE focus

allVars == <<idVars, updVars, focus>>

Init == IdInit /\ UpdInit /\ focus \in {"identity", "update"} /\ (focus = "identity" => os = "unix")

Only(part, A) == focus = part /\ A /\ UNCHANGED focus

Next == \/ Only("identity", IdNext) /\ UNCHANGED updVars
        \/ Only("update", UpdNext) /\ UNCHANGED idVars

\* The service manager starts the agent again, handlers run to their end and
\* the update ticker fires.
Fairness == /\ WF_allVars(Only("identity", EnrollHandler) /\ UNCHANGED updVars)
            /\ WF_allVars(Only("identity", Agent) /\ UNCHANGED updVars)
            /\ WF_allVars(Only("update", Passes) /\ UNCHANGED idVars)

Spec == Init /\ [][Next]_allVars /\ Fairness
=============================================================================
