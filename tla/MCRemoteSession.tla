-------------------------- MODULE MCRemoteSession --------------------------
(***************************************************************************)
(* A small instance of RemoteSession.  Viewers take from the relay and     *)
(* give nothing back, so a behaviour checked has either viewers and the    *)
(* frames of one session, or overlapping requests, commands and no viewer. *)
(***************************************************************************)
EXTENDS RemoteSession

VARIABLE focus

MCInit == Init /\ focus \in {"frames", "control"}

Held ==
  /\ UNCHANGED focus
  /\ focus = "frames" => /\ \A s \in Session : start'[s] # "no" => s = CHOOSE x \in Session : TRUE
                         /\ \A i \in DOMAIN down' : down'[i].op # "command"
  /\ focus = "control" => \A v \in Viewer : views'[v].sub = "off"

\* Held holds back new sessions, commands and viewers, and nothing that is fair.
MCSpec == MCInit /\ [][Next /\ Held]_<<vars, focus>> /\ Fairness
=============================================================================
