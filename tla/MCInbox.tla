------------------------------- MODULE MCInbox -------------------------------
(***************************************************************************)
(* The alert inbox and the readers of the event journal.  They share no    *)
(* variable, and the two kinds of readers share only the journal and the   *)
(* bus handler: every behaviour checked moves the inbox, or the journal    *)
(* with its endpoint, or the journal with its viewer.                      *)
(***************************************************************************)
EXTENDS Alerts, WebhookDelivery

VARIABLE focus

Init == AlertInit /\ WhkInit /\ focus \in {"alerts", "webhook", "stream"}

Held ==
  /\ UNCHANGED focus
  /\ focus = "webhook" => viewer' = Off
  /\ focus = "stream" => endpoint' = None

Next ==
  \/ focus = "alerts" /\ AlertNext /\ UNCHANGED <<whkVars, focus>>
  \/ focus # "alerts" /\ WhkNext /\ UNCHANGED alertVars /\ Held

\* The sweep runs to its end, and time passes.
\* Held holds back neither: it concerns new endpoints and viewers.
Spec ==
  /\ Init /\ [][Next]_<<alertVars, whkVars, focus>>
  /\ WF_whkVars(Sweeper) /\ WF_whkVars(BackoffEnds)
=============================================================================
