---------------------------- MODULE MCHealEngine ----------------------------
(***************************************************************************)
(* A behaviour has either one pass at a time, two runs and failing         *)
(* queries, or two passes that overlap when one of the runs is over.       *)
(***************************************************************************)
EXTENDS HealEngine

CONSTANTS
  Overlapping,  \* the pass the first kind of behaviour does without
  Other         \* the run that is over in the second kind

VARIABLE mode

Kept ==
  /\ mode' = mode
  /\ mode = "serial" => pass'[Overlapping] = pass[Overlapping]
  /\ mode = "overlap" => errors' = errors

\* Time passes and the ticker's pass is scheduled; Kept holds back neither.
MCSpec ==
  /\ \/ mode = "serial" /\ Init
     \/ mode = "overlap" /\ InitWith([r \in Run |-> IF r = Other THEN [NoRun EXCEPT !.status = "resolved"] ELSE NoRun])
  /\ [][Next /\ Kept]_<<vars, mode>>
  /\ \A p \in Pass \ {Overlapping} : Ticker(p)
  /\ \A r \in Run : WF_vars(DeadlinePasses(r))
=============================================================================
