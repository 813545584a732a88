------------------------------- MODULE Alerts -------------------------------
(***************************************************************************)
(* The baseline engine and the alert inbox: the ticker's pass and the pass *)
(* an operator asks for score the same series, each reconciles the inbox   *)
(* with what it found, and operators acknowledge and resolve alerts in     *)
(* between.                                                                *)
(*                                                                         *)
(* One series of one device: series meet only in the loops over the plan.  *)
(* Whether an observation stands out of its history is decided when it is  *)
(* recorded, whether there is enough history to say so, later.             *)
(***************************************************************************)
EXTENDS Integers, FiniteSets

CONSTANTS
  Pass,         \* the ticker's pass, the requested pass
  Tenant,       \* clients a device may belong to
  Granted,      \* the clients of the operator's session
  QuietNeeded,  \* quietNeeded: clean passes before an alert is resolved
  Alert,        \* ids: one whose alert is resolved may stand for a new alert
  MaxFailure,   \* bound: failing queries
  NoAlert

ASSUME AlertAssumption ==
  /\ Granted \subseteq Tenant /\ NoAlert \notin Alert
  /\ QuietNeeded \in Nat \ {0} /\ MaxFailure \in Nat

VARIABLES
  series,  \* the latest observation in the lookback window: normal, out of line with
           \* its history, or with too little history left to say so
  inbox,   \* alert -> status, NoAlert for an id that is not used
  quiet,   \* the series' clean streak
  pass,    \* pass -> where it stands
  owner,   \* the device's client
  chosen,  \* the alert an operator's request has passed the access check for
  failures,
  clean    \* passes in a row whose plan found the series clean, up to QuietNeeded

alertVars == <<series, inbox, quiet, pass, owner, chosen, failures, clean>>

NoPass == [at |-> "idle", alone |-> TRUE]
Observation == {"normal", "hot", "unknown"}

AlertInit ==
  /\ series = "none" /\ inbox = [a \in Alert |-> NoAlert] /\ quiet = 0
  /\ pass = [p \in Pass |-> NoPass] /\ owner \in Tenant /\ chosen = NoAlert
  /\ failures = 0 /\ clean = 0

(***************************************************************************)
(* The metrics of the lookback window.                                     *)
(***************************************************************************)

\* The mean of another hour, whose slot has its own history.
SampleArrives ==
  /\ series' \in Observation
  /\ UNCHANGED <<inbox, quiet, pass, owner, chosen, failures, clean>>

\* A device that has stopped reporting leaves the window, its history first.
WindowSlides ==
  /\ series # "none" /\ series' = IF series = "hot" THEN "unknown" ELSE "none"
  /\ UNCHANGED <<inbox, quiet, pass, owner, chosen, failures, clean>>

\* The series the source returns.
Samples == {series} \ {"none"}

\* Far enough from the median, with enough cells to say so.
Score(s) == s = "hot"

(***************************************************************************)
(* The inbox.                                                              *)
(***************************************************************************)

List(status) == {a \in Alert : inbox[a] = status}

\* The list of one client: another client's device has no alerts in it.
ListClient(client, status) == IF owner = client THEN List(status) ELSE {}

AlertsListUnion(status) == UNION {ListClient(client, status) : client \in Granted}

Unresolved == List("open") \cup List("acked")

\* The partial unique index holds one alert that is not resolved.
InsertAlert ==
  /\ Unresolved = {}
  /\ \E a \in Alert \ {chosen} : inbox' = [inbox EXCEPT ![a] = "open"]

\* A collision is folded into the alert that is there.
UpsertAlert == InsertAlert \/ (Unresolved # {} /\ UNCHANGED inbox)

\* Neither does a bump reopen an alert that was resolved meanwhile.
BumpAlert == UNCHANGED inbox

ResolveAlerts == inbox' = [a \in Alert |-> IF a \in Unresolved THEN "resolved" ELSE inbox[a]]

(***************************************************************************)
(* A pass.                                                                 *)
(***************************************************************************)

\* A pass that starts or runs while another runs is not alone.
Enter(p, hot) ==
  pass' = [q \in Pass |->
    IF q = p THEN [at |-> "scored", hot |-> hot, alone |-> \A r \in Pass \ {p} : pass[r].at = "idle"]
    ELSE IF pass[q].at = "idle" THEN pass[q] ELSE [pass[q] EXCEPT !.alone = FALSE]]

\* Samples are read and scored; without any there is nothing to reconcile.
RunOnce(p) ==
  /\ pass[p].at = "idle"
  /\ \E s \in Samples : Enter(p, Score(s))
  /\ UNCHANGED <<series, inbox, quiet, owner, chosen, failures, clean>>

\* Alerts that were acknowledged count as open.
LoadOpen(p) ==
  /\ pass[p].at = "scored"
  /\ pass' = [pass EXCEPT ![p] = [at |-> "loaded", hot |-> @.hot, alone |-> @.alone, open |-> Unresolved # {}]]
  /\ UNCHANGED <<series, inbox, quiet, owner, chosen, failures, clean>>

StreakSurvives(hot, open) == IF ~hot /\ open THEN quiet + 1 ELSE quiet

\* A flagged pass, and a clean one with nothing open, forget the streak.
Streak(hot, open) == IF ~hot /\ open THEN quiet + 1 ELSE 0

PlanReconcile(p) ==
  /\ pass[p].at = "loaded"
  /\ LET hot == pass[p].hot
         streak == Streak(hot, pass[p].open)
         due == ~hot /\ pass[p].open /\ streak >= QuietNeeded
         plan == IF hot THEN (IF pass[p].open THEN "bump" ELSE "create") ELSE IF due THEN "resolve" ELSE "none"
     IN  /\ quiet' = IF due THEN 0 ELSE streak
         /\ pass' = [pass EXCEPT ![p] = IF plan = "none" THEN NoPass
                                        ELSE [at |-> "planned", alone |-> @.alone, plan |-> plan]]
  /\ clean' = IF pass[p].hot THEN 0 ELSE IF clean < QuietNeeded THEN clean + 1 ELSE clean
  /\ UNCHANGED <<series, inbox, owner, chosen, failures>>

\* The plan is carried out, whatever has happened to the inbox since it was
\* loaded, and the bus is told: "fired" of every alert it meant to create.
Reconcile(p) ==
  /\ pass[p].at = "planned"
  /\ CASE pass[p].plan = "create"  -> UpsertAlert
       [] pass[p].plan = "bump"    -> BumpAlert
       [] pass[p].plan = "resolve" -> ResolveAlerts
  /\ pass' = [pass EXCEPT ![p] = NoPass]
  /\ UNCHANGED <<series, quiet, owner, chosen, failures, clean>>

\* A query of the pass fails, which ends it; what the plan did to the streak stays.
PassFails(p) ==
  /\ pass[p].at # "idle" /\ failures < MaxFailure /\ failures' = failures + 1
  /\ pass' = [pass EXCEPT ![p] = NoPass]
  /\ UNCHANGED <<series, inbox, quiet, owner, chosen, clean>>

(***************************************************************************)
(* Operators.                                                              *)
(***************************************************************************)

\* The handler finds the alert's device among the clients of the session, ...
HandleAlertStatus ==
  /\ chosen = NoAlert
  /\ \E shown \in {"open", "acked"} : \E a \in AlertsListUnion(shown) : chosen' = a
  /\ UNCHANGED <<series, inbox, quiet, pass, owner, failures, clean>>

\* ... then changes the row as it is by then: nothing leaves "resolved", and
\* nothing is said about it on the bus.
SetStatus ==
  /\ chosen # NoAlert /\ chosen' = NoAlert
  /\ \E status \in {"acked", "resolved"} :
       inbox' = [inbox EXCEPT ![chosen] = IF @ = "resolved" THEN @ ELSE status]
  /\ UNCHANGED <<series, quiet, pass, owner, failures, clean>>

DeviceMoves ==
  /\ owner' \in Tenant /\ owner' # owner
  /\ UNCHANGED <<series, inbox, quiet, pass, chosen, failures, clean>>

PassStep(p) == RunOnce(p) \/ LoadOpen(p) \/ PlanReconcile(p) \/ Reconcile(p)

AlertNext ==
  \/ \E p \in Pass : PassStep(p) \/ PassFails(p)
  \/ HandleAlertStatus \/ SetStatus
  \/ SampleArrives \/ WindowSlides \/ DeviceMoves

AlertSpec == AlertInit /\ [][AlertNext]_alertVars

(***************************************************************************)
(* Properties.                                                             *)
(***************************************************************************)

\* Reconcile: a pass that ran alone resolves an alert only when the last
\* QuietNeeded passes that got as far as a plan all found the series clean,
\* whatever became of the alert and of other passes in between.
CleanBeforeResolved ==
  [][\A p \in Pass : Reconcile(p) /\ pass[p].plan = "resolve" /\ pass[p].alone => clean >= QuietNeeded]_alertVars
=============================================================================
