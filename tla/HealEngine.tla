----------------------------- MODULE HealEngine -----------------------------
(***************************************************************************)
(* The self-healing playbook engine (server/internal/heal): a state        *)
(* machine per heal_runs row, driven by passes (RunOnce) that detect a     *)
(* failing series, verify that acting is safe, dispatch the remediation    *)
(* and later advance the run from what is persisted.  A pass is started by *)
(* the ticker and by the operator's API, so passes may overlap.            *)
(*                                                                         *)
(* One playbook on one (device, source) series.  Rows survive a restart;   *)
(* the dispatcher's command counter and its results do not.                *)
(***************************************************************************)
EXTENDS Naturals

CONSTANTS
  Run,          \* run ids
  Pass,         \* passes that may be in progress at once
  MaxCmd,       \* bound on the ids one dispatcher issues
  MaxRestart,   \* bound on server restarts
  MaxError,     \* bound on failing store calls
  None

ASSUME ConstAssumption ==
  /\ None \notin Run
  /\ MaxCmd \in Nat /\ MaxRestart \in Nat /\ MaxError \in Nat

Cmd == 1 .. MaxCmd
ActiveStates == {"detected", "verifying", "remediating", "confirming"}
Terminal == {"resolved", "escalated", "failed", "skipped"}

VARIABLES
  run,        \* run id -> row of heal_runs
  pass,       \* pass -> where RunOnce stands, the run and row it works from
  idSeq,      \* Dispatcher.idSeq of this process
  results,    \* Dispatcher.results of this process
  restarts, errors,
  acts,       \* history: run -> remediations dispatched for it, capped at 2
  unsafe,     \* history: a remediation was dispatched within the cooldown
  alerts,     \* history: run -> escalations notified, capped at 2
  overlapped  \* history: a pass was started while another was in progress

process == <<idSeq, results, restarts>>
history == <<acts, unsafe, alerts, overlapped>>
vars == <<run, pass, process, errors, history>>

\* late: the deadline of the row's present stage has passed.
\* recent: dispatched_at is set and lies within the cooldown.
NoRun == [status |-> "none", cmd |-> None, late |-> FALSE, recent |-> FALSE]
Done == [pc |-> "idle", run |-> None, from |-> "none", online |-> FALSE,
         cmd |-> None, late |-> FALSE]

TypeOK ==
  /\ run \in [Run -> [status : ActiveStates \cup Terminal \cup {"none"},
                      cmd : Cmd \cup {None}, late : BOOLEAN, recent : BOOLEAN]]
  /\ pass \in [Pass -> [pc : {"idle", "cooldown", "skip", "insert", "refuse",
                              "verify", "online", "dispatch", "record",
                              "active", "advance", "notify"},
                        run : Run \cup {None},
                        from : ActiveStates \cup {"none"},
                        online : BOOLEAN, cmd : Cmd \cup {None}, late : BOOLEAN]]
  /\ idSeq \in 0 .. MaxCmd
  /\ results \in [Cmd -> {"SUCCEEDED", "FAILED", None}]
  /\ restarts \in 0 .. MaxRestart /\ errors \in 0 .. MaxError
  /\ acts \in [Run -> 0 .. 2] /\ alerts \in [Run -> 0 .. 2]
  /\ unsafe \in BOOLEAN /\ overlapped \in BOOLEAN

\* The server starts on the rows it finds.
InitWith(rows) ==
  /\ run = rows
  /\ pass = [p \in Pass |-> Done]
  /\ idSeq = 0 /\ results = [c \in Cmd |-> None]
  /\ restarts = 0 /\ errors = 0
  /\ acts = [r \in Run |-> 0] /\ alerts = [r \in Run |-> 0]
  /\ unsafe = FALSE /\ overlapped = FALSE

Init == InitWith([r \in Run |-> NoRun])

-----------------------------------------------------------------------------
(* Store.                                                                  *)

Active == {r \in Run : run[r].status \in ActiveStates}
Unused == {r \in Run : run[r].status = "none"}  \* bounds the runs ever started
CooldownActive == \E r \in Run : run[r].recent

Capped(n) == IF n < 2 THEN n + 1 ELSE 2

\* One conditional UPDATE; a row that is not in state from is left alone.
\* Becoming remediating is what sets dispatched_at; until then the deadline
\* counts from created_at.
Transition(r, from, to, cmd) ==
  run' = IF run[r].status # from THEN run
         ELSE [run EXCEPT ![r] =
                 [status |-> to, cmd |-> cmd, late |-> @.late /\ to = "verifying",
                  recent |-> @.recent \/ to = "remediating"]]

Goto(p, state) == pass' = [pass EXCEPT ![p] = state]

\* Stage 1 of the pass is over; stage 2 loads the active runs.
StageTwo(p) == Goto(p, [Done EXCEPT !.pc = "active"])

-----------------------------------------------------------------------------
(* RunOnce, stage 1: detect, verify-safe, remediate (handleDetection).     *)

\* The series fails the detect condition, or nothing is detected.
Detect(p) ==
  /\ pass[p].pc = "idle"
  /\ \/ \E on \in BOOLEAN :
          Goto(p, [Done EXCEPT !.pc = "cooldown", !.online = on])
     \/ StageTwo(p)
  /\ overlapped' = (overlapped \/ \E q \in Pass \ {p} : pass[q].pc # "idle")
  /\ UNCHANGED <<run, process, errors, acts, unsafe, alerts>>

\* Mutant of CheckCooldown: the answer is ignored.
CheckNothing(p) ==
  /\ pass[p].pc = "cooldown"
  /\ Goto(p, [pass[p] EXCEPT !.pc = "insert"])
  /\ UNCHANGED <<run, process, errors, history>>

CheckCooldown(p) ==
  /\ pass[p].pc = "cooldown"
  /\ Goto(p, [pass[p] EXCEPT !.pc = IF CooldownActive THEN "refuse"
                                                     ELSE "insert"])
  /\ UNCHANGED <<run, process, errors, history>>

\* InsertRun; the unique index admits one active run.  A refusal by the
\* cooldown is recorded as a run of its own, inserted as detected.
InsertRun(p, r) ==
  /\ pass[p].pc \in {"insert", "refuse"}
  /\ Active = {} /\ r \in Unused
  /\ run' = [run EXCEPT ![r] = [NoRun EXCEPT !.status = "detected"]]
  /\ Goto(p, [pass[p] EXCEPT
                !.pc = IF pass[p].pc = "insert" THEN "verify" ELSE "skip",
                !.run = r])
  /\ UNCHANGED <<process, errors, history>>

InsertCollides(p) ==
  /\ pass[p].pc \in {"insert", "refuse"}
  /\ Active # {} \/ Unused = {}
  /\ StageTwo(p)
  /\ UNCHANGED <<run, process, errors, history>>

SkipCooldown(p) ==
  /\ pass[p].pc = "skip"
  /\ Transition(pass[p].run, "detected", "skipped", None)
  /\ StageTwo(p)
  /\ UNCHANGED <<process, errors, history>>

\* Whether the update applied is not looked at.
Verify(p) ==
  /\ pass[p].pc = "verify"
  /\ Transition(pass[p].run, "detected", "verifying", None)
  /\ Goto(p, [pass[p] EXCEPT !.pc = "online", !.from = "verifying"])
  /\ UNCHANGED <<process, errors, history>>

CheckOnline(p) ==
  /\ pass[p].pc = "online"
  /\ IF pass[p].online
     THEN Goto(p, [pass[p] EXCEPT !.pc = "dispatch"]) /\ UNCHANGED run
     ELSE StageTwo(p) /\ Transition(pass[p].run, "verifying", "skipped", None)
  /\ UNCHANGED <<process, errors, history>>

\* The remediator accepts the script: the agent is going to run it.
Dispatch(p) ==
  LET r == pass[p].run IN
  /\ pass[p].pc = "dispatch" /\ idSeq < MaxCmd
  /\ idSeq' = idSeq + 1
  /\ acts' = [acts EXCEPT ![r] = Capped(@)]
  /\ unsafe' = (unsafe \/ \E x \in Run \ {r} : run[x].recent)
  /\ Goto(p, [pass[p] EXCEPT !.pc = "record", !.cmd = idSeq + 1])
  /\ UNCHANGED <<run, results, restarts, errors, alerts, overlapped>>

\* After a stage-1 dispatch the pass goes on with stage 2, after a resumed
\* one it is over.
Leave(p) ==
  Goto(p, IF pass[p].online THEN [Done EXCEPT !.pc = "active"] ELSE Done)

DispatchFails(p) ==
  /\ pass[p].pc = "dispatch"
  /\ Transition(pass[p].run, pass[p].from, "failed", None)
  /\ Leave(p)
  /\ UNCHANGED <<process, errors, history>>

Record(p) ==
  /\ pass[p].pc = "record"
  /\ Transition(pass[p].run, pass[p].from, "remediating", pass[p].cmd)
  /\ Leave(p)
  /\ UNCHANGED <<process, errors, history>>

-----------------------------------------------------------------------------
(* RunOnce, stage 2: advance the runs loaded by ActiveRuns.                *)

\* The row and the clock as they are now are what advance will work from.
LoadActive(p) ==
  /\ pass[p].pc = "active"
  /\ \/ Active = {} /\ Goto(p, Done)
     \/ \E r \in Active :
          Goto(p, [Done EXCEPT !.pc = "advance", !.run = r,
                               !.from = run[r].status, !.cmd = run[r].cmd,
                               !.late = run[r].late])
  /\ UNCHANGED <<run, process, errors, history>>

Advancing(p, states) == pass[p].pc = "advance" /\ pass[p].from \in states

\* A run past its deadline that was never dispatched is failed.
Stuck(p) ==
  /\ Advancing(p, {"detected", "verifying"}) /\ pass[p].late
  /\ Transition(pass[p].run, pass[p].from, "failed", None)
  /\ Goto(p, Done)
  /\ UNCHANGED <<process, errors, history>>

\* resumeDispatch: neither the cooldown nor the online flag is looked at.
ResumeDispatch(p) ==
  /\ Advancing(p, {"detected", "verifying"}) /\ ~pass[p].late
  /\ Goto(p, [pass[p] EXCEPT !.pc = "dispatch", !.cmd = None])
  /\ UNCHANGED <<run, process, errors, history>>

\* The escalation is notified by the pass whose update applied.
Escalate(p) ==
  /\ Transition(pass[p].run, pass[p].from, "escalated", pass[p].cmd)
  /\ Goto(p, IF run[pass[p].run].status = pass[p].from
             THEN [pass[p] EXCEPT !.pc = "notify"] ELSE Done)

\* Mutant of AdvanceRemediating: no timeout for a missing result.
AdvanceNoTimeout(p) ==
  LET res == results[pass[p].cmd] IN
  /\ Advancing(p, {"remediating"})
  /\ CASE res = "SUCCEEDED" ->
            /\ Transition(pass[p].run, "remediating", "confirming", pass[p].cmd)
            /\ Goto(p, Done)
       [] res = "FAILED" -> Escalate(p)
       [] res = None -> Goto(p, Done) /\ UNCHANGED run
  /\ UNCHANGED <<process, errors, history>>

AdvanceRemediating(p) ==
  LET res == results[pass[p].cmd] IN
  /\ Advancing(p, {"remediating"})
  /\ CASE res = "SUCCEEDED" ->
            /\ Transition(pass[p].run, "remediating", "confirming", pass[p].cmd)
            /\ Goto(p, Done)
       [] res = "FAILED" -> Escalate(p)
       [] res = None ->
            IF pass[p].late THEN Escalate(p)
            ELSE Goto(p, Done) /\ UNCHANGED run
  /\ UNCHANGED <<process, errors, history>>

\* The newest sample since the dispatch, if there is one.
LatestSample == {"confirms", "refutes", "missing"}

AdvanceConfirming(p) ==
  /\ Advancing(p, {"confirming"})
  /\ \E sample \in LatestSample :
       CASE sample = "confirms" ->
              /\ Transition(pass[p].run, "confirming", "resolved", pass[p].cmd)
              /\ Goto(p, Done)
         [] sample = "refutes" \/ (sample = "missing" /\ pass[p].late) -> Escalate(p)
         [] OTHER -> Goto(p, Done) /\ UNCHANGED run
  /\ UNCHANGED <<process, errors, history>>

Notify(p) ==
  /\ pass[p].pc = "notify"
  /\ alerts' = [alerts EXCEPT ![pass[p].run] = Capped(@)]
  /\ Goto(p, Done)
  /\ UNCHANGED <<run, process, errors, acts, unsafe, overlapped>>

\* A store call fails: handleDetection or advance returns the error, and the
\* pass goes on with what comes next.
PassError(p) ==
  /\ pass[p].pc \notin {"idle", "dispatch"}
  /\ errors < MaxError /\ errors' = errors + 1
  /\ CASE pass[p].pc = "record" -> Leave(p)
       [] pass[p].pc \in {"active", "advance", "notify"} -> Goto(p, Done)
       [] OTHER -> StageTwo(p)
  /\ UNCHANGED <<run, process, history>>

-----------------------------------------------------------------------------
(* The agent, time and the process.                                        *)

\* The final report on a command of this process.  RECEIVED counts as none.
AgentReports(c) ==
  /\ c <= idSeq /\ results[c] = None
  /\ \E st \in {"SUCCEEDED", "FAILED"} : results' = [results EXCEPT ![c] = st]
  /\ UNCHANGED <<run, pass, idSeq, restarts, errors, history>>

DeadlinePasses(r) ==
  /\ r \in Active /\ ~run[r].late
  /\ run' = [run EXCEPT ![r].late = TRUE]
  /\ UNCHANGED <<pass, process, errors, history>>

CooldownEnds(r) ==
  /\ run[r].recent
  /\ run' = [run EXCEPT ![r].recent = FALSE]
  /\ UNCHANGED <<pass, process, errors, history>>

Restart ==
  /\ restarts < MaxRestart /\ restarts' = restarts + 1
  /\ idSeq' = 0 /\ results' = [c \in Cmd |-> None]
  /\ pass' = [p \in Pass |-> Done]
  /\ UNCHANGED <<run, errors, history>>

-----------------------------------------------------------------------------
PassStep(p) ==
  \/ Detect(p) \/ CheckCooldown(p) \/ InsertCollides(p) \/ SkipCooldown(p)
  \/ (\E r \in Run : InsertRun(p, r))
  \/ Verify(p) \/ CheckOnline(p) \/ Dispatch(p) \/ DispatchFails(p) \/ Record(p)
  \/ LoadActive(p) \/ Stuck(p) \/ ResumeDispatch(p)
  \/ AdvanceRemediating(p) \/ AdvanceConfirming(p) \/ Notify(p)

\* The ticker starts a pass whenever the last one is over, and a pass runs on.
Ticker(p) == WF_vars(PassStep(p))

Next ==
  \/ \E p \in Pass : PassStep(p) \/ PassError(p)
  \/ \E c \in Cmd : AgentReports(c)
  \/ \E r \in Run : DeadlinePasses(r) \/ CooldownEnds(r)
  \/ Restart

\* Passes are started and time passes.  Nothing is assumed of the agent.
Fairness ==
  /\ \A p \in Pass : Ticker(p)
  /\ \A r \in Run : WF_vars(DeadlinePasses(r))

Spec == Init /\ [][Next]_vars /\ Fairness

-----------------------------------------------------------------------------
(* Properties.                                                             *)

\* Overlapping passes and restarts drive a run only along the stages of the
\* playbook, and a run that has ended stays as it ended.
Stages ==
  [none        |-> {"detected"},
   detected    |-> {"verifying", "remediating", "skipped", "failed"},
   verifying   |-> {"remediating", "skipped", "failed"},
   remediating |-> {"confirming", "escalated"},
   confirming  |-> {"resolved", "escalated"},
   resolved    |-> {}, escalated |-> {}, failed |-> {}, skipped |-> {}]

StageStep ==
  \A r \in Run : run'[r].status # run[r].status
    => run'[r].status \in Stages[run[r].status]

StagesInOrder == [][StageStep]_vars

\* Replays never double-notify (escalate).
EscalatedOnce == \A r \in Run : alerts[r] < 2

\* Every run ends, although results are lost with the process and the agent
\* may never answer (advance's deadlines).
EveryRunEnds == \A r \in Run : r \in Active ~> r \notin Active

\* A run remediates at most once (RunOnce is "safe to call concurrently", a
\* pass re-run after a restart never double-remediates).
NoDoubleRemediation == \A r \in Run : acts[r] < 2

\* As long as passes have not overlapped, no store call has failed and the
\* server has kept running, a run remediates at most once and never within the
\* cooldown of an earlier run's remediation (handleDetection's verify-safe
\* checks).
SerialPassesAreSafe ==
  ~overlapped /\ restarts = 0 /\ errors = 0 => NoDoubleRemediation /\ ~unsafe
=============================================================================
