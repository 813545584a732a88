----------------------------- MODULE FlowEngine -----------------------------
(***************************************************************************)
(* The event-driven flow executor (server/internal/flow): runs persisted   *)
(* in Postgres, hops carried by an at-least-once bus, handlers that read   *)
(* the run and then apply a conditional UPDATE, and the sweep that         *)
(* re-publishes pending hops and enforces node timeouts.  Several handler  *)
(* invocations may be in progress at once: with the in-process bus every   *)
(* publisher runs the handlers on its own goroutine.                       *)
(*                                                                         *)
(* One flow on one (device, source) series.  Rows survive a restart; the   *)
(* dispatcher's command counter and result table do not, and the bus does  *)
(* only when it is JetStream.                                              *)
(***************************************************************************)
EXTENDS Integers, FiniteSets

CONSTANTS
  Node,         \* nodes of the flow graph, a DAG (Graph.Validate)
  Kind,         \* Node -> "trigger", "script", "check" or "notify"
  Edge,         \* Node -> set of successors; End for "the chain is complete"
  Start,        \* the trigger node
  End,
  Run,          \* run ids
  Worker,       \* handler invocations that may be in progress at once
  MaxCmd,       \* bound on the ids one dispatcher issues
  MaxRestart,   \* bound on server restarts
  MaxError,     \* bound on failing store calls
  Deletable,    \* whether an operator may delete the flow: a bound
  None

ASSUME ConstAssumption ==
  /\ Kind \in [Node -> {"trigger", "script", "check", "notify"}]
  /\ Edge \in [Node -> SUBSET (Node \cup {End})]
  /\ Start \in Node /\ Kind[Start] = "trigger"
  /\ End \notin Node
  /\ MaxCmd \in Nat /\ MaxRestart \in Nat /\ MaxError \in Nat
  /\ Deletable \in BOOLEAN

\* Graph.Validate refuses a cycle.
ASSUME AcyclicAssumption ==
  /\ IsFiniteSet(Node)
  /\ \E rank \in [Node -> 1 .. Cardinality(Node)] :
       \A n \in Node : \A m \in Edge[n] \ {End} : rank[n] < rank[m]

Cmd == 1 .. MaxCmd
ASSUME NoneAssumption == None \notin Cmd
Final == {"SUCCEEDED", "FAILED"}  \* FAILED stands for every final non-success

VARIABLES
  run,        \* run id -> row of flow_runs
  deleted,    \* the flow was deleted: runs lose their flow_id
  cooling,    \* a run started within the cooldown window
  bus,        \* events published and not yet acknowledged
  work,       \* worker -> handler invocation and its locals
  idSeq,      \* Dispatcher.idSeq of this process
  results,    \* Dispatcher.results of this process
  restarts, errors,
  issued,     \* history: <<process, id, run, node>> of every flow dispatch
  basis,      \* history: run -> the dispatch whose result it advanced on
  notes       \* history: <<run, node>> -> notifications fired, capped at 2

rows == <<run, deleted, cooling>>
process == <<idSeq, results, restarts>>
history == <<issued, basis, notes>>
vars == <<rows, bus, work, process, errors, history>>

NoRun == [status |-> "none", node |-> None, cmd |-> None, late |-> FALSE]
Rest == [pc |-> "idle", ev |-> None, run |-> None, node |-> None,
         cmd |-> None, res |-> None]

Trigger == [type |-> "trigger"]
Step(r, n) == [type |-> "step", run |-> r, node |-> n]
CommandResult(c, st, p) ==
  [type |-> "command", cmd |-> c, res |-> st, proc |-> p]

Event == {Trigger}
  \cup {Step(r, n) : r \in Run, n \in Node}
  \cup {CommandResult(c, st, p) : c \in Cmd, st \in Final, p \in 0 .. MaxRestart}

Row ==
  [status : {"none", "running", "succeeded", "failed", "timeout"}, node : Node \cup {None},
   cmd : Cmd \cup {None}, late : BOOLEAN]
State ==
  [pc : {"idle", "start", "insert", "dispatch", "record", "finish", "publish", "notify"},
   ev : Event \cup {None}, run : Run \cup {None}, node : Node \cup {None}, cmd : Cmd \cup {None},
   res : Final \cup Node \cup {End, None}]
Dispatch == (0 .. MaxRestart) \X Cmd \X Run \X Node

TypeOK ==
  /\ run \in [Run -> Row] /\ deleted \in BOOLEAN /\ cooling \in BOOLEAN
  /\ bus \subseteq Event /\ work \in [Worker -> State]
  /\ idSeq \in 0 .. MaxCmd /\ results \in [Cmd -> Final \cup {None}]
  /\ restarts \in 0 .. MaxRestart /\ errors \in 0 .. MaxError
  /\ issued \subseteq Dispatch /\ basis \in [Run -> Dispatch \cup {None}]
  /\ notes \in [Run \X Node -> 0 .. 2]

Init ==
  /\ run = [r \in Run |-> NoRun]
  /\ deleted = FALSE /\ cooling = FALSE
  /\ bus = {}
  /\ work = [w \in Worker |-> Rest]
  /\ idSeq = 0 /\ results = [c \in Cmd |-> None]
  /\ restarts = 0 /\ errors = 0
  /\ issued = {}
  /\ basis = [r \in Run |-> None]
  /\ notes = [x \in Run \X Node |-> 0]

-----------------------------------------------------------------------------
(* Store: conditional updates.                                             *)

At(r, n) == run[r].status = "running" /\ run[r].node = n

\* The row AdvanceTo leaves: the next node, or the end of the run.
Advanced(r, n, next) ==
  IF next = End THEN [run[r] EXCEPT !.status = "succeeded", !.cmd = None]
  ELSE [run[r] EXCEPT !.node = next, !.cmd = None, !.late = FALSE]

AdvanceTo(r, n, next) ==
  run' = IF At(r, n) THEN [run EXCEPT ![r] = Advanced(r, n, next)] ELSE run

FailRun(r, n, status) ==
  run' = IF At(r, n) THEN [run EXCEPT ![r].status = status] ELSE run

Active == {r \in Run : run[r].status = "running"}
Unused == {r \in Run : run[r].status = "none"}  \* bounds the runs ever started

-----------------------------------------------------------------------------
(* Handler plumbing.                                                       *)

\* The handler returns nil: its event is acknowledged.
Return(w) ==
  /\ work' = [work EXCEPT ![w] = Rest]
  /\ bus' = bus \ {work[w].ev}

Goto(w, state) == work' = [work EXCEPT ![w] = state] /\ UNCHANGED bus

\* After FailRun: notifyFail if the update applied.
FailThenNotify(w, r, n, status) ==
  /\ FailRun(r, n, status)
  /\ IF At(r, n)
     THEN Goto(w, [work[w] EXCEPT !.pc = "notify", !.run = r, !.node = n,
                                  !.res = End])
     ELSE Return(w)

\* After AdvanceTo: publish the next hop if the update applied.
AdvanceThenPublish(w, r, n, next) ==
  /\ AdvanceTo(r, n, next)
  /\ IF At(r, n) /\ next # End
     THEN Goto(w, [work[w] EXCEPT !.pc = "publish", !.run = r, !.node = next])
     ELSE Return(w)

\* The bus hands an event to an idle worker; as long as nobody acknowledged
\* it another worker may be handed it too (redelivery).
Deliver(w, ev) ==
  /\ work[w].pc = "idle" /\ ev \in bus
  /\ work' = [work EXCEPT ![w] = [Rest EXCEPT !.pc = "start", !.ev = ev]]
  /\ UNCHANGED <<rows, bus, process, errors, history>>

\* A store or bus call fails and the handler returns.  JetStream redelivers
\* the event of a handler that returned the error (Nak); the in-process bus
\* ignores the error, and some reads and FailRun return nil all the same.
HandlerError(w) ==
  /\ work[w].pc \in {"start", "insert", "dispatch", "record", "finish",
                     "publish"}
  /\ errors < MaxError /\ errors' = errors + 1
  /\ work' = [work EXCEPT ![w] = Rest]
  /\ bus' \in {bus, bus \ {work[w].ev}}
  /\ UNCHANGED <<rows, process, history>>

-----------------------------------------------------------------------------
(* handleTrigger.                                                          *)

\* An event source publishes a trigger whose condition holds (sampler, API).
PublishTrigger ==
  /\ Trigger \notin bus
  /\ bus' = bus \cup {Trigger}
  /\ UNCHANGED <<rows, work, process, errors, history>>

TriggerDropped(w) ==
  /\ work[w].pc = "start" /\ work[w].ev = Trigger
  /\ deleted \/ cooling \/ Unused = {}
  /\ Return(w)
  /\ UNCHANGED <<rows, process, errors, history>>

\* The cooldown check passes; it is a query of its own.
TriggerPasses(w) ==
  /\ work[w].pc = "start" /\ work[w].ev = Trigger
  /\ ~deleted /\ ~cooling /\ Unused # {}
  /\ Goto(w, [work[w] EXCEPT !.pc = "insert"])
  /\ UNCHANGED <<rows, process, errors, history>>

\* InsertRun, at most one active run by the unique index.  The row is
\* committed on its own; the hop off the trigger is a later statement.
InsertRun(w, r) ==
  /\ work[w].pc = "insert"
  /\ ~deleted /\ Active = {} /\ r \in Unused
  /\ run' = [run EXCEPT ![r] = [NoRun EXCEPT !.status = "running",
                                             !.node = Start]]
  /\ cooling' = TRUE
  /\ Goto(w, [work[w] EXCEPT !.pc = "finish", !.run = r, !.node = Start,
                             !.res = "SUCCEEDED"])
  /\ UNCHANGED <<deleted, process, errors, history>>

\* The unique index or the foreign key rejects the row.
InsertRejected(w) ==
  /\ work[w].pc = "insert"
  /\ deleted \/ Active # {} \/ Unused = {}
  /\ Return(w)
  /\ UNCHANGED <<rows, process, errors, history>>

-----------------------------------------------------------------------------
(* handleStep.                                                             *)

IsStep(w) == work[w].pc = "start" /\ work[w].ev.type = "step"

\* The step event of the node its run is at, in a flow that still exists.
StepAt(w, kind) ==
  /\ IsStep(w) /\ ~deleted
  /\ At(work[w].ev.run, work[w].ev.node)
  /\ Kind[work[w].ev.node] = kind

\* Stale or replayed: the run is not at the event's node, or the node is the
\* trigger, which no step event executes.
StepStale(w) ==
  /\ IsStep(w)
  /\ ~At(work[w].ev.run, work[w].ev.node) \/ StepAt(w, "trigger")
  /\ Return(w)
  /\ UNCHANGED <<rows, process, errors, history>>

\* stepScript with no command recorded: dispatch first.
StepScript(w) ==
  LET ev == work[w].ev IN
  /\ StepAt(w, "script") /\ run[ev.run].cmd = None
  /\ Goto(w, [work[w] EXCEPT !.pc = "dispatch", !.run = ev.run,
                             !.node = ev.node])
  /\ UNCHANGED <<rows, process, errors, history>>

\* The Remediator accepts the script and numbers the command.
Remediate(w) ==
  /\ work[w].pc = "dispatch" /\ idSeq < MaxCmd
  /\ idSeq' = idSeq + 1
  /\ issued' = issued \cup {<<restarts, idSeq + 1, work[w].run, work[w].node>>}
  /\ Goto(w, [work[w] EXCEPT !.pc = "record", !.cmd = idSeq + 1])
  /\ UNCHANGED <<rows, results, restarts, errors, basis, notes>>

RemediateFails(w) ==
  /\ work[w].pc = "dispatch"
  /\ FailThenNotify(w, work[w].run, work[w].node, "failed")
  /\ UNCHANGED <<deleted, cooling, process, errors, history>>

\* A script node's command has a final result to act on, or is in flight.
OnResult(w, r, n, c, res) ==
  IF res \in Final
  THEN Goto(w, [work[w] EXCEPT !.pc = "finish", !.run = r, !.node = n,
                               !.cmd = c, !.res = res])
  ELSE Return(w)

\* Store.Dispatched applies once; the loser re-reads the run and checks the
\* result of whatever command is recorded there.
Dispatched(w) ==
  LET r == work[w].run
      n == work[w].node
      applies == At(r, n) /\ run[r].cmd = None IN
  /\ work[w].pc = "record"
  /\ run' = IF applies
            THEN [run EXCEPT ![r].cmd = work[w].cmd, ![r].late = FALSE]
            ELSE run
  /\ IF ~applies /\ run[r].cmd # None
     THEN OnResult(w, r, n, run[r].cmd, results[run[r].cmd])
     ELSE Return(w)
  /\ UNCHANGED <<deleted, cooling, process, errors, history>>

\* stepScript with a command recorded: look its result up.
StepAwaited(w) ==
  LET ev == work[w].ev
      c == run[ev.run].cmd IN
  /\ StepAt(w, "script") /\ c # None
  /\ OnResult(w, ev.run, ev.node, c, results[c])
  /\ UNCHANGED <<rows, process, errors, history>>

\* The process whose dispatcher the result in hand came from.
Answerer(w) ==
  IF work[w].ev # None /\ work[w].ev.type = "command"
  THEN work[w].ev.proc ELSE restarts

\* finishScript (and the hop off the trigger): success advances, any other
\* final status fails the run.
FinishSucceeded(w) ==
  LET r == work[w].run
      n == work[w].node IN
  /\ work[w].pc = "finish" /\ work[w].res = "SUCCEEDED"
  /\ \E next \in Edge[n] : AdvanceThenPublish(w, r, n, next)
  /\ basis' = IF At(r, n) /\ Kind[n] = "script"
              THEN [basis EXCEPT ![r] = <<Answerer(w), work[w].cmd, r, n>>]
              ELSE basis
  /\ UNCHANGED <<deleted, cooling, process, errors, issued, notes>>

FinishFailed(w) ==
  /\ work[w].pc = "finish" /\ work[w].res = "FAILED"
  /\ FailThenNotify(w, work[w].run, work[w].node, "failed")
  /\ UNCHANGED <<deleted, cooling, process, errors, history>>

\* stepCheck: a fresh sample selects a branch; without one the handler
\* waits, and fails the run once the node's timeout has passed.
StepCheck(w) ==
  LET ev == work[w].ev IN
  /\ StepAt(w, "check")
  /\ \/ \E next \in Edge[ev.node] : AdvanceThenPublish(w, ev.run, ev.node, next)
     \/ ~run[ev.run].late /\ UNCHANGED run /\ Return(w)
     \/ run[ev.run].late /\ FailThenNotify(w, ev.run, ev.node, "timeout")
  /\ UNCHANGED <<deleted, cooling, process, errors, history>>

\* Mutant of StepNotify: notify without having won the hop.
StepNotifyFirst(w) ==
  LET ev == work[w].ev IN
  /\ StepAt(w, "notify")
  /\ \E next \in Edge[ev.node] :
       Goto(w, [work[w] EXCEPT !.pc = "notify", !.run = ev.run,
                               !.node = ev.node, !.res = next])
  /\ UNCHANGED <<rows, process, errors, history>>

\* stepNotify: the hop is applied first, then the notification.
StepNotify(w) ==
  LET ev == work[w].ev IN
  /\ StepAt(w, "notify")
  /\ \E next \in Edge[ev.node] :
       /\ AdvanceTo(ev.run, ev.node, next)
       /\ Goto(w, [work[w] EXCEPT !.pc = "notify", !.run = ev.run,
                                  !.node = ev.node, !.res = next])
  /\ UNCHANGED <<deleted, cooling, process, errors, history>>

\* Notifier.Notify, then the next hop if there is one.
Notify(w) ==
  LET x == <<work[w].run, work[w].node>> IN
  /\ work[w].pc = "notify"
  /\ notes' = [notes EXCEPT ![x] = IF @ < 2 THEN @ + 1 ELSE 2]
  /\ IF work[w].res = End THEN Return(w)
     ELSE Goto(w, [work[w] EXCEPT !.pc = "publish", !.node = work[w].res])
  /\ UNCHANGED <<rows, process, errors, issued, basis>>

PublishStep(w) ==
  /\ work[w].pc = "publish"
  /\ work' = [work EXCEPT ![w] = Rest]
  /\ bus' = (bus \ {work[w].ev}) \cup {Step(work[w].run, work[w].node)}
  /\ UNCHANGED <<rows, process, errors, history>>

-----------------------------------------------------------------------------
(* handleCommand and the agent's answer.                                   *)

\* Mutant of Owners: any run that waits for a command.
OwnersAny(c) == {r \in Active : run[r].cmd # None}

\* The runs RunByCommand may find: the id is all it has to go by.
Owners(c) == {r \in Active : run[r].cmd = c}

IsCommand(w) == work[w].pc = "start" /\ work[w].ev.type = "command"

CommandUnowned(w) ==
  /\ IsCommand(w) /\ Owners(work[w].ev.cmd) = {}
  /\ Return(w)
  /\ UNCHANGED <<rows, process, errors, history>>

HandleCommand(w) ==
  LET ev == work[w].ev IN
  /\ IsCommand(w) /\ ~deleted
  /\ \E r \in Owners(ev.cmd) : OnResult(w, r, run[r].node, ev.cmd, ev.res)
  /\ UNCHANGED <<rows, process, errors, history>>

\* The agent's final report on a command of this process: the dispatcher
\* records it and publishes it, if the bus takes it.  A report that is not
\* final is not published, and finishScript ignores it like no result.
AgentReports(c, st) ==
  /\ c <= idSeq /\ results[c] = None
  /\ results' = [results EXCEPT ![c] = st]
  /\ bus' \in {bus, bus \cup {CommandResult(c, st, restarts)}}
  /\ UNCHANGED <<rows, work, idSeq, restarts, errors, history>>

\* Some other client of the dispatcher (operator, self-healing) takes an id.
OtherDispatch ==
  /\ idSeq < MaxCmd
  /\ idSeq' = idSeq + 1
  /\ UNCHANGED <<rows, bus, work, results, restarts, errors, history>>

-----------------------------------------------------------------------------
(* Sweep, time, deletion, restart.                                         *)

\* A script past its window: act on a final result, else fail the run.
SweepTimeout(w, r) ==
  LET n == run[r].node
      c == run[r].cmd IN
  /\ work[w].pc = "idle"
  /\ r \in Active /\ ~deleted /\ Kind[n] = "script" /\ c # None /\ run[r].late
  /\ IF results[c] \in Final
     THEN UNCHANGED run /\ OnResult(w, r, n, c, results[c])
     ELSE FailThenNotify(w, r, n, "timeout")
  /\ UNCHANGED <<deleted, cooling, process, errors, history>>

\* Mutant of SweepPublish: only script nodes are covered.
SweepScriptsOnly(r) ==
  LET n == run[r].node IN
  /\ r \in Active /\ ~deleted
  /\ Kind[n] = "script" /\ ~(run[r].cmd # None /\ run[r].late)
  /\ Step(r, n) \notin bus
  /\ bus' = bus \cup {Step(r, n)}
  /\ UNCHANGED <<rows, work, process, errors, history>>

\* Otherwise the pending hop is published again.
SweepPublish(r) ==
  LET n == run[r].node IN
  /\ r \in Active /\ ~deleted
  /\ ~(Kind[n] = "script" /\ run[r].cmd # None /\ run[r].late)
  /\ Step(r, n) \notin bus
  /\ bus' = bus \cup {Step(r, n)}
  /\ UNCHANGED <<rows, work, process, errors, history>>

\* The three callers of flowForRun: a step event at the run's node, the
\* result of its command, the sweep.
Loads(w, r) ==
  /\ r \in Active
  /\ \/ IsStep(w) /\ work[w].ev.run = r /\ work[w].ev.node = run[r].node
     \/ IsCommand(w) /\ work[w].ev.cmd = run[r].cmd
     \/ work[w].pc = "idle"

\* flowForRun fails the run when its flow was deleted, and also when loading
\* the flow fails.
FlowGone(w, r) ==
  /\ Loads(w, r)
  /\ \/ deleted /\ UNCHANGED errors
     \/ ~deleted /\ errors < MaxError /\ errors' = errors + 1
  /\ FailThenNotify(w, r, run[r].node, "failed")
  /\ UNCHANGED <<deleted, cooling, process, history>>

NodeTimesOut(r) ==
  /\ r \in Active /\ ~run[r].late
  /\ Kind[run[r].node] = "check" \/ run[r].cmd # None
  /\ run' = [run EXCEPT ![r].late = TRUE]
  /\ UNCHANGED <<deleted, cooling, bus, work, process, errors, history>>

CooldownEnds ==
  /\ cooling /\ cooling' = FALSE
  /\ UNCHANGED <<run, deleted, bus, work, process, errors, history>>

DeleteFlow ==
  /\ Deletable /\ ~deleted /\ deleted' = TRUE
  /\ UNCHANGED <<run, cooling, bus, work, process, errors, history>>

\* The dispatcher starts over; JetStream keeps the events, the in-process
\* bus loses them.
Restart ==
  /\ restarts < MaxRestart /\ restarts' = restarts + 1
  /\ idSeq' = 0 /\ results' = [c \in Cmd |-> None]
  /\ work' = [w \in Worker |-> Rest]
  /\ bus' \in {bus, {}}
  /\ UNCHANGED <<rows, errors, history>>

-----------------------------------------------------------------------------
HandlerStep(w) ==
  \/ TriggerDropped(w) \/ TriggerPasses(w) \/ InsertRejected(w)
  \/ (\E r \in Run : InsertRun(w, r))
  \/ StepStale(w) \/ StepScript(w) \/ StepAwaited(w)
  \/ StepCheck(w) \/ StepNotify(w)
  \/ Remediate(w) \/ RemediateFails(w) \/ Dispatched(w)
  \/ FinishSucceeded(w) \/ FinishFailed(w) \/ Notify(w) \/ PublishStep(w)
  \/ HandleCommand(w) \/ CommandUnowned(w)

SweepStep(r) ==
  SweepPublish(r) \/ \E w \in Worker : SweepTimeout(w, r) \/ FlowGone(w, r)

Next ==
  \/ \E w \in Worker : HandlerStep(w) \/ HandlerError(w)
       \/ \E ev \in bus : Deliver(w, ev)
  \/ \E r \in Run : SweepStep(r) \/ NodeTimesOut(r)
  \/ \E c \in Cmd, st \in Final : AgentReports(c, st)
  \/ PublishTrigger \/ OtherDispatch \/ CooldownEnds \/ DeleteFlow \/ Restart

\* Handlers run, a step event that stays published is delivered sooner or
\* later, the sweep ticker ticks and time passes.  Nothing is assumed of the
\* agent or of the other events.
Fairness ==
  /\ \A w \in Worker : WF_vars(HandlerStep(w))
  /\ \A r \in Run :
       /\ \A n \in Node : SF_vars(\E w \in Worker : Deliver(w, Step(r, n)))
       /\ SF_vars(SweepStep(r)) /\ WF_vars(NodeTimesOut(r))

Spec == Init /\ [][Next]_vars /\ Fairness

-----------------------------------------------------------------------------
(* Properties.                                                             *)

\* A run only ever moves along an edge of its graph, and a finished run never
\* changes again, whatever stale or repeated events are handled concurrently.
HopsFollowGraph ==
  [][\A r \in Run :
       /\ run[r].status = "running" /\ run'[r].node # run[r].node
            => run'[r].node \in Edge[run[r].node]
       /\ run[r].status \in {"succeeded", "failed", "timeout"}
            => run'[r] = run[r]]_vars

\* Duplicated events, racing handlers and restarts never notify twice for one
\* node of one run (stepNotify and notifyFail).
NotifiedOnce == \A x \in Run \X Node : notes[x] < 2

\* A script node is left towards its successor only on the success of a
\* command that this very run dispatched from that node.
OwnResult == \A r \in Run : basis[r] # None => basis[r] \in issued

\* A run that has left its trigger node ends.
LeftTriggerEnds ==
  \A r \in Run :
    run[r].status = "running" /\ run[r].node # Start ~> run[r].status # "running"
=============================================================================
