-------------------------- MODULE CommandDispatch --------------------------
(***************************************************************************)
(* The life of a command: ingest.Dispatcher on the server (pending,        *)
(* results, capability token), the agent's stream session with the one     *)
(* downlink reader goroutine that gates and executes commands, and the     *)
(* CommandResult frames that travel back.                                  *)
(*                                                                         *)
(* The stream registry is used through what StreamRegistry establishes:    *)
(* a device has at most one registered session, Push reaches only that     *)
(* one, and a superseded session is served until its handler ends.  The    *)
(* two ends of a session fail separately: the server may hold a session    *)
(* registered whose agent is gone, and the agent may still be executing a  *)
(* command of a session that ended.                                        *)
(***************************************************************************)
EXTENDS Naturals, Sequences, FiniteSets

CONSTANTS
  Device,
  Session,    \* stream session slots, reused once both ends are gone
  Caller,     \* goroutines that call Dispatch (HTTP handlers, flow, heal)
  Action,     \* dispatchable actions; each needs its own capability
  Reboot,     \* the action that ends with the agent's host going away
  MaxCmd,     \* bound on the command ids issued
  QueueCap,   \* commands a session's downlink holds
  None

ASSUME ConstAssumption ==
  /\ MaxCmd \in Nat /\ QueueCap \in Nat \ {0}
  /\ Reboot \in Action
  /\ None \notin Device \cup Session \cup Action

Cmd == 1 .. MaxCmd
Final == {"SUCCEEDED", "FAILED", "TIMED_OUT", "REFUSED"}
Status == Final \cup {"RECEIVED"}
Token == [dev : Device, cap : Action, cmd : Cmd]
Result == [cmd : Cmd, status : Status]

ASSUME NoneAssumption ==
  None \notin Token \cup [dev : Device, action : Action]
             \cup [dev : Device, action : Action, token : Token \cup {None}]

VARIABLES
  idSeq, pending, results,  \* Dispatcher
  cmd,        \* command id -> device, action and token; None before it exists
  listed,     \* Dispatcher.devices: the ids that per-device queries can see
  call,       \* caller -> step of dispatch and the command it is about
  live,       \* device -> registered session
  owner,      \* session -> device
  serverUp,   \* session -> its handler still runs
  agentUp,    \* session -> the agent's end is still open
  down, up,   \* session -> commands to the agent, results to the server
  reader,     \* session -> the agent's downlink reader goroutine
  expired,    \* commands whose token has outlived its TTL
  started,    \* history: <<command, device>> in order of execution
  outcome     \* history: what Dispatch returned for a command

dispatcher == <<idSeq, pending, results, cmd, listed, call, outcome>>
link == <<live, owner, serverUp, agentUp>>
vars == <<dispatcher, link, down, up, reader, expired, started>>

Idle == [pc |-> "idle", cmd |-> None]
Off == [pc |-> "off", cmd |-> None]

TypeOK ==
  /\ idSeq \in 0 .. MaxCmd
  /\ pending \subseteq Cmd /\ listed \subseteq Cmd /\ expired \subseteq Cmd
  /\ results \in [Cmd -> Status \cup {None}]
  /\ cmd \in [Cmd -> [dev : Device, action : Action, token : Token \cup {None}]
                      \cup {None}]
  /\ call \in [Caller -> [pc : {"idle", "mint", "push", "undo"},
                          cmd : Cmd \cup {None}]]
  /\ live \in [Device -> Session \cup {None}]
  /\ owner \in [Session -> Device \cup {None}]
  /\ serverUp \in [Session -> BOOLEAN] /\ agentUp \in [Session -> BOOLEAN]
  /\ down \in [Session -> Seq(Cmd)] /\ up \in [Session -> Seq(Result)]
  /\ reader \in [Session -> [pc : {"off", "idle", "run", "held", "reboot"},
                             cmd : Cmd \cup {None}]]
  /\ started \in Seq(Cmd \X Device)
  /\ outcome \in [Cmd -> {"none", "sent", "failed"}]

Init ==
  /\ idSeq = 0 /\ pending = {} /\ listed = {}
  /\ results = [c \in Cmd |-> None] /\ cmd = [c \in Cmd |-> None]
  /\ call = [p \in Caller |-> Idle]
  /\ live = [d \in Device |-> None] /\ owner = [s \in Session |-> None]
  /\ serverUp = [s \in Session |-> FALSE] /\ agentUp = [s \in Session |-> FALSE]
  /\ down = [s \in Session |-> <<>>] /\ up = [s \in Session |-> <<>>]
  /\ reader = [s \in Session |-> Off]
  /\ expired = {} /\ started = <<>>
  /\ outcome = [c \in Cmd |-> "none"]

-----------------------------------------------------------------------------
(* Dispatcher.dispatch, one step per critical section.                     *)

\* Under d.mu: number the command and list it as pending.
Begin(p, d, a) ==
  LET c == idSeq + 1 IN
  /\ call[p].pc = "idle" /\ idSeq < MaxCmd
  /\ idSeq' = c
  /\ pending' = pending \cup {c} /\ listed' = listed \cup {c}
  /\ cmd' = [cmd EXCEPT ![c] = [dev |-> d, action |-> a, token |-> None]]
  /\ call' = [call EXCEPT ![p] = [pc |-> "mint", cmd |-> c]]
  /\ UNCHANGED <<results, outcome, link, down, up, reader, expired, started>>

\* The token Mint binds to the command, and the tokens DispatchWith may be
\* handed instead: none at all, or one minted for another command.
Minted(c) == [dev |-> cmd[c].dev, cap |-> cmd[c].action, cmd |-> c]
Explicit(c) ==
  {None} \cup {cmd[x].token : x \in {y \in 1 .. idSeq : y # c}}

StampToken(p, token) ==
  LET c == call[p].cmd IN
  /\ call[p].pc = "mint"
  /\ cmd' = [cmd EXCEPT ![c].token = token]
  /\ call' = [call EXCEPT ![p].pc = "push"]
  /\ UNCHANGED <<idSeq, pending, results, listed, outcome, link, down, up,
                 reader, expired, started>>

Mint(p) == call[p].pc = "mint" /\ StampToken(p, Minted(call[p].cmd))

DispatchWith(p) ==
  call[p].pc = "mint" /\ \E t \in Explicit(call[p].cmd) : StampToken(p, t)

\* The error return of Mint; pending keeps the command.
MintFails(p) ==
  /\ call[p].pc = "mint"
  /\ call' = [call EXCEPT ![p] = Idle]
  /\ outcome' = [outcome EXCEPT ![call[p].cmd] = "failed"]
  /\ UNCHANGED <<idSeq, pending, results, cmd, listed, link, down, up, reader,
                 expired, started>>

Reachable(d) == live[d] # None /\ Len(down[live[d]]) < QueueCap

PushSucceeds(p) ==
  LET c == call[p].cmd
      s == live[cmd[c].dev] IN
  /\ call[p].pc = "push" /\ Reachable(cmd[c].dev)
  /\ down' = [down EXCEPT ![s] = Append(@, c)]
  /\ call' = [call EXCEPT ![p] = Idle]
  /\ outcome' = [outcome EXCEPT ![c] = "sent"]
  /\ UNCHANGED <<idSeq, pending, results, cmd, listed, link, up, reader,
                 expired, started>>

PushFails(p) ==
  /\ call[p].pc = "push" /\ ~Reachable(cmd[call[p].cmd].dev)
  /\ call' = [call EXCEPT ![p].pc = "undo"]
  /\ UNCHANGED <<idSeq, pending, results, cmd, listed, outcome, link, down, up,
                 reader, expired, started>>

\* Under d.mu again: the agent never saw it, drop both entries.
Undo(p) ==
  LET c == call[p].cmd IN
  /\ call[p].pc = "undo"
  /\ pending' = pending \ {c} /\ listed' = listed \ {c}
  /\ call' = [call EXCEPT ![p] = Idle]
  /\ outcome' = [outcome EXCEPT ![c] = "failed"]
  /\ UNCHANGED <<idSeq, results, cmd, link, down, up, reader, expired, started>>

\* Dispatcher.RecordResult.
RecordResult(r) ==
  /\ results' = [results EXCEPT ![r.cmd] = r.status]
  /\ pending' = pending \ {r.cmd}

\* The Recv loop hands a CommandResult frame to the dispatcher.
ServerRecv(s) ==
  /\ serverUp[s] /\ up[s] # <<>>
  /\ RecordResult(Head(up[s]))
  /\ up' = [up EXCEPT ![s] = Tail(@)]
  /\ UNCHANGED <<idSeq, cmd, listed, call, outcome, link, down, reader, expired,
                 started>>

-----------------------------------------------------------------------------
(* Sessions.                                                               *)

\* Uplink.Run: the previous streamSession has returned, a new stream is
\* opened and registered, superseding what the server still holds.
Connect(d, s) ==
  /\ owner[s] = None
  /\ \A x \in Session : owner[x] = d => ~agentUp[x]
  /\ owner' = [owner EXCEPT ![s] = d]
  /\ live' = [live EXCEPT ![d] = s]
  /\ serverUp' = [serverUp EXCEPT ![s] = TRUE]
  /\ agentUp' = [agentUp EXCEPT ![s] = TRUE]
  /\ reader' = [reader EXCEPT ![s] = Idle]
  /\ UNCHANGED <<dispatcher, down, up, expired, started>>

\* The server's handler returns and unregisters itself if still current.
ServerDrop(s) ==
  /\ serverUp[s]
  /\ serverUp' = [serverUp EXCEPT ![s] = FALSE]
  /\ live' = [d \in Device |-> IF live[d] = s THEN None ELSE live[d]]
  /\ UNCHANGED <<dispatcher, owner, agentUp, down, up, reader, expired, started>>

\* The agent's stream fails: streamSession returns.  Its reader stops when
\* it is waiting for a frame; a command it is executing runs on.
AgentDrop(s) ==
  /\ agentUp[s]
  /\ agentUp' = [agentUp EXCEPT ![s] = FALSE]
  /\ down' = [down EXCEPT ![s] = <<>>]
  /\ reader' = [reader EXCEPT ![s] = IF @.pc = "idle" THEN Off ELSE @]
  /\ UNCHANGED <<dispatcher, live, owner, serverUp, up, expired, started>>

\* Both ends are gone: frames still queued are lost with the session.
Release(s) ==
  /\ owner[s] # None /\ ~serverUp[s] /\ ~agentUp[s] /\ reader[s].pc = "off"
  /\ owner' = [owner EXCEPT ![s] = None]
  /\ down' = [down EXCEPT ![s] = <<>>] /\ up' = [up EXCEPT ![s] = <<>>]
  /\ UNCHANGED <<dispatcher, live, serverUp, agentUp, reader, expired, started>>

\* The agent's process ends (Executor.Reboot, update, crash): every session
\* of the device loses its agent end and every reader with it.
AgentStops(d) ==
  LET mine == {s \in Session : owner[s] = d} IN
  /\ agentUp' = [s \in Session |-> s \notin mine /\ agentUp[s]]
  /\ reader' = [s \in Session |-> IF s \in mine THEN Off ELSE reader[s]]
  /\ down' = [s \in Session |-> IF s \in mine THEN <<>> ELSE down[s]]
  /\ UNCHANGED <<dispatcher, live, owner, serverUp, up, expired, started>>

AgentCrash(d) ==
  /\ \E s \in Session : owner[s] = d /\ reader[s].pc # "off"
  /\ AgentStops(d)

\* A token's TTL ends.
Expire(c) ==
  /\ c \notin expired /\ cmd[c] # None /\ cmd[c].token # None
  /\ expired' = expired \cup {c}
  /\ UNCHANGED <<dispatcher, link, down, up, reader, started>>

-----------------------------------------------------------------------------
(* Uplink.handleCommand in the downlink reader.                            *)

\* Mutant of Check: the command the token was minted for is not compared.
CheckAnyCommand(s, c) ==
  LET t == cmd[c].token IN
  /\ t # None
  /\ t.dev = owner[s] /\ t.cap = cmd[c].action
  /\ t.cmd \notin expired

\* caps.Verifier.Check: token present, bound to this device, capability and
\* command, not expired.
Check(s, c) ==
  LET t == cmd[c].token IN
  /\ t # None
  /\ t.dev = owner[s] /\ t.cap = cmd[c].action /\ t.cmd = c
  /\ t.cmd \notin expired

\* sendResult.  On a stream that ended the send fails: nothing goes out and
\* the reader goroutine returns.
Report(s, c, status, next) ==
  IF agentUp[s]
  THEN /\ up' = [up EXCEPT ![s] = Append(@, [cmd |-> c, status |-> status])]
       /\ reader' = [reader EXCEPT ![s] = next]
  ELSE /\ reader' = [reader EXCEPT ![s] = Off]
       /\ UNCHANGED up

\* Mutant of Gate: the command is read but stays queued.
GateKeepsFrame(s) ==
  LET c == Head(down[s]) IN
  /\ reader[s].pc = "idle" /\ down[s] # <<>>
  /\ IF Check(s, c)
     THEN /\ Report(s, c, "RECEIVED", [pc |-> "run", cmd |-> c])
          /\ started' = Append(started, <<c, owner[s]>>)
     ELSE /\ Report(s, c, "REFUSED", Idle)
          /\ UNCHANGED started
  /\ UNCHANGED <<dispatcher, link, expired, down>>

\* Take the next command; refuse it or acknowledge and start it.
Gate(s) ==
  LET c == Head(down[s]) IN
  /\ reader[s].pc = "idle" /\ down[s] # <<>>
  /\ down' = [down EXCEPT ![s] = Tail(@)]
  /\ IF Check(s, c)
     THEN /\ Report(s, c, "RECEIVED", [pc |-> "run", cmd |-> c])
          /\ started' = Append(started, <<c, owner[s]>>)
     ELSE /\ Report(s, c, "REFUSED", Idle)
          /\ UNCHANGED started
  /\ UNCHANGED <<dispatcher, link, expired>>

\* Mutant of Finish: a command that timed out is not reported.
FinishSilentTimeout(s) ==
  LET c == reader[s].cmd IN
  /\ reader[s].pc = "run" /\ cmd[c].action # Reboot
  /\ \/ \E st \in {"SUCCEEDED", "FAILED"} : Report(s, c, st, Idle)
     \/ reader' = [reader EXCEPT ![s] = Idle] /\ UNCHANGED up
  /\ UNCHANGED <<dispatcher, link, down, expired, started>>

\* run_script, file_pull or an inline file_push ends, in one of the three ways
\* it can.
Finish(s) ==
  LET c == reader[s].cmd IN
  /\ reader[s].pc = "run" /\ cmd[c].action # Reboot
  /\ \E st \in {"SUCCEEDED", "FAILED", "TIMED_OUT"} : Report(s, c, st, Idle)
  /\ UNCHANGED <<dispatcher, link, down, expired, started>>

\* It does not: every deadline is over and a process that left the script's group
\* still holds its output, or a file_push without content waits for frames that
\* only its own reader could take.
Hold(s) ==
  /\ reader[s].pc = "run" /\ cmd[reader[s].cmd].action # Reboot
  /\ reader' = [reader EXCEPT ![s].pc = "held"]
  /\ UNCHANGED <<dispatcher, link, down, up, expired, started>>

\* That process ends, or the push is abandoned with its stream.
LetGo(s) ==
  /\ reader[s].pc = "held"
  /\ Report(s, reader[s].cmd, "TIMED_OUT", Idle)
  /\ UNCHANGED <<dispatcher, link, down, expired, started>>

\* rebootCommand reports first, waits out the delay, then reboots.
AnnounceReboot(s) ==
  LET c == reader[s].cmd IN
  /\ reader[s].pc = "run" /\ cmd[c].action = Reboot
  /\ Report(s, c, "SUCCEEDED", [pc |-> "reboot", cmd |-> c])
  /\ UNCHANGED <<dispatcher, link, down, expired, started>>

RebootHost(s) == reader[s].pc = "reboot" /\ AgentStops(owner[s])

\* A failed reboot is only logged; the reader goes on.
RebootFails(s) ==
  /\ reader[s].pc = "reboot"
  /\ reader' = [reader EXCEPT ![s] = IF agentUp[s] THEN Idle ELSE Off]
  /\ UNCHANGED <<dispatcher, link, down, up, expired, started>>

-----------------------------------------------------------------------------
DispatchStep(p) ==
  \/ Mint(p) \/ PushSucceeds(p) \/ PushFails(p) \/ Undo(p)
  \/ MintFails(p) \/ DispatchWith(p)

ReaderStep(s) ==
  Gate(s) \/ Finish(s) \/ AnnounceReboot(s) \/ RebootHost(s) \/ RebootFails(s)

Next ==
  \/ \E p \in Caller : DispatchStep(p) \/
       (\E d \in Device, a \in Action : Begin(p, d, a))
  \/ \E s \in Session :
       \/ ReaderStep(s) \/ Hold(s) \/ LetGo(s) \/ ServerRecv(s) \/ ServerDrop(s) \/ AgentDrop(s)
       \/ Release(s) \/ (\E d \in Device : Connect(d, s))
  \/ \E d \in Device : AgentCrash(d)
  \/ \E c \in Cmd : Expire(c)

\* Every goroutine is scheduled and an execution that is not held ends by the
\* executor's timeout; what holds one may do so for ever, and links may break at
\* any time or never.
Fairness ==
  /\ \A p \in Caller : WF_vars(DispatchStep(p))
  /\ \A s \in Session : WF_vars(ReaderStep(s)) /\ WF_vars(ServerRecv(s))

Spec == Init /\ [][Next]_vars /\ Fairness

-----------------------------------------------------------------------------
(* Properties.                                                             *)

\* Whatever tokens travel on the channel, a command is executed only on the
\* device it was dispatched to, only under a token minted for that very device,
\* capability and command (Uplink.handleCommand, "THE GATE"), and never when
\* its dispatcher was told that it had failed.
OnlyAuthorisedRuns ==
  \A i \in DOMAIN started :
    LET c == started[i][1] IN
      /\ started[i][2] = cmd[c].dev
      /\ cmd[c].token = Minted(c)
      /\ outcome[c] # "failed"

\* No command is started twice, although sessions are superseded, dropped and
\* re-opened while it is queued or running.
AtMostOnce ==
  \A i, j \in DOMAIN started : started[i][1] = started[j][1] => i = j

\* What callers see of the dispatcher, and what ran.
Requested == [c \in Cmd |-> IF cmd[c] = None THEN None ELSE [dev |-> cmd[c].dev, action |-> cmd[c].action]]
Authorised == {c \in Cmd : cmd[c] # None /\ cmd[c].token = Minted(c)}

\* Dispatcher, sessions and readers implement the promise of CommandService:
\* each command runs at most once and as authorised, and the results recorded
\* of it are those of its one execution, in order, across superseded sessions.
Service == INSTANCE CommandService WITH
  request <- Requested, authorised <- Authorised,
  told <- outcome, ran <- started, answer <- results

ServesCommands == Service!Spec

\* handleCommand: a command accepted for a session that survives is answered
\* with a final result, unless a command holds the session's one reader for ever.
AcceptedIsAnswered ==
  \A c \in Cmd, s \in Session :
    (\E i \in DOMAIN down[s] : down[s][i] = c) ~>
      (results[c] \in Final \/ ~serverUp[s] \/ ~agentUp[s] \/ [](reader[s].pc = "held"))
=============================================================================
