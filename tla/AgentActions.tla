---------------------------- MODULE AgentActions ----------------------------
(***************************************************************************)
(* What the agent's one downlink reader does with a command: scripts and   *)
(* their processes, file pulls and pushes, and the frames that come back.  *)
(* A stream that drops leaves its reader at work while the next stream     *)
(* starts another one.  The agent's gate and the reboot are                *)
(* CommandDispatch's.                                                      *)
(***************************************************************************)
EXTENDS Integers, Sequences, SequencesExt

CONSTANTS
  Cmd,       \* commands; each has a path of its own
  MaxStream, \* bound: streams the agent opens
  MaxChunk,  \* bound: chunks of a pulled file
  Free,      \* the reader waits in Recv
  Gone       \* the reader has returned, or never started

ASSUME ActAssumption == MaxStream \in Nat /\ MaxChunk \in Nat /\ {Free, Gone} \cap Cmd = {}

Stream == 1 .. MaxStream

VARIABLES
  kind,     \* command -> its action
  cur,      \* the stream the uplink holds, 0 between two
  wire,     \* stream -> "new", "up", "cut" (broken, not noticed), "off"
  downlink, up, \* stream -> commands to the agent, frames to the server
  reader,   \* stream -> the command its reader handles, Free or Gone
  at,       \* command -> the last step of its handler
  temps,    \* commands with a temporary file next to their path
  placed,     \* commands whose content is at their path
  procs,    \* command -> processes that hold the script's output
  log       \* command -> what the server has handled of its frames

actVars == <<kind, cur, wire, downlink, up, reader, at, temps, placed, procs, log>>

\* The API turns a request into one of these; a push without content is chunked.
BuildCommandAction == {"script", "pull", "push", "chunked", "inventory", "query", "apply"}

\* Those that have a capability: a request for another one is answered with 400,
\* the dispatcher knows no other either and the agent says UNSUPPORTED to it.
ForAction == BuildCommandAction \ {"inventory", "query", "apply"}

ActInit ==
  /\ kind \in [Cmd -> ForAction]
  /\ cur = 0 /\ wire = [s \in Stream |-> "new"]
  /\ downlink = [s \in Stream |-> <<>>] /\ up = [s \in Stream |-> <<>>]
  /\ reader = [s \in Stream |-> Gone] /\ at = [c \in Cmd |-> "new"]
  /\ temps = {} /\ placed = {} /\ procs = [c \in Cmd |-> {}]
  /\ log = [c \in Cmd |-> <<>>]

(***************************************************************************)
(* Streams.                                                                *)
(***************************************************************************)

\* Uplink.Run opens the next stream once the last session has returned.
OpenStream(s) ==
  /\ cur = 0 /\ wire[s] = "new" /\ \A r \in Stream : wire[r] = "new" => s <= r
  /\ cur' = s /\ wire' = [wire EXCEPT ![s] = "up"] /\ reader' = [reader EXCEPT ![s] = Free]
  /\ UNCHANGED <<kind, downlink, up, at, temps, placed, procs, log>>

Cut(s) ==
  /\ wire[s] = "up" /\ wire' = [wire EXCEPT ![s] = "cut"]
  /\ UNCHANGED <<kind, cur, downlink, up, reader, at, temps, placed, procs, log>>

Pushes == {c \in Cmd : at[c] = "waiting"}

\* Abandon: the temporary file goes and Wait returns, without an error.
AbandonAllPushes ==
  /\ at' = [c \in Cmd |-> IF c \in Pushes THEN "abandoned" ELSE at[c]]
  /\ temps' = temps \ Pushes

\* A heartbeat fails, or the reader has returned: streamSession returns.
StreamSession(s) ==
  /\ cur = s /\ (wire[s] = "cut" \/ reader[s] = Gone)
  /\ cur' = 0 /\ wire' = [wire EXCEPT ![s] = "off"] /\ downlink' = [downlink EXCEPT ![s] = <<>>]
  /\ reader' = [reader EXCEPT ![s] = IF @ = Free THEN Gone ELSE @]
  /\ AbandonAllPushes
  /\ UNCHANGED <<kind, up, placed, procs, log>>

DispatchCommand(c, s) ==
  /\ at[c] = "new" /\ wire[s] = "up"
  /\ at' = [at EXCEPT ![c] = "queued"] /\ downlink' = [downlink EXCEPT ![s] = Append(@, c)]
  /\ UNCHANGED <<kind, cur, wire, up, reader, temps, placed, procs, log>>

\* stream.Send: what goes out on a broken stream is lost, on an ended one the
\* send fails and with it the reader.
Send(s, c, what, next) ==
  /\ up' = [up EXCEPT ![s] = IF wire[s] = "up" THEN Append(@, [cmd |-> c, what |-> what]) ELSE @]
  /\ reader' = [reader EXCEPT ![s] = IF wire[s] = "off" THEN Gone ELSE next]
  /\ UNCHANGED <<kind, cur, wire, log>>

\* Mutant of SendResult: the result goes to the stream that is current.
SendResultOnCurrent(s, c, status) ==
  LET t == IF cur = 0 THEN s ELSE cur
  IN  /\ up' = [up EXCEPT ![t] = IF wire[t] = "up" THEN Append(@, [cmd |-> c, what |-> status]) ELSE @]
      /\ reader' = [reader EXCEPT ![s] = IF wire[s] = "off" THEN Gone ELSE Free]
      /\ UNCHANGED <<kind, cur, wire, log>>

\* The final result: the reader goes back to Recv.
SendResult(s, c, status) == Send(s, c, status, Free)

\* The gate has let the command pass.
HandleCommand(s) ==
  /\ reader[s] = Free /\ wire[s] # "off" /\ downlink[s] # <<>>
  /\ LET c == Head(downlink[s]) IN
       /\ downlink' = [downlink EXCEPT ![s] = Tail(@)] /\ at' = [at EXCEPT ![c] = "start"]
       /\ Send(s, c, "RECEIVED", c)
  /\ UNCHANGED <<temps, placed, procs>>

\* The reader of s is at a step of a command of kind k.
Handling(s, k, step) == reader[s] \in Cmd /\ kind[reader[s]] = k /\ at[reader[s]] = step

Step(c, next) == at' = [at EXCEPT ![c] = next]

(***************************************************************************)
(* run_script.                                                             *)
(***************************************************************************)

\* No interpreter, no temporary directory, or no process.
InterpreterMissing(s) ==
  /\ Handling(s, "script", "start") /\ SendResult(s, reader[s], "FAILED")
  /\ UNCHANGED <<downlink, at, temps, placed, procs>>

\* A script may leave children: in its process group, or out of it.
RunScript(s) ==
  /\ Handling(s, "script", "start") /\ Step(reader[s], "run")
  /\ \E more \in SUBSET {"child", "daemon"} : procs' = [procs EXCEPT ![reader[s]] = {"script"} \cup more]
  /\ UNCHANGED <<kind, cur, wire, downlink, up, reader, temps, placed, log>>

ScriptExits(c) ==
  /\ "script" \in procs[c] /\ procs' = [procs EXCEPT ![c] = @ \ {"script"}]
  /\ \E code \in {"exit0", "exit1"} : Step(c, code)
  /\ UNCHANGED <<kind, cur, wire, downlink, up, reader, temps, placed, log>>

ChildExits(c) ==
  /\ \E p \in procs[c] \cap {"child", "daemon"} : procs' = [procs EXCEPT ![c] = @ \ {p}]
  /\ UNCHANGED <<kind, cur, wire, downlink, up, reader, at, temps, placed, log>>

\* Mutant of KillProcessGroup: the script alone.
KillScript(c) == procs[c] \ {"script"}

\* What is left after a SIGKILL to the group.
KillProcessGroup(c) == procs[c] \cap {"daemon"}

\* TimeoutFor: there is always a deadline.
Timeout(s) ==
  /\ \E step \in {"run", "exit0", "exit1"} : Handling(s, "script", step)
  /\ Step(reader[s], "killed") /\ procs' = [procs EXCEPT ![reader[s]] = KillProcessGroup(reader[s])]
  /\ UNCHANGED <<kind, cur, wire, downlink, up, reader, temps, placed, log>>

\* cmd.Wait returns when the output is closed, by everyone who holds it.
RunScriptCommand(s) ==
  /\ reader[s] \in Cmd /\ procs[reader[s]] = {}
  /\ \/ Handling(s, "script", "exit0") /\ SendResult(s, reader[s], "SUCCEEDED")
     \/ Handling(s, "script", "exit1") /\ SendResult(s, reader[s], "FAILED")
     \/ Handling(s, "script", "killed") /\ SendResult(s, reader[s], "TIMED_OUT")
  /\ UNCHANGED <<downlink, at, temps, placed, procs>>

(***************************************************************************)
(* file_pull and file_push.                                                *)
(***************************************************************************)

\* Missing, not a regular file, too large; or a read fails half way.
PullRefused(s) ==
  /\ \E step \in {"start", "reading"} : Handling(s, "pull", step)
  /\ SendResult(s, reader[s], "FAILED")
  /\ UNCHANGED <<downlink, at, temps, placed, procs>>

Sent(s, c, what) == Len(SelectSeq(up[s], LAMBDA f : f.cmd = c /\ f.what = what))
                    + Len(SelectSeq(log[c], LAMBDA w : w = what))

\* The file may grow or shrink while it is read: only its end ends the loop,
\* with a chunk that says so.
SendPull(s) ==
  /\ \E step \in {"start", "reading"} : Handling(s, "pull", step)
  /\ \/ /\ Sent(s, reader[s], "chunk") < MaxChunk /\ Step(reader[s], "reading")
        /\ Send(s, reader[s], "chunk", reader[s])
     \/ Step(reader[s], "read") /\ Send(s, reader[s], "eof", reader[s])
  /\ UNCHANGED <<downlink, temps, placed, procs>>

FilePullCommand(s) ==
  /\ Handling(s, "pull", "read") /\ SendResult(s, reader[s], "SUCCEEDED")
  /\ UNCHANGED <<downlink, at, temps, placed, procs>>

\* No temporary file: the directory is missing or not writable.
CreateTempFails(s) ==
  /\ \E k \in {"push", "chunked"} : Handling(s, k, "start")
  /\ SendResult(s, reader[s], "FAILED")
  /\ UNCHANGED <<downlink, at, temps, placed, procs>>

InlinePush(s) ==
  /\ Handling(s, "push", "start") /\ Step(reader[s], "written") /\ temps' = temps \cup {reader[s]}
  /\ UNCHANGED <<kind, cur, wire, downlink, up, reader, placed, procs, log>>

\* The write or the rename fails: the temporary file goes.
WriteFails(s) ==
  /\ Handling(s, "push", "written") /\ temps' = temps \ {reader[s]}
  /\ SendResult(s, reader[s], "FAILED")
  /\ UNCHANGED <<downlink, at, placed, procs>>

\* A mode that is not octal is found out after the rename.
ParseMode == {"SUCCEEDED", "FAILED"}

WriteContent(s) ==
  /\ Handling(s, "push", "written")
  /\ temps' = temps \ {reader[s]} /\ placed' = placed \cup {reader[s]}
  /\ \E status \in ParseMode : SendResult(s, reader[s], status)
  /\ UNCHANGED <<downlink, at, procs>>

\* The chunks of a push would come through this reader, which now waits for
\* them: only the end of the stream ends the wait.
StartPush(s) ==
  /\ Handling(s, "chunked", "start") /\ Step(reader[s], "waiting") /\ temps' = temps \cup {reader[s]}
  /\ UNCHANGED <<kind, cur, wire, downlink, up, reader, placed, procs, log>>

\* Wait saw no error, so the abandoned push has succeeded.
FilePushCommand(s) ==
  /\ Handling(s, "chunked", "abandoned") /\ SendResult(s, reader[s], "SUCCEEDED")
  /\ UNCHANGED <<downlink, at, temps, placed, procs>>

(***************************************************************************)
(* The server's end of a stream.                                           *)
(***************************************************************************)

\* Chunks of a pull nobody began are dropped, and nobody begins one.
Recv(s) ==
  /\ up[s] # <<>> /\ up' = [up EXCEPT ![s] = Tail(@)]
  /\ LET f == Head(up[s]) IN log' = [log EXCEPT ![f.cmd] = Append(@, f.what)]
  /\ UNCHANGED <<kind, cur, wire, downlink, reader, at, temps, placed, procs>>

\* The server notices the end: the context of the handler is done.
HandlerEnds(s) ==
  /\ wire[s] \in {"cut", "off"} /\ up[s] # <<>> /\ up' = [up EXCEPT ![s] = <<>>]
  /\ UNCHANGED <<kind, cur, wire, downlink, reader, at, temps, placed, procs, log>>

Scripts(s) == InterpreterMissing(s) \/ RunScript(s) \/ Timeout(s) \/ RunScriptCommand(s)
Files(s) == \/ PullRefused(s) \/ SendPull(s) \/ FilePullCommand(s) \/ CreateTempFails(s)
            \/ InlinePush(s) \/ WriteFails(s) \/ WriteContent(s) \/ StartPush(s) \/ FilePushCommand(s)
Reading(s) == HandleCommand(s) \/ Scripts(s) \/ Files(s)

ActNext ==
  \/ \E s \in Stream : \/ Reading(s) \/ Recv(s) \/ HandlerEnds(s)
                       \/ OpenStream(s) \/ Cut(s) \/ StreamSession(s)
                       \/ \E c \in Cmd : DispatchCommand(c, s)
  \/ \E c \in Cmd : ScriptExits(c) \/ ChildExits(c)

ActSpec == ActInit /\ [][ActNext]_actVars

(***************************************************************************)
(* Properties.                                                             *)
(***************************************************************************)

\* What has to be the case when a command is said to have succeeded.
Effect(c) ==
  CASE kind[c] = "script" -> at[c] = "exit0" /\ procs[c] = {}
    [] kind[c] \in {"push", "chunked"} -> c \in placed /\ c \notin temps
    [] kind[c] = "pull" -> "eof" \in ToSet(log[c])

\* handleCommand: a SUCCEEDED the server has handled is true (the script ran
\* to its end, the content is in place, the last chunk was handled before), and
\* no push that the end of its stream abandons comes out as one.
SucceededIsTrue == \A c \in Cmd : "SUCCEEDED" \in ToSet(log[c]) => Effect(c)

Held(s) == reader[s] \in Cmd /\ (at[reader[s]] = "waiting" \/ "daemon" \in procs[reader[s]])

\* The steps at which a handler goes on whatever anybody else does: a script
\* that does not end has its deadline.
Onward ==
  [script |-> {"start", "run", "exit0", "exit1"}, pull |-> {"start", "reading", "read"},
   push |-> {"start", "written"}, chunked |-> {"start", "abandoned"}]

GoesOn(s) ==
  /\ reader[s] \in Cmd
  /\ LET c == reader[s] IN at[c] \in Onward[kind[c]] \/ (at[c] = "killed" /\ procs[c] = {})

GoesOnUnlessHeld == \A s \in Stream : reader[s] \in Cmd => GoesOn(s) \/ Held(s)

\* handleCommand: the reader, which alone takes commands off a stream, is stuck in
\* one only while a push waits for chunks or a process that left the script's
\* group keeps its output open; every other command ends by its deadline.
StuckOnlyWhenHeld == GoesOnUnlessHeld /\ \A s \in Stream : GoesOn(s) => ENABLED Reading(s)
=============================================================================
