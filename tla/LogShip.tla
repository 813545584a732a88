------------------------------ MODULE LogShip ------------------------------
(***************************************************************************)
(* The agent's log pipeline.  The agent appends structured lines to a      *)
(* file; the shipper (one goroutine) tails the file into a bounded queue   *)
(* and flushes batches to Loki and, as LogBatch frames, to the server,     *)
(* which indexes them in a bounded ring.  The offset of the file is kept   *)
(* in a state file so that a restarted agent resumes.  A second goroutine  *)
(* polls the operating system's event log and ships it on the same uplink. *)
(*                                                                         *)
(* File positions count half lines: 2*l is the end of line l, 2*l-1 lies   *)
(* inside it.  A line's number stands for its content-derived id and for   *)
(* its time stamp.                                                         *)
(***************************************************************************)
EXTENDS Naturals, Sequences, FiniteSets, SequencesExt

CONSTANTS
  MaxLine,     \* bound: lines the agent logs
  Junk,        \* line numbers that do not parse as a log event
  BatchSize,   \* lines of one flush (200 in the code)
  MaxPending,  \* capacity of the queue (4096 in the code)
  RingCap,     \* events the server's in-memory store keeps per device
  LokiOn,      \* RMMWAY_LOKI_URL is set
  MaxFault,    \* bound: failures of sinks, stream, disk and process
  MaxOs,       \* bound: events of the operating system's log
  OsTime,      \* event -> its time stamp
  OsLimit,     \* events one poll reads (50 in the code)
  MaxSeen,     \* ids kept for de-duplication (200 in the code)
  None

ASSUME LogAssumption ==
  /\ MaxLine \in Nat /\ BatchSize \in Nat \ {0} /\ MaxPending \in Nat \ {0}
  /\ RingCap \in Nat /\ MaxFault \in Nat /\ MaxOs \in Nat
  /\ LokiOn \in BOOLEAN /\ OsTime \in Seq(Nat) /\ Len(OsTime) >= MaxOs
  /\ OsLimit \in Nat \ {0} /\ MaxSeen \in Nat
  /\ None \notin Nat

VARIABLES
  written,   \* complete lines in the file
  half,      \* the next line is being written
  agent,     \* "up", "stopping" (context cancelled) or "down"
  offset,    \* next position the shipper reads
  partial,   \* the shipper holds the first half of a line
  queue,     \* lines read and not in a flush
  batch,     \* lines of the flush under way
  stage,     \* where the flush stands
  failed,    \* a sink refused this flush
  saved,     \* the offset in the state file, None if there is none
  live,      \* the uplink stream is up
  wire,      \* LogBatch frames sent and not handled by the server
  loki,      \* lines Loki holds
  indexed,   \* every line id the server's store was ever given
  ring,      \* line ids the server's in-memory store keeps
  pushed,    \* lines of flushes that both sinks accepted
  faults,    \* failures so far
  os,        \* events in the operating system's log
  osState,   \* the event tail's state file: last_ts and seen_ids
  osSent,    \* OS events handed to the uplink
  osIndexed  \* OS events the server has stored

fileVars == <<written, half>>
shipVars == <<offset, partial, queue, batch, stage, failed, saved, pushed>>
srvVars  == <<loki, indexed, ring>>
osVars   == <<os, osState, osSent, osIndexed>>
vars == <<fileVars, agent, shipVars, live, wire, srvVars, faults, osVars>>

Pos  == 0 .. 2 * MaxLine
Line == 1 .. MaxLine

TypeOK ==
  /\ written \in 0..MaxLine /\ half \in BOOLEAN
  /\ agent \in {"up", "stopping", "down"}
  /\ offset \in Pos /\ partial \in BOOLEAN
  /\ queue \in Seq(Line) /\ Len(queue) <= MaxPending
  /\ batch \in Seq(Line) /\ Len(batch) <= BatchSize
  /\ stage \in {"idle", "loki", "uplink", "done"} /\ failed \in BOOLEAN
  /\ saved \in Pos \cup {None}
  /\ live \in BOOLEAN
  /\ \A i \in DOMAIN wire : wire[i].kind \in {"log", "os"}
  /\ loki \cup pushed \subseteq Line /\ indexed \subseteq Line
  /\ ring \subseteq Line /\ Cardinality(ring) <= RingCap
  /\ faults \in 0..MaxFault
  /\ os \in 0..MaxOs /\ osIndexed \subseteq osSent /\ osSent \subseteq 1..os
  /\ osState.last_ts \in Nat /\ Len(osState.seen_ids) <= MaxSeen

Init ==
  /\ written = 0 /\ half = FALSE /\ agent = "up"
  /\ offset = 0 /\ partial = FALSE /\ queue = <<>> /\ saved = None
  /\ batch = <<>> /\ stage = "idle" /\ failed = FALSE
  /\ live = FALSE /\ wire = <<>>
  /\ loki = {} /\ indexed = {} /\ ring = {} /\ faults = 0 /\ pushed = {}
  /\ os = 0 /\ osSent = {} /\ osIndexed = {} /\ osState = [last_ts |-> 0, seen_ids |-> <<>>]

\* A failure of the environment, of which there are MaxFault.
Fault == faults < MaxFault /\ faults' = faults + 1

(***************************************************************************)
(* The file.                                                               *)
(***************************************************************************)

FilePos == 2 * written + (IF half THEN 1 ELSE 0)

\* A record reaches the file in one write, of which a reader may see half.
HandleStarts ==
  /\ agent # "down" /\ ~half /\ written < MaxLine
  /\ half' = TRUE
  /\ UNCHANGED <<written, agent, shipVars, live, wire, srvVars, faults, osVars>>

HandleEnds ==
  /\ half
  /\ half' = FALSE /\ written' = written + 1
  /\ UNCHANGED <<agent, shipVars, live, wire, srvVars, faults, osVars>>

(***************************************************************************)
(* The shipper.                                                            *)
(***************************************************************************)

\* A line parses as a log event.
ParseLine(l) == l \notin Junk

\* The elements of a set in the order of R: each follows those before it.
InOrder(S, R) ==
  [i \in 1..Cardinality(S) |-> CHOOSE x \in S : Cardinality({y \in S : <<y, x>> \in R}) = i - 1]

FileOrder == {p \in Line \X Line : p[1] < p[2]}

\* The complete lines between the read offset and the end of the file.  A
\* line whose first half was read by an earlier process does not parse.
NewLines ==
  LET torn(l) == 2 * l = offset + 1 /\ ~partial
  IN  InOrder({l \in 1..written : 2 * l > offset /\ ~torn(l) /\ ParseLine(l)}, FileOrder)

\* enqueue: the oldest lines give way.
Enqueue(q, lines) ==
  LET all == q \o lines
  IN  IF Len(all) <= MaxPending THEN all
      ELSE SubSeq(all, Len(all) - MaxPending + 1, Len(all))

RequeueForgets(q) == q

\* After a failed flush the batch goes back to the front; the newest give way.
Requeue(q) ==
  LET all == batch \o q IN SubSeq(all, 1, IF Len(all) < MaxPending THEN Len(all) ELSE MaxPending)

ReadNew ==
  /\ stage = "idle" /\ agent = "up" /\ offset < FilePos
  /\ queue' = Enqueue(queue, NewLines)
  /\ offset' = FilePos /\ partial' = half
  /\ UNCHANGED <<fileVars, agent, batch, stage, failed, saved, pushed, live, wire, srvVars, faults, osVars>>

TakeBatchShort(q) ==
  LET n == IF Len(q) < BatchSize - 1 THEN Len(q) ELSE BatchSize - 1
  IN  batch' = SubSeq(q, 1, n) /\ queue' = SubSeq(q, n + 1, Len(q))

\* The first lines of a queue become the batch of a flush.
TakeBatch(q) ==
  LET n == IF Len(q) < BatchSize THEN Len(q) ELSE BatchSize
  IN  batch' = SubSeq(q, 1, n) /\ queue' = SubSeq(q, n + 1, Len(q))

Flush ==
  /\ stage = "idle" /\ agent = "up" /\ queue # <<>>
  /\ TakeBatch(queue)
  /\ stage' = IF LokiOn THEN "loki" ELSE "uplink"
  /\ failed' = FALSE
  /\ UNCHANGED <<fileVars, agent, offset, partial, saved, pushed, live, wire, srvVars, faults, osVars>>

\* Cancelling the context: a last read and one last flush.
Stop ==
  /\ stage = "idle" /\ agent = "up" /\ Fault
  /\ LET q == Enqueue(queue, NewLines)
     IN  /\ TakeBatch(q)
         /\ stage' = IF q = <<>> THEN "idle" ELSE IF LokiOn THEN "loki" ELSE "uplink"
  /\ agent' = "stopping"
  /\ offset' = FilePos /\ partial' = half
  /\ failed' = FALSE
  /\ UNCHANGED <<fileVars, saved, pushed, live, wire, srvVars, osVars>>

\* Loki takes the batch, or refuses it; a cancelled context refuses it.
Push ==
  /\ stage = "loki" /\ stage' = "uplink"
  /\ \/ /\ agent = "up"
        /\ loki' = loki \cup Range(batch)
        /\ UNCHANGED <<failed, faults>>
     \/ /\ agent = "stopping" \/ faults < MaxFault
        /\ faults' = IF agent = "stopping" THEN faults ELSE faults + 1
        /\ failed' = TRUE /\ UNCHANGED loki
  /\ UNCHANGED <<fileVars, agent, offset, partial, queue, batch, saved, pushed, live, wire, indexed, ring, osVars>>

\* The frame is handed to the stream, which does not wait for the server.
PushLogs(kind, ids) ==
  /\ live
  /\ wire' = Append(wire, [kind |-> kind, ids |-> ids])

\* The uplinks the agent gives to the shipper and to the event tail.
ShipBatch(lines) == PushLogs("log", lines)
ShipEvents(evs) == PushLogs("os", evs)

Uplink ==
  /\ stage = "uplink" /\ stage' = "done"
  /\ \/ ShipBatch(batch) /\ UNCHANGED failed
     \/ ~live /\ failed' = TRUE /\ UNCHANGED wire
  /\ UNCHANGED <<fileVars, agent, offset, partial, queue, batch, saved, pushed, live, srvVars, faults, osVars>>

\* The state file receives the read offset, or the write fails.
WriteState ==
  \/ saved' = offset /\ UNCHANGED faults
  \/ Fault /\ UNCHANGED saved

FlushEnds ==
  /\ stage = "done" /\ stage' = "idle" /\ batch' = <<>>
  /\ \/ failed /\ queue' = Requeue(queue) /\ UNCHANGED <<saved, pushed, faults>>
     \/ ~failed /\ WriteState /\ pushed' = pushed \cup Range(batch) /\ UNCHANGED queue
  /\ UNCHANGED <<fileVars, agent, offset, partial, failed, live, wire, srvVars, osVars>>

RunReturns ==
  /\ stage = "idle" /\ agent = "stopping" /\ agent' = "down"
  /\ UNCHANGED <<fileVars, shipVars, live, wire, srvVars, faults, osVars>>

(***************************************************************************)
(* The process, the stream and the server.                                 *)
(***************************************************************************)

\* The process dies; a write to the file that was under way completes.
Crash ==
  /\ agent # "down" /\ Fault /\ agent' = "down"
  /\ written' = written + (IF half THEN 1 ELSE 0) /\ half' = FALSE
  /\ stage' = "idle" /\ batch' = <<>> /\ live' = FALSE
  /\ UNCHANGED <<offset, partial, queue, failed, saved, pushed, wire, srvVars, osVars>>

\* A new shipper: the offset is the saved one, or the start of the file when
\* there is none or the file has become shorter.
New ==
  /\ agent = "down" /\ ~half
  /\ agent' = "up" /\ live' = FALSE
  /\ offset' = IF saved = None \/ saved > FilePos THEN 0 ELSE saved
  /\ partial' = FALSE /\ queue' = <<>> /\ failed' = FALSE
  /\ UNCHANGED <<fileVars, batch, stage, saved, pushed, wire, srvVars, faults, osVars>>

Connect ==
  /\ agent # "down" /\ ~live /\ live' = TRUE /\ wire' = <<>>
  /\ UNCHANGED <<fileVars, agent, shipVars, srvVars, faults, osVars>>

\* The stream breaks, with it the frames that were not handled.
Disconnect ==
  /\ live /\ Fault /\ live' = FALSE
  /\ \E n \in 0..Len(wire) : wire' = SubSeq(wire, 1, n)
  /\ UNCHANGED <<fileVars, agent, shipVars, srvVars, osVars>>

\* The n greatest members of a set of numbers: newest first, capped.
Newest(S, n) == {l \in S : Cardinality({m \in S : m > l}) < n}

MemoryWriteCapsFirst(ids) == ring' = Newest(ring, RingCap - Cardinality(ids)) \cup ids

\* The in-memory store: new ids are merged, sorted by time and capped.
MemoryWrite(ids) == ring' = Newest(ring \cup ids, RingCap)

\* The newest events of a device, from the ring and from the table.
Recent(limit) == Newest(ring, limit)
PostgresRecent(limit) == Newest(indexed, limit)

\* The table: an id that is already there is left alone.
PostgresWrite(ids) == indexed' = indexed \cup ids

\* The handler stores the batch; a failing store is logged, and the frame gone.
RecvLogs ==
  /\ wire # <<>> /\ wire' = Tail(wire)
  /\ LET b == Head(wire)
         ids == Range(b.ids)
     IN  \/ /\ b.kind = "log" /\ MemoryWrite(ids) /\ PostgresWrite(ids)
            /\ UNCHANGED <<osIndexed, faults>>
         \/ b.kind = "os" /\ osIndexed' = osIndexed \cup ids /\ UNCHANGED <<indexed, ring, faults>>
         \/ Fault /\ UNCHANGED <<indexed, ring, osIndexed>>
  /\ UNCHANGED <<fileVars, agent, shipVars, live, loki, os, osState, osSent>>

(***************************************************************************)
(* The tail of the operating system's event log.                           *)
(***************************************************************************)

OsLogs ==
  /\ os < MaxOs /\ os' = os + 1
  /\ UNCHANGED <<fileVars, agent, shipVars, live, wire, srvVars, faults, osState, osSent, osIndexed>>

\* The reader returns the most recent events.
Read(limit) == {e \in 1..os : e + limit > os}

FreshStrictly(S) == {e \in S : e \notin Range(osState.seen_ids) /\ OsTime[e] > osState.last_ts}

\* Events the state file does not rule out.
Fresh(S) == {e \in S : e \notin Range(osState.seen_ids) /\ OsTime[e] >= osState.last_ts}

\* Oldest first, by time stamp.
TimeOrder ==
  {p \in (1..MaxOs) \X (1..MaxOs) :
     OsTime[p[1]] < OsTime[p[2]] \/ (OsTime[p[1]] = OsTime[p[2]] /\ p[1] < p[2])}

ByTime(S) == InOrder(S, TimeOrder)

\* The state after a batch was sent: the last ids, and the newest time stamp.
Advance(evs) ==
  LET ids == osState.seen_ids \o evs
      n   == Len(ids)
  IN  [last_ts |-> OsTime[Last(evs)], seen_ids |-> SubSeq(ids, IF n > MaxSeen THEN n - MaxSeen + 1 ELSE 1, n)]

Poll ==
  /\ agent = "up"
  /\ LET fresh == Fresh(Read(OsLimit))
     IN  /\ fresh # {}
         /\ ShipEvents(ByTime(fresh))
         /\ osSent' = osSent \cup fresh
         /\ \/ osState' = Advance(ByTime(fresh)) /\ UNCHANGED faults
            \/ Fault /\ UNCHANGED osState
  /\ UNCHANGED <<fileVars, agent, shipVars, live, srvVars, os, osIndexed>>

Next ==
  \/ HandleStarts \/ HandleEnds
  \/ ReadNew \/ Flush \/ Push \/ Uplink \/ FlushEnds
  \/ Stop \/ RunReturns \/ Crash \/ New \/ Connect \/ Disconnect
  \/ RecvLogs \/ OsLogs \/ Poll

\* The tickers of the shipper and of the event tail fire again and again, the
\* service manager restarts the agent, the uplink reconnects, the server's
\* receive loop handles what arrives, and a write that began completes.
Fairness ==
  /\ WF_vars(HandleEnds) /\ WF_vars(ReadNew) /\ WF_vars(Flush)
  /\ WF_vars(Push) /\ WF_vars(Uplink) /\ WF_vars(FlushEnds)
  /\ WF_vars(RunReturns) /\ WF_vars(New) /\ WF_vars(Connect) /\ WF_vars(RecvLogs) /\ WF_vars(Poll)

Spec == Init /\ [][Next]_vars /\ Fairness

(***************************************************************************)
(* Properties.                                                             *)
(***************************************************************************)

\* Log events among the lines that were logged, the one being written included.
Logged == {l \in 1 .. written + (IF half THEN 1 ELSE 0) : ParseLine(l)}

\* Where a shipper reads on: a stopped one is replaced by one that starts at
\* the saved offset with nothing in memory.
ReadFrom == IF agent # "down" THEN offset ELSE IF saved = None \/ saved > FilePos THEN 0 ELSE saved

\* Lines that are held in memory or will be read from the file in one piece.
Owed ==
  LET held == agent # "down"
      torn(l) == 2 * l = ReadFrom + 1 /\ ~(held /\ partial)
  IN  {l \in Logged : \/ held /\ l \in Range(queue) \cup Range(batch)
                      \/ 2 * l > ReadFrom /\ ~torn(l)}

\* The shipper, with its file, offset, batches, retries and caps, implements
\* the promise of LogDelivery: while the agent runs, a line that was logged
\* leaves the debt only by being accepted by both sinks, or over the cap.
Promise == INSTANCE LogDelivery WITH
  Line <- Line, Cap <- MaxPending, logged <- Logged, owed <- Owed,
  accepted <- pushed, running <- agent # "down"

KeepsPromise == Promise!Spec

\* flush and readNew: while agent and sinks recover from their failures, no
\* line stays in the queue, in a batch or unread in the file for ever.
OwedIsSettled == \A l \in Line : (l \in Owed) ~> (l \notin Owed)

\* MemoryLogStore: re-sent, late and repeated batches leave the device's page
\* showing what the table would show: the newest of all events ever received.
RecentIsNewest == Recent(RingCap) = PostgresRecent(RingCap)

\* Tail.poll: an event that is still in the reader's window and was never
\* sent is not ruled out by the saved time stamp and ids, whatever failed
\* between sending a batch and saving the state.
UnsentStaysFresh == Read(OsLimit) \ osSent \subseteq Fresh(Read(OsLimit))
=============================================================================
