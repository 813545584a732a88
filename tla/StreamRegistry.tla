--------------------------- MODULE StreamRegistry ---------------------------
(***************************************************************************)
(* The server's registry of live agent streams: one handler goroutine      *)
(* (Service.Stream) and one downlink pump goroutine per connection, the    *)
(* map streamW under Service.mu, the downlink channel each connection      *)
(* owns, the presence row in the device store with its offline sweeper,    *)
(* and the inventory events ("online", "offline") put on the bus.          *)
(*                                                                         *)
(* A connection slot c \in Conn is reused once its handler and its pump    *)
(* have both ended.  The authentication that precedes registration has no  *)
(* effect on this state, so a refused stream is a stuttering step.         *)
(***************************************************************************)
EXTENDS Naturals, Sequences

CONSTANTS
  Device,     \* enrolled device ids
  Conn,       \* connection slots
  Frame,      \* downlink frames dispatch may push (commands, controls)
  Ack,        \* the heartbeat acknowledgement frame
  ChanCap,    \* capacity of a downlink channel (16 in the code)
  Window,     \* frames the transport accepts before Send blocks
  None

ASSUME ConstAssumption ==
  /\ None \notin Device \cup Conn
  /\ ChanCap \in Nat \ {0}
  /\ Window \in Nat \ {0}

VARIABLES
  server,     \* "up", "down" (stopped) or "panicked"
  dev,        \* connection -> device id its JWT carries
  pc,         \* connection -> where its handler stands
  streamW,    \* device -> registered connection or None
  ch,         \* connection -> contents of its downlink channel
  closed,     \* connection -> the channel has been closed
  cancelled,  \* connection -> the handler's context is done
  pump,       \* connection -> "run" or "done"
  peer,       \* connection -> the agent's end is still connected
  downlink,   \* connection -> frames sent and not yet read by the agent
  presence,   \* device -> "offline", or online with last_seen fresh / stale
  swept,      \* devices flipped by the sweeper, events still to publish
  event       \* device -> last inventory event on the bus

connVars == <<dev, pc, ch, closed, cancelled, pump, peer, downlink>>
vars == <<server, streamW, connVars, presence, swept, event>>

HandlerPC == {"online", "recv", "ack", "blocked", "defer", "offline", "done"}

TypeOK ==
  /\ server \in {"up", "down", "panicked"}
  /\ dev \in [Conn -> Device \cup {None}]
  /\ pc \in [Conn -> HandlerPC]
  /\ streamW \in [Device -> Conn \cup {None}]
  /\ ch \in [Conn -> Seq(Frame \cup {Ack})]
  /\ closed \in [Conn -> BOOLEAN]
  /\ cancelled \in [Conn -> BOOLEAN]
  /\ pump \in [Conn -> {"run", "done"}]
  /\ peer \in [Conn -> {"up", "down"}]
  /\ downlink \in [Conn -> Seq(Frame \cup {Ack})]
  /\ presence \in [Device -> {"offline", "stale", "fresh"}]
  /\ swept \in SUBSET Device
  /\ event \in [Device -> {"none", "online", "offline"}]

\* The value every connection has, while the process serves none.
Idle(v) == [c \in Conn |-> v]

Init ==
  /\ server = "up"
  /\ streamW = [d \in Device |-> None]
  /\ dev = Idle(None) /\ pc = Idle("done") /\ ch = Idle(<<>>)
  /\ closed = Idle(TRUE) /\ cancelled = Idle(TRUE) /\ pump = Idle("done")
  /\ peer = Idle("down") /\ downlink = Idle(<<>>)
  /\ presence = [d \in Device |-> "offline"]
  /\ swept = {}
  /\ event = [d \in Device |-> "none"]

\* The process ends in state s: only the device rows and the bus survive.
Stop(s) ==
  /\ server' = s
  /\ streamW' = [d \in Device |-> None]
  /\ dev' = Idle(None) /\ pc' = Idle("done") /\ ch' = Idle(<<>>)
  /\ closed' = Idle(TRUE) /\ cancelled' = Idle(TRUE) /\ pump' = Idle("done")
  /\ peer' = Idle("down") /\ downlink' = Idle(<<>>)
  /\ swept' = {}
  /\ UNCHANGED <<presence, event>>

-----------------------------------------------------------------------------
(* Service.Stream: registration.                                           *)

\* A handler whose select waits on the full channel: nothing has woken it.
Waiting(c) == pc[c] = "blocked" /\ pump[c] = "run" /\ ~cancelled[c]

\* Mutant of Register: the superseded stream's channel is not closed.
RegisterLeavesOpen(c, d) ==
  LET evicted(x) == x = streamW[d] IN
  /\ dev' = [dev EXCEPT ![c] = d]
  /\ pc' = [pc EXCEPT ![c] = "online"]
  /\ ch' = [ch EXCEPT ![c] = <<>>]
  /\ closed' = [closed EXCEPT ![c] = FALSE]
  /\ cancelled' = [x \in Conn |-> x # c /\ (cancelled[x] \/ evicted(x))]
  /\ pump' = [pump EXCEPT ![c] = "run"]
  /\ peer' = [peer EXCEPT ![c] = "up"]
  /\ downlink' = [downlink EXCEPT ![c] = <<>>]
  /\ streamW' = [streamW EXCEPT ![d] = c]
  /\ UNCHANGED <<server, presence, swept, event>>

\* Register c for d under mu.  The stream it supersedes has its channel
\* closed and its context cancelled.
Register(c, d) ==
  LET evicted(x) == x = streamW[d] IN
  /\ dev' = [dev EXCEPT ![c] = d]
  /\ pc' = [pc EXCEPT ![c] = "online"]
  /\ ch' = [ch EXCEPT ![c] = <<>>]
  /\ closed' = [x \in Conn |-> x # c /\ (closed[x] \/ evicted(x))]
  /\ cancelled' = [x \in Conn |-> x # c /\ (cancelled[x] \/ evicted(x))]
  /\ pump' = [pump EXCEPT ![c] = "run"]
  /\ peer' = [peer EXCEPT ![c] = "up"]
  /\ downlink' = [downlink EXCEPT ![c] = <<>>]
  /\ streamW' = [streamW EXCEPT ![d] = c]
  /\ UNCHANGED <<server, presence, swept, event>>

\* Closing a channel on which a handler waits panics that handler, which
\* ends the process before the newer stream is registered.
Open(c, d) ==
  /\ pc[c] = "done" /\ pump[c] = "done"
  /\ IF streamW[d] # None /\ Waiting(streamW[d])
     THEN Stop("panicked")
     ELSE Register(c, d)

\* DeviceStore.Touch with the handler's context: a done context fails it,
\* and the handler ignores the error.
Touch(c) ==
  presence' = IF cancelled[c] THEN presence
              ELSE [presence EXCEPT ![dev[c]] = "fresh"]

\* Touch and the "online" event, after the lock was released.
EmitOnline(c) ==
  /\ pc[c] = "online"
  /\ Touch(c)
  /\ event' = [event EXCEPT ![dev[c]] = "online"]
  /\ pc' = [pc EXCEPT ![c] = "recv"]
  /\ UNCHANGED <<server, streamW, dev, ch, closed, cancelled, pump, peer,
                 downlink, swept>>

-----------------------------------------------------------------------------
(* The receive loop.                                                       *)

\* A heartbeat: Touch, then the select that queues the ack.  A frame that
\* is already buffered may win the select against a done context.
RecvHeartbeat(c) ==
  /\ pc[c] = "recv"
  /\ Touch(c)
  /\ pc' = [pc EXCEPT ![c] = "ack"]
  /\ UNCHANGED <<server, streamW, dev, ch, closed, cancelled, pump, peer,
                 downlink, swept, event>>

\* ctx.Done (superseded or dropped) or an error of Recv: the handler returns.
RecvEnds(c) ==
  /\ pc[c] = "recv"
  /\ cancelled[c] \/ peer[c] = "down"
  /\ pc' = [pc EXCEPT ![c] = "defer"]
  /\ UNCHANGED <<server, streamW, dev, ch, closed, cancelled, pump, peer,
                 downlink, presence, swept, event>>

\* The ack fits in the open channel.
AckQueued(c) ==
  /\ pc[c] \in {"ack", "blocked"}
  /\ ~closed[c] /\ Len(ch[c]) < ChanCap
  /\ ch' = [ch EXCEPT ![c] = Append(@, Ack)]
  /\ pc' = [pc EXCEPT ![c] = "recv"]
  /\ UNCHANGED <<server, streamW, dev, closed, cancelled, pump, peer,
                 downlink, presence, swept, event>>

\* No case of the select is ready: the handler waits.
AckBlocks(c) ==
  /\ pc[c] = "ack"
  /\ ~closed[c] /\ Len(ch[c]) = ChanCap
  /\ pump[c] = "run" /\ ~cancelled[c]
  /\ pc' = [pc EXCEPT ![c] = "blocked"]
  /\ UNCHANGED <<server, streamW, dev, ch, closed, cancelled, pump, peer,
                 downlink, presence, swept, event>>

\* pumpDone or ctx.Done is ready: the handler returns without the ack.
AckAbandoned(c) ==
  /\ pc[c] \in {"ack", "blocked"}
  /\ pump[c] = "done" \/ cancelled[c]
  /\ pc' = [pc EXCEPT ![c] = "defer"]
  /\ UNCHANGED <<server, streamW, dev, ch, closed, cancelled, pump, peer,
                 downlink, presence, swept, event>>

\* A send case on a closed channel counts as ready; chosen, it panics.
AckPanics(c) ==
  /\ pc[c] = "ack" /\ closed[c]
  /\ Stop("panicked")

-----------------------------------------------------------------------------
(* The deferred teardown.                                                  *)

\* Mutant of Defer: the map entry is not deleted.
DeferKeepsEntry(c) ==
  LET wasCurrent == streamW[dev[c]] = c IN
  /\ pc[c] = "defer"
  /\ cancelled' = [cancelled EXCEPT ![c] = TRUE]
  /\ closed' = [closed EXCEPT ![c] = @ \/ wasCurrent]
  /\ pc' = [pc EXCEPT ![c] = IF wasCurrent THEN "offline" ELSE "done"]
  /\ dev' = [dev EXCEPT ![c] = IF wasCurrent THEN @ ELSE None]
  /\ UNCHANGED <<server, streamW, ch, pump, peer, downlink, presence, swept,
                 event>>

\* Mutant of Defer: no check that no newer stream took the entry over.
DeferUnconditional(c) ==
  LET d == dev[c] IN
  /\ pc[c] = "defer"
  /\ cancelled' = [cancelled EXCEPT ![c] = TRUE]
  /\ closed' = [closed EXCEPT ![c] = TRUE]
  /\ streamW' = [streamW EXCEPT ![d] = None]
  /\ pc' = [pc EXCEPT ![c] = "offline"]
  /\ UNCHANGED <<server, dev, ch, pump, peer, downlink, presence, swept, event>>

\* cancel, then under mu: close and unregister if no newer stream did.
Defer(c) ==
  LET d == dev[c]
      wasCurrent == streamW[d] = c IN
  /\ pc[c] = "defer"
  /\ cancelled' = [cancelled EXCEPT ![c] = TRUE]
  /\ closed' = [closed EXCEPT ![c] = @ \/ wasCurrent]
  /\ streamW' = IF wasCurrent THEN [streamW EXCEPT ![d] = None] ELSE streamW
  /\ pc' = [pc EXCEPT ![c] = IF wasCurrent THEN "offline" ELSE "done"]
  /\ dev' = [dev EXCEPT ![c] = IF wasCurrent THEN d ELSE None]
  /\ UNCHANGED <<server, ch, pump, peer, downlink, presence, swept, event>>

\* The "offline" event, after the lock was released.
EmitOffline(c) ==
  /\ pc[c] = "offline"
  /\ event' = [event EXCEPT ![dev[c]] = "offline"]
  /\ pc' = [pc EXCEPT ![c] = "done"]
  /\ dev' = [dev EXCEPT ![c] = None]
  /\ UNCHANGED <<server, streamW, ch, closed, cancelled, pump, peer, downlink,
                 presence, swept>>

-----------------------------------------------------------------------------
(* The downlink pump: the only caller of stream.Send.                      *)

\* Take a frame, also from a closed channel, and send it.
PumpSend(c) ==
  /\ pump[c] = "run" /\ ch[c] # <<>>
  /\ peer[c] = "up" /\ pc[c] # "done"
  /\ Len(downlink[c]) < Window
  /\ ch' = [ch EXCEPT ![c] = Tail(@)]
  /\ downlink' = [downlink EXCEPT ![c] = Append(@, Head(ch[c]))]
  /\ UNCHANGED <<server, streamW, dev, pc, closed, cancelled, pump, peer,
                 presence, swept, event>>

\* Send fails on a finished stream: the frame is lost and the pump stops.
PumpFails(c) ==
  /\ pump[c] = "run" /\ ch[c] # <<>>
  /\ peer[c] = "down" \/ pc[c] = "done"
  /\ ch' = [ch EXCEPT ![c] = Tail(@)]
  /\ pump' = [pump EXCEPT ![c] = "done"]
  /\ UNCHANGED <<server, streamW, dev, pc, closed, cancelled, peer, downlink,
                 presence, swept, event>>

\* The range over a closed and empty channel ends.
PumpDrained(c) ==
  /\ pump[c] = "run" /\ closed[c] /\ ch[c] = <<>>
  /\ pump' = [pump EXCEPT ![c] = "done"]
  /\ UNCHANGED <<server, streamW, dev, pc, ch, closed, cancelled, peer,
                 downlink, presence, swept, event>>

-----------------------------------------------------------------------------
(* Dispatch: Service.Push and Service.SendSessionControl.                  *)

\* Push succeeds: mu is held and the registered channel has room.
Reachable(d) == streamW[d] # None /\ Len(ch[streamW[d]]) < ChanCap

\* The non-blocking send to the registered channel.  If that channel were
\* closed the send would panic.
Push(d, f) ==
  /\ Reachable(d)
  /\ IF closed[streamW[d]]
     THEN Stop("panicked")
     ELSE /\ ch' = [ch EXCEPT ![streamW[d]] = Append(@, f)]
          /\ UNCHANGED <<server, streamW, dev, pc, closed, cancelled, pump,
                         peer, downlink, presence, swept, event>>

-----------------------------------------------------------------------------
(* The agent's end, the sweeper, time and the process itself.              *)

\* The agent reads one downlink frame.
AgentRecv(c) ==
  /\ peer[c] = "up" /\ downlink[c] # <<>>
  /\ downlink' = [downlink EXCEPT ![c] = Tail(@)]
  /\ UNCHANGED <<server, streamW, dev, pc, ch, closed, cancelled, pump, peer,
                 presence, swept, event>>

\* The agent's end goes away: the transport cancels the stream's context.
PeerDrops(c) ==
  /\ pc[c] # "done" /\ peer[c] = "up"
  /\ peer' = [peer EXCEPT ![c] = "down"]
  /\ cancelled' = [cancelled EXCEPT ![c] = TRUE]
  /\ downlink' = [downlink EXCEPT ![c] = <<>>]
  /\ UNCHANGED <<server, streamW, dev, pc, ch, closed, pump, presence, swept,
                 event>>

\* Three heartbeat intervals (at least 90 s) pass without a Touch.
GoesStale(d) ==
  /\ presence[d] = "fresh"
  /\ presence' = [presence EXCEPT ![d] = "stale"]
  /\ UNCHANGED <<server, streamW, connVars, swept, event>>

\* Mutant of SweepOffline: stale devices are selected but never flipped.
SweepSelectsOnly ==
  /\ swept = {}
  /\ \E d \in Device : presence[d] = "stale"
  /\ swept' = {d \in Device : presence[d] = "stale"}
  /\ UNCHANGED <<server, streamW, connVars, presence, event>>

\* SweepOffline: one UPDATE flips every stale online device.
SweepOffline ==
  /\ swept = {}
  /\ \E d \in Device : presence[d] = "stale"
  /\ swept' = {d \in Device : presence[d] = "stale"}
  /\ presence' = [d \in Device |->
                    IF presence[d] = "stale" THEN "offline" ELSE presence[d]]
  /\ UNCHANGED <<server, streamW, connVars, event>>

\* The sweeper's loop publishes one event per flipped device.
PublishSwept(d) ==
  /\ d \in swept
  /\ event' = [event EXCEPT ![d] = "offline"]
  /\ swept' = swept \ {d}
  /\ UNCHANGED <<server, streamW, connVars, presence>>

\* The process is stopped, or dies, between any two steps.
Crash == Stop("down")

Restart ==
  /\ server # "up"
  /\ server' = "up"
  /\ UNCHANGED <<streamW, connVars, presence, swept, event>>

-----------------------------------------------------------------------------
HandlerStep(c) ==
  \/ EmitOnline(c) \/ AckQueued(c) \/ AckBlocks(c) \/ AckAbandoned(c)
  \/ AckPanics(c) \/ Defer(c) \/ EmitOffline(c)

PumpStep(c) == PumpSend(c) \/ PumpFails(c) \/ PumpDrained(c)

ConnStep(c) ==
  \/ HandlerStep(c) \/ PumpStep(c) \/ RecvHeartbeat(c) \/ RecvEnds(c)
  \/ AgentRecv(c) \/ PeerDrops(c)
  \/ \E d \in Device : Open(c, d)

DeviceStep(d) ==
  \/ GoesStale(d) \/ PublishSwept(d)
  \/ \E f \in Frame : Push(d, f)

Running == SweepOffline \/ Crash \/ (\E c \in Conn : ConnStep(c))
                        \/ (\E d \in Device : DeviceStep(d))

Next == (server = "up" /\ Running) \/ Restart

\* Goroutines are scheduled; the Go select picks at random among its ready
\* cases, so a receive loop whose context stays done cannot ignore it for
\* ever; time passes, the sweeper ticks, and a supervisor restarts the
\* process.  Nothing is assumed of the agent.
Up(A) == server = "up" /\ A

Fairness ==
  /\ \A c \in Conn : /\ WF_vars(Up(HandlerStep(c)))
                     /\ WF_vars(Up(PumpStep(c)))
                     /\ SF_vars(Up(RecvEnds(c)))
  /\ \A d \in Device : WF_vars(Up(GoesStale(d))) /\ WF_vars(Up(PublishSwept(d)))
  /\ WF_vars(Up(SweepOffline))
  /\ WF_vars(Restart)

Spec == Init /\ [][Next]_vars /\ Fairness

-----------------------------------------------------------------------------
(* Properties.                                                             *)

Live(c) == pc[c] # "done"

\* What dispatch and teardown rely on: the registered connection of a device
\* belongs to it, its channel is open, and its teardown has not run.  Push
\* and Defer therefore never touch a closed channel (ingest.go, Push, and the
\* "no send-on-closed race" comment in the deferred teardown).
CurrentIsOpen ==
  \A d \in Device : streamW[d] # None =>
    LET c == streamW[d] IN
      /\ dev[c] = d /\ ~closed[c]
      /\ pc[c] \in {"online", "recv", "ack", "blocked", "defer"}

\* A stream that is live but not the registered one of its device has been
\* cut off: its channel is closed and its context is done, so it can take no
\* new command and is on its way out ("one live stream per device").
EvictedIsCutOff ==
  \A c \in Conn : Live(c) /\ streamW[dev[c]] # c => closed[c] /\ cancelled[c]

\* Every channel whose handler has ended is closed, by the teardown or by the
\* superseding stream: no pump goroutine ranges over an open channel for ever.
EndedIsClosed == \A c \in Conn : ~Live(c) => closed[c]

\* An evicted or dropped stream ends: its handler returns and its pump stops,
\* unless the process itself stops first.
CutOffStreamEnds ==
  \A c \in Conn : cancelled[c] ~> (pc[c] = "done" /\ pump[c] = "done")

\* Once the process stays up and the device has no stream for good, the device
\* ends up shown as offline, whatever crash, late heartbeat or restart came
\* before (the offline sweeper and the online flag Touch sets).
AbandonedGoesOffline ==
  \A d \in Device :
    <>[](server = "up" /\ \A c \in Conn : dev[c] # d) =>
      <>[](presence[d] = "offline")

\* The process never panics (comment on the downlink pump: acks go through
\* the channel so that no send can take the server process down).
NoPanic == server # "panicked"
=============================================================================
