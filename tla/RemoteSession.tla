--------------------------- MODULE RemoteSession ---------------------------
(***************************************************************************)
(* Remote sessions of one device: the operator's start and stop requests   *)
(* (HTTP handlers that may overlap), the relay registry that fans frames   *)
(* out to browser viewers, the device's streams, and on the agent the      *)
(* driver with its capture loop.                                           *)
(*                                                                         *)
(* Streams are numbered; the device is on the last one.  The server handles *)
(* each in a goroutine of its own, and that of a superseded stream may     *)
(* still be handling frames when the next one's does.  The driver handles  *)
(* controls in the stream's one reader goroutine, so open and close are    *)
(* atomic and wait for the command the reader is executing; the capture    *)
(* loop runs beside it and outlives the stream.  Session ids are fresh for *)
(* every start request: an open that repeats the id of the live session,   *)
(* which the driver would treat as a change of rate, is never sent.        *)
(***************************************************************************)
EXTENDS Integers, Sequences, FiniteSets

CONSTANTS
  Session,   \* session ids, one for every start request
  Viewer,    \* browser viewers
  DownCap,   \* capacity of the downlink (16 in the code)
  UpCap,     \* bound: frames on a stream
  ViewCap,   \* capacity of a viewer's channel (16 in the code)
  MaxSeq,    \* bound: frames are numbered up to here, then not told apart
  MaxDrop,   \* bound: times the stream breaks
  None

ASSUME SessionAssumption ==
  /\ {DownCap, UpCap, ViewCap, MaxSeq} \subseteq Nat \ {0}
  /\ MaxDrop \in Nat /\ None \notin Session

VARIABLES
  start,    \* session -> where its start request stands
  stops,    \* sessions whose stop request has sent the close and not yet closed
  acked,    \* sessions a stop request reported as stopped
  relay,    \* the session the registry names as the device's active one
  views,    \* viewer -> its subscription and channel
  shown,    \* viewer -> session -> stream -> number of the last frame shown
  live,     \* the device's last stream is up
  down,     \* controls and commands queued on it
  up,       \* stream -> frames on it
  sending,  \* deliveries the handlers have yet to make, the lock released
  busy,     \* the reader is executing a command
  liveId,   \* the driver's live session
  loops,    \* running capture loops: session and next frame number
  missed,   \* sessions whose close overtook their open or died with a stream
  drops     \* times the stream broke, which numbers the streams

httpVars  == <<start, stops, acked>>
viewVars  == <<views, shown>>
relayVars == <<relay, views, sending>>
agentVars == <<liveId, loops>>
vars == <<httpVars, relay, viewVars, live, down, up, sending, busy, agentVars, missed, drops>>

Stream == 0..MaxDrop
Control == [op : {"open", "close"}, sid : Session] \cup [op : {"command"}]
Picture == [sid : Session, via : Stream, seq : 0..MaxSeq, kind : {"frame"}]
Frame == Picture \cup [sid : Session, via : Stream, kind : {"status"}]

\* To a viewer: a picture, or one of hello, status and goodbye.
Word == [kind |-> "word"]
Event == Picture \cup {Word}

TypeOK ==
  /\ start \in [Session -> {"no", "opened", "sent", "refused"}]
  /\ stops \subseteq Session /\ acked \subseteq Session /\ missed \subseteq Session
  /\ relay \in Session \cup {None}
  /\ views \in [Viewer -> [sub : {"off", "on"}, ch : Seq(Event)]]
  /\ \A v \in Viewer : Len(views[v].ch) <= ViewCap
  /\ shown \in [Viewer -> [Session -> [Stream -> -1..MaxSeq-1]]]
  /\ live \in BOOLEAN /\ busy \in BOOLEAN /\ drops \in Stream
  /\ down \in Seq(Control) /\ Len(down) <= DownCap
  /\ up \in [Stream -> Seq(Frame)] /\ \A k \in Stream : Len(up[k]) <= UpCap
  /\ sending \subseteq [to : Viewer, via : Stream, ev : Event]
  /\ liveId \in Session \cup {None}
  /\ loops \subseteq [sid : Session, seq : 0..MaxSeq]

NothingShown == [s \in Session |-> [k \in Stream |-> -1]]

Init ==
  /\ start = [s \in Session |-> "no"] /\ stops = {} /\ acked = {} /\ missed = {}
  /\ relay = None
  /\ views = [v \in Viewer |-> [sub |-> "off", ch |-> <<>>]]
  /\ shown = [v \in Viewer |-> NothingShown]
  /\ live = TRUE /\ down = <<>> /\ up = [k \in Stream |-> <<>>] /\ sending = {} /\ busy = FALSE
  /\ liveId = None /\ loops = {} /\ drops = 0

(***************************************************************************)
(* The registry.                                                           *)
(***************************************************************************)

\* A non-blocking send: an event that finds the channel full is dropped.
Offer(w, ev) == IF Len(w.ch) < ViewCap THEN [w EXCEPT !.ch = Append(@, ev)] ELSE w

Open(s) == relay' = s

\* The session is forgotten and its viewers told, unless another one is active.
Close(s) ==
  IF relay # s THEN UNCHANGED <<relay, views>>
  ELSE /\ relay' = None
       /\ views' = [v \in Viewer |-> IF views[v].sub # "off"
                                     THEN Offer(views[v], Word) ELSE views[v]]

ActiveSession == relay

\* The control reaches the stream's queue, or there is no stream or no room.
SendControl(op, s) == live /\ Len(down) < DownCap /\ down' = Append(down, [op |-> op, sid |-> s])
CannotSend == (~live \/ Len(down) = DownCap) /\ UNCHANGED down

(***************************************************************************)
(* The operator's requests.                                                *)
(***************************************************************************)

StartOpens(s) ==
  /\ start[s] = "no"
  /\ Open(s)
  /\ start' = [start EXCEPT ![s] = "opened"]
  /\ UNCHANGED <<stops, acked, viewVars, live, down, up, sending, busy, agentVars, missed, drops>>

StartSends(s) ==
  /\ start[s] = "opened"
  /\ \/ /\ SendControl("open", s)
        /\ start' = [start EXCEPT ![s] = "sent"]
        /\ UNCHANGED <<relay, views>>
     \/ /\ CannotSend
        /\ start' = [start EXCEPT ![s] = "refused"]
        /\ Close(s)
  /\ UNCHANGED <<stops, acked, shown, live, up, sending, busy, agentVars, missed, drops>>

\* The session of the request's body, or the active one.
StopSends(s) ==
  /\ start[s] = "sent" \/ s = ActiveSession
  /\ s \notin stops \cup acked
  /\ \/ SendControl("close", s) /\ stops' = stops \cup {s} /\ UNCHANGED <<relay, views>>
     \/ CannotSend /\ Close(s) /\ UNCHANGED stops
  /\ missed' = IF start[s] = "opened" THEN missed \cup {s} ELSE missed
  /\ UNCHANGED <<start, acked, shown, live, up, sending, busy, agentVars, drops>>

StopCloses(s) ==
  /\ s \in stops
  /\ stops' = stops \ {s} /\ acked' = acked \cup {s}
  /\ Close(s)
  /\ UNCHANGED <<start, shown, live, down, up, sending, busy, agentVars, missed, drops>>

\* Any other command for the device takes the same queue.
Push ==
  /\ live /\ Len(down) < DownCap /\ down' = Append(down, [op |-> "command"])
  /\ UNCHANGED <<httpVars, relay, viewVars, live, up, sending, busy, agentVars, missed, drops>>

(***************************************************************************)
(* Viewers.                                                                *)
(***************************************************************************)

\* The viewer is registered and greeted with the active session.
Subscribe(v) ==
  /\ views[v].sub = "off"
  /\ views' = [views EXCEPT ![v] = [sub |-> "on", ch |-> <<Word>>]]
  /\ UNCHANGED <<httpVars, relay, shown, live, down, up, sending, busy, agentVars, missed, drops>>

\* One event is written to the browser.
StreamEvent(v) ==
  /\ views[v].sub = "on" /\ views[v].ch # <<>>
  /\ views' = [views EXCEPT ![v].ch = Tail(@)]
  /\ LET ev == Head(views[v].ch)
     IN  shown' = IF ev.kind = "frame" /\ ev.seq < MaxSeq THEN [shown EXCEPT ![v][ev.sid][ev.via] = ev.seq] ELSE shown
  /\ UNCHANGED <<httpVars, relay, live, down, up, sending, busy, agentVars, missed, drops>>

\* The browser goes away; a later visit starts from nothing, with a channel of
\* its own: what is still offered to the old one nobody reads.
Cancel(v) ==
  /\ views[v].sub = "on"
  /\ views' = [views EXCEPT ![v] = [sub |-> "off", ch |-> <<>>]]
  /\ shown' = [shown EXCEPT ![v] = NothingShown]
  /\ sending' = {d \in sending : d.to # v}
  /\ UNCHANGED <<httpVars, relay, live, down, up, busy, agentVars, missed, drops>>

(***************************************************************************)
(* The server's handlers of the streams.                                   *)
(***************************************************************************)

\* The handler of stream k has made the deliveries of its last frame.
Ready(k) == \A d \in sending : d.via # k

Deliveries(f) ==
  [to : {v \in Viewer : views[v].sub = "on"}, via : {f.via}, ev : {IF f.kind = "frame" THEN f ELSE Word}]

OnFrameOfKnown(k) ==
  /\ up[k] # <<>> /\ Ready(k)
  /\ up' = [up EXCEPT ![k] = Tail(@)] /\ UNCHANGED relay
  /\ sending' = sending \cup Deliveries(Head(up[k]))
  /\ UNCHANGED <<httpVars, viewVars, live, down, busy, agentVars, missed, drops>>

OnFrameAtOnce(k) ==
  /\ up[k] # <<>>
  /\ up' = [up EXCEPT ![k] = Tail(@)] /\ relay' = Head(up[k]).sid
  /\ sending' = sending \cup Deliveries(Head(up[k]))
  /\ UNCHANGED <<httpVars, viewVars, live, down, busy, agentVars, missed, drops>>

\* A frame names its session as the active one, whatever the registry knew, and
\* is to be offered to those who view it now.
OnFrame(k) ==
  /\ up[k] # <<>> /\ Ready(k)
  /\ up' = [up EXCEPT ![k] = Tail(@)] /\ relay' = Head(up[k]).sid
  /\ sending' = sending \cup Deliveries(Head(up[k]))
  /\ UNCHANGED <<httpVars, viewVars, live, down, busy, agentVars, missed, drops>>

\* The registry's lock released, it is offered to one viewer after the other.
Notify(d) ==
  /\ sending' = sending \ {d}
  /\ views' = [views EXCEPT ![d.to] = Offer(@, d.ev)]
  /\ UNCHANGED <<httpVars, relay, shown, live, down, up, busy, agentVars, missed, drops>>

\* The handler of a stream that broke returns, with frames it has not read.
HandlerEnds(k) ==
  /\ k < drops \/ ~live
  /\ up[k] # <<>> /\ Ready(k)
  /\ up' = [up EXCEPT ![k] = <<>>]
  /\ UNCHANGED <<httpVars, relay, viewVars, live, down, sending, busy, agentVars, missed, drops>>

(***************************************************************************)
(* The agent.                                                              *)
(***************************************************************************)

\* Every loop of the driver's live record is cancelled and waited for.
StopLoop(ls) == {l \in ls : l.sid # liveId}

\* A loop numbers its frames from zero.
StartLoop(ls, s) == ls \cup {[sid |-> s, seq |-> 0]}

\* A new open supersedes the live session and starts its own loop.
DriverOpen(s) == liveId' = s /\ loops' = StartLoop(StopLoop(loops), s)

DriverCloseForgets(s) == liveId' = (IF liveId = s THEN None ELSE liveId) /\ loops' = loops

DriverClose(s) ==
  IF liveId = s THEN liveId' = None /\ loops' = StopLoop(loops) ELSE UNCHANGED agentVars

\* The reader takes what comes next: a control, or a command it executes.
Receive ==
  /\ live /\ ~busy /\ down # <<>> /\ down' = Tail(down)
  /\ LET c == Head(down)
     IN  \/ c.op = "open" /\ DriverOpen(c.sid) /\ UNCHANGED busy
         \/ c.op = "close" /\ DriverClose(c.sid) /\ UNCHANGED busy
         \/ c.op = "command" /\ busy' = TRUE /\ UNCHANGED agentVars
  /\ UNCHANGED <<httpVars, relayVars, shown, live, up, missed, drops>>

\* The command is done.  It need never be: a process it left may hold the pipe
\* its reader waits on, and a file may wait for a chunk that is queued behind it.
CommandDone ==
  /\ busy /\ busy' = FALSE
  /\ UNCHANGED <<httpVars, relayVars, shown, live, down, up, agentVars, missed, drops>>

NextSeq(l) == [l EXCEPT !.seq = IF @ < MaxSeq THEN @ + 1 ELSE @]

PushFrame(f) == live /\ Len(up[drops]) < UpCap /\ up' = [up EXCEPT ![drops] = Append(@, f)]

\* A tick with a picture.
CaptureFrame(l) ==
  /\ PushFrame([sid |-> l.sid, via |-> drops, seq |-> l.seq, kind |-> "frame"])
  /\ loops' = (loops \ {l}) \cup {NextSeq(l)}
  /\ UNCHANGED <<httpVars, relayVars, shown, live, down, busy, liveId, missed, drops>>

\* A tick without one: a status frame, unless the throttle holds it back.
EmitStatus(l) ==
  /\ PushFrame([sid |-> l.sid, via |-> drops, kind |-> "status"])
  /\ UNCHANGED <<httpVars, relayVars, shown, live, down, busy, agentVars, missed, drops>>

\* A send without a stream ends the loop; the driver's record stays.
SendFails(l) ==
  /\ ~live
  /\ loops' = loops \ {l}
  /\ UNCHANGED <<httpVars, relayVars, shown, live, down, up, busy, liveId, missed, drops>>

(***************************************************************************)
(* The stream.                                                             *)
(***************************************************************************)

\* It breaks with what was queued for the device, and its reader is left behind.
\* Frames that arrived may still be handled.
Disconnect ==
  /\ live /\ drops < MaxDrop
  /\ live' = FALSE /\ down' = <<>> /\ busy' = FALSE
  /\ missed' = missed \cup {l.sid : l \in {m \in loops : \E i \in DOMAIN down : down[i] = [op |-> "close", sid |-> m.sid]}}
  /\ UNCHANGED <<httpVars, relayVars, shown, up, agentVars, drops>>

\* The next stream has its own handler and its own reader.
Reconnect ==
  /\ ~live /\ live' = TRUE /\ drops' = drops + 1
  /\ UNCHANGED <<httpVars, relayVars, shown, down, up, busy, agentVars, missed>>

Operator == \E s \in Session : StartOpens(s) \/ StopSends(s)
Handler == \E s \in Session : StartSends(s) \/ StopCloses(s)
Browser == \E v \in Viewer : Subscribe(v) \/ Cancel(v)
Viewing == \E v \in Viewer : StreamEvent(v)
Ingest == (\E k \in Stream : OnFrame(k)) \/ (\E d \in sending : Notify(d))
HandlerGone == \E k \in Stream : HandlerEnds(k)
Loop == \E l \in loops : CaptureFrame(l) \/ EmitStatus(l) \/ SendFails(l)

Next == Operator \/ Handler \/ Push \/ Browser \/ Viewing \/ Ingest \/ HandlerGone
        \/ Loop \/ Receive \/ CommandDone \/ Disconnect \/ Reconnect

\* Handlers run to their end, the ingest loops handle what arrives, a reader that
\* is not executing takes what is queued, the capture ticker fires and the uplink
\* reconnects; operators and browsers need do nothing, and a command need not end.
Fairness ==
  /\ WF_vars(Handler) /\ WF_vars(Viewing) /\ WF_vars(Ingest)
  /\ WF_vars(Receive) /\ WF_vars(Loop) /\ WF_vars(Reconnect)

Spec == Init /\ [][Next]_vars /\ Fairness

(***************************************************************************)
(* Properties.                                                             *)
(***************************************************************************)

\* Driver: a running capture loop is always the one of the live session, so
\* that the next open or close stops it: no screen is captured by a loop
\* nobody can reach, and never by two at a time.
LoopIsReachable == \A l \in loops : l.sid = liveId

\* runLoop, OnFrame and the viewer's channel: of the frames of a session that
\* came over one stream, or over an earlier and a later one, a viewer is shown
\* none twice and each after those captured before it; the drops leave gaps.  Only
\* a frame that the handler of a superseded stream is late with can appear behind
\* one of the next stream.
FramesInOrder ==
  \A v \in Viewer : \A i \in DOMAIN views[v].ch :
    LET ev == views[v].ch[i]
        Goes(sid, via, seq) == sid = ev.sid /\ via <= ev.via => seq < ev.seq
    IN  ev.kind = "frame" /\ ev.seq < MaxSeq =>
          /\ \A s \in Session, k \in Stream : Goes(s, k, shown[v][s][k])
          /\ \A j \in 1..i-1 : views[v].ch[j].kind = "frame" =>
               Goes(views[v].ch[j].sid, views[v].ch[j].via, views[v].ch[j].seq)

\* handleSessionStop: a stop that was answered "stopped" ends the capture, if the
\* reader comes back from every command it executes.  Excepted are a close that
\* died with the stream and one that, the registry naming a session before its
\* open is sent, went ahead of the open.
AckedStopEndsCapture ==
  []<>~busy => \A s \in Session : (s \in acked) ~> (s \in missed \/ \A l \in loops : l.sid # s)

\* OnFrame: what is captured becomes the registry's active session, so a stop
\* request without an id finds it, however starts and stops overlapped.  This is
\* because a frame of a session that Close gave up names it again: the comment of
\* Close says that such frames are dropped.
CaptureIsStoppable ==
  \A s \in Session : (\E l \in loops : l.sid = s) ~> (relay = s \/ \A l \in loops : l.sid # s)
=============================================================================
