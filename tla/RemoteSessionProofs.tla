------------------------- MODULE RemoteSessionProofs -------------------------
(***************************************************************************)
(* Proofs about RemoteSession for any number of sessions, viewers and      *)
(* streams, any capacities of the downlink, the streams and the viewers'   *)
(* channels.                                                               *)
(*                                                                         *)
(* A picture travels from the capture loop over a stream, that stream's    *)
(* handler and a viewer's channel to the screen.  Along that way the       *)
(* numbers of one session's pictures fall from the loop to the screen, and *)
(* so they do from a stream to the streams before it.  What could break it *)
(* is a second loop of the same session that numbers from zero again, and  *)
(* an open is queued at most once for a session that has never had a       *)
(* picture.                                                                *)
(***************************************************************************)
EXTENDS RemoteSession, TLAPS

-----------------------------------------------------------------------------
(* Sequences of events.                                                    *)

LEMMA AppendElements ==
  ASSUME NEW S, NEW q \in Seq(S), NEW e \in S
  PROVE  /\ Append(q, e) \in Seq(S) /\ Len(Append(q, e)) = Len(q) + 1
         /\ \A i \in DOMAIN Append(q, e) :
              \/ i \in DOMAIN q /\ Append(q, e)[i] = q[i]
              \/ i = Len(q) + 1 /\ Append(q, e)[i] = e
         /\ \A i \in DOMAIN q : i \in Nat /\ i < Len(q) + 1
  OBVIOUS

LEMMA TailElements ==
  ASSUME NEW S, NEW q \in Seq(S), q # <<>>
  PROVE  /\ Tail(q) \in Seq(S) /\ Len(Tail(q)) < Len(q) /\ Head(q) \in S
         /\ 1 \in DOMAIN q /\ Head(q) = q[1]
         /\ \A i \in DOMAIN Tail(q) : i \in Nat /\ 1 < i + 1 /\ i + 1 \in DOMAIN q /\ Tail(q)[i] = q[i + 1]
<1>1. Len(q) \in Nat \ {0} /\ DOMAIN q = 1..Len(q)
  OBVIOUS
<1>2. /\ Tail(q) \in Seq(S) /\ Len(Tail(q)) = Len(q) - 1
      /\ DOMAIN Tail(q) = 1..(Len(q) - 1)
  BY <1>1
<1>3. \A i \in 1..(Len(q) - 1) : Tail(q)[i] = q[i + 1]
  BY <1>1
<1>4. Head(q) = q[1] /\ Head(q) \in S
  BY <1>1
<1>. QED BY <1>1, <1>2, <1>3, <1>4

-----------------------------------------------------------------------------
(* The order of pictures.                                                  *)

\* A picture numbered a goes before one numbered b; the numbers at the bound are
\* not told apart.
Before(a, b) == b = MaxSeq \/ a < b

\* The order between f and g, where it is one of the pictures of a session on one
\* stream, or on an earlier and a later one.
Precedes(f, g) ==
  f.kind = "frame" /\ g.kind = "frame" /\ f.sid = g.sid /\ f.via <= g.via => Before(f.seq, g.seq)

\* f goes before what its loop is going to capture, before what the streams'
\* handlers have not read, and before what they have yet to deliver to v.
AheadOfLoop(f, ls) == f.kind = "frame" => \A l \in ls : l.sid = f.sid => Before(f.seq, l.seq)

AheadOfStreams(f, us) == \A k \in Stream : \A i \in DOMAIN us[k] : Precedes(f, us[k][i])

AheadFor(v, f, ls, us, ds) ==
  AheadOfLoop(f, ls) /\ AheadOfStreams(f, us) /\ \A d \in ds : d.to = v => Precedes(f, d.ev)

StreamOrdered(k) ==
  \A i \in DOMAIN up[k] :
    /\ AheadOfLoop(up[k][i], loops)
    /\ \A j \in DOMAIN up[k] : i < j => Precedes(up[k][i], up[k][j])
    /\ \A m \in Stream : k < m => \A j \in DOMAIN up[m] : Precedes(up[k][i], up[m][j])
    /\ \A d \in sending : k < d.via => Precedes(up[k][i], d.ev)

SendingOrdered ==
  \A d \in sending :
    /\ AheadOfLoop(d.ev, loops) /\ AheadOfStreams(d.ev, up)
    /\ \A e \in sending : d.via < e.via => Precedes(d.ev, e.ev)

ViewOrdered(v) ==
  \A i \in DOMAIN views[v].ch :
    /\ AheadFor(v, views[v].ch[i], loops, up, sending)
    /\ \A j \in DOMAIN views[v].ch : i < j => Precedes(views[v].ch[i], views[v].ch[j])

\* What a viewer's screen showed last of session s on stream k.
Screen(v, s, k) == [sid |-> s, via |-> k, seq |-> shown[v][s][k], kind |-> "frame"]

ScreenOrdered(v) ==
  \A s \in Session, k \in Stream :
    /\ AheadFor(v, Screen(v, s, k), loops, up, sending)
    /\ \A j \in DOMAIN views[v].ch : Precedes(Screen(v, s, k), views[v].ch[j])

AllOrdered ==
  /\ \A k \in Stream : StreamOrdered(k)
  /\ SendingOrdered
  /\ \A v \in Viewer : ViewOrdered(v) /\ ScreenOrdered(v)

\* Pictures are on the stream they name, streams to come are empty, and a handler
\* delivers one event at a time.
Routed ==
  /\ ~live => drops < MaxDrop
  /\ \A k \in Stream : \A i \in DOMAIN up[k] : up[k][i].via = k
  /\ \A k \in Stream : drops < k => up[k] = <<>>
  /\ \A d \in sending : d.via <= drops /\ (d.ev.kind = "frame" => d.ev.via = d.via)
  /\ \A d, e \in sending : d.via = e.via => d.ev = e.ev

-----------------------------------------------------------------------------
(* Fresh sessions.                                                         *)

NoFrame(s, q) == \A i \in DOMAIN q : q[i].kind = "frame" => q[i].sid # s

\* No picture of the session was ever captured, as far as anyone can tell.
Untouched(s) ==
  /\ \A k \in Stream : NoFrame(s, up[k])
  /\ \A d \in sending : d.ev.kind = "frame" => d.ev.sid # s
  /\ \A l \in loops : l.sid # s
  /\ \A v \in Viewer : NoFrame(s, views[v].ch) /\ \A k \in Stream : shown[v][s][k] = -1

OpenOf(s) == [op |-> "open", sid |-> s]

\* An open is queued at most once, and for a session without pictures.
OpensOnce ==
  \A s \in Session :
    /\ start[s] # "sent" => Untouched(s) /\ \A i \in DOMAIN down : down[i] # OpenOf(s)
    /\ \A i \in DOMAIN down : down[i] = OpenOf(s) =>
         Untouched(s) /\ \A j \in DOMAIN down : down[j] = OpenOf(s) => j = i

OneLoop == \A l, m \in loops : l = m

SesInv == TypeOK /\ LoopIsReachable /\ OneLoop /\ OpensOnce /\ Routed /\ AllOrdered

-----------------------------------------------------------------------------
(* Types.                                                                  *)

\* The part of TypeOK about one viewer.
ViewType(w) == w.sub \in {"off", "on"} /\ w.ch \in Seq(Event) /\ Len(w.ch) <= ViewCap

\* An offered event is the last one of the channel, or dropped.
LEMMA OfferKeeps ==
  ASSUME NEW w \in [sub : {"off", "on"}, ch : Seq(Event)], Len(w.ch) <= ViewCap, NEW ev \in Event
  PROVE  /\ Offer(w, ev) \in [sub : {"off", "on"}, ch : Seq(Event)]
         /\ ViewType(Offer(w, ev)) /\ Offer(w, ev).sub = w.sub
         /\ Offer(w, ev).ch \in {w.ch, Append(w.ch, ev)}
<1>1. CASE Len(w.ch) < ViewCap
  <2>1. Append(w.ch, ev) \in Seq(Event) /\ Len(Append(w.ch, ev)) = Len(w.ch) + 1 /\ Len(w.ch) \in Nat
    OBVIOUS
  <2>2. Offer(w, ev) = [w EXCEPT !.ch = Append(w.ch, ev)]
    BY <1>1 DEF Offer
  <2>3. /\ Offer(w, ev) \in [sub : {"off", "on"}, ch : Seq(Event)]
        /\ Offer(w, ev).sub = w.sub /\ Offer(w, ev).ch = Append(w.ch, ev)
    BY <2>1, <2>2
  <2>4. Len(Append(w.ch, ev)) <= ViewCap
    BY <1>1, <2>1, SessionAssumption
  <2>. QED BY <2>3, <2>4 DEF ViewType
<1>2. CASE ~(Len(w.ch) < ViewCap)
  BY <1>2 DEF Offer, ViewType
<1>. QED BY <1>1, <1>2

\* What a step may do to the channels without touching a frame.
Told == \A v \in Viewer : views'[v].ch \in {views[v].ch, Append(views[v].ch, Word)}

LEMMA CloseType ==
  ASSUME TypeOK, NEW s \in Session, Close(s)
  PROVE  /\ relay' \in Session \cup {None} /\ Told
         /\ views' \in [Viewer -> [sub : {"off", "on"}, ch : Seq(Event)]]
         /\ \A v \in Viewer : Len(views'[v].ch) <= ViewCap
<1>1. CASE relay # s
  BY <1>1 DEF Close, TypeOK, Told
<1>2. CASE relay = s
  <2>1. Word \in Event
    BY DEF Event
  <2>2. ASSUME NEW v \in Viewer
        PROVE  /\ views[v] \in [sub : {"off", "on"}, ch : Seq(Event)]
               /\ Len(views[v].ch) <= ViewCap
    BY DEF TypeOK
  <2>3. /\ relay' = None
        /\ views' = [v \in Viewer |-> IF views[v].sub # "off" THEN Offer(views[v], Word) ELSE views[v]]
    BY <1>2 DEF Close
  <2>4. ASSUME NEW v \in Viewer
        PROVE  /\ views'[v] \in [sub : {"off", "on"}, ch : Seq(Event)]
               /\ Len(views'[v].ch) <= ViewCap
               /\ views'[v].ch \in {views[v].ch, Append(views[v].ch, Word)}
    <3>1. CASE views[v].sub # "off"
      BY <2>1, <2>2, <2>3, <3>1, OfferKeeps DEF ViewType
    <3>2. CASE views[v].sub = "off"
      BY <2>2, <2>3, <3>2
    <3>. QED BY <3>1, <3>2
  <2>. QED BY <2>3, <2>4 DEF Told
<1>. QED BY <1>1, <1>2

LEMMA SendControlType ==
  ASSUME TypeOK, NEW op \in {"open", "close"}, NEW s \in Session, SendControl(op, s)
  PROVE  /\ down' \in Seq(Control) /\ Len(down') <= DownCap
         /\ down' = Append(down, [op |-> op, sid |-> s])
  BY SessionAssumption DEF TypeOK, SendControl, Control

LEMMA PushFrameType ==
  ASSUME TypeOK, NEW f \in Frame, PushFrame(f)
  PROVE  /\ up' \in [Stream -> Seq(Frame)] /\ \A k \in Stream : Len(up'[k]) <= UpCap
         /\ up'[drops] = Append(up[drops], f) /\ drops \in Stream
         /\ \A k \in Stream : k # drops => up'[k] = up[k]
<1>1. /\ up \in [Stream -> Seq(Frame)] /\ drops \in Stream /\ UpCap \in Nat
      /\ \A k \in Stream : Len(up[k]) <= UpCap
      /\ Len(up[drops]) < UpCap /\ up' = [up EXCEPT ![drops] = Append(up[drops], f)]
  BY SessionAssumption DEF TypeOK, PushFrame
<1>2. /\ Append(up[drops], f) \in Seq(Frame) /\ Len(Append(up[drops], f)) = Len(up[drops]) + 1
      /\ Len(up[drops]) \in Nat
  BY <1>1
<1>3. Len(Append(up[drops], f)) <= UpCap
  BY <1>1, <1>2
<1>. QED BY <1>1, <1>2, <1>3

\* The steps of the operator's requests.
LEMMA RequestType ==
  ASSUME TypeOK, Operator \/ Handler
  PROVE  /\ TypeOK' /\ UNCHANGED <<shown, live, up, sending, drops, liveId, loops>> /\ Told
         /\ \A s \in Session : start'[s] # start[s] =>
              \/ start'[s] # "sent" /\ start[s] # "sent"
              \/ start'[s] = "sent" /\ start[s] = "opened" /\ down' = Append(down, OpenOf(s))
         /\ \/ down' = down
            \/ \E s \in Session : down' = Append(down, [op |-> "close", sid |-> s])
            \/ \E s \in Session : /\ down' = Append(down, OpenOf(s)) /\ start[s] = "opened"
                                  /\ start' = [start EXCEPT ![s] = "sent"]
<1>0. \A v \in Viewer : views[v].ch = views[v].ch
  OBVIOUS
<1>1. ASSUME NEW s \in Session, StartOpens(s)
      PROVE  /\ TypeOK' /\ UNCHANGED <<shown, live, up, sending, drops, liveId, loops, down, views>>
             /\ start[s] = "no" /\ start' = [start EXCEPT ![s] = "opened"]
  BY <1>1 DEF StartOpens, Open, TypeOK, viewVars, agentVars
<1>2. ASSUME NEW s \in Session, StartSends(s)
      PROVE  /\ TypeOK' /\ UNCHANGED <<shown, live, up, sending, drops, liveId, loops>> /\ Told /\ start[s] = "opened"
             /\ \/ start' = [start EXCEPT ![s] = "sent"] /\ down' = Append(down, OpenOf(s))
                \/ start' = [start EXCEPT ![s] = "refused"] /\ down' = down
  <2>1. CASE SendControl("open", s) /\ start' = [start EXCEPT ![s] = "sent"] /\ UNCHANGED <<relay, views>>
    BY <1>2, <2>1, SendControlType DEF StartSends, TypeOK, agentVars, Told, OpenOf
  <2>2. CASE CannotSend /\ start' = [start EXCEPT ![s] = "refused"] /\ Close(s)
    BY <1>2, <2>2, CloseType DEF StartSends, CannotSend, TypeOK, agentVars
  <2>. QED BY <1>2, <2>1, <2>2 DEF StartSends
<1>3. ASSUME NEW s \in Session, StopSends(s)
      PROVE  /\ TypeOK' /\ UNCHANGED <<shown, live, up, sending, drops, liveId, loops>> /\ Told /\ start' = start
             /\ down' = down \/ down' = Append(down, [op |-> "close", sid |-> s])
  <2>0. missed' \subseteq Session
    BY <1>3 DEF StopSends, TypeOK
  <2>1. CASE SendControl("close", s) /\ stops' = stops \cup {s} /\ UNCHANGED <<relay, views>>
    BY <1>3, <2>0, <2>1, SendControlType DEF StopSends, TypeOK, agentVars, Told
  <2>2. CASE CannotSend /\ Close(s) /\ UNCHANGED stops
    BY <1>3, <2>0, <2>2, CloseType DEF StopSends, CannotSend, TypeOK, agentVars
  <2>. QED BY <1>3, <2>1, <2>2 DEF StopSends
<1>4. ASSUME NEW s \in Session, StopCloses(s)
      PROVE  TypeOK' /\ UNCHANGED <<shown, live, up, sending, drops, liveId, loops, down, start>> /\ Told
  BY <1>4, CloseType DEF StopCloses, TypeOK, agentVars
<1>5. start \in [Session -> {"no", "opened", "sent", "refused"}]
  BY DEF TypeOK
<1>6. CASE \E s \in Session : StartOpens(s)
  BY <1>1, <1>5, <1>6 DEF Told
<1>7. CASE \E s \in Session : StartSends(s)
  <2>1. PICK s \in Session : StartSends(s)
    BY <1>7
  <2>. QED BY <1>2, <1>5, <2>1
<1>8. CASE \E s \in Session : StopSends(s)
  BY <1>3, <1>8
<1>9. CASE \E s \in Session : StopCloses(s)
  BY <1>4, <1>9
<1>. QED BY <1>6, <1>7, <1>8, <1>9 DEF Operator, Handler

-----------------------------------------------------------------------------
(* The steps.                                                              *)

\* Numbers before the first.
LEMMA NothingShownYet ==
  ASSUME TypeOK, NEW g, g.seq = -1
  PROVE  /\ \A v : AheadFor(v, g, loops, up, sending)
         /\ \A v \in Viewer : \A j \in DOMAIN views[v].ch : Precedes(g, views[v].ch[j])
<1>1. MaxSeq \in Nat /\ loops \subseteq [sid : Session, seq : 0..MaxSeq]
  BY SessionAssumption DEF TypeOK
<1>2. \A n \in 0..MaxSeq : Before(-1, n)
  BY <1>1 DEF Before
<1>3. ASSUME NEW f \in Frame \cup Event
      PROVE  Precedes(g, f)
  BY <1>2, <1>3 DEF Precedes, Frame, Event, Picture, Word
<1>4. AheadOfLoop(g, loops)
  BY <1>1, <1>2 DEF AheadOfLoop
<1>5. AheadOfStreams(g, up)
  <2>1. \A k \in Stream : \A i \in DOMAIN up[k] : up[k][i] \in Frame
    BY DEF TypeOK
  <2>. QED BY <1>3, <2>1 DEF AheadOfStreams
<1>6. /\ \A d \in sending : d.ev \in Event
      /\ \A v \in Viewer : \A j \in DOMAIN views[v].ch : views[v].ch[j] \in Event
  BY DEF TypeOK
<1>. QED BY <1>3, <1>4, <1>5, <1>6 DEF AheadFor

\* No picture is added and none moves: what is left of the streams, the deliveries,
\* the channels and the loops stays in its place.
Remains ==
  /\ \A v \in Viewer, s \in Session, k \in Stream : shown'[v][s][k] \in {shown[v][s][k], -1}
  /\ loops' \subseteq loops /\ sending' \subseteq sending
  /\ \A k \in Stream : \A i \in DOMAIN up'[k] : up'[k][i].kind = "frame" => i \in DOMAIN up[k] /\ up'[k][i] = up[k][i]
  /\ \A v \in Viewer : \A i \in DOMAIN views'[v].ch :
       views'[v].ch[i].kind = "frame" => i \in DOMAIN views[v].ch /\ views'[v].ch[i] = views[v].ch[i]

LEMMA NothingNew ==
  ASSUME TypeOK, AllOrdered, Remains
  PROVE  /\ AllOrdered'
         /\ \A s \in Session : Untouched(s) => Untouched(s)'
<1>0. \A f, g : g.kind # "frame" => Precedes(f, g) /\ Precedes(g, f)
  BY DEF Precedes
<1>1. ASSUME NEW f
      PROVE  /\ AheadOfLoop(f, loops) => AheadOfLoop(f, loops')
             /\ AheadOfStreams(f, up) => AheadOfStreams(f, up')
             /\ \A v : AheadFor(v, f, loops, up, sending) => AheadFor(v, f, loops', up', sending')
  <2>1. AheadOfLoop(f, loops) => AheadOfLoop(f, loops')
    BY DEF AheadOfLoop, Remains
  <2>2. AheadOfStreams(f, up) => AheadOfStreams(f, up')
    BY <1>0 DEF AheadOfStreams, Remains
  <2>. QED BY <2>1, <2>2 DEF AheadFor, Remains
<1>2. ASSUME NEW k \in Stream
      PROVE  StreamOrdered(k)'
  <2>. SUFFICES ASSUME NEW i \in DOMAIN up'[k]
       PROVE  /\ AheadOfLoop(up'[k][i], loops')
              /\ \A j \in DOMAIN up'[k] : i < j => Precedes(up'[k][i], up'[k][j])
              /\ \A m \in Stream : k < m => \A j \in DOMAIN up'[m] : Precedes(up'[k][i], up'[m][j])
              /\ \A d \in sending' : k < d.via => Precedes(up'[k][i], d.ev)
    BY DEF StreamOrdered
  <2>1. CASE up'[k][i].kind # "frame"
    BY <1>0, <2>1 DEF AheadOfLoop
  <2>2. CASE up'[k][i].kind = "frame"
    <3>1. i \in DOMAIN up[k] /\ up'[k][i] = up[k][i] /\ StreamOrdered(k)
      BY <2>2 DEF Remains, AllOrdered
    <3>2. ASSUME NEW m \in Stream, NEW j \in DOMAIN up'[m], k < m \/ (m = k /\ i < j)
          PROVE  Precedes(up'[k][i], up'[m][j])
      <4>1. CASE up'[m][j].kind # "frame"
        BY <1>0, <4>1
      <4>2. CASE up'[m][j].kind = "frame"
        <5>1. j \in DOMAIN up[m] /\ up'[m][j] = up[m][j]
          BY <4>2 DEF Remains
        <5>. QED BY <3>1, <3>2, <5>1 DEF StreamOrdered
      <4>. QED BY <4>1, <4>2
    <3>3. \A d \in sending' : k < d.via => Precedes(up'[k][i], d.ev)
      BY <3>1 DEF Remains, StreamOrdered
    <3>4. AheadOfLoop(up'[k][i], loops')
      BY <1>1, <3>1 DEF StreamOrdered
    <3>5. \A j \in DOMAIN up'[k] : i < j => Precedes(up'[k][i], up'[k][j])
      BY <3>2
    <3>6. \A m \in Stream : k < m => \A j \in DOMAIN up'[m] : Precedes(up'[k][i], up'[m][j])
      BY <3>2
    <3>. QED BY <3>3, <3>4, <3>5, <3>6
  <2>. QED BY <2>1, <2>2
<1>3. SendingOrdered'
  BY <1>1 DEF SendingOrdered, AllOrdered, Remains
<1>4. ASSUME NEW v \in Viewer
      PROVE  ViewOrdered(v)'
  <2>. SUFFICES ASSUME NEW i \in DOMAIN views'[v].ch
       PROVE  /\ AheadFor(v, views'[v].ch[i], loops', up', sending')
              /\ \A j \in DOMAIN views'[v].ch : i < j => Precedes(views'[v].ch[i], views'[v].ch[j])
    BY DEF ViewOrdered
  <2>1. CASE views'[v].ch[i].kind # "frame"
    BY <1>0, <2>1 DEF AheadFor, AheadOfLoop, AheadOfStreams
  <2>2. CASE views'[v].ch[i].kind = "frame"
    <3>1. i \in DOMAIN views[v].ch /\ views'[v].ch[i] = views[v].ch[i] /\ ViewOrdered(v)
      BY <2>2 DEF Remains, AllOrdered
    <3>2. AheadFor(v, views'[v].ch[i], loops', up', sending')
      BY <1>1, <3>1 DEF ViewOrdered
    <3>3. ASSUME NEW j \in DOMAIN views'[v].ch, i < j
          PROVE  Precedes(views'[v].ch[i], views'[v].ch[j])
      <4>1. CASE views'[v].ch[j].kind # "frame"
        BY <1>0, <4>1
      <4>2. CASE views'[v].ch[j].kind = "frame"
        <5>1. j \in DOMAIN views[v].ch /\ views'[v].ch[j] = views[v].ch[j]
          BY <4>2 DEF Remains
        <5>. QED BY <3>1, <3>3, <5>1 DEF ViewOrdered
      <4>. QED BY <4>1, <4>2
    <3>. QED BY <3>2, <3>3
  <2>. QED BY <2>1, <2>2
<1>5. ASSUME NEW v \in Viewer
      PROVE  ScreenOrdered(v)'
  <2>. SUFFICES ASSUME NEW s \in Session, NEW k \in Stream
       PROVE  /\ AheadFor(v, Screen(v, s, k)', loops', up', sending')
              /\ \A j \in DOMAIN views'[v].ch : Precedes(Screen(v, s, k)', views'[v].ch[j])
    BY DEF ScreenOrdered, Screen
  <2> DEFINE g == Screen(v, s, k)'
  <2>1. AheadFor(v, g, loops, up, sending) /\ \A j \in DOMAIN views[v].ch : Precedes(g, views[v].ch[j])
    <3>1. CASE shown'[v][s][k] = shown[v][s][k]
      <4>1. g = Screen(v, s, k)
        BY <3>1 DEF Screen
      <4>. QED BY <4>1 DEF AllOrdered, ScreenOrdered
    <3>2. CASE shown'[v][s][k] = -1
      <4>1. g.seq = -1
        BY <3>2 DEF Screen
      <4>. QED BY <4>1, NothingShownYet
    <3>. QED BY <3>1, <3>2 DEF Remains
  <2>. HIDE DEF g
  <2>2. ASSUME NEW j \in DOMAIN views'[v].ch
        PROVE  Precedes(g, views'[v].ch[j])
    <3>1. CASE views'[v].ch[j].kind # "frame"
      BY <1>0, <3>1
    <3>2. CASE views'[v].ch[j].kind = "frame"
      BY <2>1, <3>2 DEF Remains
    <3>. QED BY <3>1, <3>2
  <2>. QED BY <1>1, <2>1, <2>2 DEF g
<1>6. ASSUME NEW s \in Session, Untouched(s)
      PROVE  Untouched(s)'
  BY <1>6 DEF Untouched, NoFrame, Remains
<1>. QED BY <1>2, <1>3, <1>4, <1>5, <1>6 DEF AllOrdered

\* A step that tells viewers something leaves the pictures as they are.
LEMMA ToldRemains ==
  ASSUME TypeOK, Told, UNCHANGED <<shown, up, sending, loops>>
  PROVE  Remains
<1>1. ASSUME NEW v \in Viewer, NEW i \in DOMAIN views'[v].ch, views'[v].ch[i].kind = "frame"
      PROVE  i \in DOMAIN views[v].ch /\ views'[v].ch[i] = views[v].ch[i]
  <2>1. CASE views'[v].ch = views[v].ch
    BY <1>1, <2>1
  <2>2. CASE views'[v].ch = Append(views[v].ch, Word)
    <3>1. views[v].ch \in Seq(Event) /\ Word \in Event
      BY DEF TypeOK, Event
    <3>2. \/ i \in DOMAIN views[v].ch /\ views'[v].ch[i] = views[v].ch[i]
          \/ views'[v].ch[i] = Word
      BY <1>1, <2>2, <3>1, AppendElements
    <3>. QED BY <1>1, <3>2 DEF Word
  <2>. QED BY <2>1, <2>2 DEF Told
<1>. QED BY <1>1 DEF Remains

LEMMA RequestInv ==
  ASSUME SesInv, Operator \/ Handler
  PROVE  SesInv'
<1>0. TypeOK /\ LoopIsReachable /\ OneLoop /\ OpensOnce /\ Routed /\ AllOrdered
  BY DEF SesInv
<1>1. TypeOK' /\ UNCHANGED <<shown, live, up, sending, drops, liveId, loops>> /\ Told
  BY <1>0, RequestType
<1>2. AllOrdered' /\ \A s \in Session : Untouched(s) => Untouched(s)'
  BY <1>0, <1>1, ToldRemains, NothingNew
<1>3. LoopIsReachable' /\ OneLoop' /\ Routed'
  BY <1>0, <1>1 DEF LoopIsReachable, OneLoop, Routed
<1>4. down \in Seq(Control)
  BY <1>0 DEF TypeOK
<1>5. OpensOnce'
  <2>. SUFFICES ASSUME NEW s \in Session
       PROVE  /\ start'[s] # "sent" => Untouched(s)' /\ \A i \in DOMAIN down' : down'[i] # OpenOf(s)
              /\ \A i \in DOMAIN down' : down'[i] = OpenOf(s) =>
                   Untouched(s)' /\ \A j \in DOMAIN down' : down'[j] = OpenOf(s) => j = i
    BY DEF OpensOnce, OpenOf
  <2>1. \/ start'[s] = start[s]
        \/ start'[s] # "sent" /\ start[s] # "sent"
        \/ start'[s] = "sent" /\ start[s] = "opened" /\ down' = Append(down, OpenOf(s))
    BY <1>0, RequestType
  <2>2. \/ \A i \in DOMAIN down' : i \in DOMAIN down /\ down'[i] = down[i]
        \/ \A i \in DOMAIN down' : \/ i \in DOMAIN down /\ down'[i] = down[i]
                                   \/ i = Len(down) + 1 /\ down'[i].op = "close"
        \/ \E t \in Session :
             /\ start[t] = "opened" /\ start' = [start EXCEPT ![t] = "sent"]
             /\ \A i \in DOMAIN down' : \/ i \in DOMAIN down /\ down'[i] = down[i]
                                        \/ i = Len(down) + 1 /\ down'[i] = OpenOf(t)
    <3>1. CASE down' = down
      BY <3>1
    <3>2. ASSUME NEW t \in Session, down' = Append(down, [op |-> "close", sid |-> t])
          PROVE  \A i \in DOMAIN down' : \/ i \in DOMAIN down /\ down'[i] = down[i]
                                         \/ i = Len(down) + 1 /\ down'[i].op = "close"
      <4>1. [op |-> "close", sid |-> t] \in Control
        BY DEF Control
      <4>. QED BY <1>4, <3>2, <4>1, AppendElements
    <3>3. ASSUME NEW t \in Session, down' = Append(down, OpenOf(t))
          PROVE  \A i \in DOMAIN down' : \/ i \in DOMAIN down /\ down'[i] = down[i]
                                         \/ i = Len(down) + 1 /\ down'[i] = OpenOf(t)
      <4>1. OpenOf(t) \in Control
        BY DEF OpenOf, Control
      <4>. QED BY <1>4, <3>3, <4>1, AppendElements
    <3>4. \/ down' = down
          \/ \E t \in Session : down' = Append(down, [op |-> "close", sid |-> t])
          \/ \E t \in Session : /\ down' = Append(down, OpenOf(t)) /\ start[t] = "opened"
                                /\ start' = [start EXCEPT ![t] = "sent"]
      BY <1>0, RequestType
    <3>. QED BY <3>1, <3>2, <3>3, <3>4
  <2>3. CASE start[s] # "sent"
    <3>1. Untouched(s)' /\ \A i \in DOMAIN down : down[i] # OpenOf(s)
      BY <1>0, <1>2, <2>3 DEF OpensOnce
    <3>2. \A i, j \in DOMAIN down' : down'[i] = OpenOf(s) /\ down'[j] = OpenOf(s) => i = j
      BY <2>2, <3>1 DEF OpenOf
    <3>3. start'[s] # "sent" => \A i \in DOMAIN down' : down'[i] # OpenOf(s)
      BY <1>0, <2>2, <2>3, <3>1 DEF OpenOf, TypeOK
    <3>. QED BY <3>1, <3>2, <3>3
  <2>4. CASE start[s] = "sent"
    <3>1. start'[s] = "sent"
      BY <2>1, <2>4
    <3>2. \A i \in DOMAIN down' : down'[i] = OpenOf(s) => i \in DOMAIN down /\ down[i] = OpenOf(s)
      BY <2>2, <2>4 DEF OpenOf
    <3>. QED BY <1>0, <1>2, <3>1, <3>2 DEF OpensOnce
  <2>. QED BY <2>3, <2>4
<1>. QED BY <1>1, <1>2, <1>3, <1>5 DEF SesInv

\* A step that leaves the requests, the queue and the driver alone.
LEMMA DeviceAside ==
  ASSUME SesInv, TypeOK', Routed', AllOrdered', UNCHANGED <<start, down, liveId, loops>>,
         \A s \in Session : Untouched(s) => Untouched(s)'
  PROVE  SesInv'
<1>1. LoopIsReachable' /\ OneLoop' /\ OpensOnce'
  BY DEF SesInv, LoopIsReachable, OneLoop, OpensOnce
<1>. QED BY <1>1 DEF SesInv

\* Commands come and end, and handlers go.
LEMMA AsideInv ==
  ASSUME SesInv, Push \/ CommandDone \/ HandlerGone
  PROVE  SesInv'
<1>0. TypeOK /\ LoopIsReachable /\ OneLoop /\ OpensOnce /\ Routed /\ AllOrdered
  BY DEF SesInv
<1>1. UNCHANGED <<start, stops, acked, relay, views, shown, live, sending, liveId, loops, missed, drops>>
  BY DEF Push, CommandDone, HandlerGone, HandlerEnds, httpVars, viewVars, relayVars, agentVars
<1>2. CASE CommandDone
  <2>1. UNCHANGED <<down, up>> /\ busy' = FALSE
    BY <1>2 DEF CommandDone
  <2>2. Remains
    BY <1>1, <2>1 DEF Remains
  <2>3. TypeOK' /\ Routed'
    BY <1>0, <1>1, <2>1 DEF TypeOK, Routed
  <2>. QED BY <1>0, <1>1, <2>1, <2>2, <2>3, NothingNew, DeviceAside
<1>3. CASE HandlerGone
  <2>1. PICK k \in Stream : HandlerEnds(k)
    BY <1>3 DEF HandlerGone
  <2>2. up' = [up EXCEPT ![k] = <<>>] /\ UNCHANGED <<down, busy>> /\ up \in [Stream -> Seq(Frame)]
    BY <1>0, <2>1 DEF HandlerEnds, TypeOK
  <2>3. /\ up' \in [Stream -> Seq(Frame)] /\ up'[k] = <<>>
        /\ \A m \in Stream : m # k => up'[m] = up[m]
    <3>1. <<>> \in Seq(Frame)
      OBVIOUS
    <3>. QED BY <2>2, <3>1
  <2>4. ASSUME NEW m \in Stream
        PROVE  Len(up'[m]) <= UpCap
    <3>1. Len(<<>>) = 0 /\ 0 <= UpCap
      BY SessionAssumption
    <3>2. Len(up[m]) <= UpCap
      BY <1>0 DEF TypeOK
    <3>. QED BY <2>3, <3>1, <3>2
  <2>5. Remains /\ Routed'
    <3>1. \A m \in Stream : \A i \in DOMAIN up'[m] : i \in DOMAIN up[m] /\ up'[m][i] = up[m][i]
      BY <2>3
    <3>2. ASSUME NEW m \in Stream, drops < m
          PROVE  up'[m] = <<>>
      <4>1. up[m] = <<>>
        BY <1>0, <3>2 DEF Routed
      <4>. QED BY <2>3, <4>1
    <3>. QED BY <1>0, <1>1, <3>1, <3>2 DEF Remains, Routed
  <2>6. TypeOK'
    BY <1>0, <1>1, <2>2, <2>3, <2>4 DEF TypeOK
  <2>. QED BY <1>0, <1>1, <2>2, <2>5, <2>6, NothingNew, DeviceAside
<1>4. CASE Push
  <2> DEFINE c == [op |-> "command"]
  <2>1. /\ down \in Seq(Control) /\ c \in Control /\ UNCHANGED <<up, busy>>
        /\ Len(down) < DownCap /\ down' = Append(down, c) /\ DownCap \in Nat
    BY <1>0, <1>4, SessionAssumption DEF Push, TypeOK, Control
  <2>2. \A s \in Session : c # OpenOf(s)
    BY DEF OpenOf
  <2>. HIDE DEF c
  <2>3. /\ down' \in Seq(Control) /\ Len(down') = Len(down) + 1 /\ Len(down) \in Nat
        /\ \A i \in DOMAIN down' : (i \in DOMAIN down /\ down'[i] = down[i]) \/ down'[i] = c
    BY <2>1, AppendElements
  <2>4. Len(down') <= DownCap
    BY <2>1, <2>3
  <2>5. TypeOK' /\ Routed' /\ LoopIsReachable' /\ OneLoop' /\ Remains
    BY <1>0, <1>1, <2>1, <2>3, <2>4 DEF TypeOK, Routed, LoopIsReachable, OneLoop, Remains
  <2>6. AllOrdered' /\ \A s \in Session : Untouched(s) => Untouched(s)'
    BY <1>0, <2>5, NothingNew
  <2>7. OpensOnce'
    BY <1>0, <1>1, <2>2, <2>3, <2>6 DEF OpensOnce, OpenOf
  <2>. QED BY <2>5, <2>6, <2>7 DEF SesInv
<1>. QED BY <1>2, <1>3, <1>4

\* The viewers' own steps.
LEMMA ViewerInv ==
  ASSUME SesInv, Browser \/ Viewing
  PROVE  SesInv'
<1>0. TypeOK /\ Routed /\ AllOrdered
  BY DEF SesInv
<1>1. PICK v \in Viewer : Subscribe(v) \/ Cancel(v) \/ StreamEvent(v)
  BY DEF Browser, Viewing
<1>2. /\ UNCHANGED <<start, stops, acked, relay, live, down, up, busy, liveId, loops, missed, drops>>
      /\ sending' \subseteq sending
  BY <1>1 DEF Subscribe, Cancel, StreamEvent, httpVars, agentVars
<1>3. /\ views[v] \in [sub : {"off", "on"}, ch : Seq(Event)] /\ Len(views[v].ch) <= ViewCap
      /\ views \in [Viewer -> [sub : {"off", "on"}, ch : Seq(Event)]]
      /\ shown \in [Viewer -> [Session -> [Stream -> -1..MaxSeq-1]]] /\ MaxSeq \in Nat /\ MaxSeq > 0
  BY <1>0, SessionAssumption DEF TypeOK
<1>4. ASSUME NEW w, views' = [views EXCEPT ![v] = w], w \in [sub : {"off", "on"}, ch : Seq(Event)],
             Len(w.ch) <= ViewCap, shown' \in [Viewer -> [Session -> [Stream -> -1..MaxSeq-1]]]
      PROVE  TypeOK'
  <2>1. views' \in [Viewer -> [sub : {"off", "on"}, ch : Seq(Event)]]
    BY <1>3, <1>4
  <2>2. \A u \in Viewer : Len(views'[u].ch) <= ViewCap
    BY <1>0, <1>3, <1>4 DEF TypeOK
  <2>3. sending' \subseteq [to : Viewer, via : Stream, ev : Event]
    BY <1>0, <1>2 DEF TypeOK
  <2>. QED BY <1>0, <1>2, <1>4, <2>1, <2>2, <2>3 DEF TypeOK
<1>5. Routed'
  BY <1>0, <1>2 DEF Routed
<1>6. CASE Subscribe(v) \/ Cancel(v)
  <2>1. PICK w \in {[sub |-> "on", ch |-> <<Word>>], [sub |-> "off", ch |-> <<>>]} :
          views' = [views EXCEPT ![v] = w]
    BY <1>6 DEF Subscribe, Cancel
  <2>2. shown' = shown \/ shown' = [shown EXCEPT ![v] = NothingShown]
    BY <1>6 DEF Subscribe, Cancel
  <2>3. /\ shown' \in [Viewer -> [Session -> [Stream -> -1..MaxSeq-1]]]
        /\ \A u \in Viewer, s \in Session, k \in Stream : shown'[u][s][k] \in {shown[u][s][k], -1}
    <3>1. -1 \in -1..MaxSeq-1
      BY <1>3
    <3>2. /\ NothingShown \in [Session -> [Stream -> -1..MaxSeq-1]]
          /\ \A s \in Session, k \in Stream : NothingShown[s][k] = -1
      BY <3>1 DEF NothingShown
    <3>3. CASE shown' = [shown EXCEPT ![v] = NothingShown]
      <4>1. \A u \in Viewer : shown'[u] = IF u = v THEN NothingShown ELSE shown[u]
        BY <1>3, <3>3
      <4>. QED BY <1>3, <3>2, <3>3, <4>1
    <3>4. CASE shown' = shown
      BY <1>3, <3>4
    <3>. QED BY <2>2, <3>3, <3>4
  <2>4. Word \in Event
    BY DEF Event
  <2>5. w \in [sub : {"off", "on"}, ch : Seq(Event)] /\ Len(w.ch) <= ViewCap
    <3>1. CASE w = [sub |-> "on", ch |-> <<Word>>]
      <4>1. <<Word>> \in Seq(Event) /\ Len(<<Word>>) = 1
        BY <2>4
      <4>2. 1 <= ViewCap
        BY SessionAssumption
      <4>. QED BY <3>1, <4>1, <4>2
    <3>2. CASE w = [sub |-> "off", ch |-> <<>>]
      <4>1. 0 <= ViewCap
        BY SessionAssumption
      <4>. QED BY <3>2, <4>1
    <3>. QED BY <2>1, <3>1, <3>2
  <2>6. \A i \in DOMAIN w.ch : w.ch[i].kind # "frame"
    BY <2>1 DEF Word
  <2>7. Remains
    BY <1>2, <1>3, <2>1, <2>3, <2>6 DEF Remains
  <2>8. AllOrdered' /\ \A s \in Session : Untouched(s) => Untouched(s)'
    BY <1>0, <2>7, NothingNew
  <2>9. TypeOK'
    BY <1>4, <2>1, <2>3, <2>5
  <2>. QED BY <1>2, <1>5, <2>8, <2>9, DeviceAside
<1>7. CASE StreamEvent(v)
  <2> DEFINE q == views[v].ch
             ev == Head(q)
  <2>1. /\ q \in Seq(Event) /\ q # <<>> /\ views' = [views EXCEPT ![v] = [views[v] EXCEPT !.ch = Tail(q)]]
        /\ shown' = IF ev.kind = "frame" /\ ev.seq < MaxSeq THEN [shown EXCEPT ![v][ev.sid][ev.via] = ev.seq] ELSE shown
        /\ sending' = sending
    BY <1>3, <1>7 DEF StreamEvent
  <2>. HIDE DEF q
  <2>2. /\ Tail(q) \in Seq(Event) /\ Len(Tail(q)) < Len(q) /\ ev \in Event
        /\ 1 \in DOMAIN q /\ ev = q[1]
        /\ \A i \in DOMAIN Tail(q) : i \in Nat /\ 1 < i + 1 /\ i + 1 \in DOMAIN q /\ Tail(q)[i] = q[i + 1]
    BY <2>1, TailElements
  <2>. HIDE DEF ev
  <2>3. ev.kind = "frame" => ev.sid \in Session /\ ev.via \in Stream /\ ev.seq \in 0..MaxSeq
    BY <2>2 DEF Event, Picture, Word
  <2>4. /\ [views[v] EXCEPT !.ch = Tail(q)] \in [sub : {"off", "on"}, ch : Seq(Event)]
        /\ views'[v].ch = Tail(q)
        /\ \A u \in Viewer : u # v => views'[u] = views[u]
    BY <1>3, <2>1, <2>2
  <2>5. Len(Tail(q)) <= ViewCap
    <3>1. Len(Tail(q)) \in Nat /\ Len(q) \in Nat /\ Len(q) <= ViewCap /\ ViewCap \in Nat
      BY <1>3, <2>1, <2>2, SessionAssumption DEF q
    <3>. QED BY <2>2, <3>1
  <2>6. /\ shown' \in [Viewer -> [Session -> [Stream -> -1..MaxSeq-1]]]
        /\ \A u \in Viewer : u # v => shown'[u] = shown[u]
        /\ \A s \in Session, k \in Stream :
             \/ shown'[v][s][k] = shown[v][s][k]
             \/ ev.kind = "frame" /\ ev.sid = s /\ ev.via = k /\ shown'[v][s][k] = ev.seq
    <3>1. CASE ev.kind = "frame" /\ ev.seq < MaxSeq
      <4>1. ev.seq \in -1..MaxSeq-1 /\ ev.sid \in Session /\ ev.via \in Stream
        BY <1>3, <2>3, <3>1
      <4> DEFINE p == [shown[v][ev.sid] EXCEPT ![ev.via] = ev.seq]
                 r == [shown[v] EXCEPT ![ev.sid] = p]
      <4>2. p \in [Stream -> -1..MaxSeq-1] /\ \A k \in Stream : p[k] = IF k = ev.via THEN ev.seq ELSE shown[v][ev.sid][k]
        BY <1>3, <4>1
      <4>3. shown' = [shown EXCEPT ![v] = r]
        BY <2>1, <3>1
      <4>. HIDE DEF p
      <4>4. r \in [Session -> [Stream -> -1..MaxSeq-1]] /\ \A s \in Session : r[s] = IF s = ev.sid THEN p ELSE shown[v][s]
        BY <1>3, <4>1, <4>2
      <4>. HIDE DEF r
      <4>5. shown' \in [Viewer -> [Session -> [Stream -> -1..MaxSeq-1]]] /\ \A u \in Viewer : shown'[u] = IF u = v THEN r ELSE shown[u]
        BY <1>3, <4>3, <4>4
      <4>. QED BY <3>1, <4>2, <4>4, <4>5
    <3>2. CASE ~(ev.kind = "frame" /\ ev.seq < MaxSeq)
      BY <1>3, <2>1, <3>2
    <3>. QED BY <3>1, <3>2
  <2>7. ViewOrdered(v) /\ ScreenOrdered(v)
    BY <1>0 DEF AllOrdered
  <2>8. (\A k \in Stream : StreamOrdered(k)') /\ SendingOrdered'
    BY <1>0, <1>2, <2>1 DEF AllOrdered, StreamOrdered, SendingOrdered
  <2>9. ViewOrdered(v)'
    <3>1. \A i \in DOMAIN q : AheadFor(v, q[i], loops, up, sending) /\ \A j \in DOMAIN q : i < j => Precedes(q[i], q[j])
      BY <2>7 DEF ViewOrdered, q
    <3>2. ASSUME NEW i \in DOMAIN Tail(q)
          PROVE  /\ AheadFor(v, Tail(q)[i], loops, up, sending)
                 /\ \A j \in DOMAIN Tail(q) : i < j => Precedes(Tail(q)[i], Tail(q)[j])
      <4>1. \A j \in DOMAIN Tail(q) : i < j => i + 1 < j + 1
        BY <2>2
      <4>. QED BY <2>2, <3>1, <4>1
    <3>. QED BY <1>2, <2>1, <2>4, <3>2 DEF ViewOrdered
  <2>10. ScreenOrdered(v)'
    <3>. SUFFICES ASSUME NEW s \in Session, NEW k \in Stream
         PROVE  /\ AheadFor(v, Screen(v, s, k)', loops, up, sending)
                /\ \A j \in DOMAIN Tail(q) : Precedes(Screen(v, s, k)', Tail(q)[j])
      BY <1>2, <2>1, <2>4 DEF ScreenOrdered, Screen
    <3> DEFINE g == Screen(v, s, k)'
    <3>1. CASE shown'[v][s][k] = shown[v][s][k]
      <4>1. g = Screen(v, s, k)
        BY <3>1 DEF Screen
      <4>2. AheadFor(v, g, loops, up, sending) /\ \A j \in DOMAIN q : Precedes(g, q[j])
        BY <2>7, <4>1 DEF ScreenOrdered, q
      <4>. QED BY <2>2, <4>2
    <3>2. CASE ev.kind = "frame" /\ ev.sid = s /\ ev.via = k /\ shown'[v][s][k] = ev.seq
      <4>1. g.kind = "frame" /\ g.sid = ev.sid /\ g.via = ev.via /\ g.seq = ev.seq
        BY <3>2 DEF Screen
      <4>. HIDE DEF g
      <4>2. \A f : Precedes(ev, f) => Precedes(g, f)
        BY <3>2, <4>1 DEF Precedes
      <4>3. AheadFor(v, ev, loops, up, sending) /\ \A j \in DOMAIN q : 1 < j => Precedes(ev, q[j])
        BY <2>2, <2>7 DEF ViewOrdered, q
      <4>4. AheadFor(v, g, loops, up, sending)
        BY <3>2, <4>1, <4>2, <4>3 DEF AheadFor, AheadOfLoop, AheadOfStreams
      <4>5. \A j \in DOMAIN Tail(q) : Precedes(g, Tail(q)[j])
        BY <2>2, <4>2, <4>3
      <4>. QED BY <4>4, <4>5 DEF g
    <3>. QED BY <2>6, <3>1, <3>2
  <2>11. ASSUME NEW u \in Viewer, u # v
         PROVE  ViewOrdered(u)' /\ ScreenOrdered(u)'
    <3>1. ViewOrdered(u) /\ ScreenOrdered(u) /\ views'[u] = views[u] /\ shown'[u] = shown[u]
      BY <1>0, <2>4, <2>6, <2>11 DEF AllOrdered
    <3>. QED BY <1>2, <2>1, <3>1 DEF ViewOrdered, ScreenOrdered, Screen
  <2>12. ASSUME NEW s \in Session, Untouched(s)
         PROVE  Untouched(s)'
    <3>1. NoFrame(s, q) /\ \A k \in Stream : shown[v][s][k] = -1
      BY <2>12 DEF Untouched, q
    <3>2. NoFrame(s, Tail(q)) /\ \A k \in Stream : shown'[v][s][k] = -1
      BY <2>2, <2>6, <3>1 DEF NoFrame
    <3>3. ASSUME NEW u \in Viewer
          PROVE  NoFrame(s, views'[u].ch) /\ \A k \in Stream : shown'[u][s][k] = -1
      <4>1. CASE u = v
        BY <2>4, <3>2, <4>1
      <4>2. CASE u # v
        <5>1. views'[u] = views[u] /\ shown'[u] = shown[u]
          BY <2>4, <2>6, <4>2
        <5>. QED BY <2>12, <5>1 DEF Untouched
      <4>. QED BY <4>1, <4>2
    <3>. QED BY <1>2, <2>1, <2>12, <3>3 DEF Untouched, NoFrame
  <2>13. TypeOK'
    BY <1>4, <2>1, <2>4, <2>5, <2>6
  <2>14. AllOrdered'
    BY <2>8, <2>9, <2>10, <2>11 DEF AllOrdered
  <2>. QED BY <1>2, <1>5, <2>12, <2>13, <2>14, DeviceAside
<1>. QED BY <1>1, <1>6, <1>7

\* The last step of OnFrame: one viewer is offered the event.
LEMMA NotifyInv ==
  ASSUME SesInv, NEW d \in sending, Notify(d)
  PROVE  SesInv'
<1>0. TypeOK /\ Routed /\ AllOrdered
  BY DEF SesInv
<1> DEFINE v == d.to
<1>1. /\ UNCHANGED <<start, stops, acked, relay, shown, live, down, up, busy, liveId, loops, missed, drops>>
      /\ sending' = sending \ {d} /\ views' = [views EXCEPT ![v] = Offer(views[v], d.ev)]
  BY DEF Notify, httpVars, agentVars
<1>2. /\ d \in [to : Viewer, via : Stream, ev : Event] /\ v \in Viewer /\ d.ev \in Event
      /\ views \in [Viewer -> [sub : {"off", "on"}, ch : Seq(Event)]]
      /\ views[v] \in [sub : {"off", "on"}, ch : Seq(Event)] /\ Len(views[v].ch) <= ViewCap
  BY <1>0 DEF TypeOK
<1>. HIDE DEF v
<1>3. /\ Offer(views[v], d.ev) \in [sub : {"off", "on"}, ch : Seq(Event)] /\ Len(Offer(views[v], d.ev).ch) <= ViewCap
      /\ Offer(views[v], d.ev).ch \in {views[v].ch, Append(views[v].ch, d.ev)}
  BY <1>2, OfferKeeps DEF ViewType
<1>4. /\ views' \in [Viewer -> [sub : {"off", "on"}, ch : Seq(Event)]]
      /\ views'[v].ch \in {views[v].ch, Append(views[v].ch, d.ev)}
      /\ Len(views'[v].ch) <= ViewCap
      /\ \A u \in Viewer : u # v => views'[u] = views[u]
  BY <1>1, <1>2, <1>3
<1>5. TypeOK'
  <2>1. \A u \in Viewer : Len(views'[u].ch) <= ViewCap
    BY <1>0, <1>4 DEF TypeOK
  <2>. QED BY <1>0, <1>1, <1>4, <2>1 DEF TypeOK
<1>6. Routed'
  BY <1>0, <1>1 DEF Routed
<1>7. CASE views'[v].ch = views[v].ch
  <2>1. \A u \in Viewer : views'[u].ch = views[u].ch
    BY <1>4, <1>7
  <2>2. Remains
    BY <1>1, <2>1 DEF Remains
  <2>. QED BY <1>0, <1>1, <1>5, <1>6, <2>2, NothingNew, DeviceAside
<1>8. CASE views'[v].ch = Append(views[v].ch, d.ev)
  <2> DEFINE q == views[v].ch
             r == views'[v].ch
  <2>1. q \in Seq(Event) /\ r = Append(q, d.ev)
    BY <1>2, <1>8
  <2>. HIDE DEF q, r
  <2>2. /\ \A i \in DOMAIN r : (i \in DOMAIN q /\ r[i] = q[i]) \/ (i = Len(q) + 1 /\ r[i] = d.ev)
        /\ \A i \in DOMAIN q : i \in Nat /\ i < Len(q) + 1
        /\ Len(q) \in Nat
    BY <1>2, <2>1, AppendElements
  <2>3. \A u, f : AheadFor(u, f, loops, up, sending) => AheadFor(u, f, loops', up', sending')
    BY <1>1 DEF AheadFor
  <2>4. AheadFor(v, d.ev, loops', up', sending')
    <3>1. AheadOfLoop(d.ev, loops) /\ AheadOfStreams(d.ev, up) /\ \A e \in sending : d.via < e.via => Precedes(d.ev, e.ev)
      BY <1>0 DEF AllOrdered, SendingOrdered
    <3>2. ASSUME NEW e \in sending', e.to = v
          PROVE  Precedes(d.ev, e.ev)
      <4>1. e \in sending /\ e # d /\ e \in [to : Viewer, via : Stream, ev : Event] /\ e.via \in Int /\ d.via \in Int
        BY <1>0, <1>1, <1>2, <3>2, SessionAssumption DEF TypeOK, Stream
      <4>2. CASE d.via < e.via
        BY <3>1, <4>1, <4>2
      <4>3. CASE e.via < d.via
        <5>1. d.ev.kind = "frame" /\ e.ev.kind = "frame" => ~(d.ev.via <= e.ev.via)
          BY <1>0, <4>1, <4>3 DEF Routed
        <5>. QED BY <5>1 DEF Precedes
      <4>4. CASE d.via = e.via
        <5>1. d.ev = e.ev /\ d.to = e.to
          BY <1>0, <3>2, <4>1, <4>4 DEF Routed, v
        <5>2. d = e
          BY <1>2, <4>1, <4>4, <5>1
        <5>. QED BY <4>1, <5>2
      <4>. QED BY <4>1, <4>2, <4>3, <4>4
    <3>. QED BY <1>1, <3>1, <3>2 DEF AheadFor
  <2>5. \A f : AheadFor(v, f, loops, up, sending) => Precedes(f, d.ev)
    BY DEF AheadFor, v
  <2>6. (\A k \in Stream : StreamOrdered(k)') /\ SendingOrdered'
    BY <1>0, <1>1 DEF AllOrdered, StreamOrdered, SendingOrdered
  <2>7. ViewOrdered(v)'
    <3>1. \A i \in DOMAIN q : AheadFor(v, q[i], loops, up, sending) /\ \A j \in DOMAIN q : i < j => Precedes(q[i], q[j])
      BY <1>0, <1>2 DEF AllOrdered, ViewOrdered, q
    <3>2. ASSUME NEW i \in DOMAIN r
          PROVE  /\ AheadFor(v, r[i], loops', up', sending')
                 /\ \A j \in DOMAIN r : i < j => Precedes(r[i], r[j])
      <4>1. CASE i \in DOMAIN q /\ r[i] = q[i]
        BY <2>2, <2>3, <2>5, <3>1, <4>1
      <4>2. CASE i = Len(q) + 1 /\ r[i] = d.ev
        <5>1. \A j \in DOMAIN r : ~(i < j)
          BY <2>2, <4>2
        <5>. QED BY <2>4, <4>2, <5>1
      <4>. QED BY <2>2, <4>1, <4>2
    <3>. QED BY <3>2 DEF ViewOrdered, r
  <2>8. ScreenOrdered(v)'
    <3>. SUFFICES ASSUME NEW s \in Session, NEW k \in Stream
         PROVE  /\ AheadFor(v, Screen(v, s, k), loops', up', sending')
                /\ \A j \in DOMAIN r : Precedes(Screen(v, s, k), r[j])
      BY <1>1 DEF ScreenOrdered, Screen, r
    <3>1. AheadFor(v, Screen(v, s, k), loops, up, sending) /\ \A j \in DOMAIN q : Precedes(Screen(v, s, k), q[j])
      BY <1>0, <1>2 DEF AllOrdered, ScreenOrdered, q
    <3>. QED BY <2>2, <2>3, <2>5, <3>1
  <2>9. ASSUME NEW u \in Viewer, u # v
        PROVE  ViewOrdered(u)' /\ ScreenOrdered(u)'
    <3>1. ViewOrdered(u) /\ ScreenOrdered(u) /\ views'[u] = views[u] /\ shown'[u] = shown[u]
      BY <1>0, <1>1, <1>4, <2>9 DEF AllOrdered
    <3>. QED BY <2>3, <3>1 DEF ViewOrdered, ScreenOrdered, Screen
  <2>10. ASSUME NEW s \in Session, Untouched(s)
         PROVE  Untouched(s)'
    <3>1. NoFrame(s, q) /\ (d.ev.kind = "frame" => d.ev.sid # s)
      BY <1>2, <2>10 DEF Untouched, q
    <3>2. NoFrame(s, r)
      BY <2>2, <3>1 DEF NoFrame
    <3>3. \A u \in Viewer : NoFrame(s, views'[u].ch)
      <4>. TAKE u \in Viewer
      <4>1. CASE u = v
        BY <3>2, <4>1 DEF r
      <4>2. CASE u # v
        BY <1>4, <2>10, <4>2 DEF Untouched
      <4>. QED BY <4>1, <4>2
    <3>. QED BY <1>1, <2>10, <3>3 DEF Untouched, NoFrame
  <2>11. AllOrdered'
    BY <2>6, <2>7, <2>8, <2>9 DEF AllOrdered
  <2>. QED BY <1>0, <1>1, <1>5, <1>6, <2>10, <2>11, DeviceAside
<1>. QED BY <1>4, <1>7, <1>8

\* The first step of OnFrame: the handler of stream k reads a frame and notes who
\* is to be offered it.
LEMMA OnFrameInv ==
  ASSUME SesInv, NEW k \in Stream, OnFrame(k)
  PROVE  SesInv'
<1>0. TypeOK /\ Routed /\ AllOrdered
  BY DEF SesInv
<1> DEFINE q == up[k]
           f == Head(q)
           w == IF f.kind = "frame" THEN f ELSE Word
           on == {v \in Viewer : views[v].sub = "on"}
<1>1. /\ UNCHANGED <<start, stops, acked, views, shown, live, down, busy, liveId, loops, missed, drops>>
      /\ up \in [Stream -> Seq(Frame)] /\ q \in Seq(Frame) /\ q # <<>> /\ Ready(k)
      /\ up' = [up EXCEPT ![k] = Tail(q)] /\ relay' = f.sid
      /\ sending' = sending \cup [to : on, via : {f.via}, ev : {w}]
  BY <1>0 DEF OnFrame, TypeOK, httpVars, viewVars, agentVars, Deliveries
<1>2. /\ Tail(q) \in Seq(Frame) /\ Len(Tail(q)) < Len(q) /\ f \in Frame
      /\ 1 \in DOMAIN q /\ f = q[1]
      /\ \A i \in DOMAIN Tail(q) : i \in Nat /\ 1 < i + 1 /\ i + 1 \in DOMAIN q /\ Tail(q)[i] = q[i + 1]
  BY <1>1, TailElements
<1>3. /\ up' \in [Stream -> Seq(Frame)] /\ up'[k] = Tail(q)
      /\ \A m \in Stream : m # k => up'[m] = up[m]
  BY <1>1, <1>2
<1>4. f.via = k /\ f.sid \in Session
  BY <1>0, <1>2 DEF Routed, Frame, Picture
<1>. HIDE DEF f
<1>5. /\ w \in Event /\ (w.kind = "frame" => w = f)
  BY <1>2 DEF Frame, Event, Word, Picture
<1>6. ASSUME NEW g
      PROVE  (Precedes(f, g) => Precedes(w, g)) /\ (Precedes(g, f) => Precedes(g, w))
  BY <1>5 DEF Precedes
<1>7. /\ \A e \in sending' : \/ e \in sending /\ e.via # k
                             \/ e.via = k /\ e.ev = w /\ e.to \in Viewer
      /\ sending' \subseteq [to : Viewer, via : Stream, ev : Event]
  BY <1>0, <1>1, <1>4, <1>5 DEF TypeOK, Ready
<1>. HIDE DEF w, q
<1>8. TypeOK'
  <2>1. ASSUME NEW m \in Stream
        PROVE  Len(up'[m]) <= UpCap
    <3>1. CASE m = k
      <4>1. Len(Tail(q)) \in Nat /\ Len(q) \in Nat /\ Len(q) <= UpCap /\ UpCap \in Nat
        BY <1>0, <1>1, <1>2, SessionAssumption DEF TypeOK, q
      <4>. QED BY <1>2, <1>3, <3>1, <4>1
    <3>2. CASE m # k
      BY <1>0, <1>3, <3>2 DEF TypeOK
    <3>. QED BY <3>1, <3>2
  <2>. QED BY <1>0, <1>1, <1>3, <1>4, <1>7, <2>1 DEF TypeOK
<1>9. Routed'
  <2>1. ASSUME NEW m \in Stream, NEW i \in DOMAIN up'[m]
        PROVE  up'[m][i].via = m
    <3>1. \E j \in DOMAIN up[m] : up'[m][i] = up[m][j]
      BY <1>2, <1>3 DEF q
    <3>. QED BY <1>0, <3>1 DEF Routed
  <2>2. ASSUME NEW m \in Stream, drops < m
        PROVE  up'[m] = <<>>
    <3>1. up[m] = <<>> /\ m # k
      BY <1>0, <1>1, <2>2 DEF Routed, q
    <3>. QED BY <1>3, <3>1
  <2>3. k <= drops
    <3>1. ~(drops < k)
      BY <1>0, <1>1 DEF Routed, q
    <3>. QED BY <1>0, <3>1, SessionAssumption DEF TypeOK, Stream
  <2>4. \A e \in sending' : e.via <= drops /\ (e.ev.kind = "frame" => e.ev.via = e.via)
    BY <1>0, <1>4, <1>5, <1>7, <2>3 DEF Routed
  <2>5. \A d, e \in sending' : d.via = e.via => d.ev = e.ev
    BY <1>0, <1>7 DEF Routed
  <2>6. ~live' => drops' < MaxDrop
    BY <1>0, <1>1 DEF Routed
  <2>. QED BY <1>1, <2>1, <2>2, <2>4, <2>5, <2>6 DEF Routed
<1>10. \A m \in Stream : \A i \in DOMAIN up'[m] : \E j \in DOMAIN up[m] : up'[m][i] = up[m][j]
  BY <1>2, <1>3 DEF q
<1>11. ASSUME NEW g, AheadOfStreams(g, up)
       PROVE  AheadOfStreams(g, up') /\ Precedes(g, w)
  <2>1. Precedes(g, f)
    BY <1>2, <1>11 DEF AheadOfStreams, q
  <2>. QED BY <1>6, <1>10, <1>11, <2>1 DEF AheadOfStreams
<1>12. ASSUME NEW v, NEW g, AheadFor(v, g, loops, up, sending)
       PROVE  AheadFor(v, g, loops', up', sending')
  BY <1>1, <1>7, <1>11, <1>12 DEF AheadFor
<1>13. /\ AheadOfLoop(f, loops)
       /\ \A j \in DOMAIN q : 1 < j => Precedes(f, q[j])
       /\ \A m \in Stream : k < m => \A j \in DOMAIN up[m] : Precedes(f, up[m][j])
       /\ \A e \in sending : k < e.via => Precedes(f, e.ev)
  BY <1>0, <1>2 DEF AllOrdered, StreamOrdered, q
<1>14. AheadOfLoop(w, loops) /\ AheadOfStreams(w, up')
  <2>1. AheadOfLoop(w, loops)
    BY <1>5, <1>13 DEF AheadOfLoop
  <2>2. ASSUME NEW m \in Stream, NEW i \in DOMAIN up'[m]
        PROVE  Precedes(f, up'[m][i])
    <3>1. CASE m = k
      BY <1>2, <1>3, <1>13, <3>1
    <3>2. CASE k < m
      BY <1>3, <1>10, <1>13, <3>2
    <3>3. CASE m < k
      <4>1. up'[m][i].via = m
        BY <1>9 DEF Routed
      <4>2. ~(f.via <= up'[m][i].via)
        BY <1>4, <3>3, <4>1, SessionAssumption DEF Stream
      <4>. QED BY <4>2 DEF Precedes
    <3>. QED BY <3>1, <3>2, <3>3, SessionAssumption DEF Stream
  <2>. QED BY <1>6, <2>1, <2>2 DEF AheadOfStreams
<1>15. ASSUME NEW m \in Stream
       PROVE  StreamOrdered(m)'
  <2>. SUFFICES ASSUME NEW i \in DOMAIN up'[m]
       PROVE  /\ AheadOfLoop(up'[m][i], loops')
              /\ \A j \in DOMAIN up'[m] : i < j => Precedes(up'[m][i], up'[m][j])
              /\ \A n \in Stream : m < n => \A j \in DOMAIN up'[n] : Precedes(up'[m][i], up'[n][j])
              /\ \A d \in sending' : m < d.via => Precedes(up'[m][i], d.ev)
    BY DEF StreamOrdered
  <2>1. StreamOrdered(m)
    BY <1>0 DEF AllOrdered
  <2>2. PICK a \in DOMAIN up[m] : up'[m][i] = up[m][a] /\ \A j \in DOMAIN up'[m] : i < j => Precedes(up'[m][i], up'[m][j])
    <3>1. CASE m = k
      <4>1. \A j \in DOMAIN Tail(q) : i < j => i + 1 < j + 1
        BY <1>2, <1>3, <3>1
      <4>2. \A j \in DOMAIN Tail(q) : i < j => Precedes(q[i + 1], q[j + 1])
        BY <1>2, <1>3, <2>1, <3>1, <4>1 DEF StreamOrdered, q
      <4>3. i + 1 \in DOMAIN up[m] /\ up'[m][i] = up[m][i + 1]
        BY <1>2, <1>3, <3>1 DEF q
      <4>. QED BY <1>2, <1>3, <3>1, <4>2, <4>3 DEF q
    <3>2. CASE m # k
      BY <1>3, <2>1, <3>2 DEF StreamOrdered
    <3>. QED BY <3>1, <3>2
  <2>3. AheadOfLoop(up'[m][i], loops')
    BY <1>1, <2>1, <2>2 DEF StreamOrdered
  <2>4. \A n \in Stream : m < n => \A j \in DOMAIN up'[n] : Precedes(up'[m][i], up'[n][j])
    BY <1>10, <2>1, <2>2 DEF StreamOrdered
  <2>5. ASSUME NEW d \in sending', m < d.via
        PROVE  Precedes(up'[m][i], d.ev)
    <3>1. CASE d \in sending
      BY <2>1, <2>2, <2>5, <3>1 DEF StreamOrdered
    <3>2. CASE d.via = k /\ d.ev = w
      <4>1. Precedes(up[m][a], f)
        BY <1>2, <2>1, <2>5, <3>2 DEF StreamOrdered, q
      <4>. QED BY <1>6, <2>2, <3>2, <4>1
    <3>. QED BY <1>7, <3>1, <3>2
  <2>. QED BY <2>2, <2>3, <2>4, <2>5
<1>16. SendingOrdered'
  <2>. SUFFICES ASSUME NEW d \in sending'
       PROVE  /\ AheadOfLoop(d.ev, loops') /\ AheadOfStreams(d.ev, up')
              /\ \A e \in sending' : d.via < e.via => Precedes(d.ev, e.ev)
    BY DEF SendingOrdered
  <2>1. CASE d \in sending
    <3>1. AheadOfLoop(d.ev, loops) /\ AheadOfStreams(d.ev, up) /\ \A e \in sending : d.via < e.via => Precedes(d.ev, e.ev)
      BY <1>0, <2>1 DEF AllOrdered, SendingOrdered
    <3>. QED BY <1>1, <1>7, <1>11, <3>1
  <2>2. CASE d.via = k /\ d.ev = w
    <3>1. ASSUME NEW e \in sending', k < e.via
          PROVE  Precedes(w, e.ev)
      <4>1. k # e.via
        BY <3>1, SessionAssumption DEF Stream
      <4>2. e \in sending
        BY <1>7, <4>1
      <4>. QED BY <1>6, <1>13, <3>1, <4>2
    <3>. QED BY <1>1, <1>14, <2>2, <3>1
  <2>. QED BY <1>7, <2>1, <2>2
<1>17. ASSUME NEW v \in Viewer
       PROVE  ViewOrdered(v)' /\ ScreenOrdered(v)'
  <2>1. ViewOrdered(v) /\ ScreenOrdered(v) /\ views' = views /\ shown' = shown
    BY <1>0, <1>1 DEF AllOrdered
  <2>. QED BY <1>12, <2>1 DEF ViewOrdered, ScreenOrdered, Screen
<1>18. ASSUME NEW s \in Session, Untouched(s)
       PROVE  Untouched(s)'
  <2>1. \A m \in Stream : NoFrame(s, up[m])
    BY <1>18 DEF Untouched
  <2>2. f.kind = "frame" => f.sid # s
    BY <1>2, <2>1 DEF NoFrame, q
  <2>3. \A m \in Stream : NoFrame(s, up'[m])
    BY <1>10, <2>1 DEF NoFrame
  <2>4. \A d \in sending' : d.ev.kind = "frame" => d.ev.sid # s
    BY <1>5, <1>7, <1>18, <2>2 DEF Untouched
  <2>. QED BY <1>1, <1>18, <2>3, <2>4 DEF Untouched
<1>19. AllOrdered'
  BY <1>15, <1>16, <1>17 DEF AllOrdered
<1>. QED BY <1>1, <1>8, <1>9, <1>18, <1>19, DeviceAside

\* The capture loop's steps.
LEMMA LoopInv ==
  ASSUME SesInv, Loop
  PROVE  SesInv'
<1>0. TypeOK /\ LoopIsReachable /\ OneLoop /\ OpensOnce /\ Routed /\ AllOrdered
  BY DEF SesInv
<1>1. PICK l \in loops : CaptureFrame(l) \/ EmitStatus(l) \/ SendFails(l)
  BY DEF Loop
<1>2. UNCHANGED <<start, stops, acked, relay, views, shown, live, down, sending, busy, liveId, missed, drops>>
  BY <1>1 DEF CaptureFrame, EmitStatus, SendFails, httpVars, relayVars, agentVars
<1>3. /\ l \in [sid : Session, seq : 0..MaxSeq] /\ l.sid = liveId /\ loops = {l}
      /\ MaxSeq \in Nat /\ up \in [Stream -> Seq(Frame)] /\ drops \in Stream
  BY <1>0, SessionAssumption DEF TypeOK, LoopIsReachable, OneLoop
<1>4. ASSUME TypeOK', Routed', AllOrdered', LoopIsReachable', OneLoop',
             \A s \in Session : Untouched(s) => Untouched(s)'
      PROVE  SesInv'
  BY <1>0, <1>2, <1>4 DEF SesInv, OpensOnce
<1>5. ASSUME NEW f \in Frame, f.via = drops, PushFrame(f)
      PROVE  /\ up' \in [Stream -> Seq(Frame)] /\ \A k \in Stream : Len(up'[k]) <= UpCap
             /\ \A k \in Stream : k # drops => up'[k] = up[k]
             /\ \A k \in Stream : \A i \in DOMAIN up'[k] :
                  \/ i \in DOMAIN up[k] /\ up'[k][i] = up[k][i]
                  \/ k = drops /\ i = Len(up[drops]) + 1 /\ up'[k][i] = f
             /\ \A i \in DOMAIN up[drops] : i \in Nat /\ i < Len(up[drops]) + 1
             /\ Len(up[drops]) \in Nat
             /\ Routed'
  <2>1. /\ up' \in [Stream -> Seq(Frame)] /\ \A k \in Stream : Len(up'[k]) <= UpCap
        /\ up'[drops] = Append(up[drops], f) /\ up[drops] \in Seq(Frame)
        /\ \A k \in Stream : k # drops => up'[k] = up[k]
    BY <1>0, <1>3, <1>5, PushFrameType
  <2>2. /\ \A i \in DOMAIN up'[drops] : \/ i \in DOMAIN up[drops] /\ up'[drops][i] = up[drops][i]
                                        \/ i = Len(up[drops]) + 1 /\ up'[drops][i] = f
        /\ \A i \in DOMAIN up[drops] : i \in Nat /\ i < Len(up[drops]) + 1
        /\ Len(up[drops]) \in Nat
    BY <2>1, AppendElements
  <2>3. \A k \in Stream : \A i \in DOMAIN up'[k] :
          \/ i \in DOMAIN up[k] /\ up'[k][i] = up[k][i]
          \/ k = drops /\ i = Len(up[drops]) + 1 /\ up'[k][i] = f
    <3>. TAKE k \in Stream
    <3>1. CASE k = drops
      BY <2>2, <3>1
    <3>2. CASE k # drops
      BY <2>1, <3>2
    <3>. QED BY <3>1, <3>2
  <2>4. \A k \in Stream : \A i \in DOMAIN up'[k] : up'[k][i].via = k
    BY <1>0, <1>5, <2>3 DEF Routed
  <2>5. \A k \in Stream : drops < k => up'[k] = <<>>
    <3>1. \A k \in Stream : drops < k => k # drops
      BY <1>3, SessionAssumption DEF Stream
    <3>. QED BY <1>0, <2>1, <3>1 DEF Routed
  <2>6. Routed'
    BY <1>0, <1>2, <2>4, <2>5 DEF Routed
  <2>. QED BY <2>1, <2>2, <2>3, <2>6
<1>6. CASE EmitStatus(l)
  <2> DEFINE f == [sid |-> l.sid, via |-> drops, kind |-> "status"]
  <2>1. f \in Frame /\ f.kind # "frame" /\ f.via = drops
    BY <1>3 DEF Frame
  <2>2. UNCHANGED loops /\ PushFrame(f)
    BY <1>6 DEF EmitStatus, agentVars
  <2>. HIDE DEF f
  <2>3. TypeOK' /\ LoopIsReachable' /\ OneLoop' /\ Routed'
    BY <1>0, <1>2, <1>5, <2>1, <2>2 DEF TypeOK, LoopIsReachable, OneLoop
  <2>4. \A k \in Stream : \A i \in DOMAIN up'[k] :
          up'[k][i].kind = "frame" => i \in DOMAIN up[k] /\ up'[k][i] = up[k][i]
    BY <1>5, <2>1, <2>2
  <2>5. Remains
    BY <1>2, <2>2, <2>4 DEF Remains
  <2>. QED BY <1>0, <1>4, <2>3, <2>5, NothingNew
<1>7. CASE SendFails(l)
  <2>1. loops' \subseteq loops /\ up' = up
    BY <1>7 DEF SendFails
  <2>2. Remains
    BY <1>2, <2>1 DEF Remains
  <2>3. TypeOK' /\ LoopIsReachable' /\ OneLoop' /\ Routed'
    BY <1>0, <1>2, <2>1 DEF TypeOK, LoopIsReachable, OneLoop, Routed
  <2>. QED BY <1>0, <1>4, <2>2, <2>3, NothingNew
<1>8. CASE CaptureFrame(l)
  <2> DEFINE f == [sid |-> l.sid, via |-> drops, seq |-> l.seq, kind |-> "frame"]
             n == NextSeq(l)
  <2>1. f \in Frame /\ f.kind = "frame" /\ f.sid = l.sid /\ f.via = drops /\ f.seq = l.seq
    BY <1>3 DEF Frame, Picture
  <2>2. loops' = {n} /\ PushFrame(f)
    BY <1>3, <1>8 DEF CaptureFrame
  <2>3. /\ n \in [sid : Session, seq : 0..MaxSeq] /\ n.sid = l.sid
        /\ n.seq = IF l.seq < MaxSeq THEN l.seq + 1 ELSE l.seq
    BY <1>3 DEF NextSeq
  <2>. HIDE DEF f, n
  <2>4. Before(l.seq, n.seq) /\ \A a \in Int : Before(a, l.seq) => Before(a, n.seq)
    BY <1>3, <2>3 DEF Before
  <2>5. /\ up' \in [Stream -> Seq(Frame)] /\ \A k \in Stream : Len(up'[k]) <= UpCap
        /\ \A k \in Stream : k # drops => up'[k] = up[k]
        /\ \A k \in Stream : \A i \in DOMAIN up'[k] :
             \/ i \in DOMAIN up[k] /\ up'[k][i] = up[k][i]
             \/ k = drops /\ i = Len(up[drops]) + 1 /\ up'[k][i] = f
        /\ \A i \in DOMAIN up[drops] : i \in Nat /\ i < Len(up[drops]) + 1
        /\ Len(up[drops]) \in Nat
        /\ Routed'
    BY <1>5, <2>1, <2>2
  <2>6. ASSUME NEW g, g.kind = "frame" => g.seq \in Int, AheadOfLoop(g, loops)
        PROVE  AheadOfLoop(g, loops') /\ Precedes(g, f)
    BY <1>3, <2>1, <2>2, <2>3, <2>4, <2>6 DEF AheadOfLoop, Precedes
  <2>7. ASSUME NEW g, g.kind = "frame" => g.seq \in Int, AheadOfLoop(g, loops), AheadOfStreams(g, up)
        PROVE  AheadOfStreams(g, up')
    BY <2>5, <2>6, <2>7 DEF AheadOfStreams
  <2>8. ASSUME NEW v, NEW g, g.kind = "frame" => g.seq \in Int, AheadFor(v, g, loops, up, sending)
        PROVE  AheadFor(v, g, loops', up', sending')
    BY <1>2, <2>6, <2>7, <2>8 DEF AheadFor
  <2>9. \A g \in Frame \cup Event : g.kind = "frame" => g.seq \in Int
    BY <1>3 DEF Frame, Event, Picture, Word
  <2>10. ASSUME NEW k \in Stream
         PROVE  StreamOrdered(k)'
    <3>. SUFFICES ASSUME NEW i \in DOMAIN up'[k]
         PROVE  /\ AheadOfLoop(up'[k][i], loops')
                /\ \A j \in DOMAIN up'[k] : i < j => Precedes(up'[k][i], up'[k][j])
                /\ \A m \in Stream : k < m => \A j \in DOMAIN up'[m] : Precedes(up'[k][i], up'[m][j])
                /\ \A d \in sending' : k < d.via => Precedes(up'[k][i], d.ev)
      BY DEF StreamOrdered
    <3>1. CASE i \in DOMAIN up[k] /\ up'[k][i] = up[k][i]
      <4> DEFINE g == up[k][i]
      <4>0. g \in Frame /\ StreamOrdered(k)
        BY <1>0, <1>3, <3>1 DEF AllOrdered
      <4>1. /\ g \in Frame /\ AheadOfLoop(g, loops)
            /\ \A j \in DOMAIN up[k] : i < j => Precedes(g, up[k][j])
            /\ \A m \in Stream : k < m => \A j \in DOMAIN up[m] : Precedes(g, up[m][j])
            /\ \A d \in sending : k < d.via => Precedes(g, d.ev)
        BY <3>1, <4>0 DEF StreamOrdered
      <4>. HIDE DEF g
      <4>2. AheadOfLoop(g, loops') /\ Precedes(g, f)
        BY <2>6, <2>9, <4>1
      <4>3. /\ \A j \in DOMAIN up'[k] : i < j => Precedes(g, up'[k][j])
            /\ \A m \in Stream : k < m => \A j \in DOMAIN up'[m] : Precedes(g, up'[m][j])
        BY <2>5, <4>1, <4>2
      <4>4. \A d \in sending' : k < d.via => Precedes(g, d.ev)
        BY <1>2, <4>1
      <4>5. up'[k][i] = g
        BY <3>1 DEF g
      <4>. QED BY <4>2, <4>3, <4>4, <4>5
    <3>2. CASE k = drops /\ i = Len(up[drops]) + 1 /\ up'[k][i] = f
      <4>1. AheadOfLoop(f, loops')
        BY <1>3, <2>1, <2>2, <2>3, <2>4 DEF AheadOfLoop
      <4>2. \A j \in DOMAIN up'[k] : ~(i < j)
        BY <2>5, <3>2
      <4>3. \A m \in Stream : k < m => up'[m] = <<>>
        BY <1>2, <2>5, <3>2 DEF Routed
      <4>4. \A d \in sending' : ~(k < d.via)
        <5>1. \A d \in sending : d.via <= drops /\ d.via \in Int
          BY <1>0, SessionAssumption DEF Routed, TypeOK, Stream
        <5>. QED BY <1>2, <1>3, <3>2, <5>1, SessionAssumption DEF Stream
      <4>. QED BY <3>2, <4>1, <4>2, <4>3, <4>4
    <3>. QED BY <2>5, <3>1, <3>2
  <2>11. SendingOrdered'
    <3>. SUFFICES ASSUME NEW d \in sending
         PROVE  /\ AheadOfLoop(d.ev, loops') /\ AheadOfStreams(d.ev, up')
                /\ \A e \in sending : d.via < e.via => Precedes(d.ev, e.ev)
      BY <1>2 DEF SendingOrdered
    <3>1. /\ AheadOfLoop(d.ev, loops) /\ AheadOfStreams(d.ev, up) /\ d.ev \in Event
          /\ \A e \in sending : d.via < e.via => Precedes(d.ev, e.ev)
      BY <1>0 DEF AllOrdered, SendingOrdered, TypeOK
    <3>. QED BY <2>6, <2>7, <2>9, <3>1
  <2>12. ASSUME NEW v \in Viewer
         PROVE  ViewOrdered(v)'
    <3>1. ViewOrdered(v) /\ views' = views
      BY <1>0, <1>2 DEF AllOrdered
    <3>2. \A i \in DOMAIN views[v].ch : views[v].ch[i] \in Event
      BY <1>0 DEF TypeOK
    <3>. QED BY <2>8, <2>9, <3>1, <3>2 DEF ViewOrdered
  <2>13. ASSUME NEW v \in Viewer
         PROVE  ScreenOrdered(v)'
    <3>. SUFFICES ASSUME NEW s \in Session, NEW k \in Stream
         PROVE  /\ AheadFor(v, Screen(v, s, k), loops', up', sending')
                /\ \A j \in DOMAIN views[v].ch : Precedes(Screen(v, s, k), views[v].ch[j])
      BY <1>2 DEF ScreenOrdered, Screen
    <3>1. shown[v][s][k] \in -1..MaxSeq-1
      BY <1>0 DEF TypeOK
    <3>2. Screen(v, s, k).seq \in Int
      BY <1>3, <3>1 DEF Screen
    <3>3. AheadFor(v, Screen(v, s, k), loops, up, sending) /\ \A j \in DOMAIN views[v].ch : Precedes(Screen(v, s, k), views[v].ch[j])
      BY <1>0 DEF AllOrdered, ScreenOrdered
    <3>. QED BY <2>8, <3>2, <3>3
  <2>14. ASSUME NEW s \in Session, Untouched(s)
         PROVE  Untouched(s)'
    <3>1. l.sid # s /\ \A k \in Stream : NoFrame(s, up[k])
      BY <2>14 DEF Untouched
    <3>2. \A k \in Stream : NoFrame(s, up'[k])
      BY <2>1, <2>5, <3>1 DEF NoFrame
    <3>. QED BY <1>2, <2>2, <2>3, <2>14, <3>1, <3>2 DEF Untouched
  <2>15. TypeOK'
    BY <1>0, <1>2, <2>2, <2>3, <2>5 DEF TypeOK
  <2>16. LoopIsReachable' /\ OneLoop'
    BY <1>2, <1>3, <2>2, <2>3 DEF LoopIsReachable, OneLoop
  <2>17. AllOrdered'
    BY <2>10, <2>11, <2>12, <2>13 DEF AllOrdered
  <2>. QED BY <1>4, <2>5, <2>14, <2>15, <2>16, <2>17
<1>. QED BY <1>1, <1>6, <1>7, <1>8

\* The reader takes what is queued.
LEMMA ReceiveInv ==
  ASSUME SesInv, Receive
  PROVE  SesInv'
<1>0. TypeOK /\ LoopIsReachable /\ OneLoop /\ OpensOnce /\ Routed /\ AllOrdered
  BY DEF SesInv
<1> DEFINE c == Head(down)
<1>1. /\ UNCHANGED <<start, stops, acked, relay, views, shown, live, up, sending, missed, drops>>
      /\ down \in Seq(Control) /\ down # <<>> /\ down' = Tail(down) /\ busy' \in BOOLEAN
  BY <1>0 DEF Receive, TypeOK, httpVars, relayVars
<1>2. /\ Tail(down) \in Seq(Control) /\ Len(Tail(down)) < Len(down) /\ c \in Control
      /\ 1 \in DOMAIN down /\ c = down[1]
      /\ \A i \in DOMAIN Tail(down) : i \in Nat /\ 1 < i + 1 /\ i + 1 \in DOMAIN down /\ Tail(down)[i] = down[i + 1]
  BY <1>1, TailElements
<1>. HIDE DEF c
<1>3. Len(down') <= DownCap
  <2>1. Len(Tail(down)) \in Nat /\ Len(down) \in Nat /\ Len(down) <= DownCap /\ DownCap \in Nat
    BY <1>0, <1>1, <1>2, SessionAssumption DEF TypeOK
  <2>. QED BY <1>1, <1>2, <2>1
<1>4. StopLoop(loops) = {}
  BY <1>0 DEF LoopIsReachable, StopLoop
<1>5. Routed'
  BY <1>0, <1>1 DEF Routed
<1>6. CASE c.op = "open" /\ DriverOpen(c.sid)
  <2> DEFINE s == c.sid
             l0 == [sid |-> s, seq |-> 0]
  <2>1. s \in Session /\ down[1] = OpenOf(s) /\ loops' = {l0} /\ liveId' = s
    BY <1>2, <1>4, <1>6 DEF DriverOpen, StartLoop, OpenOf, Control
  <2>. HIDE DEF s
  <2>2. /\ Untouched(s) /\ start[s] = "sent"
        /\ \A j \in DOMAIN down : down[j] = OpenOf(s) => j = 1
    BY <1>0, <1>2, <2>1 DEF OpensOnce
  <2>3. l0 \in [sid : Session, seq : 0..MaxSeq] /\ l0.sid = s /\ l0.seq = 0
    BY <2>1, SessionAssumption
  <2>. HIDE DEF l0
  <2>4. ASSUME NEW g, g.kind = "frame" /\ g.sid = s => g.seq = -1
        PROVE  AheadOfLoop(g, loops')
    <3>1. Before(-1, 0)
      BY DEF Before
    <3>. QED BY <2>1, <2>3, <2>4, <3>1 DEF AheadOfLoop
  <2>5. /\ \A k \in Stream : \A i \in DOMAIN up[k] : up[k][i].kind = "frame" => up[k][i].sid # s
        /\ \A d \in sending : d.ev.kind = "frame" => d.ev.sid # s
        /\ \A v \in Viewer : \A i \in DOMAIN views[v].ch : views[v].ch[i].kind = "frame" => views[v].ch[i].sid # s
        /\ \A v \in Viewer, k \in Stream : shown[v][s][k] = -1
    BY <2>2 DEF Untouched, NoFrame
  <2>6. \A k \in Stream : StreamOrdered(k)'
    BY <1>0, <1>1, <2>4, <2>5 DEF AllOrdered, StreamOrdered
  <2>7. SendingOrdered'
    BY <1>0, <1>1, <2>4, <2>5 DEF AllOrdered, SendingOrdered
  <2>8. ASSUME NEW v \in Viewer
        PROVE  ViewOrdered(v)'
    <3>1. ViewOrdered(v)
      BY <1>0 DEF AllOrdered
    <3>. QED BY <1>1, <2>4, <2>5, <3>1 DEF ViewOrdered, AheadFor
  <2>9. ASSUME NEW v \in Viewer
        PROVE  ScreenOrdered(v)'
    <3>1. ScreenOrdered(v)
      BY <1>0 DEF AllOrdered
    <3>2. \A t \in Session, k \in Stream : AheadOfLoop(Screen(v, t, k), loops')
      BY <2>4, <2>5 DEF Screen
    <3>. QED BY <1>1, <3>1, <3>2 DEF ScreenOrdered, AheadFor, Screen
  <2>10. OpensOnce'
    <3>1. ASSUME NEW t \in Session, t # s, Untouched(t)
          PROVE  Untouched(t)'
      BY <1>1, <2>1, <2>3, <3>1 DEF Untouched, NoFrame
    <3>. SUFFICES ASSUME NEW t \in Session
         PROVE  /\ start'[t] # "sent" => Untouched(t)' /\ \A i \in DOMAIN down' : down'[i] # OpenOf(t)
                /\ \A i \in DOMAIN down' : down'[i] = OpenOf(t) =>
                     Untouched(t)' /\ \A j \in DOMAIN down' : down'[j] = OpenOf(t) => j = i
      BY DEF OpensOnce, OpenOf
    <3>2. CASE t = s
      <4>1. \A i \in DOMAIN down' : down'[i] # OpenOf(s)
        BY <1>1, <1>2, <2>2
      <4>. QED BY <1>1, <2>2, <3>2, <4>1
    <3>3. CASE t # s
      <4>1. \A i, j \in DOMAIN down' : i + 1 = j + 1 => i = j
        BY <1>1, <1>2
      <4>. QED BY <1>0, <1>1, <1>2, <3>1, <3>3, <4>1 DEF OpensOnce
    <3>. QED BY <3>2, <3>3
  <2>11. TypeOK'
    BY <1>0, <1>1, <1>2, <1>3, <2>1, <2>3 DEF TypeOK
  <2>12. LoopIsReachable' /\ OneLoop'
    BY <2>1, <2>3 DEF LoopIsReachable, OneLoop
  <2>13. AllOrdered'
    BY <2>6, <2>7, <2>8, <2>9 DEF AllOrdered
  <2>. QED BY <1>5, <2>10, <2>11, <2>12, <2>13 DEF SesInv
<1>7. CASE (c.op = "close" /\ DriverClose(c.sid)) \/ (c.op = "command" /\ UNCHANGED agentVars)
  <2>1. loops' \subseteq loops /\ (loops' = {} \/ liveId' = liveId) /\ liveId' \in {liveId, None}
    BY <1>4, <1>7 DEF DriverClose, agentVars
  <2>2. Remains
    BY <1>1, <2>1 DEF Remains
  <2>3. AllOrdered' /\ \A s \in Session : Untouched(s) => Untouched(s)'
    BY <1>0, <2>2, NothingNew
  <2>4. TypeOK'
    BY <1>0, <1>1, <1>2, <1>3, <2>1 DEF TypeOK
  <2>5. LoopIsReachable' /\ OneLoop'
    BY <1>0, <2>1 DEF LoopIsReachable, OneLoop
  <2>6. OpensOnce'
    <3>1. \A i, j \in DOMAIN down' : i + 1 = j + 1 => i = j
      BY <1>1, <1>2
    <3>. QED BY <1>0, <1>1, <1>2, <2>3, <3>1 DEF OpensOnce, OpenOf
  <2>. QED BY <1>5, <2>3, <2>4, <2>5, <2>6 DEF SesInv
<1>. QED BY <1>6, <1>7 DEF Receive, c

LEMMA StreamInv ==
  ASSUME SesInv, Disconnect \/ Reconnect
  PROVE  SesInv'
<1>0. TypeOK /\ LoopIsReachable /\ OneLoop /\ OpensOnce /\ Routed /\ AllOrdered
  BY DEF SesInv
<1>1. UNCHANGED <<start, stops, acked, relay, views, shown, up, sending, liveId, loops>>
  BY DEF Disconnect, Reconnect, httpVars, relayVars, agentVars
<1>2. Remains
  BY <1>1 DEF Remains
<1>3. AllOrdered' /\ LoopIsReachable' /\ OneLoop' /\ \A s \in Session : Untouched(s) => Untouched(s)'
  BY <1>0, <1>1, <1>2, NothingNew DEF LoopIsReachable, OneLoop
<1>4. CASE Reconnect
  <2>1. UNCHANGED <<down, busy, missed>> /\ live' = TRUE /\ drops' = drops + 1 /\ drops < MaxDrop
    BY <1>0, <1>4 DEF Reconnect, Routed
  <2>2. drops \in Stream /\ drops' \in Stream /\ \A k \in Stream : drops' < k => drops < k
    BY <1>0, <2>1, SessionAssumption DEF TypeOK, Stream
  <2>3. TypeOK'
    BY <1>0, <1>1, <2>1, <2>2 DEF TypeOK
  <2>4. \A d \in sending : d.via <= drops'
    <3>1. \A d \in sending : d.via \in Stream /\ d.via <= drops
      BY <1>0 DEF Routed, TypeOK
    <3>. QED BY <2>1, <2>2, <3>1, SessionAssumption DEF Stream
  <2>5. \A k \in Stream : drops' < k => up[k] = <<>>
    BY <1>0, <2>2 DEF Routed
  <2>6. Routed'
    BY <1>0, <1>1, <2>1, <2>4, <2>5 DEF Routed
  <2>7. OpensOnce'
    BY <1>0, <1>1, <1>3, <2>1 DEF OpensOnce
  <2>. QED BY <1>3, <2>3, <2>6, <2>7 DEF SesInv
<1>5. CASE Disconnect
  <2>1. /\ down' = <<>> /\ live' = FALSE /\ drops' = drops /\ drops < MaxDrop /\ busy' = FALSE /\ missed' \subseteq Session
    BY <1>0, <1>5 DEF Disconnect, TypeOK
  <2>2. <<>> \in Seq(Control) /\ Len(<<>>) <= DownCap
    BY SessionAssumption
  <2>3. TypeOK' /\ Routed'
    BY <1>0, <1>1, <2>1, <2>2 DEF TypeOK, Routed
  <2>4. OpensOnce'
    BY <1>0, <1>1, <1>3, <2>1 DEF OpensOnce
  <2>. QED BY <1>3, <2>3, <2>4 DEF SesInv
<1>. QED BY <1>4, <1>5

-----------------------------------------------------------------------------
(* Theorems.                                                               *)

LEMMA InitInv ==
  ASSUME Init
  PROVE  SesInv
<1>1. /\ \A k \in Stream : up[k] = <<>>
      /\ down = <<>> /\ loops = {} /\ sending = {} /\ live /\ \A v \in Viewer : views[v].ch = <<>>
      /\ \A v \in Viewer, s \in Session, k \in Stream : shown[v][s][k] = -1
  BY DEF Init, NothingShown
<1>2. TypeOK
  <2>1. -1 \in -1..MaxSeq-1 /\ {DownCap, UpCap, ViewCap} \subseteq Nat /\ MaxDrop \in Nat
    BY SessionAssumption
  <2>2. shown \in [Viewer -> [Session -> [Stream -> -1..MaxSeq-1]]]
    BY <2>1 DEF Init, NothingShown
  <2>3. up \in [Stream -> Seq(Frame)] /\ \A k \in Stream : Len(up[k]) <= UpCap
    <3>1. <<>> \in Seq(Frame) /\ Len(<<>>) = 0 /\ 0 <= UpCap
      BY SessionAssumption
    <3>. QED BY <1>1, <3>1 DEF Init
  <2>4. /\ views \in [Viewer -> [sub : {"off", "on"}, ch : Seq(Event)]]
        /\ \A v \in Viewer : Len(views[v].ch) <= ViewCap
    <3>1. <<>> \in Seq(Event) /\ Len(<<>>) = 0 /\ 0 <= ViewCap
      BY SessionAssumption
    <3>. QED BY <1>1, <3>1 DEF Init
  <2>5. drops \in Stream /\ live \in BOOLEAN /\ busy \in BOOLEAN
    BY SessionAssumption DEF Init, Stream
  <2>. QED BY <1>1, <2>1, <2>2, <2>3, <2>4, <2>5 DEF Init, TypeOK
<1>3. LoopIsReachable /\ OneLoop
  BY <1>1 DEF LoopIsReachable, OneLoop
<1>4. OpensOnce
  BY <1>1 DEF OpensOnce, Untouched, NoFrame
<1>5. AllOrdered
  <2>1. \A v, g : g.seq = -1 => AheadFor(v, g, loops, up, sending)
    BY <1>2, NothingShownYet
  <2>. QED BY <1>1, <2>1 DEF AllOrdered, StreamOrdered, SendingOrdered, ViewOrdered, ScreenOrdered, Screen
<1>6. Routed
  BY <1>1 DEF Routed
<1>. QED BY <1>2, <1>3, <1>4, <1>5, <1>6 DEF SesInv

LEMMA NextInv ==
  ASSUME SesInv, [Next]_vars
  PROVE  SesInv'
<1>1. CASE UNCHANGED vars
  <2>1. UNCHANGED <<start, stops, acked, relay, views, shown, live, down, up, sending, busy, liveId, loops, missed, drops>>
    BY <1>1 DEF vars, httpVars, viewVars, agentVars
  <2>2. TypeOK' /\ Routed'
    BY <2>1 DEF SesInv, TypeOK, Routed
  <2>3. Remains
    BY <2>1 DEF Remains
  <2>. QED BY <2>1, <2>2, <2>3, NothingNew, DeviceAside DEF SesInv
<1>2. CASE Ingest
  BY <1>2, OnFrameInv, NotifyInv DEF Ingest
<1>. QED
  BY <1>1, <1>2, RequestInv, AsideInv, ViewerInv, LoopInv, ReceiveInv, StreamInv DEF Next

LEMMA InvHolds == Spec => []SesInv
<1>1. Init => SesInv
  BY InitInv
<1>2. SesInv /\ [Next]_vars => SesInv'
  BY NextInv
<1>. QED BY <1>1, <1>2, PTL DEF Spec

\* The types of the requests, the registry, the channels, the stream and the
\* driver.
THEOREM TypeCorrect == Spec => []TypeOK
<1>1. SesInv => TypeOK
  BY DEF SesInv
<1>. QED BY <1>1, InvHolds, PTL

\* DriverOpen, DriverClose and runLoop: at most one loop captures, and it is
\* the one the next open or close stops.
THEOREM OneReachableLoop == Spec => [](LoopIsReachable /\ OneLoop)
<1>1. SesInv => LoopIsReachable /\ OneLoop
  BY DEF SesInv
<1>. QED BY <1>1, InvHolds, PTL

\* runLoop, OnFrame and the viewer's channel: whatever is dropped, however long the
\* handlers of earlier streams take, the pictures of a session that came over one
\* stream, or over an earlier and a later one, reach a screen in the order of their
\* capture and none of them twice.
THEOREM ShownInOrder == Spec => []FramesInOrder
<1>1. ASSUME SesInv
      PROVE  FramesInOrder
  <2>0. TypeOK /\ AllOrdered
    BY <1>1 DEF SesInv
  <2>. SUFFICES ASSUME NEW v \in Viewer, NEW i \in DOMAIN views[v].ch,
                       views[v].ch[i].kind = "frame", views[v].ch[i].seq < MaxSeq
       PROVE  /\ \A s \in Session, k \in Stream :
                   s = views[v].ch[i].sid /\ k <= views[v].ch[i].via => shown[v][s][k] < views[v].ch[i].seq
              /\ \A j \in 1..i-1 : views[v].ch[j].kind = "frame" =>
                   (views[v].ch[j].sid = views[v].ch[i].sid /\ views[v].ch[j].via <= views[v].ch[i].via =>
                      views[v].ch[j].seq < views[v].ch[i].seq)
    BY DEF FramesInOrder
  <2> DEFINE ev == views[v].ch[i]
  <2>1. views[v].ch \in Seq(Event) /\ MaxSeq \in Nat
    BY <2>0, SessionAssumption DEF TypeOK
  <2>2. ev \in Event /\ i \in Nat /\ \A j \in 1..i-1 : j \in DOMAIN views[v].ch /\ j < i
    BY <2>1
  <2>3. ev.seq \in 0..MaxSeq
    BY <2>2 DEF Event, Picture, Word
  <2>4. ev.seq # MaxSeq /\ \A a : Before(a, ev.seq) => a < ev.seq
    BY <2>1, <2>3 DEF Before
  <2>5. \A s \in Session, k \in Stream : Precedes(Screen(v, s, k), ev)
    BY <2>0 DEF AllOrdered, ScreenOrdered
  <2>6. \A j \in 1..i-1 : Precedes(views[v].ch[j], ev)
    BY <2>0, <2>2 DEF AllOrdered, ViewOrdered
  <2>7. ASSUME NEW s \in Session, NEW k \in Stream, s = ev.sid, k <= ev.via
        PROVE  shown[v][s][k] < ev.seq
    BY <2>4, <2>5, <2>7 DEF Precedes, Screen
  <2>8. ASSUME NEW j \in 1..i-1, views[v].ch[j].kind = "frame", views[v].ch[j].sid = ev.sid, views[v].ch[j].via <= ev.via
        PROVE  views[v].ch[j].seq < ev.seq
    BY <2>4, <2>6, <2>8 DEF Precedes
  <2>. QED BY <2>7, <2>8
<1>. QED BY <1>1, InvHolds, PTL
=============================================================================
