------------------------ MODULE StreamRegistryProofs ------------------------
(***************************************************************************)
(* Invariance proofs for StreamRegistry, for any number of devices,        *)
(* connections, frames and any channel capacity.  The three safety         *)
(* invariants only hold together: what makes a registered channel open is  *)
(* that teardown closes nothing but its own registration, what makes an    *)
(* evicted stream cut off is that only the registered stream is replaced,  *)
(* and a finished handler's channel is closed because of both.             *)
(***************************************************************************)
EXTENDS StreamRegistry, TLAPS

\* A live handler knows its device.
LiveHasDevice == \A c \in Conn : Live(c) => dev[c] \in Device

IInv ==
  /\ TypeOK
  /\ LiveHasDevice
  /\ CurrentIsOpen
  /\ EvictedIsCutOff
  /\ EndedIsClosed

-----------------------------------------------------------------------------
\* The frames of a channel stay frames when one is queued or taken.
LEMMA ChannelSeq ==
  ASSUME NEW S, NEW s \in Seq(S)
  PROVE  /\ \A e \in S : Append(s, e) \in Seq(S)
         /\ s # <<>> => Head(s) \in S /\ Tail(s) \in Seq(S)
  OBVIOUS

\* Before any stream is opened the invariant holds.
LEMMA InitIInv == Init => IInv
  BY ConstAssumption
  DEF Init, IInv, TypeOK, LiveHasDevice, CurrentIsOpen, EvictedIsCutOff,
      EndedIsClosed, Live, Idle, HandlerPC

\* A process that stops (Crash, or a panic) leaves the empty registry.
LEMMA StopIInv ==
  ASSUME IInv, NEW s \in {"down", "panicked"}, Stop(s)
  PROVE  IInv'
  BY ConstAssumption
  DEF IInv, TypeOK, LiveHasDevice, CurrentIsOpen, EvictedIsCutOff,
      EndedIsClosed, Live, Idle, HandlerPC, Stop

\* Registration: the evicted stream is cut off, the new one is open.
LEMMA RegisterIInv ==
  ASSUME IInv, NEW c \in Conn, NEW d \in Device,
         pc[c] = "done", Register(c, d)
  PROVE  IInv'
<1> USE ConstAssumption DEF IInv, Live
<1>1. TypeOK'
  BY DEF TypeOK, Register, HandlerPC
<1>2. LiveHasDevice'
  BY DEF TypeOK, Register, LiveHasDevice
<1>3. CurrentIsOpen'
  <2> SUFFICES ASSUME NEW e \in Device, streamW'[e] # None
               PROVE  /\ dev'[streamW'[e]] = e /\ ~closed'[streamW'[e]]
                      /\ pc'[streamW'[e]] \in
                           {"online", "recv", "ack", "blocked", "defer"}
    BY DEF CurrentIsOpen
  <2>1. CASE e = d
    <3>1. streamW'[e] = c /\ dev'[c] = d /\ pc'[c] = "online"
      BY <2>1 DEF TypeOK, Register
    <3>2. ~closed'[c]
      BY Zenon DEF Register
    <3>. QED BY <3>1, <3>2, <2>1
  <2>2. CASE e # d
    <3> DEFINE o == streamW[e]
    <3>1. streamW'[e] = o /\ o \in Conn
      BY <2>2 DEF TypeOK, Register
    <3>2. dev[o] = e /\ ~closed[o] /\ pc[o] # "done" /\ o # c
          /\ pc[o] \in {"online", "recv", "ack", "blocked", "defer"}
      BY <3>1 DEF CurrentIsOpen
    <3>3. dev'[o] = dev[o] /\ pc'[o] = pc[o]
      BY <3>1, <3>2 DEF TypeOK, Register
    <3>4. o # streamW[d]
      BY <2>2, <3>1, <3>2 DEF CurrentIsOpen
    <3>5. closed'[o] = (o # c /\ (closed[o] \/ o = streamW[d]))
      BY <3>1, Zenon DEF Register
    <3>6. ~closed'[o]
      BY <3>2, <3>4, <3>5, Zenon
    <3>. QED BY <3>1, <3>2, <3>3, <3>6
  <2>. QED BY <2>1, <2>2
<1>4. ASSUME NEW x \in Conn, x # c
      PROVE  /\ closed[x] \/ x = streamW[d] => closed'[x]
             /\ cancelled[x] \/ x = streamW[d] => cancelled'[x]
  <2>1. /\ closed'[x] = (x # c /\ (closed[x] \/ x = streamW[d]))
        /\ cancelled'[x] = (x # c /\ (cancelled[x] \/ x = streamW[d]))
    BY Zenon DEF Register
  <2>. QED BY <1>4, <2>1, Zenon
<1>5. EvictedIsCutOff'
  <2> SUFFICES ASSUME NEW x \in Conn, pc'[x] # "done", streamW'[dev'[x]] # x
               PROVE  closed'[x] /\ cancelled'[x]
    BY DEF EvictedIsCutOff
  <2>1. x # c
    BY DEF Register, TypeOK
  <2>2. pc[x] # "done" /\ dev'[x] = dev[x] /\ dev[x] \in Device
    BY <2>1 DEF Register, TypeOK, LiveHasDevice
  <2>3. CASE dev[x] = d
    <3>1. streamW[d] # x => closed[x] /\ cancelled[x]
      BY <2>2, <2>3 DEF EvictedIsCutOff
    <3>. QED BY <3>1, <2>1, <1>4
  <2>4. CASE dev[x] # d
    <3>1. streamW[dev[x]] # x
      BY <2>2, <2>4 DEF Register, TypeOK
    <3>. QED BY <3>1, <2>1, <2>2, <1>4 DEF EvictedIsCutOff
  <2>. QED BY <2>3, <2>4
<1>6. EndedIsClosed'
  BY <1>4 DEF TypeOK, Register, EndedIsClosed
<1>. QED BY <1>1, <1>2, <1>3, <1>5, <1>6

\* Teardown: the registered stream closes its own channel, an evicted one
\* finds it closed already.
LEMMA DeferIInv ==
  ASSUME IInv, NEW c \in Conn, Defer(c)
  PROVE  IInv'
<1> USE ConstAssumption DEF IInv, Live
<1>1. TypeOK'
  BY DEF TypeOK, Defer, HandlerPC, LiveHasDevice
<1>2. LiveHasDevice'
  BY DEF TypeOK, Defer, LiveHasDevice
<1>3. CurrentIsOpen'
  BY DEF TypeOK, Defer, CurrentIsOpen, LiveHasDevice
<1>4. ASSUME NEW x \in Conn
      PROVE  /\ closed[x] => closed'[x]
             /\ cancelled[x] => cancelled'[x]
             /\ x = c => cancelled'[x]
             /\ x = c /\ streamW[dev[c]] = c => closed'[x]
  <2>1. /\ closed' = [closed EXCEPT ![c] = closed[c] \/ streamW[dev[c]] = c]
        /\ cancelled' = [cancelled EXCEPT ![c] = TRUE]
    BY DEF Defer
  <2>2. /\ closed'[x] = IF x = c THEN closed[c] \/ streamW[dev[c]] = c
                        ELSE closed[x]
        /\ cancelled'[x] = IF x = c THEN TRUE ELSE cancelled[x]
    BY <2>1, Zenon DEF TypeOK
  <2>. QED BY <2>2, Zenon
<1>5. EvictedIsCutOff'
  <2> SUFFICES ASSUME NEW x \in Conn, pc'[x] # "done", streamW'[dev'[x]] # x
               PROVE  closed'[x] /\ cancelled'[x]
    BY DEF EvictedIsCutOff
  <2>1. CASE x = c
    <3>1. streamW[dev[c]] = c
      BY <2>1 DEF TypeOK, Defer
    <3>. QED BY <3>1, <2>1, <1>4
  <2>2. CASE x # c
    <3>1. pc[x] # "done" /\ dev'[x] = dev[x] /\ dev[x] \in Device
      BY <2>2 DEF TypeOK, Defer, LiveHasDevice
    <3>2. streamW[dev[x]] # x
      BY <2>2, <3>1 DEF TypeOK, Defer, LiveHasDevice
    <3>. QED BY <3>1, <3>2, <1>4 DEF EvictedIsCutOff
  <2>. QED BY <2>1, <2>2
<1>6. EndedIsClosed'
  <2> SUFFICES ASSUME NEW x \in Conn, pc'[x] = "done"
               PROVE  closed'[x]
    BY DEF EndedIsClosed
  <2>2. CASE x = c
    <3>1. pc[c] # "done" /\ streamW[dev[c]] # c
      BY <2>2 DEF TypeOK, Defer
    <3>. QED BY <3>1, <2>2, <1>4 DEF EvictedIsCutOff
  <2>3. CASE x # c
    BY <1>4, <2>3 DEF TypeOK, Defer, EndedIsClosed
  <2>. QED BY <2>2, <2>3
<1>. QED BY <1>1, <1>2, <1>3, <1>5, <1>6

\* The last step of a handler that was current: it is registered nowhere any
\* more, so the invariant about registered streams does not see it end.
LEMMA EmitOfflineIInv ==
  ASSUME IInv, NEW c \in Conn, EmitOffline(c)
  PROVE  IInv'
<1> USE DEF IInv, Live
<1>1. c # None
  BY ConstAssumption
<1>2. \A d \in Device : streamW[d] # c
  BY <1>1 DEF CurrentIsOpen, EmitOffline
<1>3. closed[c]
  BY <1>2 DEF EvictedIsCutOff, LiveHasDevice, EmitOffline
<1>4. TypeOK'
  BY DEF TypeOK, HandlerPC, LiveHasDevice, EmitOffline
<1>5. LiveHasDevice'
  BY DEF TypeOK, LiveHasDevice, EmitOffline
<1>6. CurrentIsOpen'
  BY <1>2 DEF TypeOK, CurrentIsOpen, EmitOffline
<1>7. EvictedIsCutOff'
  BY DEF TypeOK, EvictedIsCutOff, EmitOffline
<1>8. EndedIsClosed'
  BY <1>3 DEF TypeOK, EndedIsClosed, EmitOffline
<1>. QED BY <1>4, <1>5, <1>6, <1>7, <1>8

\* The steps of a handler other than registration and teardown.
LEMMA HandlerIInv ==
  ASSUME IInv, NEW c \in Conn, HandlerStep(c) \/ RecvHeartbeat(c) \/ RecvEnds(c)
  PROVE  IInv'
<1> USE ConstAssumption
    DEF IInv, TypeOK, LiveHasDevice, CurrentIsOpen, EvictedIsCutOff,
        EndedIsClosed, Live, HandlerPC
<1>1. CASE EmitOnline(c)
  BY <1>1 DEF EmitOnline, Touch
<1>2. CASE RecvHeartbeat(c)
  BY <1>2 DEF RecvHeartbeat, Touch
<1>3. CASE RecvEnds(c)
  BY <1>3 DEF RecvEnds
<1>4. CASE AckQueued(c)
  BY <1>4, ChannelSeq DEF AckQueued
<1>5. CASE AckBlocks(c)
  BY <1>5 DEF AckBlocks
<1>6. CASE AckAbandoned(c)
  BY <1>6 DEF AckAbandoned
<1>7. CASE AckPanics(c)
  BY <1>7, StopIInv DEF AckPanics
<1>8. CASE Defer(c)
  BY <1>8, DeferIInv
<1>9. CASE EmitOffline(c)
  BY <1>9, EmitOfflineIInv
<1>. QED
  BY <1>1, <1>2, <1>3, <1>4, <1>5, <1>6, <1>7, <1>8, <1>9 DEF HandlerStep

\* The pump, and the agent's end of the connection.
LEMMA DownlinkIInv ==
  ASSUME IInv, NEW c \in Conn,
         PumpStep(c) \/ AgentRecv(c) \/ PeerDrops(c)
  PROVE  IInv'
<1> USE ConstAssumption
    DEF IInv, TypeOK, LiveHasDevice, CurrentIsOpen, EvictedIsCutOff,
        EndedIsClosed, Live, HandlerPC
<1>1. CASE PumpSend(c)
  BY <1>1, ChannelSeq DEF PumpSend
<1>2. CASE PumpFails(c)
  BY <1>2, ChannelSeq DEF PumpFails
<1>3. CASE PumpDrained(c)
  BY <1>3 DEF PumpDrained
<1>4. CASE AgentRecv(c)
  BY <1>4, ChannelSeq DEF AgentRecv
<1>5. CASE PeerDrops(c)
  BY <1>5 DEF PeerDrops
<1>. QED BY <1>1, <1>2, <1>3, <1>4, <1>5 DEF PumpStep

\* Dispatch: the registered channel is open, so the push only queues a frame.
LEMMA PushIInv ==
  ASSUME IInv, NEW d \in Device, NEW f \in Frame, Push(d, f)
  PROVE  IInv'
<1> USE ConstAssumption
    DEF IInv, TypeOK, LiveHasDevice, CurrentIsOpen, EvictedIsCutOff,
        EndedIsClosed, Live, HandlerPC
<1>1. streamW[d] \in Conn /\ ~closed[streamW[d]]
  BY DEF Push, Reachable
<1>2. /\ ch' = [ch EXCEPT ![streamW[d]] = Append(ch[streamW[d]], f)]
      /\ UNCHANGED <<server, streamW, dev, pc, closed, cancelled, pump,
                     peer, downlink, presence, swept, event>>
  BY <1>1 DEF Push
<1>3. ch' \in [Conn -> Seq(Frame \cup {Ack})]
  BY <1>1, <1>2, ChannelSeq
<1>. QED BY <1>2, <1>3

\* Presence and the sweeper leave the registry alone.
LEMMA PresenceIInv ==
  ASSUME IInv, NEW d \in Device, GoesStale(d) \/ PublishSwept(d)
  PROVE  IInv'
  BY DEF GoesStale, PublishSwept, IInv, TypeOK, LiveHasDevice, CurrentIsOpen,
         EvictedIsCutOff, EndedIsClosed, Live, connVars

\* So do the sweep of all devices, a restart and a stuttering step.
LEMMA ProcessIInv ==
  ASSUME IInv, SweepOffline \/ Restart \/ UNCHANGED vars
  PROVE  IInv'
<1> USE DEF IInv, TypeOK, LiveHasDevice, CurrentIsOpen, EvictedIsCutOff,
            EndedIsClosed, Live, connVars, vars
<1>1. CASE SweepOffline
  BY <1>1 DEF SweepOffline
<1>2. CASE Restart
  BY <1>2 DEF Restart
<1>3. CASE UNCHANGED vars
  BY <1>3
<1>. QED BY <1>1, <1>2, <1>3

\* Every step of the registry preserves the inductive invariant.
LEMMA NextIInv == IInv /\ [Next]_vars => IInv'
<1> SUFFICES ASSUME IInv, [Next]_vars
             PROVE  IInv'
  OBVIOUS
<1>1. CASE Restart \/ SweepOffline \/ UNCHANGED vars
  BY <1>1, ProcessIInv
<1>2. CASE Crash
  BY <1>2, StopIInv DEF Crash
<1>3. ASSUME NEW c \in Conn, ConnStep(c)
      PROVE  IInv'
  <2>1. ASSUME NEW d \in Device, Open(c, d)
        PROVE  IInv'
    <3>1. CASE Stop("panicked")
      BY <3>1, StopIInv
    <3>2. CASE Register(c, d)
      BY <2>1, <3>2, RegisterIInv DEF Open
    <3>. QED BY <2>1, <3>1, <3>2 DEF Open
  <2>2. CASE HandlerStep(c) \/ RecvHeartbeat(c) \/ RecvEnds(c)
    BY <2>2, HandlerIInv
  <2>3. CASE PumpStep(c) \/ AgentRecv(c) \/ PeerDrops(c)
    BY <2>3, DownlinkIInv
  <2>. QED BY <1>3, <2>1, <2>2, <2>3 DEF ConnStep
<1>4. ASSUME NEW d \in Device, DeviceStep(d)
      PROVE  IInv'
  BY <1>4, PushIInv, PresenceIInv DEF DeviceStep
<1>. QED BY <1>1, <1>2, <1>3, <1>4 DEF Next, Running

-----------------------------------------------------------------------------
\* The registry's state is well typed in every behaviour of the server.
THEOREM TypeCorrect == Spec => []TypeOK
<1>1. IInv => TypeOK
  BY DEF IInv
<1>. QED BY <1>1, InitIInv, NextIInv, PTL DEF Spec

\* Push and teardown never meet a closed registered channel, whatever the
\* order in which streams open, supersede each other and end.
THEOREM RegisteredChannelOpen == Spec => []CurrentIsOpen
<1>1. IInv => CurrentIsOpen
  BY DEF IInv
<1>. QED BY <1>1, InitIInv, NextIInv, PTL DEF Spec

\* A live stream that is not registered has lost its channel and its context.
THEOREM EvictedStreamCutOff == Spec => []EvictedIsCutOff
<1>1. IInv => EvictedIsCutOff
  BY DEF IInv
<1>. QED BY <1>1, InitIInv, NextIInv, PTL DEF Spec

\* The channel of every handler that returned is closed: no pump is leaked.
THEOREM EndedStreamClosed == Spec => []EndedIsClosed
<1>1. IInv => EndedIsClosed
  BY DEF IInv
<1>. QED BY <1>1, InitIInv, NextIInv, PTL DEF Spec
=============================================================================
