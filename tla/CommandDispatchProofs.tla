------------------------ MODULE CommandDispatchProofs ------------------------
(***************************************************************************)
(* Proofs about CommandDispatch for any number of devices, sessions and    *)
(* callers, any queue capacity and any number of commands.                 *)
(*                                                                         *)
(* The gate compares the token with the session's device; that this is the *)
(* device the command was dispatched to rests on the registry (a session   *)
(* is registered for its owner only, and one without an owner holds        *)
(* nothing), and that a token stays what it was when the command is queued *)
(* rests on a command having one caller at a time.                         *)
(***************************************************************************)
EXTENDS CommandDispatch, Integers, TLAPS

\* The registered session of a device is one of its own that is still served.
RegisteredIsOwn ==
  \A d \in Device : live[d] # None => owner[live[d]] = d /\ serverUp[live[d]]

UnownedIsEmpty == \A s \in Session : owner[s] = None => down[s] = <<>>

\* Exactly the ids below the counter are commands; the others have no outcome.
IssuedExists ==
  \A c \in Cmd : /\ c <= idSeq <=> cmd[c] # None
                 /\ c > idSeq => outcome[c] = "none"

\* A command in the hands of a caller has only that one, and no outcome yet.
CallerOwns ==
  \A p \in Caller : call[p].pc # "idle" =>
    /\ call[p].cmd \in Cmd /\ call[p].cmd <= idSeq
    /\ outcome[call[p].cmd] = "none"
    /\ \A q \in Caller : call[q].pc # "idle" /\ call[q].cmd = call[p].cmd => q = p

Ran(c) == \E i \in DOMAIN started : started[i][1] = c

\* A queued command is queued once, on a session of its own device, was sent
\* and has not run.
QueuedOnce ==
  \A s \in Session : \A i \in DOMAIN down[s] :
    /\ down[s][i] <= idSeq /\ outcome[down[s][i]] = "sent"
    /\ cmd[down[s][i]].dev = owner[s]
    /\ ~Ran(down[s][i])
    /\ \A t \in Session : \A j \in DOMAIN down[t] :
         down[t][j] = down[s][i] => t = s /\ j = i

RanWasSent ==
  \A i \in DOMAIN started :
    started[i][1] <= idSeq /\ outcome[started[i][1]] = "sent"

ReaderHasCommand ==
  \A s \in Session : reader[s].pc \in {"run", "held", "reboot"} => reader[s].cmd \in Cmd

IInv ==
  /\ TypeOK /\ RegisteredIsOwn /\ UnownedIsEmpty /\ IssuedExists
  /\ CallerOwns /\ QueuedOnce /\ RanWasSent /\ ReaderHasCommand
  /\ OnlyAuthorisedRuns /\ AtMostOnce

-----------------------------------------------------------------------------
\* What queueing and taking does to a sequence.
LEMMA AppendIndex ==
  ASSUME NEW S, NEW q \in Seq(S), NEW e \in S
  PROVE  /\ Append(q, e) \in Seq(S)
         /\ \A i \in DOMAIN Append(q, e) :
              \/ i \in DOMAIN q /\ Append(q, e)[i] = q[i]
              \/ i = Len(q) + 1 /\ Append(q, e)[i] = e
         /\ Len(q) + 1 \notin DOMAIN q
  OBVIOUS

LEMMA TailIndex ==
  ASSUME NEW S, NEW q \in Seq(S), q # <<>>
  PROVE  /\ Tail(q) \in Seq(S) /\ Head(q) \in S /\ Head(q) = q[1]
         /\ 1 \in DOMAIN q
         /\ \A i \in DOMAIN Tail(q) :
              i \in Nat /\ i + 1 \in DOMAIN q /\ i + 1 # 1 /\ Tail(q)[i] = q[i + 1]
  OBVIOUS

LEMMA InitIInv == Init => IInv
<1> SUFFICES ASSUME Init PROVE IInv
  OBVIOUS
<1>1. TypeOK
  BY ConstAssumption DEF Init, TypeOK, Idle, Off
<1>. QED
  BY <1>1, ConstAssumption
  DEF Init, IInv, RegisteredIsOwn, UnownedIsEmpty, IssuedExists, CallerOwns,
      QueuedOnce, Ran, RanWasSent, ReaderHasCommand, OnlyAuthorisedRuns,
      AtMostOnce, Idle, Off, Cmd

-----------------------------------------------------------------------------
(* The dispatcher.                                                         *)

Command == [dev : Device, action : Action, token : Token \cup {None}]

\* A command just numbered is neither queued nor in another caller's hands.
LEMMA BeginIInv ==
  ASSUME IInv, NEW p \in Caller, NEW d \in Device, NEW a \in Action, Begin(p, d, a)
  PROVE  IInv'
<1> DEFINE n == idSeq + 1
           new == [dev |-> d, action |-> a, token |-> None]
<1>0. TypeOK
  BY DEF IInv
<1>1. n \in Cmd /\ new \in Command /\ new # None
  BY <1>0, NoneAssumption, ConstAssumption DEF Begin, TypeOK, Cmd, Command
<1>2. /\ cmd' = [cmd EXCEPT ![n] = new] /\ idSeq' = n
      /\ call' = [call EXCEPT ![p] = [pc |-> "mint", cmd |-> n]]
      /\ UNCHANGED <<results, outcome, link, down, up, reader, expired, started>>
  BY DEF Begin
<1>3. \A c \in Cmd : cmd'[c] = IF c = n THEN new ELSE cmd[c]
  BY <1>0, <1>2 DEF TypeOK
<1>4. \A q \in Caller : call'[q] = IF q = p THEN [pc |-> "mint", cmd |-> n] ELSE call[q]
  BY <1>0, <1>2 DEF TypeOK
<1>5. /\ idSeq \in Nat /\ idSeq' \in 0 .. MaxCmd
      /\ \A c \in Cmd : c <= idSeq => c # n /\ c <= idSeq'
      /\ \A c \in Cmd : c <= idSeq' <=> c <= idSeq \/ c = n
      /\ \A c \in Cmd : c > idSeq' => c > idSeq
  BY <1>0, <1>1, <1>2, ConstAssumption DEF TypeOK, Cmd
<1>. HIDE DEF n, new
<1>6. TypeOK'
  <2>1. cmd' \in [Cmd -> Command \cup {None}]
    BY <1>0, <1>1, <1>2 DEF TypeOK, Command
  <2>2. call' \in [Caller -> [pc : {"idle", "mint", "push", "undo"}, cmd : Cmd \cup {None}]]
    BY <1>0, <1>1, <1>2 DEF TypeOK
  <2>3. pending' \subseteq Cmd /\ listed' \subseteq Cmd
    BY <1>0, <1>1 DEF TypeOK, Begin, n
  <2>. QED BY <1>0, <1>2, <1>5, <2>1, <2>2, <2>3 DEF TypeOK, Command, link
<1>7. IssuedExists'
  BY <1>1, <1>2, <1>3, <1>5 DEF IInv, IssuedExists
<1>8. CallerOwns'
  <2>1. outcome[n] = "none"
    BY <1>1, <1>5 DEF IInv, IssuedExists, n
  <2>2. \A q \in Caller \ {p} : call'[q] = call[q]
    BY <1>4
  <2>3. call'[p].pc # "idle" /\ call'[p].cmd = n
    BY <1>4
  <2>4. \A q \in Caller \ {p} : call[q].pc # "idle" =>
          call[q].cmd \in Cmd /\ call[q].cmd # n /\ call[q].cmd <= idSeq'
    BY <1>5 DEF IInv, CallerOwns
  <2>5. n <= idSeq' /\ outcome' = outcome
    BY <1>1, <1>2, <1>5
  <2>. QED BY <1>1, <2>1, <2>2, <2>3, <2>4, <2>5 DEF IInv, CallerOwns
<1>9. QueuedOnce' /\ RanWasSent' /\ OnlyAuthorisedRuns'
  <2>1. \A s \in Session : \A i \in DOMAIN down[s] : down[s][i] \in Cmd
    BY <1>0 DEF TypeOK
  <2>2. \A i \in DOMAIN started : started[i][1] \in Cmd
    BY <1>0 DEF TypeOK
  <2>3. QueuedOnce'
    BY <1>2, <1>3, <1>5, <2>1 DEF IInv, QueuedOnce, Ran, link
  <2>4. RanWasSent'
    BY <1>2, <1>3, <1>5, <2>2 DEF IInv, RanWasSent, link
  <2>5. \A i \in DOMAIN started :
          started[i][1] \in Cmd /\ cmd'[started[i][1]] = cmd[started[i][1]]
    BY <1>3, <1>5, <2>2 DEF IInv, RanWasSent
  <2>6. OnlyAuthorisedRuns'
    BY <1>2, <2>5 DEF IInv, OnlyAuthorisedRuns, Minted, link
  <2>. QED BY <2>3, <2>4, <2>6
<1>. QED
  BY <1>2, <1>6, <1>7, <1>8, <1>9
  DEF IInv, RegisteredIsOwn, UnownedIsEmpty, ReaderHasCommand, AtMostOnce, link

\* While its caller has it a command is neither queued nor has it run, so
\* neither its token nor its outcome matters to what is.
LEMMA InHand ==
  ASSUME IInv, NEW p \in Caller, call[p].pc # "idle"
  PROVE  /\ call[p].cmd \in Cmd /\ outcome[call[p].cmd] = "none"
         /\ call[p].cmd <= idSeq
         /\ \A s \in Session : \A i \in DOMAIN down[s] :
              down[s][i] \in Cmd /\ down[s][i] # call[p].cmd
         /\ \A i \in DOMAIN started :
              started[i][1] \in Cmd /\ started[i][1] # call[p].cmd
<1>1. /\ call[p].cmd \in Cmd /\ outcome[call[p].cmd] = "none"
      /\ call[p].cmd <= idSeq
  BY DEF IInv, CallerOwns
<1>2. \A s \in Session : \A i \in DOMAIN down[s] : down[s][i] \in Cmd
  BY DEF IInv, TypeOK
<1>3. \A i \in DOMAIN started : started[i][1] \in Cmd
  BY DEF IInv, TypeOK
<1>. QED BY <1>1, <1>2, <1>3 DEF IInv, QueuedOnce, RanWasSent

LEMMA StampIInv ==
  ASSUME IInv, NEW p \in Caller, Mint(p) \/ DispatchWith(p)
  PROVE  IInv'
<1> DEFINE n == call[p].cmd
<1>0. TypeOK /\ call[p].pc = "mint"
  BY DEF IInv, Mint, DispatchWith
<1>1. /\ n \in Cmd /\ n <= idSeq
      /\ \A s \in Session : \A i \in DOMAIN down[s] : down[s][i] \in Cmd /\ down[s][i] # n
      /\ \A i \in DOMAIN started : started[i][1] \in Cmd /\ started[i][1] # n
  BY <1>0, InHand
<1>2. cmd[n] \in Command /\ cmd[n] # None
  BY <1>0, <1>1 DEF IInv, IssuedExists, TypeOK, Command
<1>3. PICK token \in Token \cup {None} : StampToken(p, token)
  <2>1. CASE Mint(p)
    <3>1. Minted(n) \in Token
      BY <1>1, <1>2 DEF Minted, Token, Command
    <3>. QED BY <2>1, <3>1 DEF Mint
  <2>2. CASE DispatchWith(p)
    <3>1. Explicit(n) \subseteq Token \cup {None}
      <4>1. \A x \in 1 .. idSeq : x \in Cmd /\ cmd[x] # None
        BY <1>0, ConstAssumption DEF IInv, IssuedExists, TypeOK, Cmd
      <4>2. \A x \in 1 .. idSeq : cmd[x] \in Command
        BY <1>0, <4>1 DEF TypeOK, Command
      <4>. QED BY <4>2 DEF Explicit, Command
    <3>. QED BY <2>2, <3>1 DEF DispatchWith
  <2>. QED BY <2>1, <2>2
<1> DEFINE new == [cmd[n] EXCEPT !.token = token]
<1>4. /\ cmd' = [cmd EXCEPT ![n] = new]
      /\ call' = [call EXCEPT ![p].pc = "push"]
      /\ UNCHANGED <<idSeq, pending, results, listed, outcome, link, down, up,
                     reader, expired, started>>
  BY <1>3 DEF StampToken
<1>5. new \in Command /\ new # None
  BY <1>2, NoneAssumption DEF Command
<1>. HIDE DEF new
<1>6. \A c \in Cmd : cmd'[c] = IF c = n THEN new ELSE cmd[c]
  BY <1>0, <1>4 DEF TypeOK
<1>7. \A q \in Caller : /\ call'[q].cmd = call[q].cmd
                         /\ call'[q].pc # "idle" => call[q].pc # "idle"
  BY <1>0, <1>4 DEF TypeOK
<1>8. TypeOK'
  <2>1. cmd' \in [Cmd -> Command \cup {None}]
    BY <1>0, <1>4, <1>5 DEF TypeOK, Command
  <2>2. call' \in [Caller -> [pc : {"idle", "mint", "push", "undo"}, cmd : Cmd \cup {None}]]
    BY <1>0, <1>4 DEF TypeOK
  <2>. QED BY <1>0, <1>4, <2>1, <2>2 DEF TypeOK, Command, link
<1>9. IssuedExists' /\ CallerOwns'
  BY <1>1, <1>4, <1>5, <1>6, <1>7 DEF IInv, IssuedExists, CallerOwns
<1>10. QueuedOnce' /\ RanWasSent'
  BY <1>1, <1>4, <1>6 DEF IInv, QueuedOnce, RanWasSent, Ran, link
<1>11. OnlyAuthorisedRuns'
  BY <1>1, <1>4, <1>6 DEF IInv, OnlyAuthorisedRuns, Minted, link
<1>. QED
  BY <1>4, <1>8, <1>9, <1>10, <1>11
  DEF IInv, RegisteredIsOwn, UnownedIsEmpty, ReaderHasCommand, AtMostOnce, link

\* A dispatch that fails: its command is told to have failed, and is nowhere.
LEMMA FailIInv ==
  ASSUME IInv, NEW p \in Caller, MintFails(p) \/ PushFails(p) \/ Undo(p)
  PROVE  IInv'
<1> DEFINE n == call[p].cmd
<1>0. TypeOK /\ call[p].pc # "idle"
  BY DEF IInv, MintFails, PushFails, Undo
<1>1. /\ n \in Cmd /\ n <= idSeq
      /\ \A s \in Session : \A i \in DOMAIN down[s] : down[s][i] \in Cmd /\ down[s][i] # n
      /\ \A i \in DOMAIN started : started[i][1] \in Cmd /\ started[i][1] # n
  BY <1>0, InHand
<1>2. UNCHANGED <<idSeq, results, cmd, link, down, up, reader, expired, started>>
  BY DEF MintFails, PushFails, Undo
<1>3. \/ call' = [call EXCEPT ![p] = Idle] /\ outcome' = [outcome EXCEPT ![n] = "failed"]
      \/ call' = [call EXCEPT ![p].pc = "undo"] /\ outcome' = outcome
  BY DEF MintFails, PushFails, Undo
<1>4. \A c \in Cmd : c # n => outcome'[c] = outcome[c]
  BY <1>0, <1>3 DEF TypeOK
<1>5. \A q \in Caller : call'[q].pc # "idle" =>
        /\ call[q].pc # "idle" /\ call'[q].cmd = call[q].cmd
        /\ q = p => outcome' = outcome
  BY <1>0, <1>3 DEF TypeOK, Idle
<1>6. TypeOK'
  <2>1. call' \in [Caller -> [pc : {"idle", "mint", "push", "undo"}, cmd : Cmd \cup {None}]]
    <3>1. Idle \in [pc : {"idle", "mint", "push", "undo"}, cmd : Cmd \cup {None}]
      BY DEF Idle
    <3>2. CASE call' = [call EXCEPT ![p] = Idle]
      BY <1>0, <3>1, <3>2 DEF TypeOK
    <3>3. CASE call' = [call EXCEPT ![p].pc = "undo"]
      BY <1>0, <3>3 DEF TypeOK
    <3>. QED BY <1>3, <3>2, <3>3
  <2>2. outcome' \in [Cmd -> {"none", "sent", "failed"}]
    BY <1>0, <1>3 DEF TypeOK
  <2>3. pending' \subseteq Cmd /\ listed' \subseteq Cmd
    BY <1>0 DEF TypeOK, MintFails, PushFails, Undo
  <2>. QED BY <1>0, <1>2, <2>1, <2>2, <2>3 DEF TypeOK, link
<1>7. CallerOwns'
  <2>1. \A q \in Caller : call[q].pc # "idle" /\ call[q].cmd = n => q = p
    BY <1>0 DEF IInv, CallerOwns
  <2>. QED BY <1>2, <1>4, <1>5, <2>1 DEF IInv, CallerOwns
<1>8. IssuedExists'
  <2>1. \A c \in Cmd : c > idSeq => c # n
    BY <1>0, <1>1 DEF TypeOK, Cmd
  <2>. QED BY <1>2, <1>4, <2>1 DEF IInv, IssuedExists
<1>9. QueuedOnce' /\ RanWasSent' /\ OnlyAuthorisedRuns'
  BY <1>1, <1>2, <1>4
  DEF IInv, QueuedOnce, RanWasSent, Ran, OnlyAuthorisedRuns, Minted, link
<1>. QED
  BY <1>2, <1>6, <1>7, <1>8, <1>9
  DEF IInv, RegisteredIsOwn, UnownedIsEmpty, ReaderHasCommand, AtMostOnce, link

\* Push: the session registered for the command's device is the device's own.
LEMMA PushIInv ==
  ASSUME IInv, NEW p \in Caller, PushSucceeds(p)
  PROVE  IInv'
<1> DEFINE n == call[p].cmd
           s == live[cmd[n].dev]
<1>0. TypeOK /\ call[p].pc # "idle"
  BY DEF IInv, PushSucceeds
<1>1. /\ n \in Cmd /\ n <= idSeq
      /\ \A x \in Session : \A i \in DOMAIN down[x] : down[x][i] \in Cmd /\ down[x][i] # n
      /\ \A i \in DOMAIN started : started[i][1] \in Cmd /\ started[i][1] # n
  BY <1>0, InHand
<1>2. cmd[n] \in Command
  BY <1>0, <1>1 DEF IInv, IssuedExists, TypeOK, Command
<1>3. s \in Session /\ owner[s] = cmd[n].dev /\ cmd[n].dev # None
  <2>1. cmd[n].dev \in Device /\ s # None
    BY <1>2 DEF PushSucceeds, Reachable, Command
  <2>. QED BY <1>0, <2>1, ConstAssumption DEF IInv, TypeOK, RegisteredIsOwn
<1>4. /\ down' = [down EXCEPT ![s] = Append(down[s], n)]
      /\ call' = [call EXCEPT ![p] = Idle]
      /\ outcome' = [outcome EXCEPT ![n] = "sent"]
      /\ UNCHANGED <<idSeq, pending, results, cmd, listed, link, up, reader,
                     expired, started>>
  BY DEF PushSucceeds
<1>. HIDE DEF n, s
<1>5. /\ \A x \in Session : x # s => down'[x] = down[x]
      /\ down'[s] = Append(down[s], n) /\ down[s] \in Seq(Cmd)
  BY <1>0, <1>3, <1>4 DEF TypeOK
<1>6. \A x \in Session : \A i \in DOMAIN down'[x] :
        \/ i \in DOMAIN down[x] /\ down'[x][i] = down[x][i] /\ down'[x][i] # n
        \/ x = s /\ i = Len(down[s]) + 1 /\ down'[x][i] = n
  BY <1>1, <1>3, <1>5, AppendIndex
<1>7. outcome'[n] = "sent" /\ \A c \in Cmd : c # n => outcome'[c] = outcome[c]
  BY <1>0, <1>1, <1>4 DEF TypeOK
<1>8. TypeOK'
  <2>1. call' \in [Caller -> [pc : {"idle", "mint", "push", "undo"}, cmd : Cmd \cup {None}]]
    BY <1>0, <1>4 DEF TypeOK, Idle
  <2>2. down' \in [Session -> Seq(Cmd)]
    BY <1>0, <1>1, <1>3, <1>4, <1>5, AppendIndex DEF TypeOK
  <2>3. outcome' \in [Cmd -> {"none", "sent", "failed"}]
    BY <1>0, <1>4 DEF TypeOK
  <2>. QED BY <1>0, <1>4, <2>1, <2>2, <2>3 DEF TypeOK, link
<1>9. CallerOwns'
  <2>1. \A q \in Caller : call'[q].pc # "idle" => q # p /\ call'[q] = call[q]
    BY <1>0, <1>4 DEF TypeOK, Idle
  <2>2. \A q \in Caller : call[q].pc # "idle" /\ call[q].cmd = n => q = p
    BY <1>0 DEF IInv, CallerOwns, n
  <2>. QED BY <1>4, <1>7, <2>1, <2>2 DEF IInv, CallerOwns
<1>10. IssuedExists'
  <2>1. \A c \in Cmd : c > idSeq => c # n
    BY <1>0, <1>1 DEF TypeOK, Cmd
  <2>. QED BY <1>4, <1>7, <2>1 DEF IInv, IssuedExists
<1>11. QueuedOnce'
  <2>. SUFFICES ASSUME NEW x \in Session, NEW i \in DOMAIN down'[x]
       PROVE  /\ down'[x][i] <= idSeq /\ outcome'[down'[x][i]] = "sent"
              /\ cmd[down'[x][i]].dev = owner[x]
              /\ \A j \in DOMAIN started : started[j][1] # down'[x][i]
              /\ \A t \in Session : \A j \in DOMAIN down'[t] :
                   down'[t][j] = down'[x][i] => t = x /\ j = i
    BY <1>4 DEF QueuedOnce, Ran, link
  <2>1. CASE i \in DOMAIN down[x] /\ down'[x][i] = down[x][i] /\ down'[x][i] # n
    <3>1. down[x][i] \in Cmd
      BY <1>1, <2>1
    <3>. QED BY <1>6, <1>7, <2>1, <3>1 DEF IInv, QueuedOnce, Ran
  <2>2. CASE x = s /\ i = Len(down[s]) + 1 /\ down'[x][i] = n
    BY <1>1, <1>3, <1>6, <1>7, <2>2
  <2>. QED BY <1>6, <2>1, <2>2
<1>12. UnownedIsEmpty' /\ RegisteredIsOwn'
  <2>1. owner[s] # None
    BY <1>3
  <2>. QED BY <1>4, <1>5, <2>1 DEF IInv, UnownedIsEmpty, RegisteredIsOwn, link
<1>13. RanWasSent' /\ OnlyAuthorisedRuns'
  BY <1>1, <1>4, <1>7 DEF IInv, RanWasSent, OnlyAuthorisedRuns, Minted
<1>. QED
  BY <1>4, <1>8, <1>9, <1>10, <1>11, <1>12, <1>13
  DEF IInv, ReaderHasCommand, AtMostOnce

-----------------------------------------------------------------------------
(* Sessions.                                                               *)

\* A step that takes queued commands away and gives none: what is left was
\* queued before, at the same place.
LEMMA LessQueuedIInv ==
  ASSUME IInv, TypeOK', UNCHANGED <<dispatcher, started>>,
         RegisteredIsOwn', ReaderHasCommand',
         \A s \in Session : down'[s] = <<>> \/ down'[s] = down[s],
         \A s \in Session : owner'[s] # owner[s] => down'[s] = <<>>,
         UnownedIsEmpty'
  PROVE  IInv'
<1>1. \A s \in Session : \A i \in DOMAIN down'[s] :
        i \in DOMAIN down[s] /\ down'[s] = down[s] /\ owner'[s] = owner[s]
  OBVIOUS
<1>2. QueuedOnce'
  BY <1>1 DEF IInv, QueuedOnce, Ran, dispatcher
<1>3. IssuedExists' /\ CallerOwns' /\ RanWasSent'
  BY DEF IInv, IssuedExists, CallerOwns, RanWasSent, dispatcher
<1>4. OnlyAuthorisedRuns' /\ AtMostOnce'
  BY DEF IInv, OnlyAuthorisedRuns, Minted, AtMostOnce, dispatcher
<1>. QED BY <1>2, <1>3, <1>4 DEF IInv

LEMMA SessionIInv ==
  ASSUME IInv, NEW s \in Session,
         \/ ServerDrop(s) \/ AgentDrop(s) \/ Release(s)
         \/ \E d \in Device : Connect(d, s)
  PROVE  IInv'
<1>0. TypeOK
  BY DEF IInv
<1>1. Off \in [pc : {"off", "idle", "run", "held", "reboot"}, cmd : Cmd \cup {None}]
      /\ Idle \in [pc : {"off", "idle", "run", "held", "reboot"}, cmd : Cmd \cup {None}]
      /\ Off.pc = "off" /\ Idle.pc = "idle"
  BY DEF Off, Idle
<1>2. <<>> \in Seq(Cmd) /\ <<>> \in Seq(Result)
  OBVIOUS
<1>3. ASSUME NEW d \in Device, Connect(d, s)
      PROVE  IInv'
  <2>1. TypeOK'
    BY <1>0, <1>1, <1>3 DEF Connect, TypeOK, dispatcher
  <2>2. RegisteredIsOwn'
    BY <1>0, <1>3, ConstAssumption
    DEF Connect, IInv, RegisteredIsOwn, TypeOK
  <2>3. ReaderHasCommand'
    BY <1>0, <1>1, <1>3 DEF Connect, IInv, ReaderHasCommand, TypeOK
  <2>4. down[s] = <<>> /\ down' = down
    BY <1>3 DEF Connect, IInv, UnownedIsEmpty
  <2>5. \A x \in Session \ {s} : owner'[x] = owner[x]
    BY <1>0, <1>3 DEF Connect, TypeOK
  <2>6. UnownedIsEmpty'
    BY <2>4, <2>5 DEF IInv, UnownedIsEmpty
  <2>. QED
    BY <1>3, <2>1, <2>2, <2>3, <2>4, <2>5, <2>6, LessQueuedIInv DEF Connect
<1>4. CASE ServerDrop(s)
  <2>1. TypeOK'
    BY <1>0, <1>4 DEF ServerDrop, TypeOK, dispatcher
  <2>2. RegisteredIsOwn'
    BY <1>0, <1>4 DEF ServerDrop, IInv, RegisteredIsOwn, TypeOK
  <2>3. ReaderHasCommand' /\ UnownedIsEmpty'
    BY <1>4 DEF ServerDrop, IInv, ReaderHasCommand, UnownedIsEmpty
  <2>. QED
    BY <1>4, <2>1, <2>2, <2>3, LessQueuedIInv DEF ServerDrop
<1>5. CASE AgentDrop(s)
  <2>1. TypeOK'
    BY <1>0, <1>1, <1>2, <1>5 DEF AgentDrop, TypeOK, dispatcher
  <2>2. RegisteredIsOwn'
    BY <1>5 DEF AgentDrop, IInv, RegisteredIsOwn
  <2>3. ReaderHasCommand'
    BY <1>0, <1>1, <1>5 DEF AgentDrop, IInv, ReaderHasCommand, TypeOK
  <2>4. \A x \in Session : down'[x] = IF x = s THEN <<>> ELSE down[x]
    BY <1>0, <1>5 DEF AgentDrop, TypeOK
  <2>5. UnownedIsEmpty'
    BY <1>5, <2>4 DEF AgentDrop, IInv, UnownedIsEmpty
  <2>. QED
    BY <1>5, <2>1, <2>2, <2>3, <2>4, <2>5, LessQueuedIInv DEF AgentDrop
<1>6. CASE Release(s)
  <2>1. TypeOK'
    BY <1>0, <1>2, <1>6 DEF Release, TypeOK, dispatcher
  <2>2. RegisteredIsOwn'
    BY <1>0, <1>6 DEF Release, IInv, RegisteredIsOwn, TypeOK
  <2>3. ReaderHasCommand'
    BY <1>6 DEF Release, IInv, ReaderHasCommand
  <2>4. \A x \in Session : down'[x] = IF x = s THEN <<>> ELSE down[x]
    BY <1>0, <1>6 DEF Release, TypeOK
  <2>5. \A x \in Session \ {s} : owner'[x] = owner[x]
    BY <1>0, <1>6 DEF Release, TypeOK
  <2>6. UnownedIsEmpty'
    BY <2>4, <2>5 DEF IInv, UnownedIsEmpty
  <2>. QED
    BY <1>6, <2>1, <2>2, <2>3, <2>4, <2>5, <2>6, LessQueuedIInv DEF Release
<1>. QED BY <1>3, <1>4, <1>5, <1>6

\* The agent's process ends, rebooted by a command or not.
LEMMA AgentStopsIInv ==
  ASSUME IInv, NEW d \in Device \cup {None}, AgentStops(d)
  PROVE  IInv'
<1>0. TypeOK
  BY DEF IInv
<1>1. Off \in [pc : {"off", "idle", "run", "held", "reboot"}, cmd : Cmd \cup {None}]
      /\ Off.pc = "off" /\ <<>> \in Seq(Cmd)
  BY DEF Off
<1>2. \A x \in Session :
        /\ down'[x] = IF owner[x] = d THEN <<>> ELSE down[x]
        /\ reader'[x] = IF owner[x] = d THEN Off ELSE reader[x]
  BY DEF AgentStops
<1>3. TypeOK'
  <2>1. agentUp' \in [Session -> BOOLEAN]
    BY Zenon DEF AgentStops
  <2>2. down' \in [Session -> Seq(Cmd)]
    BY <1>0, <1>1 DEF AgentStops, TypeOK
  <2>3. reader' \in [Session -> [pc : {"off", "idle", "run", "held", "reboot"}, cmd : Cmd \cup {None}]]
    BY <1>0, <1>1 DEF AgentStops, TypeOK
  <2>. QED
    BY <1>0, <2>1, <2>2, <2>3 DEF AgentStops, TypeOK, dispatcher
<1>4. RegisteredIsOwn' /\ ReaderHasCommand' /\ UnownedIsEmpty'
  BY <1>1, <1>2
  DEF AgentStops, IInv, RegisteredIsOwn, ReaderHasCommand, UnownedIsEmpty
<1>. QED BY <1>2, <1>3, <1>4, LessQueuedIInv DEF AgentStops

-----------------------------------------------------------------------------
(* The reader.                                                             *)

ReaderState == [pc : {"off", "idle", "run", "held", "reboot"}, cmd : Cmd \cup {None}]

LEMMA ReportSound ==
  ASSUME IInv, NEW s \in Session, NEW c \in Cmd, NEW status \in Status,
         NEW next \in ReaderState,
         next.pc \in {"run", "held", "reboot"} => next.cmd \in Cmd,
         Report(s, c, status, next)
  PROVE  /\ up' \in [Session -> Seq(Result)]
         /\ reader' \in [Session -> ReaderState] /\ ReaderHasCommand'
<1>0. TypeOK /\ ReaderHasCommand
  BY DEF IInv
<1>1. Off \in ReaderState /\ Off.pc = "off"
  BY DEF Off, ReaderState
<1>2. [cmd |-> c, status |-> status] \in Result
  BY DEF Result
<1>3. up' \in [Session -> Seq(Result)]
  <2>1. up[s] \in Seq(Result) /\ up \in [Session -> Seq(Result)]
    BY <1>0 DEF TypeOK
  <2>2. Append(up[s], [cmd |-> c, status |-> status]) \in Seq(Result)
    BY <1>2, <2>1, AppendIndex
  <2>3. \/ up' = [up EXCEPT ![s] = Append(up[s], [cmd |-> c, status |-> status])]
        \/ up' = up
    BY DEF Report
  <2>. QED BY <2>1, <2>2, <2>3
<1>4. PICK n \in {next, Off} : reader' = [reader EXCEPT ![s] = n]
  BY DEF Report
<1>5. reader' \in [Session -> ReaderState]
  BY <1>0, <1>1, <1>4 DEF TypeOK, ReaderState
<1>6. \A x \in Session : reader'[x] = IF x = s THEN n ELSE reader[x]
  BY <1>0, <1>4 DEF TypeOK
<1>7. ReaderHasCommand'
  BY <1>0, <1>1, <1>6 DEF ReaderHasCommand
<1>. QED BY <1>3, <1>5, <1>7

\* Taking the command off the queue; whether it is refused or started, what is
\* left in the queues was there before.
LEMMA GateIInv ==
  ASSUME IInv, NEW s \in Session, Gate(s)
  PROVE  IInv'
<1> DEFINE c == Head(down[s])
<1>0. TypeOK
  BY DEF IInv
<1>1. /\ down[s] \in Seq(Cmd) /\ down[s] # <<>>
      /\ down' = [down EXCEPT ![s] = Tail(down[s])]
      /\ UNCHANGED <<dispatcher, link, expired>>
  BY <1>0 DEF Gate, TypeOK
<1>2. /\ Tail(down[s]) \in Seq(Cmd) /\ c \in Cmd /\ c = down[s][1]
      /\ 1 \in DOMAIN down[s]
      /\ \A i \in DOMAIN Tail(down[s]) :
           /\ i \in Nat /\ i + 1 \in DOMAIN down[s] /\ i + 1 # 1
           /\ Tail(down[s])[i] = down[s][i + 1]
  BY <1>1, TailIndex
<1>. HIDE DEF c
<1>3. /\ c <= idSeq /\ outcome[c] = "sent" /\ cmd[c].dev = owner[s] /\ ~Ran(c)
      /\ \A t \in Session : \A j \in DOMAIN down[t] : down[t][j] = c => t = s /\ j = 1
  BY <1>2 DEF IInv, QueuedOnce
<1>4. \A t \in Session : \A j \in DOMAIN down'[t] :
        \/ t # s /\ j \in DOMAIN down[t] /\ down'[t][j] = down[t][j]
        \/ /\ t = s /\ j \in Nat /\ j + 1 \in DOMAIN down[t] /\ j + 1 # 1
           /\ down'[t][j] = down[t][j + 1]
  BY <1>0, <1>1, <1>2 DEF TypeOK
<1>5. /\ up' \in [Session -> Seq(Result)]
      /\ reader' \in [Session -> ReaderState] /\ ReaderHasCommand'
  <2>1. /\ Idle \in ReaderState /\ Idle.pc = "idle"
        /\ [pc |-> "run", cmd |-> c] \in ReaderState
        /\ [pc |-> "run", cmd |-> c].cmd \in Cmd
    BY <1>2 DEF Idle, ReaderState
  <2>2. "RECEIVED" \in Status /\ "REFUSED" \in Status
    BY DEF Status, Final
  <2>3. CASE Report(s, c, "RECEIVED", [pc |-> "run", cmd |-> c])
    BY <1>2, <2>1, <2>2, <2>3, ReportSound
  <2>4. CASE Report(s, c, "REFUSED", Idle)
    BY <1>2, <2>1, <2>2, <2>4, ReportSound
  <2>. QED BY <2>3, <2>4 DEF Gate, c
<1>6. \/ UNCHANGED started
      \/ Check(s, c) /\ started' = Append(started, <<c, owner[s]>>)
  BY DEF Gate, c
<1>7. owner[s] \in Device
  <2>1. owner[s] # None
    BY <1>1 DEF IInv, UnownedIsEmpty
  <2>. QED BY <1>0, <2>1 DEF TypeOK
<1>8. TypeOK'
  <2>1. down' \in [Session -> Seq(Cmd)]
    BY <1>0, <1>1, <1>2 DEF TypeOK
  <2>2. started' \in Seq(Cmd \X Device)
    <3>1. <<c, owner[s]>> \in Cmd \X Device /\ started \in Seq(Cmd \X Device)
      BY <1>0, <1>2, <1>7 DEF TypeOK
    <3>. QED BY <1>6, <3>1, AppendIndex
  <2>. QED
    BY <1>0, <1>1, <1>5, <2>1, <2>2 DEF TypeOK, ReaderState, dispatcher, link
<1>9. \A i \in DOMAIN started' :
        \/ i \in DOMAIN started /\ started'[i] = started[i] /\ started[i][1] # c
        \/ /\ i = Len(started) + 1 /\ i \notin DOMAIN started
           /\ started'[i] = <<c, owner[s]>> /\ Check(s, c)
  <2>1. \A i \in DOMAIN started : started[i][1] # c
    BY <1>3 DEF Ran
  <2>2. <<c, owner[s]>> \in Cmd \X Device /\ started \in Seq(Cmd \X Device)
    BY <1>0, <1>2, <1>7 DEF TypeOK
  <2>3. CASE UNCHANGED started
    BY <2>1, <2>3
  <2>4. CASE Check(s, c) /\ started' = Append(started, <<c, owner[s]>>)
    <3>. DEFINE e == <<c, owner[s]>>
    <3>1. /\ \A i \in DOMAIN Append(started, e) :
               \/ i \in DOMAIN started /\ Append(started, e)[i] = started[i]
               \/ i = Len(started) + 1 /\ Append(started, e)[i] = e
          /\ Len(started) + 1 \notin DOMAIN started
      <4>. HIDE DEF e
      <4>. QED BY <2>2, AppendIndex DEF e
    <3>. HIDE DEF e
    <3>2. started' = Append(started, e)
      BY <2>4 DEF e
    <3>3. \A i \in DOMAIN started' :
            \/ i \in DOMAIN started /\ started'[i] = started[i] /\ started[i][1] # c
            \/ /\ i = Len(started) + 1 /\ i \notin DOMAIN started
               /\ started'[i] = e /\ Check(s, c)
      BY <2>1, <2>4, <3>1, <3>2, Zenon
    <3>. QED BY <3>3 DEF e
  <2>. QED BY <1>6, <2>3, <2>4
<1>10. AtMostOnce'
  BY <1>9 DEF IInv, AtMostOnce
<1>11. OnlyAuthorisedRuns'
  <2>1. ASSUME Check(s, c)
        PROVE  cmd[c].token = Minted(c)
    <3>1. cmd[c] \in Command
      BY <1>0, <1>2, <1>3 DEF TypeOK, IInv, IssuedExists, Command
    <3>2. cmd[c].token \in Token
      BY <2>1, <3>1 DEF Check, Command
    <3>. QED BY <1>3, <2>1, <3>2 DEF Check, Minted, Token
  <2>2. cmd' = cmd /\ outcome' = outcome
    BY <1>1 DEF dispatcher
  <2>. SUFFICES ASSUME NEW i \in DOMAIN started'
       PROVE  /\ started'[i][2] = cmd[started'[i][1]].dev
              /\ cmd[started'[i][1]].token = Minted(started'[i][1])
              /\ outcome[started'[i][1]] # "failed"
    BY <2>2 DEF OnlyAuthorisedRuns, Minted
  <2>3. CASE i \in DOMAIN started /\ started'[i] = started[i]
    BY <2>3 DEF IInv, OnlyAuthorisedRuns
  <2>4. CASE started'[i] = <<c, owner[s]>> /\ Check(s, c)
    BY <1>3, <2>1, <2>4
  <2>. QED BY <1>9, <2>3, <2>4
<1>12. RanWasSent'
  BY <1>1, <1>3, <1>9 DEF IInv, RanWasSent, dispatcher
<1>13. QueuedOnce'
  <2>1. \A e \in Cmd : ~Ran(e) /\ e # c => \A i \in DOMAIN started' : started'[i][1] # e
    BY <1>9 DEF Ran
  <2>. SUFFICES ASSUME NEW t \in Session, NEW j \in DOMAIN down'[t]
       PROVE  /\ down'[t][j] <= idSeq /\ outcome[down'[t][j]] = "sent"
              /\ cmd[down'[t][j]].dev = owner[t]
              /\ \A i \in DOMAIN started' : started'[i][1] # down'[t][j]
              /\ \A x \in Session : \A k \in DOMAIN down'[x] :
                   down'[x][k] = down'[t][j] => x = t /\ k = j
    BY <1>1 DEF QueuedOnce, Ran, dispatcher, link
  <2>2. PICK m \in DOMAIN down[t] :
          /\ down'[t][j] = down[t][m] /\ down[t][m] \in Cmd /\ down[t][m] # c
          /\ t # s => m = j
          /\ t = s => j \in Nat /\ m = j + 1
    <3>1. \A m \in DOMAIN down[t] : down[t][m] \in Cmd
      BY <1>0 DEF TypeOK
    <3>2. \A m \in DOMAIN down[t] : t # s \/ m # 1 => down[t][m] # c
      BY <1>3
    <3>3. CASE t # s
      BY <1>4, <3>1, <3>2, <3>3
    <3>4. CASE t = s
      BY <1>4, <3>1, <3>2, <3>4
    <3>. QED BY <3>3, <3>4
  <2>3. ASSUME NEW x \in Session, NEW k \in DOMAIN down'[x], down'[x][k] = down'[t][j]
        PROVE  x = t /\ k = j
    <3>1. PICK h \in DOMAIN down[x] :
            /\ down'[x][k] = down[x][h]
            /\ x # s => h = k
            /\ x = s => k \in Nat /\ h = k + 1
      BY <1>4
    <3>2. x = t /\ h = m
      <4>1. down[x][h] = down[t][m]
        BY <2>2, <2>3, <3>1
      <4>. QED BY <4>1 DEF IInv, QueuedOnce
    <3>. QED BY <2>2, <3>1, <3>2
  <2>. QED BY <2>1, <2>2, <2>3 DEF IInv, QueuedOnce
<1>14. UnownedIsEmpty'
  <2>1. \A x \in Session \ {s} : down'[x] = down[x]
    BY <1>0, <1>1 DEF TypeOK
  <2>. QED BY <1>1, <1>7, <2>1, ConstAssumption DEF IInv, UnownedIsEmpty, link
<1>. QED
  BY <1>1, <1>5, <1>8, <1>10, <1>11, <1>12, <1>13, <1>14
  DEF IInv, RegisteredIsOwn, IssuedExists, CallerOwns, dispatcher, link

\* The other steps: of the reader, of the Recv loop, and of the clock.
LEMMA ReportIInv ==
  ASSUME IInv, NEW s \in Session,
         Finish(s) \/ LetGo(s) \/ AnnounceReboot(s) \/ RebootFails(s) \/ Hold(s) \/ ServerRecv(s)
  PROVE  IInv'
<1>0. TypeOK
  BY DEF IInv
<1>1. CASE Finish(s) \/ LetGo(s) \/ AnnounceReboot(s)
  <2> DEFINE c == reader[s].cmd
  <2>1. c \in Cmd
    BY <1>1 DEF Finish, LetGo, AnnounceReboot, IInv, ReaderHasCommand
  <2>2. /\ Idle \in ReaderState /\ Idle.pc = "idle"
        /\ [pc |-> "reboot", cmd |-> c] \in ReaderState
        /\ [pc |-> "reboot", cmd |-> c].cmd \in Cmd
    BY <2>1 DEF Idle, ReaderState
  <2>3. {"SUCCEEDED", "FAILED", "TIMED_OUT"} \subseteq Status
    BY DEF Status, Final
  <2>4. /\ up' \in [Session -> Seq(Result)]
        /\ reader' \in [Session -> ReaderState] /\ ReaderHasCommand'
    BY <1>1, <2>1, <2>2, <2>3, ReportSound DEF Finish, LetGo, AnnounceReboot
  <2>5. UNCHANGED <<dispatcher, link, down, expired, started>>
    BY <1>1 DEF Finish, LetGo, AnnounceReboot
  <2>6. TypeOK'
    BY <1>0, <2>4, <2>5 DEF TypeOK, ReaderState, dispatcher, link
  <2>. QED
    BY <2>4, <2>5, <2>6, LessQueuedIInv
    DEF IInv, RegisteredIsOwn, UnownedIsEmpty, link
<1>2. CASE RebootFails(s)
  <2>1. /\ Idle \in ReaderState /\ Idle.pc = "idle"
        /\ Off \in ReaderState /\ Off.pc = "off"
    BY DEF Idle, Off, ReaderState
  <2>2. reader' \in [Session -> ReaderState]
    BY <1>0, <1>2, <2>1 DEF RebootFails, TypeOK, ReaderState
  <2>3. ReaderHasCommand'
    BY <1>0, <1>2, <2>1 DEF RebootFails, IInv, ReaderHasCommand, TypeOK
  <2>4. UNCHANGED <<dispatcher, link, down, up, expired, started>>
    BY <1>2 DEF RebootFails
  <2>5. TypeOK'
    BY <1>0, <2>2, <2>4 DEF TypeOK, ReaderState, dispatcher, link
  <2>. QED
    BY <2>3, <2>4, <2>5, LessQueuedIInv
    DEF IInv, RegisteredIsOwn, UnownedIsEmpty, link
<1>4. CASE Hold(s)
  <2>1. reader' \in [Session -> ReaderState] /\ ReaderHasCommand'
    BY <1>0, <1>4 DEF Hold, TypeOK, ReaderState, IInv, ReaderHasCommand
  <2>2. UNCHANGED <<dispatcher, link, down, up, expired, started>>
    BY <1>4 DEF Hold
  <2>3. TypeOK'
    BY <1>0, <2>1, <2>2 DEF TypeOK, ReaderState, dispatcher, link
  <2>. QED
    BY <2>1, <2>2, <2>3, LessQueuedIInv
    DEF IInv, RegisteredIsOwn, UnownedIsEmpty, link
<1>3. CASE ServerRecv(s)
  <2>1. /\ Head(up[s]) \in Result /\ Tail(up[s]) \in Seq(Result)
    BY <1>0, <1>3 DEF ServerRecv, TypeOK
  <2>2. Head(up[s]).cmd \in Cmd /\ Head(up[s]).status \in Status
    BY <2>1 DEF Result
  <2>3. UNCHANGED <<idSeq, cmd, listed, call, outcome, link, down, reader, expired, started>>
    BY <1>3 DEF ServerRecv
  <2>4. TypeOK'
    <3>1. up' \in [Session -> Seq(Result)]
      BY <1>0, <1>3, <2>1 DEF ServerRecv, TypeOK
    <3>2. results' \in [Cmd -> Status \cup {None}] /\ pending' \subseteq Cmd
      BY <1>0, <1>3, <2>2 DEF ServerRecv, RecordResult, TypeOK
    <3>. QED BY <1>0, <2>3, <3>1, <3>2 DEF TypeOK, link
  <2>. QED
    BY <2>3, <2>4
    DEF IInv, RegisteredIsOwn, UnownedIsEmpty, IssuedExists, CallerOwns,
        QueuedOnce, Ran, RanWasSent, ReaderHasCommand, OnlyAuthorisedRuns,
        Minted, AtMostOnce, link
<1>. QED BY <1>1, <1>2, <1>3, <1>4

LEMMA ClockIInv ==
  ASSUME IInv, UNCHANGED vars \/ \E c \in Cmd : Expire(c)
  PROVE  IInv'
<1>1. UNCHANGED <<dispatcher, link, down, up, reader, started>>
  BY DEF vars, Expire
<1>2. expired' \subseteq Cmd
  BY DEF vars, Expire, IInv, TypeOK
<1>3. TypeOK'
  BY <1>1, <1>2 DEF IInv, TypeOK, dispatcher, link
<1>. QED
  BY <1>1, <1>3, LessQueuedIInv
  DEF IInv, RegisteredIsOwn, UnownedIsEmpty, ReaderHasCommand, link

LEMMA NextIInv == IInv /\ [Next]_vars => IInv'
<1> SUFFICES ASSUME IInv, [Next]_vars
             PROVE  IInv'
  OBVIOUS
<1>1. ASSUME NEW p \in Caller, DispatchStep(p)
      PROVE  IInv'
  BY <1>1, StampIInv, FailIInv, PushIInv DEF DispatchStep
<1>2. ASSUME NEW p \in Caller, NEW d \in Device, NEW a \in Action, Begin(p, d, a)
      PROVE  IInv'
  BY <1>2, BeginIInv
<1>3. ASSUME NEW s \in Session, ReaderStep(s)
      PROVE  IInv'
  <2>1. CASE RebootHost(s)
    <3>1. owner[s] \in Device \cup {None}
      BY DEF IInv, TypeOK
    <3>. QED BY <2>1, <3>1, AgentStopsIInv DEF RebootHost
  <2>. QED BY <1>3, <2>1, GateIInv, ReportIInv DEF ReaderStep
<1>4. ASSUME NEW s \in Session,
             \/ ServerRecv(s) \/ Hold(s) \/ LetGo(s) \/ ServerDrop(s) \/ AgentDrop(s) \/ Release(s)
             \/ \E d \in Device : Connect(d, s)
      PROVE  IInv'
  BY <1>4, ReportIInv, SessionIInv
<1>5. ASSUME NEW d \in Device, AgentCrash(d)
      PROVE  IInv'
  BY <1>5, AgentStopsIInv DEF AgentCrash
<1>6. CASE UNCHANGED vars \/ \E c \in Cmd : Expire(c)
  BY <1>6, ClockIInv
<1>. QED BY <1>1, <1>2, <1>3, <1>4, <1>5, <1>6 DEF Next

-----------------------------------------------------------------------------
(* What is reported.  A command nobody took off a queue is silent, one that *)
(* runs is known to have started or has a RECEIVED on its way, and its end  *)
(* comes after that on the same session.                                    *)

Ends == {"SUCCEEDED", "FAILED", "TIMED_OUT"}

\* Nothing was reported of c, nor is anything on its way.
Silent(c) == /\ results[c] = None
             /\ \A s \in Session : \A i \in DOMAIN up[s] : up[s][i].cmd # c

\* The server knows that c has started, or will before it handles the n-th
\* frame of s.
Known(s, n, c) ==
  \/ results[c] = "RECEIVED"
  \/ results[c] = None /\ \E j \in DOMAIN up[s] : j < n /\ up[s][j] = [cmd |-> c, status |-> "RECEIVED"]

\* A command that nobody took off a queue is silent.
UntakenIsSilent ==
  /\ \A c \in Cmd : outcome[c] # "sent" => Silent(c)
  /\ \A s \in Session : \A i \in DOMAIN down[s] : Silent(down[s][i])

\* A frame says what is: the command has started, or never will, or it was
\* known to have started.
FramesTrue ==
  \A s \in Session : \A i \in DOMAIN up[s] :
    LET c == up[s][i].cmd IN
      /\ up[s][i].status = "RECEIVED" => Ran(c) /\ results[c] = None
      /\ up[s][i].status = "REFUSED" => ~Ran(c) /\ results[c] = None
      /\ up[s][i].status \in Ends => Known(s, i, c)

\* The frames of a command are on one session: its start, then its end.
FramesOrdered ==
  \A s, t \in Session : \A i \in DOMAIN up[s], j \in DOMAIN up[t] :
    up[s][i].cmd = up[t][j].cmd =>
      s = t /\ (i < j => up[s][i].status = "RECEIVED" /\ up[t][j].status \in Ends)

\* Of a command that runs the server knows, or will, that it started and no more.
RunningIsKnown ==
  \A s \in Session : reader[s].pc \in {"run", "held"} =>
    LET c == reader[s].cmd IN
      /\ Ran(c) /\ Known(s, Len(up[s]) + 1, c)
      /\ \A t \in Session : \A i \in DOMAIN up[t] :
           up[t][i].cmd = c => t = s /\ up[t][i].status = "RECEIVED"
      /\ \A t \in Session : reader[t].pc \in {"run", "held"} /\ reader[t].cmd = c => t = s

\* Only a reader of an open stream waits for the next command.
WaitsOnOpenStream == \A s \in Session : reader[s].pc = "idle" => agentUp[s]

AnswerInv == /\ UntakenIsSilent /\ FramesTrue /\ FramesOrdered
             /\ RunningIsKnown /\ WaitsOnOpenStream

\* Who asks for a frame list: nothing is added, and nobody starts to run.
LEMMA QuietStep ==
  ASSUME AnswerInv, UNCHANGED <<results, started>>,
         \A c \in Cmd : outcome'[c] # "sent" => outcome[c] # "sent",
         \A s \in Session : up'[s] = up[s] \/ (up'[s] = <<>> /\ reader'[s].pc \notin {"run", "held"}),
         \A s \in Session : reader'[s].pc \in {"run", "held"} =>
                             reader[s].pc \in {"run", "held"} /\ reader'[s].cmd = reader[s].cmd,
         \A s \in Session : \A i \in DOMAIN down'[s] : Silent(down'[s][i]),
         WaitsOnOpenStream'
  PROVE  AnswerInv'
<1>1. \A s \in Session : \A i \in DOMAIN up'[s] : up'[s] = up[s]
  OBVIOUS
<1>2. ASSUME NEW c, Silent(c) PROVE Silent(c)'
  BY <1>1, <1>2 DEF Silent
<1>3. ASSUME NEW s \in Session, NEW n, NEW c, Known(s, n, c), up'[s] = up[s] PROVE Known(s, n, c)'
  BY <1>3 DEF Known
<1>4. \A c : Ran(c)' <=> Ran(c)
  BY DEF Ran
<1>5. UntakenIsSilent'
  BY <1>2 DEF AnswerInv, UntakenIsSilent
<1>6. FramesTrue'
  BY <1>1, <1>3, <1>4 DEF AnswerInv, FramesTrue
<1>7. FramesOrdered'
  BY <1>1 DEF AnswerInv, FramesOrdered
<1>8. RunningIsKnown'
  <2>. SUFFICES ASSUME NEW s \in Session, reader'[s].pc \in {"run", "held"}, NEW c, c = reader[s].cmd
                PROVE  /\ Ran(c)' /\ Known(s, Len(up[s]) + 1, c)'
                       /\ \A t \in Session : \A i \in DOMAIN up'[t] :
                            up'[t][i].cmd = c => t = s /\ up'[t][i].status = "RECEIVED"
                       /\ \A t \in Session : reader'[t].pc \in {"run", "held"} /\ reader'[t].cmd = c => t = s
    BY DEF RunningIsKnown, Known
  <2>1. reader[s].pc \in {"run", "held"} /\ up'[s] = up[s]
    OBVIOUS
  <2>. QED BY <1>1, <1>3, <1>4, <2>1 DEF AnswerInv, RunningIsKnown
<1>. QED BY <1>5, <1>6, <1>7, <1>8 DEF AnswerInv

LEMMA FrameAdded ==
  ASSUME TypeOK, NEW s \in Session, NEW f \in Result, up' = [up EXCEPT ![s] = Append(up[s], f)]
  PROVE  /\ \A t \in Session : \A i \in DOMAIN up[t] : i \in DOMAIN up'[t] /\ up'[t][i] = up[t][i]
         /\ \A t \in Session : \A i \in DOMAIN up'[t] :
              i \in DOMAIN up[t] \/ (t = s /\ i = Len(up[s]) + 1 /\ up'[t][i] = f)
         /\ Len(up[s]) \in Nat /\ Len(up'[s]) = Len(up[s]) + 1 /\ Len(up[s]) + 1 \in DOMAIN up'[s]
         /\ up'[s][Len(up[s]) + 1] = f /\ (\A i \in DOMAIN up[s] : i \in Nat /\ i < Len(up[s]) + 1)
         /\ \A t \in Session \ {s} : up'[t] = up[t]
<1>1. up \in [Session -> Seq(Result)] /\ up[s] \in Seq(Result)
  BY DEF TypeOK
<1>2. up'[s] = Append(up[s], f) /\ \A t \in Session \ {s} : up'[t] = up[t]
  BY <1>1
<1>3. /\ Len(Append(up[s], f)) = Len(up[s]) + 1 /\ Len(up[s]) \in Nat
      /\ DOMAIN up[s] = 1 .. Len(up[s]) /\ DOMAIN Append(up[s], f) = 1 .. Len(up[s]) + 1
      /\ \A i \in 1 .. Len(up[s]) : Append(up[s], f)[i] = up[s][i]
      /\ Append(up[s], f)[Len(up[s]) + 1] = f
  BY <1>1
<1>. QED BY <1>2, <1>3

\* Adding a frame of c: what is known stays known, and others stay silent.
LEMMA AddingKeeps ==
  ASSUME TypeOK, UNCHANGED results, NEW s \in Session, NEW f \in Result, up' = [up EXCEPT ![s] = Append(up[s], f)]
  PROVE  /\ \A t \in Session : \A n, d : Known(t, n, d) => Known(t, n, d)'
         /\ \A d : d # f.cmd /\ Silent(d) => Silent(d)'
BY FrameAdded DEF Known, Silent

\* Gate: the reader of an open stream takes a silent command that has not run.
LEMMA GateTakes ==
  ASSUME IInv, AnswerInv, NEW s \in Session, Gate(s), NEW c, c = Head(down[s])
  PROVE  /\ c \in Cmd /\ agentUp[s] /\ Silent(c) /\ ~Ran(c) /\ outcome[c] = "sent" /\ cmd[c].dev = owner[s]
         /\ c <= idSeq
         /\ \A t \in Session : \A i \in DOMAIN down'[t] :
              down'[t][i] # c /\ \E j \in DOMAIN down[t] : down'[t][i] = down[t][j]
         /\ UNCHANGED <<results, outcome, cmd, agentUp, expired, idSeq>>
         /\ \A t \in Session \ {s} : down'[t] = down[t]
<1>0. TypeOK /\ QueuedOnce
  BY DEF IInv
<1>1. /\ down[s] \in Seq(Cmd) /\ down[s] # <<>> /\ down' = [down EXCEPT ![s] = Tail(down[s])]
      /\ UNCHANGED <<dispatcher, link, expired>> /\ reader[s].pc = "idle"
  BY <1>0 DEF Gate, TypeOK
<1>2. /\ Tail(down[s]) \in Seq(Cmd) /\ c \in Cmd /\ c = down[s][1] /\ 1 \in DOMAIN down[s]
      /\ \A i \in DOMAIN Tail(down[s]) :
           i \in Nat /\ i + 1 \in DOMAIN down[s] /\ i + 1 # 1 /\ Tail(down[s])[i] = down[s][i + 1]
  BY <1>1, TailIndex
<1>3. \A t \in Session \ {s} : down'[t] = down[t]
  BY <1>0, <1>1 DEF TypeOK
<1>4. down'[s] = Tail(down[s])
  BY <1>0, <1>1 DEF TypeOK
<1>5. /\ c <= idSeq /\ outcome[c] = "sent" /\ cmd[c].dev = owner[s] /\ ~Ran(c)
      /\ \A t \in Session : \A j \in DOMAIN down[t] : down[t][j] = c => t = s /\ j = 1
  BY <1>0, <1>2 DEF QueuedOnce
<1>6. Silent(c) /\ agentUp[s]
  BY <1>1, <1>2 DEF AnswerInv, UntakenIsSilent, WaitsOnOpenStream
<1>7. \A t \in Session : \A i \in DOMAIN down'[t] :
        down'[t][i] # c /\ \E j \in DOMAIN down[t] : down'[t][i] = down[t][j]
  <2>1. ASSUME NEW i \in DOMAIN down'[s] PROVE down'[s][i] # c /\ \E j \in DOMAIN down[s] : down'[s][i] = down[s][j]
    <3>1. /\ i + 1 \in DOMAIN down[s] /\ i + 1 # 1 /\ down'[s][i] = down[s][i + 1]
      BY <1>2, <1>4, <2>1
    <3>. QED BY <1>5, <3>1
  <2>2. ASSUME NEW t \in Session \ {s}, NEW i \in DOMAIN down'[t]
        PROVE  down'[t][i] # c /\ \E j \in DOMAIN down[t] : down'[t][i] = down[t][j]
    BY <1>3, <1>5, <2>2
  <2>. QED BY <2>1, <2>2
<1>. QED BY <1>1, <1>2, <1>3, <1>5, <1>6, <1>7 DEF dispatcher, link

LEMMA GateAnswers ==
  ASSUME IInv, AnswerInv, NEW s \in Session, Gate(s) PROVE AnswerInv'
<1>0. TypeOK /\ RanWasSent
  BY DEF IInv
<1>1. PICK c : c = Head(down[s])
  OBVIOUS
<1>2. /\ c \in Cmd /\ agentUp[s] /\ Silent(c) /\ ~Ran(c) /\ outcome[c] = "sent"
      /\ \A t \in Session : \A i \in DOMAIN down'[t] :
           down'[t][i] # c /\ \E j \in DOMAIN down[t] : down'[t][i] = down[t][j]
      /\ UNCHANGED <<results, outcome, agentUp>>
  BY <1>1, GateTakes
<1>3. PICK st \in {"RECEIVED", "REFUSED"} :
        /\ up' = [up EXCEPT ![s] = Append(up[s], [cmd |-> c, status |-> st])]
        /\ st = "RECEIVED" => /\ reader' = [reader EXCEPT ![s] = [pc |-> "run", cmd |-> c]]
                              /\ started' = Append(started, <<c, owner[s]>>)
        /\ st = "REFUSED" => reader' = [reader EXCEPT ![s] = Idle] /\ started' = started
  BY <1>1, <1>2 DEF Gate, Report
<1>. DEFINE f == [cmd |-> c, status |-> st]
<1>4. f \in Result /\ f.cmd = c /\ f.status = st
  BY <1>2, <1>3 DEF Result, Status, Final
<1>5. up' = [up EXCEPT ![s] = Append(up[s], f)]
  BY <1>3
<1>. HIDE DEF f
<1>6. /\ \A d : d # c /\ Silent(d) => Silent(d)'
      /\ \A t \in Session : \A n, d : Known(t, n, d) => Known(t, n, d)'
  BY <1>0, <1>2, <1>4, <1>5, AddingKeeps
<1>7. /\ \A t \in Session : \A i \in DOMAIN up[t] : i \in DOMAIN up'[t] /\ up'[t][i] = up[t][i]
      /\ \A t \in Session : \A i \in DOMAIN up'[t] :
           i \in DOMAIN up[t] \/ (t = s /\ i = Len(up[s]) + 1 /\ up'[t][i] = f)
      /\ Len(up[s]) \in Nat /\ Len(up'[s]) = Len(up[s]) + 1 /\ Len(up[s]) + 1 \in DOMAIN up'[s]
      /\ up'[s][Len(up[s]) + 1] = f /\ (\A i \in DOMAIN up[s] : i \in Nat /\ i < Len(up[s]) + 1)
      /\ \A t \in Session \ {s} : up'[t] = up[t]
  BY <1>0, <1>4, <1>5, FrameAdded
<1>8. \A t \in Session : \A i \in DOMAIN up[t] : up[t][i].cmd # c
  BY <1>2 DEF Silent
<1>9. /\ \A d : d # c => (Ran(d)' <=> Ran(d))
      /\ st = "RECEIVED" => Ran(c)'
      /\ st = "REFUSED" => ~Ran(c)'
  <2>1. CASE st = "REFUSED"
    BY <1>2, <1>3, <2>1 DEF Ran
  <2>2. CASE st = "RECEIVED"
    <3>1. started \in Seq(Cmd \X Device) /\ started' = Append(started, <<c, owner[s]>>)
      BY <1>0, <1>3, <2>2 DEF TypeOK
    <3>2. /\ DOMAIN started' = 1 .. Len(started) + 1 /\ DOMAIN started = 1 .. Len(started) /\ Len(started) \in Nat
          /\ \A i \in 1 .. Len(started) : started'[i] = started[i]
          /\ started'[Len(started) + 1] = <<c, owner[s]>>
      BY <3>1
    <3>. QED BY <2>2, <3>2 DEF Ran
  <2>. QED BY <2>1, <2>2
<1>10. /\ \A t \in Session \ {s} : reader'[t] = reader[t]
       /\ st = "RECEIVED" => reader'[s] = [pc |-> "run", cmd |-> c]
       /\ st = "REFUSED" => reader'[s].pc = "idle"
  BY <1>0, <1>3 DEF TypeOK, Idle
<1>11. UntakenIsSilent'
  <2>1. \A t \in Session : \A i \in DOMAIN down'[t] : Silent(down[t][i])'
    BY <1>2, <1>6 DEF AnswerInv, UntakenIsSilent
  <2>. QED BY <1>2, <1>6, <2>1 DEF AnswerInv, UntakenIsSilent
<1>12. FramesTrue'
  <2>. SUFFICES ASSUME NEW t \in Session, NEW i \in DOMAIN up'[t], NEW d, d = up'[t][i].cmd
                PROVE  /\ up'[t][i].status = "RECEIVED" => Ran(d)' /\ results[d] = None
                       /\ up'[t][i].status = "REFUSED" => ~Ran(d)' /\ results[d] = None
                       /\ up'[t][i].status \in Ends => Known(t, i, d)'
    BY <1>2 DEF FramesTrue
  <2>1. CASE i \in DOMAIN up[t]
    BY <1>6, <1>7, <1>8, <1>9, <2>1 DEF AnswerInv, FramesTrue
  <2>2. CASE up'[t][i] = f
    BY <1>2, <1>4, <1>9, <2>2 DEF Silent, Ends
  <2>. QED BY <1>7, <2>1, <2>2
<1>13. FramesOrdered'
  <2>. SUFFICES ASSUME NEW t \in Session, NEW r \in Session, NEW i \in DOMAIN up'[t], NEW j \in DOMAIN up'[r],
                       up'[t][i].cmd = up'[r][j].cmd
                PROVE  t = r /\ (i < j => up'[t][i].status = "RECEIVED" /\ up'[r][j].status \in Ends)
    BY DEF FramesOrdered
  <2>1. CASE i \in DOMAIN up[t] /\ j \in DOMAIN up[r]
    BY <1>7, <2>1 DEF AnswerInv, FramesOrdered
  <2>2. CASE t = s /\ r = s /\ i = Len(up[s]) + 1 /\ j = Len(up[s]) + 1
    BY <1>7, <2>2
  <2>. QED BY <1>4, <1>7, <1>8, <2>1, <2>2
<1>14. RunningIsKnown'
  <2>. SUFFICES ASSUME NEW t \in Session, reader'[t].pc \in {"run", "held"}, NEW d, d = reader'[t].cmd
                PROVE  /\ Ran(d)' /\ Known(t, Len(up[t]) + 1, d)'
                       /\ \A r \in Session : \A i \in DOMAIN up'[r] :
                            up'[r][i].cmd = d => r = t /\ up'[r][i].status = "RECEIVED"
                       /\ \A r \in Session : reader'[r].pc \in {"run", "held"} /\ reader'[r].cmd = d => r = t
    BY DEF RunningIsKnown, Known
  <2>1. \A r \in Session : reader[r].pc \in {"run", "held"} => reader[r].cmd # c
    BY <1>2 DEF AnswerInv, RunningIsKnown
  <2>2. CASE t = s
    <3>1. st = "RECEIVED" /\ d = c
      BY <1>3, <1>10, <2>2
    <3>2. Known(s, Len(up[s]) + 1, c)'
      BY <1>2, <1>4, <1>7, <3>1 DEF Known, Silent, f
    <3>. QED BY <1>4, <1>7, <1>8, <1>9, <1>10, <2>1, <2>2, <3>1, <3>2
  <2>3. CASE t # s
    <3>1. reader[t].pc \in {"run", "held"} /\ reader[t].cmd = d /\ d # c /\ up'[t] = up[t]
      BY <1>7, <1>10, <2>1, <2>3
    <3>2. Known(t, Len(up[t]) + 1, d)'
      BY <1>6, <3>1 DEF AnswerInv, RunningIsKnown
    <3>3. \A r \in Session : reader'[r].pc \in {"run", "held"} /\ reader'[r].cmd = d => reader[r].pc \in {"run", "held"} /\ reader[r].cmd = d
      BY <1>3, <1>10, <3>1
    <3>. QED BY <1>4, <1>7, <1>9, <3>1, <3>2, <3>3 DEF AnswerInv, RunningIsKnown
  <2>. QED BY <2>2, <2>3
<1>15. WaitsOnOpenStream'
  BY <1>2, <1>10 DEF AnswerInv, WaitsOnOpenStream
<1>. QED BY <1>11, <1>12, <1>13, <1>14, <1>15 DEF AnswerInv

\* A command that runs was taken off its queue.
LEMMA RunningIsTaken ==
  ASSUME IInv, NEW c, Ran(c)
  PROVE  outcome[c] = "sent" /\ \A s \in Session : \A i \in DOMAIN down[s] : down[s][i] # c
BY DEF IInv, Ran, RanWasSent, QueuedOnce

\* The end of a command follows its start.
LEMMA EndAnswers ==
  ASSUME IInv, AnswerInv, NEW s \in Session, reader[s].pc \in {"run", "held"}, NEW c \in Cmd, c = reader[s].cmd, agentUp[s],
         NEW st \in Ends, NEW next, next.pc \in {"idle", "reboot"}, Report(s, c, st, next),
         UNCHANGED <<dispatcher, link, down, started>>
  PROVE  AnswerInv'
<1>0. TypeOK
  BY DEF IInv
<1>1. /\ Ran(c) /\ Known(s, Len(up[s]) + 1, c)
      /\ \A t \in Session : \A i \in DOMAIN up[t] : up[t][i].cmd = c => t = s /\ up[t][i].status = "RECEIVED"
      /\ \A t \in Session : reader[t].pc \in {"run", "held"} /\ reader[t].cmd = c => t = s
  BY DEF AnswerInv, RunningIsKnown
<1>2. UNCHANGED <<results, outcome, agentUp, down, started>>
  BY DEF dispatcher, link
<1>. DEFINE f == [cmd |-> c, status |-> st]
<1>3. f \in Result /\ f.cmd = c /\ f.status = st
  BY DEF Result, Status, Final, Ends
<1>4. up' = [up EXCEPT ![s] = Append(up[s], f)] /\ reader' = [reader EXCEPT ![s] = next]
  BY DEF Report
<1>. HIDE DEF f
<1>5. /\ \A d : d # c /\ Silent(d) => Silent(d)'
      /\ \A t \in Session : \A n, d : Known(t, n, d) => Known(t, n, d)'
  BY <1>0, <1>2, <1>3, <1>4, AddingKeeps
<1>6. /\ \A t \in Session : \A i \in DOMAIN up[t] : i \in DOMAIN up'[t] /\ up'[t][i] = up[t][i]
      /\ \A t \in Session : \A i \in DOMAIN up'[t] :
           i \in DOMAIN up[t] \/ (t = s /\ i = Len(up[s]) + 1 /\ up'[t][i] = f)
      /\ Len(up[s]) \in Nat /\ (\A i \in DOMAIN up[s] : i \in Nat /\ i < Len(up[s]) + 1)
      /\ \A t \in Session \ {s} : up'[t] = up[t]
  BY <1>0, <1>3, <1>4, FrameAdded
<1>7. (\A t \in Session \ {s} : reader'[t] = reader[t]) /\ reader'[s].pc \in {"idle", "reboot"}
  BY <1>0, <1>4 DEF TypeOK
<1>8. \A d : Ran(d)' <=> Ran(d)
  BY <1>2 DEF Ran
<1>9. UntakenIsSilent'
  <2>1. outcome[c] = "sent" /\ \A t \in Session : \A i \in DOMAIN down[t] : down[t][i] # c
    BY <1>1, RunningIsTaken
  <2>2. \A t \in Session : \A i \in DOMAIN down'[t] : Silent(down[t][i])'
    BY <1>2, <1>5, <2>1 DEF AnswerInv, UntakenIsSilent
  <2>. QED BY <1>2, <1>5, <2>1, <2>2 DEF AnswerInv, UntakenIsSilent
<1>10. FramesTrue'
  <2>. SUFFICES ASSUME NEW t \in Session, NEW i \in DOMAIN up'[t], NEW d, d = up'[t][i].cmd
                PROVE  /\ up'[t][i].status = "RECEIVED" => Ran(d)' /\ results[d] = None
                       /\ up'[t][i].status = "REFUSED" => ~Ran(d)' /\ results[d] = None
                       /\ up'[t][i].status \in Ends => Known(t, i, d)'
    BY <1>2 DEF FramesTrue
  <2>1. CASE i \in DOMAIN up[t]
    BY <1>5, <1>6, <1>8, <2>1 DEF AnswerInv, FramesTrue
  <2>2. CASE t = s /\ i = Len(up[s]) + 1 /\ up'[t][i] = f
    BY <1>1, <1>3, <1>5, <2>2 DEF Ends
  <2>. QED BY <1>6, <2>1, <2>2
<1>11. FramesOrdered'
  <2>. SUFFICES ASSUME NEW t \in Session, NEW r \in Session, NEW i \in DOMAIN up'[t], NEW j \in DOMAIN up'[r],
                       up'[t][i].cmd = up'[r][j].cmd
                PROVE  t = r /\ (i < j => up'[t][i].status = "RECEIVED" /\ up'[r][j].status \in Ends)
    BY DEF FramesOrdered
  <2>1. CASE i \in DOMAIN up[t] /\ j \in DOMAIN up[r]
    BY <1>6, <2>1 DEF AnswerInv, FramesOrdered
  <2>2. CASE t = s /\ i = Len(up[s]) + 1 /\ up'[t][i] = f /\ j \in DOMAIN up[r]
    <3>1. up'[r][j] = up[r][j] /\ up[r][j].cmd = c
      BY <1>3, <1>6, <2>2
    <3>2. r = s /\ j < i /\ j \in Nat
      BY <1>1, <1>6, <2>2, <3>1
    <3>. QED BY <1>6, <2>2, <3>2
  <2>3. CASE r = s /\ j = Len(up[s]) + 1 /\ up'[r][j] = f /\ i \in DOMAIN up[t]
    <3>1. up'[t][i] = up[t][i] /\ up[t][i].cmd = c
      BY <1>3, <1>6, <2>3
    <3>. QED BY <1>1, <1>3, <2>3, <3>1
  <2>4. CASE t = s /\ r = s /\ i = Len(up[s]) + 1 /\ j = Len(up[s]) + 1
    BY <1>6, <2>4
  <2>. QED BY <1>6, <2>1, <2>2, <2>3, <2>4
<1>12. RunningIsKnown'
  <2>. SUFFICES ASSUME NEW t \in Session, reader'[t].pc \in {"run", "held"}, NEW d, d = reader'[t].cmd
                PROVE  /\ Ran(d)' /\ Known(t, Len(up[t]) + 1, d)'
                       /\ \A r \in Session : \A i \in DOMAIN up'[r] :
                            up'[r][i].cmd = d => r = t /\ up'[r][i].status = "RECEIVED"
                       /\ \A r \in Session : reader'[r].pc \in {"run", "held"} /\ reader'[r].cmd = d => r = t
    BY DEF RunningIsKnown, Known
  <2>1. t # s /\ reader[t].pc \in {"run", "held"} /\ reader[t].cmd = d /\ up'[t] = up[t]
    BY <1>6, <1>7
  <2>2. d # c
    BY <1>1, <2>1
  <2>3. Known(t, Len(up[t]) + 1, d)'
    BY <1>5, <2>1 DEF AnswerInv, RunningIsKnown
  <2>. QED BY <1>3, <1>6, <1>7, <1>8, <2>1, <2>2, <2>3 DEF AnswerInv, RunningIsKnown
<1>13. WaitsOnOpenStream'
  BY <1>2, <1>7 DEF AnswerInv, WaitsOnOpenStream
<1>. QED BY <1>9, <1>10, <1>11, <1>12, <1>13 DEF AnswerInv

\* The Recv loop takes the first frame of a session, and with it the first of
\* its command: an end finds the start recorded.
LEMMA RecvAnswers ==
  ASSUME IInv, AnswerInv, NEW s \in Session, ServerRecv(s) PROVE AnswerInv'
<1>0. TypeOK
  BY DEF IInv
<1>1. /\ up[s] \in Seq(Result) /\ up[s] # <<>> /\ up' = [up EXCEPT ![s] = Tail(up[s])]
      /\ UNCHANGED <<outcome, agentUp, down, reader, started>>
      /\ results' = [results EXCEPT ![Head(up[s]).cmd] = Head(up[s]).status]
  BY <1>0 DEF ServerRecv, RecordResult, TypeOK, link
<1>2. PICK r \in Result : r = Head(up[s])
  BY <1>1
<1>3. PICK c \in Cmd : c = r.cmd /\ r.status \in Status
  BY <1>2 DEF Result
<1>4. results'[c] = r.status /\ \A d \in Cmd \ {c} : results'[d] = results[d]
  BY <1>0, <1>1, <1>2, <1>3 DEF TypeOK
<1>5. /\ Len(up[s]) \in Nat /\ DOMAIN up[s] = 1 .. Len(up[s]) /\ 1 \in DOMAIN up[s] /\ up[s][1] = r
      /\ DOMAIN Tail(up[s]) = 1 .. Len(up[s]) - 1 /\ Len(Tail(up[s])) = Len(up[s]) - 1
      /\ \A i \in 1 .. Len(up[s]) - 1 : Tail(up[s])[i] = up[s][i + 1]
  BY <1>1, <1>2
<1>6. up'[s] = Tail(up[s]) /\ \A t \in Session \ {s} : up'[t] = up[t]
  BY <1>0, <1>1 DEF TypeOK
<1>. DEFINE Old(t, i) == IF t = s THEN i + 1 ELSE i
<1>7. \A t \in Session : \A i \in DOMAIN up'[t] :
        Old(t, i) \in DOMAIN up[t] /\ up'[t][i] = up[t][Old(t, i)] /\ (t = s => i \in Nat /\ i + 1 > 1)
  <2>1. ASSUME NEW i \in DOMAIN up'[s] PROVE i \in Nat /\ i + 1 > 1 /\ i + 1 \in DOMAIN up[s] /\ up'[s][i] = up[s][i + 1]
    BY <1>5, <1>6, <2>1
  <2>2. ASSUME NEW t \in Session \ {s}, NEW i \in DOMAIN up'[t] PROVE i \in DOMAIN up[t] /\ up'[t][i] = up[t][i]
    BY <1>6, <2>2
  <2>. QED BY <2>1, <2>2
<1>8. \A t \in Session : \A i \in DOMAIN up[t] : up[t][i].cmd \in Cmd
  <2>1. \A t \in Session : \A i \in DOMAIN up[t] : up[t][i] \in Result
    BY <1>0 DEF TypeOK
  <2>. QED BY <2>1 DEF Result
<1>9. \A d \in Cmd : Silent(d) => d # c /\ Silent(d)'
  <2>. SUFFICES ASSUME NEW d \in Cmd, Silent(d) PROVE d # c /\ Silent(d)'
    OBVIOUS
  <2>1. d # c
    BY <1>3, <1>5 DEF Silent
  <2>. QED BY <1>4, <1>7, <2>1 DEF Silent
\* Later frames of c are its end.
<1>10. \A t \in Session : \A i \in DOMAIN up'[t] :
         up'[t][i].cmd = c => t = s /\ r.status = "RECEIVED" /\ up'[t][i].status \in Ends
  <2>. SUFFICES ASSUME NEW t \in Session, NEW i \in DOMAIN up'[t], up'[t][i].cmd = c
                PROVE  t = s /\ r.status = "RECEIVED" /\ up'[t][i].status \in Ends
    OBVIOUS
  <2>1. up[t][Old(t, i)].cmd = up[s][1].cmd /\ Old(t, i) \in DOMAIN up[t]
    BY <1>3, <1>5, <1>7
  <2>2. t = s
    BY <1>5, <2>1 DEF AnswerInv, FramesOrdered
  <2>3. 1 < i + 1
    BY <1>7, <2>2
  <2>. QED BY <1>5, <1>7, <2>1, <2>2, <2>3 DEF AnswerInv, FramesOrdered
<1>11. ASSUME NEW t \in Session, NEW d \in Cmd \ {c}, NEW n \in Int, Known(t, Old(t, n), d) PROVE Known(t, n, d)'
  <2>1. CASE results[d] = "RECEIVED"
    BY <1>4, <2>1 DEF Known
  <2>2. CASE results[d] = None /\ t # s
    BY <1>4, <1>6, <1>11, <2>2 DEF Known
  <2>3. CASE results[d] = None /\ results[d] # "RECEIVED" /\ t = s
    <3>1. PICK j \in DOMAIN up[s] : j < n + 1 /\ up[s][j] = [cmd |-> d, status |-> "RECEIVED"]
      BY <1>11, <2>3 DEF Known
    <3>2. j # 1
      BY <1>3, <1>5, <3>1
    <3>3. j - 1 \in DOMAIN up'[s] /\ up'[s][j - 1] = up[s][j] /\ j - 1 < n
      BY <1>5, <1>6, <3>1, <3>2
    <3>. QED BY <1>4, <2>3, <3>1, <3>3 DEF Known
  <2>. QED BY <1>11, <2>1, <2>2, <2>3 DEF Known
<1>12. \A d : Ran(d)' <=> Ran(d)
  BY <1>1 DEF Ran
<1>13. UntakenIsSilent'
  <2>1. \A t \in Session : \A i \in DOMAIN down[t] : down[t][i] \in Cmd
    BY <1>0 DEF TypeOK
  <2>. QED BY <1>1, <1>9, <2>1 DEF AnswerInv, UntakenIsSilent
<1>14. FramesTrue'
  <2>. SUFFICES ASSUME NEW t \in Session, NEW i \in DOMAIN up'[t], NEW d, d = up'[t][i].cmd
                PROVE  /\ up'[t][i].status = "RECEIVED" => Ran(d)' /\ results'[d] = None
                       /\ up'[t][i].status = "REFUSED" => ~Ran(d)' /\ results'[d] = None
                       /\ up'[t][i].status \in Ends => Known(t, i, d)'
    BY DEF FramesTrue
  <2>1. CASE d = c
    <3>1. results'[c] = "RECEIVED" /\ up'[t][i].status \in Ends
      BY <1>4, <1>10, <2>1
    <3>. QED BY <2>1, <3>1 DEF Known, Ends
  <2>2. CASE d # c
    <3>1. d \in Cmd \ {c} /\ up'[t][i] = up[t][Old(t, i)] /\ Old(t, i) \in DOMAIN up[t]
      BY <1>7, <1>8, <2>2
    <3>2. i \in Int
      <4>1. up'[t] \in Seq(Result)
        BY <1>0, <1>1, <1>6 DEF TypeOK
      <4>. QED BY <4>1
    <3>3. up'[t][i].status \in Ends => Known(t, Old(t, i), d)
      BY <3>1 DEF AnswerInv, FramesTrue
    <3>. QED BY <1>4, <1>11, <1>12, <3>1, <3>2, <3>3 DEF AnswerInv, FramesTrue
  <2>. QED BY <2>1, <2>2
<1>15. FramesOrdered'
  <2>. SUFFICES ASSUME NEW t \in Session, NEW x \in Session, NEW i \in DOMAIN up'[t], NEW j \in DOMAIN up'[x],
                       up'[t][i].cmd = up'[x][j].cmd
                PROVE  t = x /\ (i < j => up'[t][i].status = "RECEIVED" /\ up'[x][j].status \in Ends)
    BY DEF FramesOrdered
  <2>1. /\ Old(t, i) \in DOMAIN up[t] /\ up'[t][i] = up[t][Old(t, i)]
        /\ Old(x, j) \in DOMAIN up[x] /\ up'[x][j] = up[x][Old(x, j)]
    BY <1>7
  <2>2. t = x /\ (Old(t, i) < Old(x, j) => up'[t][i].status = "RECEIVED" /\ up'[x][j].status \in Ends)
    BY <2>1 DEF AnswerInv, FramesOrdered
  <2>3. t = s /\ i < j => i + 1 < j + 1
    BY <1>7, <2>2
  <2>. QED BY <2>2, <2>3
<1>16. RunningIsKnown'
  <2>. SUFFICES ASSUME NEW t \in Session, reader[t].pc \in {"run", "held"}, NEW d, d = reader[t].cmd
                PROVE  /\ Ran(d)' /\ Known(t, Len(up[t]) + 1, d)'
                       /\ \A x \in Session : \A i \in DOMAIN up'[x] :
                            up'[x][i].cmd = d => x = t /\ up'[x][i].status = "RECEIVED"
                       /\ \A x \in Session : reader[x].pc \in {"run", "held"} /\ reader[x].cmd = d => x = t
    BY <1>1 DEF RunningIsKnown, Known
  <2>1. /\ Ran(d) /\ Known(t, Len(up[t]) + 1, d)
        /\ \A x \in Session : \A i \in DOMAIN up[x] : up[x][i].cmd = d => x = t /\ up[x][i].status = "RECEIVED"
        /\ \A x \in Session : reader[x].pc \in {"run", "held"} /\ reader[x].cmd = d => x = t
    BY DEF AnswerInv, RunningIsKnown
  <2>2. \A x \in Session : \A i \in DOMAIN up'[x] : up'[x][i].cmd = d => x = t /\ up'[x][i].status = "RECEIVED"
    BY <1>7, <2>1
  <2>3. Known(t, Len(up[t]) + 1, d)'
    <3>1. CASE d = c
      <4>1. r.status = "RECEIVED"
        BY <1>3, <1>5, <2>1, <3>1
      <4>. QED BY <1>4, <3>1, <4>1 DEF Known
    <3>2. CASE d # c
      <4>1. d \in Cmd \ {c}
        BY <3>2 DEF IInv, ReaderHasCommand
      <4>2. up'[t] \in Seq(Result) /\ Len(up'[t]) + 1 \in Int /\ Old(t, Len(up'[t]) + 1) = Len(up[t]) + 1
        <5>1. up'[t] \in Seq(Result)
          BY <1>0, <1>1, <1>6 DEF TypeOK
        <5>2. Len(up'[t]) \in Nat
          BY <5>1
        <5>3. CASE t = s
          <6>1. up'[s] = Tail(up[s]) /\ Len(Tail(up[s])) = Len(up[s]) - 1 /\ Len(up[s]) \in Nat
            BY <1>5, <1>6
          <6>2. Len(up'[t]) + 1 + 1 = Len(up[t]) + 1
            BY <5>3, <6>1
          <6>. QED BY <5>1, <5>2, <5>3, <6>2
        <5>4. CASE t # s
          BY <1>6, <5>1, <5>2, <5>4
        <5>. QED BY <5>3, <5>4
      <4>3. PICK n \in Int : n = Len(up'[t]) + 1
        BY <4>2
      <4>4. Known(t, n, d)'
        BY <1>11, <2>1, <4>1, <4>2, <4>3
      <4>. QED BY <4>3, <4>4 DEF Known
    <3>. QED BY <3>1, <3>2
  <2>. QED BY <1>12, <2>1, <2>2, <2>3
<1>17. WaitsOnOpenStream'
  BY <1>1 DEF AnswerInv, WaitsOnOpenStream
<1>. QED BY <1>13, <1>14, <1>15, <1>16, <1>17 DEF AnswerInv

LEMMA AnswerInit == Init => AnswerInv
<1>. SUFFICES ASSUME Init PROVE AnswerInv
  OBVIOUS
<1>1. /\ results = [c \in Cmd |-> None] /\ down = [s \in Session |-> <<>>] /\ up = [s \in Session |-> <<>>]
      /\ reader = [s \in Session |-> Off] /\ Off.pc = "off"
  BY DEF Init, Off
<1>2. \A c \in Cmd : Silent(c)
  BY <1>1 DEF Silent
<1>. QED BY <1>1, <1>2 DEF AnswerInv, UntakenIsSilent, FramesTrue, FramesOrdered, RunningIsKnown, WaitsOnOpenStream

\* The callers: a command that is sent has nothing reported of it.
LEMMA CallerAnswers ==
  ASSUME IInv, AnswerInv, NEW p \in Caller,
         DispatchStep(p) \/ \E d \in Device, a \in Action : Begin(p, d, a)
  PROVE  AnswerInv'
<1>0. TypeOK
  BY DEF IInv
<1>1. UNCHANGED <<results, started, up, reader, agentUp>>
  BY DEF DispatchStep, Begin, Mint, DispatchWith, StampToken, MintFails, PushSucceeds, PushFails, Undo, link
<1>2. CASE PushSucceeds(p)
  <2>1. PICK n \in Cmd, s \in Session :
          /\ n = call[p].cmd /\ outcome[n] = "none"
          /\ down' = [down EXCEPT ![s] = Append(down[s], n)] /\ outcome' = [outcome EXCEPT ![n] = "sent"]
    <3>1. call[p].cmd \in Cmd /\ call[p].cmd <= idSeq /\ outcome[call[p].cmd] = "none"
      BY <1>2 DEF PushSucceeds, IInv, CallerOwns
    <3>2. cmd[call[p].cmd] \in Command
      BY <1>0, <3>1 DEF IInv, IssuedExists, TypeOK, Command
    <3>3. live[cmd[call[p].cmd].dev] \in Session
      BY <1>0, <1>2, <3>2 DEF PushSucceeds, Reachable, Command, TypeOK
    <3>. QED BY <1>2, <3>1, <3>3 DEF PushSucceeds
  <2>2. Silent(n)
    BY <2>1 DEF AnswerInv, UntakenIsSilent
  <2>3. down[s] \in Seq(Cmd) /\ down'[s] = Append(down[s], n) /\ \A t \in Session \ {s} : down'[t] = down[t]
    BY <1>0, <2>1 DEF TypeOK
  <2>4. \A i \in DOMAIN down'[s] : down'[s][i] = n \/ (i \in DOMAIN down[s] /\ down'[s][i] = down[s][i])
    BY <2>3, AppendIndex
  <2>5. \A t \in Session : \A i \in DOMAIN down'[t] : Silent(down'[t][i])
    BY <2>2, <2>3, <2>4 DEF AnswerInv, UntakenIsSilent
  <2>6. \A c \in Cmd : outcome'[c] # "sent" => outcome[c] # "sent"
    BY <1>0, <2>1 DEF TypeOK
  <2>. QED BY <1>1, <2>5, <2>6, QuietStep DEF AnswerInv, WaitsOnOpenStream
<1>3. CASE ~PushSucceeds(p)
  <2>1. down' = down /\ (outcome' = outcome \/ outcome' = [outcome EXCEPT ![call[p].cmd] = "failed"])
    BY <1>3 DEF DispatchStep, Begin, Mint, DispatchWith, StampToken, MintFails, PushFails, Undo
  <2>2. \A c \in Cmd : outcome'[c] # "sent" => outcome[c] # "sent"
    <3>1. CASE outcome' = outcome
      BY <3>1
    <3>2. CASE outcome' = [outcome EXCEPT ![call[p].cmd] = "failed"] /\ outcome' # outcome
      <4>1. call[p].pc # "idle"
        BY <1>3, <3>2 DEF DispatchStep, Begin, Mint, DispatchWith, StampToken, MintFails, PushFails, Undo
      <4>2. call[p].cmd \in Cmd /\ outcome[call[p].cmd] = "none"
        BY <4>1, InHand
      <4>. QED BY <1>0, <3>2, <4>2 DEF TypeOK
    <3>. QED BY <2>1, <3>1, <3>2
  <2>. QED BY <1>1, <2>1, <2>2, QuietStep DEF AnswerInv, WaitsOnOpenStream, UntakenIsSilent
<1>. QED BY <1>2, <1>3

\* Sessions open, break and are released; readers stop or wait again.
LEMMA SessionAnswers ==
  ASSUME IInv, AnswerInv, UNCHANGED <<results, started, outcome>>,
         \A s \in Session : up'[s] = up[s] \/ (up'[s] = <<>> /\ reader'[s].pc \notin {"run", "held"}),
         \A s \in Session : down'[s] = down[s] \/ down'[s] = <<>>,
         \A s \in Session : reader'[s].pc \in {"run", "held"} =>
                             reader[s].pc \in {"run", "held"} /\ reader'[s].cmd = reader[s].cmd,
         \A s \in Session : reader'[s].pc = "idle" => agentUp'[s]
  PROVE  AnswerInv'
<1>1. \A s \in Session : \A i \in DOMAIN down'[s] : Silent(down'[s][i])
  BY DEF AnswerInv, UntakenIsSilent
<1>. QED BY <1>1, QuietStep DEF WaitsOnOpenStream

LEMMA LinkAnswers ==
  ASSUME IInv, AnswerInv, NEW s \in Session,
         ServerDrop(s) \/ AgentDrop(s) \/ Release(s) \/ RebootFails(s) \/ Hold(s) \/ \E d \in Device : Connect(d, s)
  PROVE  AnswerInv'
<1>0. TypeOK
  BY DEF IInv
<1>1. Idle.pc = "idle" /\ Off.pc = "off" /\ \A x \in Session : reader[x].pc = "idle" => agentUp[x]
  BY DEF Idle, Off, AnswerInv, WaitsOnOpenStream
<1>2. CASE ServerDrop(s)
  BY <1>1, <1>2, SessionAnswers DEF ServerDrop, dispatcher
<1>3. CASE AgentDrop(s)
  BY <1>0, <1>1, <1>3, SessionAnswers DEF AgentDrop, dispatcher, TypeOK
<1>4. CASE Release(s)
  BY <1>0, <1>1, <1>4, SessionAnswers DEF Release, dispatcher, TypeOK
<1>5. CASE RebootFails(s)
  BY <1>0, <1>1, <1>5, SessionAnswers DEF RebootFails, dispatcher, link, TypeOK
<1>6. CASE \E d \in Device : Connect(d, s)
  BY <1>0, <1>1, <1>6, SessionAnswers DEF Connect, dispatcher, TypeOK
<1>7. CASE Hold(s)
  BY <1>0, <1>1, <1>7, SessionAnswers DEF Hold, dispatcher, link, TypeOK
<1>. QED BY <1>2, <1>3, <1>4, <1>5, <1>6, <1>7

LEMMA StopAnswers ==
  ASSUME IInv, AnswerInv, NEW d, AgentStops(d) PROVE AnswerInv'
<1>1. Off.pc = "off" /\ \A x \in Session : reader[x].pc = "idle" => agentUp[x]
  BY DEF Off, AnswerInv, WaitsOnOpenStream
<1>. QED BY <1>1, SessionAnswers DEF AgentStops, dispatcher

LEMMA FinishAnswers ==
  ASSUME IInv, AnswerInv, NEW s \in Session, Finish(s) \/ LetGo(s) \/ AnnounceReboot(s) PROVE AnswerInv'
<1>0. TypeOK
  BY DEF IInv
<1>1. PICK c \in Cmd : c = reader[s].cmd /\ reader[s].pc \in {"run", "held"}
  BY DEF Finish, LetGo, AnnounceReboot, IInv, ReaderHasCommand
<1>2. PICK st \in Ends, next \in {Idle, [pc |-> "reboot", cmd |-> c]} : Report(s, c, st, next)
  BY <1>1 DEF Finish, LetGo, AnnounceReboot, Ends
<1>3. next.pc \in {"idle", "reboot"}
  BY <1>2 DEF Idle
<1>4. UNCHANGED <<dispatcher, link, down, started>>
  BY DEF Finish, LetGo, AnnounceReboot
<1>5. CASE agentUp[s]
  BY <1>1, <1>2, <1>3, <1>4, <1>5, EndAnswers
<1>6. CASE ~agentUp[s]
  <2>1. up' = up /\ reader' = [reader EXCEPT ![s] = Off]
    BY <1>2, <1>6 DEF Report
  <2>2. Off.pc = "off" /\ \A x \in Session : reader[x].pc = "idle" => agentUp[x]
    BY DEF Off, AnswerInv, WaitsOnOpenStream
  <2>. QED BY <1>0, <1>4, <2>1, <2>2, SessionAnswers DEF dispatcher, link, TypeOK
<1>. QED BY <1>5, <1>6

LEMMA AnswerNext == IInv /\ AnswerInv /\ [Next]_vars => AnswerInv'
<1>. SUFFICES ASSUME IInv, AnswerInv, [Next]_vars PROVE AnswerInv'
  OBVIOUS
<1>1. CASE UNCHANGED vars \/ \E c \in Cmd : Expire(c)
  <2>1. UNCHANGED <<results, started, outcome, up, down, reader, agentUp>>
    BY <1>1 DEF vars, Expire, dispatcher, link
  <2>. QED BY <2>1, SessionAnswers DEF AnswerInv, WaitsOnOpenStream
<1>2. ASSUME NEW s \in Session, ReaderStep(s) PROVE AnswerInv'
  BY <1>2, GateAnswers, FinishAnswers, LinkAnswers, StopAnswers DEF ReaderStep, RebootHost
<1>. QED BY <1>1, <1>2, CallerAnswers, RecvAnswers, FinishAnswers, LinkAnswers, StopAnswers DEF Next, AgentCrash

-----------------------------------------------------------------------------
(* The promise of CommandService.                                          *)

\* A command waits for its token without one.
StampedOnce == \A p \in Caller : call[p].pc = "mint" => cmd[call[p].cmd].token = None

LEMMA StampedOnceKept == IInv /\ StampedOnce /\ [Next]_vars => StampedOnce'
<1>. SUFFICES ASSUME IInv, StampedOnce, [Next]_vars PROVE StampedOnce'
  OBVIOUS
<1>0. TypeOK /\ CallerOwns
  BY DEF IInv
<1>1. CASE UNCHANGED <<cmd, call>>
  BY <1>1 DEF StampedOnce
<1>2. ASSUME NEW p \in Caller, MintFails(p) \/ PushSucceeds(p) \/ PushFails(p) \/ Undo(p) PROVE StampedOnce'
  <2>1. UNCHANGED cmd /\ (call' = [call EXCEPT ![p] = Idle] \/ call' = [call EXCEPT ![p].pc = "undo"])
    BY <1>2 DEF MintFails, PushSucceeds, PushFails, Undo
  <2>2. \A q \in Caller : call'[q].pc = "mint" => call'[q] = call[q]
    BY <1>0, <2>1 DEF TypeOK, Idle
  <2>. QED BY <2>1, <2>2 DEF StampedOnce
<1>3. ASSUME NEW p \in Caller, Mint(p) \/ DispatchWith(p) PROVE StampedOnce'
  <2>1. PICK token : StampToken(p, token)
    BY <1>3 DEF Mint, DispatchWith
  <2>2. /\ call[p].pc = "mint" /\ cmd' = [cmd EXCEPT ![call[p].cmd].token = token]
        /\ call' = [call EXCEPT ![p].pc = "push"]
    BY <2>1 DEF StampToken
  <2>3. \A q \in Caller : call'[q].pc = "mint" => q # p /\ call'[q] = call[q]
    BY <1>0, <2>2 DEF TypeOK
  <2>4. \A q \in Caller : call[q].pc = "mint" /\ q # p => call[q].cmd \in Cmd /\ call[q].cmd # call[p].cmd
    BY <1>0, <2>2 DEF CallerOwns
  <2>. QED BY <1>0, <2>2, <2>3, <2>4 DEF StampedOnce, TypeOK
<1>4. ASSUME NEW p \in Caller, NEW d \in Device, NEW a \in Action, Begin(p, d, a) PROVE StampedOnce'
  <2>1. PICK n \in Cmd : n = idSeq + 1
    BY <1>0, <1>4, ConstAssumption DEF Begin, TypeOK, Cmd
  <2>2. /\ cmd' = [cmd EXCEPT ![n] = [dev |-> d, action |-> a, token |-> None]]
        /\ call' = [call EXCEPT ![p] = [pc |-> "mint", cmd |-> n]]
    BY <1>4, <2>1 DEF Begin
  <2>3. cmd'[n].token = None /\ \A c \in Cmd \ {n} : cmd'[c] = cmd[c]
    BY <1>0, <2>2 DEF TypeOK
  <2>4. call'[p].cmd = n /\ \A q \in Caller \ {p} : call'[q] = call[q]
    BY <1>0, <2>2 DEF TypeOK
  <2>5. \A q \in Caller \ {p} : call[q].pc = "mint" => call[q].cmd \in Cmd \ {n}
    BY <1>0, <2>1 DEF CallerOwns, Cmd, TypeOK
  <2>. QED BY <2>3, <2>4, <2>5 DEF StampedOnce
<1>5. ASSUME NEW s \in Session,
             \/ ReaderStep(s) \/ Hold(s) \/ LetGo(s) \/ ServerRecv(s) \/ ServerDrop(s) \/ AgentDrop(s)
             \/ Release(s) \/ \E d \in Device : Connect(d, s)
      PROVE  UNCHANGED <<cmd, call>>
  BY <1>5 DEF ReaderStep, Gate, Finish, Hold, LetGo, AnnounceReboot, RebootHost, RebootFails, AgentStops, ServerRecv, ServerDrop,
              AgentDrop, Release, Connect, dispatcher
<1>6. ASSUME (\E d \in Device : AgentCrash(d)) \/ (\E c \in Cmd : Expire(c)) \/ UNCHANGED vars PROVE UNCHANGED <<cmd, call>>
  BY <1>6 DEF AgentCrash, AgentStops, Expire, dispatcher, vars
<1>. QED BY <1>1, <1>2, <1>3, <1>4, <1>5, <1>6 DEF Next, DispatchStep

\* The step of the promise: of one command, or a stutter.
ServiceStutter == UNCHANGED <<Requested, Authorised, expired, outcome, started, results>>

LEMMA SameService ==
  ASSUME UNCHANGED cmd PROVE UNCHANGED <<Requested, Authorised>>
BY DEF Requested, Authorised, Minted

LEMMA BeginIsAsk ==
  ASSUME IInv, NEW p \in Caller, NEW d \in Device, NEW a \in Action, Begin(p, d, a)
  PROVE  \E c \in Cmd : Service!Ask(c)
<1>0. TypeOK
  BY DEF IInv
<1>1. PICK n \in Cmd : n = idSeq + 1
  BY <1>0, ConstAssumption DEF Begin, TypeOK, Cmd
<1>2. cmd' = [cmd EXCEPT ![n] = [dev |-> d, action |-> a, token |-> None]]
      /\ UNCHANGED <<expired, outcome, started, results>>
  BY <1>1 DEF Begin
<1>3. /\ cmd[n] = None
      /\ cmd'[n] = [dev |-> d, action |-> a, token |-> None] /\ cmd'[n] # None
      /\ \A c \in Cmd \ {n} : cmd'[c] = cmd[c]
  <2>1. ~(n <= idSeq)
    BY <1>0, <1>1 DEF TypeOK
  <2>2. [dev |-> d, action |-> a, token |-> None] # None
    BY NoneAssumption
  <2>. QED BY <1>0, <1>2, <2>1, <2>2 DEF IInv, IssuedExists, TypeOK
<1>4. Requested[n] = None
  BY <1>3 DEF Requested
<1>5. Requested' = [Requested EXCEPT ![n] = [dev |-> d, action |-> a]]
  <2>. DEFINE of(m, c) == IF m[c] = None THEN None ELSE [dev |-> m[c].dev, action |-> m[c].action]
  <2>1. of(cmd', n) = [dev |-> d, action |-> a] /\ \A c \in Cmd \ {n} : of(cmd', c) = of(cmd, c)
    BY <1>3
  <2>2. Requested = [c \in Cmd |-> of(cmd, c)] /\ Requested' = [c \in Cmd |-> of(cmd', c)]
    BY DEF Requested
  <2>. HIDE DEF of
  <2>. QED BY <2>1, <2>2
<1>6. Authorised' = Authorised
  <2>1. Minted(n)' # None
    <3>1. Minted(n)' \in Token
      BY <1>3 DEF Minted, Token
    <3>. QED BY <3>1, NoneAssumption
  <2>. QED BY <1>3, <2>1 DEF Authorised, Minted
<1>7. [dev |-> d, action |-> a] \in [dev : Device, action : Action]
  OBVIOUS
<1>. QED BY <1>2, <1>4, <1>5, <1>6, <1>7 DEF Service!Ask

LEMMA StampIsAuthorise ==
  ASSUME IInv, StampedOnce, NEW p \in Caller, Mint(p) \/ DispatchWith(p)
  PROVE  ServiceStutter \/ \E c \in Cmd : Service!Authorise(c)
<1>0. TypeOK /\ call[p].pc = "mint"
  BY DEF IInv, Mint, DispatchWith
<1>1. PICK n \in Cmd : n = call[p].cmd /\ outcome[n] = "none" /\ n <= idSeq
  BY <1>0, InHand
<1>2. PICK token : cmd' = [cmd EXCEPT ![n].token = token] /\ UNCHANGED <<expired, outcome, started, results>>
  BY <1>1 DEF Mint, DispatchWith, StampToken
<1>3. cmd[n] \in Command /\ cmd[n] # None
  BY <1>0, <1>1 DEF IInv, IssuedExists, TypeOK, Command
<1>4. cmd'[n] = [dev |-> cmd[n].dev, action |-> cmd[n].action, token |-> token] /\ \A c \in Cmd \ {n} : cmd'[c] = cmd[c]
  BY <1>0, <1>2, <1>3 DEF TypeOK, Command
<1>5. token \in Token \cup {None} => cmd'[n] # None
  <2>1. token \in Token \cup {None} => cmd'[n] \in [dev : Device, action : Action, token : Token \cup {None}]
    BY <1>3, <1>4 DEF Command
  <2>. QED BY <2>1, NoneAssumption
<1>6. cmd'[n] # None
  <2>1. cmd'[n] \in Command \cup {None}
    BY StampIInv DEF IInv, TypeOK, Command
  <2>2. IssuedExists' /\ idSeq' = idSeq
    BY StampIInv DEF IInv, Mint, DispatchWith, StampToken
  <2>. QED BY <1>1, <2>2 DEF IssuedExists
<1>7. Requested' = Requested
  BY <1>3, <1>4, <1>6 DEF Requested
<1>8. n \notin Authorised
  <2>1. cmd[n].token = None
    BY <1>0, <1>1 DEF StampedOnce
  <2>2. Minted(n) \in Token
    BY <1>1, <1>3 DEF Minted, Token, Command
  <2>. QED BY <2>1, <2>2, NoneAssumption DEF Authorised
<1>9. \A c \in Cmd : Minted(c)' = Minted(c)
  BY <1>3, <1>4 DEF Minted
<1>10. Authorised' = Authorised \/ Authorised' = Authorised \cup {n}
  BY <1>4, <1>8, <1>9 DEF Authorised
<1>11. Requested[n] # None
  <2>1. [dev |-> cmd[n].dev, action |-> cmd[n].action] # None => Requested[n] # None
    BY <1>3 DEF Requested
  <2>. QED BY <2>1, <1>3, NoneAssumption DEF Command
<1>. QED BY <1>1, <1>2, <1>7, <1>10, <1>11 DEF ServiceStutter, Service!Authorise

LEMMA OutcomeIsTell ==
  ASSUME IInv, NEW p \in Caller, MintFails(p) \/ PushSucceeds(p) \/ PushFails(p) \/ Undo(p)
  PROVE  ServiceStutter \/ \E c \in Cmd : Service!Tell(c)
<1>1. PICK n \in Cmd : n = call[p].cmd /\ outcome[n] = "none" /\ n <= idSeq
  BY InHand DEF MintFails, PushSucceeds, PushFails, Undo
<1>2. UNCHANGED <<cmd, expired, started, results>>
  BY DEF MintFails, PushSucceeds, PushFails, Undo
<1>3. outcome' = outcome \/ \E what \in {"sent", "failed"} : outcome' = [outcome EXCEPT ![n] = what]
  BY <1>1 DEF MintFails, PushSucceeds, PushFails, Undo
<1>4. UNCHANGED <<Requested, Authorised>>
  BY <1>2, SameService
<1>5. Requested[n] # None
  <2>1. cmd[n] \in Command /\ cmd[n] # None
    BY <1>1 DEF IInv, IssuedExists, TypeOK, Command
  <2>2. [dev |-> cmd[n].dev, action |-> cmd[n].action] # None
    BY <2>1, NoneAssumption DEF Command
  <2>. QED BY <2>1, <2>2 DEF Requested
<1>. QED BY <1>1, <1>2, <1>3, <1>4, <1>5 DEF ServiceStutter, Service!Tell

LEMMA GateIsRun ==
  ASSUME IInv, AnswerInv, NEW s \in Session, Gate(s)
  PROVE  ServiceStutter \/ \E c \in Cmd : Service!Run(c)
<1>0. TypeOK
  BY DEF IInv
<1>1. PICK c : c = Head(down[s])
  OBVIOUS
<1>2. /\ c \in Cmd /\ Silent(c) /\ ~Ran(c) /\ outcome[c] = "sent" /\ cmd[c].dev = owner[s] /\ c <= idSeq
      /\ UNCHANGED <<results, outcome, cmd, expired>>
  BY <1>1, GateTakes
<1>3. UNCHANGED <<Requested, Authorised>>
  BY <1>2, SameService
<1>4. CASE started' = started
  BY <1>2, <1>3, <1>4 DEF ServiceStutter
<1>5. CASE Check(s, c) /\ started' = Append(started, <<c, owner[s]>>)
  <2>1. cmd[c] \in Command /\ cmd[c] # None
    BY <1>0, <1>2 DEF IInv, IssuedExists, TypeOK, Command
  <2>2. cmd[c].token \in Token
    BY <1>5, <2>1 DEF Check, Command
  <2>3. cmd[c].token = Minted(c) /\ c \notin expired
    BY <1>2, <1>5, <2>2 DEF Check, Minted, Token
  <2>4. c \in Authorised \ expired
    BY <1>2, <2>1, <2>3 DEF Authorised
  <2>5. Requested[c].dev = owner[s]
    BY <1>2, <2>1 DEF Requested
  <2>6. results[c] = None /\ ~Service!HasRun(c)
    BY <1>2 DEF Silent, Ran, Service!HasRun
  <2>. QED BY <1>2, <1>3, <1>5, <2>4, <2>5, <2>6 DEF Service!Run
<1>. QED BY <1>1, <1>4, <1>5 DEF Gate

LEMMA RecvIsRecord ==
  ASSUME IInv, AnswerInv, NEW s \in Session, ServerRecv(s)
  PROVE  \E c \in Cmd : Service!Acknowledge(c) \/ Service!Refuse(c) \/ Service!Complete(c)
<1>0. TypeOK
  BY DEF IInv
<1>1. /\ up[s] \in Seq(Result) /\ up[s] # <<>>
      /\ UNCHANGED <<cmd, expired, outcome, started>>
      /\ results' = [results EXCEPT ![Head(up[s]).cmd] = Head(up[s]).status]
  BY <1>0 DEF ServerRecv, RecordResult, TypeOK
<1>2. PICK r \in Result : r = up[s][1] /\ r = Head(up[s]) /\ 1 \in DOMAIN up[s] /\ DOMAIN up[s] \subseteq Nat \ {0}
  BY <1>1
<1>3. PICK c \in Cmd : c = r.cmd /\ r.status \in Ends \cup {"RECEIVED", "REFUSED"}
  BY <1>2 DEF Result, Status, Final, Ends
<1>4. UNCHANGED <<Requested, Authorised>>
  BY <1>1, SameService
<1>5. Service!Record(c, r.status)
  BY <1>1, <1>2, <1>3, <1>4 DEF Service!Record
<1>6. /\ r.status = "RECEIVED" => Ran(c) /\ results[c] = None
      /\ r.status = "REFUSED" => ~Ran(c) /\ results[c] = None
      /\ r.status \in Ends => Known(s, 1, c)
  BY <1>2, <1>3 DEF AnswerInv, FramesTrue
<1>7. Ran(c) <=> Service!HasRun(c)
  BY DEF Ran, Service!HasRun
<1>8. outcome[c] = "sent"
  BY <1>2, <1>3 DEF AnswerInv, UntakenIsSilent, Silent
<1>9. CASE r.status = "RECEIVED"
  BY <1>5, <1>6, <1>7, <1>9 DEF Service!Acknowledge
<1>10. CASE r.status = "REFUSED"
  BY <1>5, <1>6, <1>7, <1>8, <1>10 DEF Service!Refuse
<1>11. CASE r.status \in Ends
  <2>1. \A j \in DOMAIN up[s] : ~(j < 1)
    BY <1>2
  <2>2. results[c] = "RECEIVED"
    BY <1>6, <1>11, <2>1 DEF Known
  <2>. QED BY <1>5, <1>11, <2>2 DEF Service!Complete, Ends
<1>. QED BY <1>3, <1>9, <1>10, <1>11

LEMMA ExpireIsExpire ==
  ASSUME NEW c \in Cmd, Expire(c), IInv PROVE Service!Expire(c)
<1>1. cmd[c] # None /\ expired' = expired \cup {c} /\ UNCHANGED <<cmd, outcome, started, results>>
  BY DEF Expire, dispatcher
<1>2. UNCHANGED <<Requested, Authorised>>
  BY <1>1, SameService
<1>3. Requested[c] # None
  <2>1. cmd[c] \in Command
    BY <1>1 DEF IInv, TypeOK, Command
  <2>2. [dev |-> cmd[c].dev, action |-> cmd[c].action] # None
    BY <2>1, NoneAssumption DEF Command
  <2>. QED BY <1>1, <2>2 DEF Requested
<1>. QED BY <1>1, <1>2, <1>3 DEF Service!Expire

-----------------------------------------------------------------------------
(* Theorems.                                                               *)

\* Dispatcher, sessions and readers are well typed.
THEOREM TypeCorrect == Spec => []TypeOK
<1>1. IInv => TypeOK
  BY DEF IInv
<1>. QED BY <1>1, InitIInv, NextIInv, PTL DEF Spec

\* Uplink.handleCommand ("THE GATE"): whatever is dispatched, with whatever
\* token, and however sessions supersede each other, break and come back, a
\* command runs only on the device it was dispatched to, under its own token,
\* and never after its dispatch was said to have failed.
THEOREM OnlyAuthorised == Spec => []OnlyAuthorisedRuns
<1>1. IInv => OnlyAuthorisedRuns
  BY DEF IInv
<1>. QED BY <1>1, InitIInv, NextIInv, PTL DEF Spec

\* Push and the reader: no command is started twice.
THEOREM StartedAtMostOnce == Spec => []AtMostOnce
<1>1. IInv => AtMostOnce
  BY DEF IInv
<1>. QED BY <1>1, InitIInv, NextIInv, PTL DEF Spec

\* Dispatcher and Uplink.handleCommand (ServesCommands): every step of dispatcher,
\* sessions and readers is a step of CommandService or a stutter.  A command runs
\* at most once, as authorised, and RecordResult, which overwrites what it finds,
\* only ever goes from nothing to RECEIVED to an end, or to REFUSED.
THEOREM ImplementsCommandService == Spec => ServesCommands
<1>1. Init => Service!Init
  <2>. SUFFICES ASSUME Init PROVE Service!Init
    OBVIOUS
  <2>1. cmd = [c \in Cmd |-> None] /\ results = [c \in Cmd |-> None] /\ outcome = [c \in Cmd |-> "none"]
        /\ started = <<>> /\ expired = {}
    BY DEF Init
  <2>2. Requested = [c \in Cmd |-> None] /\ Authorised = {}
    BY <2>1 DEF Requested, Authorised
  <2>. QED BY <2>1, <2>2 DEF Service!Init
<1>2. Init => StampedOnce
  BY DEF Init, StampedOnce, Idle
<1>3. IInv /\ AnswerInv /\ StampedOnce /\ [Next]_vars => [Service!Next]_(Service!serviceVars)
  <2>. SUFFICES ASSUME IInv, AnswerInv, StampedOnce, [Next]_vars PROVE Service!Next \/ ServiceStutter
    BY DEF ServiceStutter, Service!serviceVars
  <2>1. ASSUME NEW p \in Caller, DispatchStep(p) \/ \E d \in Device, a \in Action : Begin(p, d, a)
        PROVE  Service!Next \/ ServiceStutter
    BY <2>1, BeginIsAsk, StampIsAuthorise, OutcomeIsTell DEF DispatchStep, Service!Next
  <2>2. ASSUME NEW s \in Session, Gate(s) PROVE Service!Next \/ ServiceStutter
    BY <2>2, GateIsRun DEF Service!Next
  <2>3. ASSUME NEW s \in Session, ServerRecv(s) PROVE Service!Next \/ ServiceStutter
    BY <2>3, RecvIsRecord DEF Service!Next
  <2>4. ASSUME NEW c \in Cmd, Expire(c) PROVE Service!Next \/ ServiceStutter
    BY <2>4, ExpireIsExpire DEF Service!Next
  <2>5. CASE UNCHANGED <<cmd, expired, outcome, started, results>>
    BY <2>5, SameService DEF ServiceStutter
  <2>6. ASSUME NEW s \in Session,
               \/ Finish(s) \/ Hold(s) \/ LetGo(s) \/ AnnounceReboot(s) \/ RebootHost(s) \/ RebootFails(s)
               \/ ServerDrop(s) \/ AgentDrop(s) \/ Release(s) \/ \E d \in Device : Connect(d, s)
        PROVE  UNCHANGED <<cmd, expired, outcome, started, results>>
    BY <2>6 DEF Finish, Hold, LetGo, AnnounceReboot, RebootHost, RebootFails, AgentStops, ServerDrop, AgentDrop, Release, Connect,
                dispatcher
  <2>7. (\E d \in Device : AgentCrash(d)) \/ UNCHANGED vars => UNCHANGED <<cmd, expired, outcome, started, results>>
    BY DEF AgentCrash, AgentStops, dispatcher, vars
  <2>. QED BY <2>1, <2>2, <2>3, <2>4, <2>5, <2>6, <2>7 DEF Next, ReaderStep
<1>. QED BY <1>1, <1>2, <1>3, InitIInv, NextIInv, AnswerInit, AnswerNext, StampedOnceKept, PTL
         DEF Spec, ServesCommands, Service!Spec
=============================================================================
