-------------------------- MODULE HealEngineProofs --------------------------
(***************************************************************************)
(* Proofs about HealEngine for any number of runs, of overlapping passes,  *)
(* of restarts and of failing store calls.  What carries them is that      *)
(* every update of a row is conditional on the state the pass has read:    *)
(* the pass whose update applied is alone in notifying the escalation, and *)
(* no pass works from a state that is not one of an active run.  While     *)
(* passes do not overlap and nothing fails, what a pass has read stays so. *)
(***************************************************************************)
EXTENDS HealEngine, TLAPS

Row == [status : ActiveStates \cup Terminal \cup {"none"},
        cmd : Cmd \cup {None}, late : BOOLEAN, recent : BOOLEAN]

PassState ==
  [pc : {"idle", "cooldown", "skip", "insert", "refuse", "verify", "online",
         "dispatch", "record", "active", "advance", "notify"},
   run : Run \cup {None}, from : ActiveStates \cup {"none"},
   online : BOOLEAN, cmd : Cmd \cup {None}, late : BOOLEAN]

\* What a pass knows of the run it works on.
Informed(s) ==
  /\ s.pc \in {"skip", "verify", "online", "dispatch", "record", "advance",
               "notify"} => s.run \in Run
  /\ s.pc = "online" => s.from = "verifying"
  /\ s.pc \in {"dispatch", "record"} => s.from \in {"detected", "verifying"}
  /\ s.pc = "record" => s.cmd \in Cmd
  /\ s.pc = "advance" => s.from \in ActiveStates
  /\ s.pc = "advance" /\ s.from = "remediating" => s.cmd \in Cmd

PassesInformed == \A p \in Pass : Informed(pass[p])

\* A run that waits for a result has the command it waits for.
RemediatingHasCommand ==
  \A r \in Run : run[r].status = "remediating" => run[r].cmd \in Cmd

Notifying(p, r) == pass[p].pc = "notify" /\ pass[p].run = r

\* An escalation was notified, or one pass is about to, only of a run that is
\* escalated, and never both.
NotifiedByOne ==
  \A r \in Run :
    /\ alerts[r] # 0 => run[r].status = "escalated" /\ alerts[r] = 1
    /\ \A p \in Pass : Notifying(p, r) =>
         /\ run[r].status = "escalated" /\ alerts[r] = 0
         /\ \A q \in Pass : Notifying(q, r) => q = p

IInv == TypeOK /\ PassesInformed /\ RemediatingHasCommand /\ NotifiedByOne

-----------------------------------------------------------------------------
LEMMA InitIInv == Init => IInv
<1> SUFFICES ASSUME Init PROVE IInv
  OBVIOUS
<1>1. \A r \in Run : run[r] = NoRun /\ alerts[r] = 0
  BY DEF Init, InitWith
<1>2. \A p \in Pass : pass[p] = Done
  BY DEF Init, InitWith
<1>3. TypeOK
  <2>1. /\ NoRun \in [status : ActiveStates \cup Terminal \cup {"none"},
                      cmd : Cmd \cup {None}, late : BOOLEAN, recent : BOOLEAN]
        /\ Done \in PassState
    BY DEF NoRun, Done, PassState
  <2>2. /\ idSeq \in 0 .. MaxCmd /\ restarts \in 0 .. MaxRestart
        /\ errors \in 0 .. MaxError
    BY ConstAssumption DEF Init, InitWith
  <2>0. unsafe \in BOOLEAN /\ overlapped \in BOOLEAN
    BY Zenon DEF Init, InitWith
  <2>3. /\ results \in [Cmd -> {"SUCCEEDED", "FAILED", None}]
        /\ acts \in [Run -> 0 .. 2] /\ alerts \in [Run -> 0 .. 2]
    BY DEF Init, InitWith
  <2>4. run = [r \in Run |-> NoRun] /\ pass = [p \in Pass |-> Done]
    BY DEF Init, InitWith
  <2>. QED BY <2>0, <2>1, <2>2, <2>3, <2>4 DEF TypeOK, PassState
<1>4. PassesInformed
  BY <1>2 DEF PassesInformed, Informed, Done
<1>5. RemediatingHasCommand /\ NotifiedByOne
  BY <1>1, <1>2
  DEF RemediatingHasCommand, NotifiedByOne, Notifying, NoRun, Done
<1>. QED BY <1>3, <1>4, <1>5 DEF IInv

\* The rows after an update are rows, an escalated one is as it was, and one
\* that waits for a result has its command.
RowsKept ==
  /\ run' \in [Run -> Row]
  /\ RemediatingHasCommand'
  /\ \A r \in Run : run[r].status = "escalated" => run'[r].status = "escalated"

\* A conditional update from an active state.
LEMMA TransitionKeeps ==
  ASSUME IInv, NEW r \in Run, NEW from \in ActiveStates,
         NEW to \in ActiveStates \cup Terminal, NEW c \in Cmd \cup {None},
         Transition(r, from, to, c), to = "remediating" => c \in Cmd
  PROVE  /\ RowsKept
         /\ to = "escalated" /\ run[r].status = from
              => run'[r].status = "escalated"
<1> DEFINE new == [status |-> to, cmd |-> c,
                   late |-> run[r].late /\ to = "verifying",
                   recent |-> run[r].recent \/ to = "remediating"]
<1>1. run \in [Run -> Row]
  BY DEF IInv, TypeOK, Row
<1>2. CASE run[r].status # from
  BY <1>1, <1>2 DEF Transition, RowsKept, IInv, RemediatingHasCommand
<1>3. CASE run[r].status = from
  <2>1. run' = [run EXCEPT ![r] = new]
    BY <1>3 DEF Transition
  <2>2. new \in Row
    BY <1>1 DEF Row
  <2>. HIDE DEF new
  <2>3. \A x \in Run : run'[x] = IF x = r THEN new ELSE run[x]
    BY <1>1, <2>1
  <2>4. run' \in [Run -> Row]
    BY <1>1, <2>1, <2>2
  <2>5. new.status = to /\ new.cmd = c /\ from # "escalated"
    BY DEF new, ActiveStates
  <2>. QED
    BY <1>3, <2>3, <2>4, <2>5 DEF RowsKept, IInv, RemediatingHasCommand
<1>. QED BY <1>2, <1>3

LEMMA SameRowsKept == ASSUME IInv, UNCHANGED run PROVE RowsKept
  BY DEF IInv, TypeOK, RowsKept, RemediatingHasCommand, Row

\* A step that moves one pass and notifies nobody.
LEMMA MoveIInv ==
  ASSUME IInv, NEW p \in Pass, NEW s \in PassState, Goto(p, s), Informed(s),
         RowsKept,
         s.pc = "notify" => /\ run[s.run].status # "escalated"
                            /\ run'[s.run].status = "escalated",
         idSeq' \in 0 .. MaxCmd,
         results' \in [Cmd -> {"SUCCEEDED", "FAILED", None}],
         restarts' \in 0 .. MaxRestart, errors' \in 0 .. MaxError,
         acts' \in [Run -> 0 .. 2], unsafe' \in BOOLEAN, overlapped' \in BOOLEAN,
         alerts' = alerts
  PROVE  IInv'
<1>1. pass \in [Pass -> PassState]
  BY DEF IInv, TypeOK, PassState
<1>2. \A q \in Pass : pass'[q] = IF q = p THEN s ELSE pass[q]
  BY <1>1 DEF Goto
<1>3. TypeOK'
  <2>1. pass' \in [Pass -> PassState]
    BY <1>1 DEF Goto
  <2>. QED BY <2>1 DEF IInv, TypeOK, RowsKept, Row, PassState
<1>4. PassesInformed'
  <2>1. \A q \in Pass : Informed(pass'[q])
    BY <1>2 DEF IInv, PassesInformed
  <2>. QED BY <2>1 DEF PassesInformed, Informed
<1>5. NotifiedByOne'
  <2> SUFFICES ASSUME NEW r \in Run
      PROVE /\ alerts[r] # 0 => run'[r].status = "escalated" /\ alerts[r] = 1
            /\ \A q \in Pass : Notifying(q, r)' =>
                 /\ run'[r].status = "escalated" /\ alerts[r] = 0
                 /\ \A x \in Pass : Notifying(x, r)' => x = q
    BY DEF NotifiedByOne
  <2>1. alerts[r] # 0 => run'[r].status = "escalated" /\ alerts[r] = 1
    BY DEF IInv, NotifiedByOne, RowsKept
  <2>2. \A q \in Pass \ {p} : Notifying(q, r)' = Notifying(q, r)
    BY <1>2 DEF Notifying
  <2>3. Notifying(p, r)' => /\ run[r].status # "escalated"
                            /\ run'[r].status = "escalated"
    BY <1>2 DEF Notifying
  <2>4. Notifying(p, r)' => \A q \in Pass : ~Notifying(q, r)
    BY <2>3 DEF IInv, NotifiedByOne
  <2>5. Notifying(p, r)' => alerts[r] = 0
    BY <2>3 DEF IInv, NotifiedByOne
  <2>. QED
    BY <2>1, <2>2, <2>3, <2>4, <2>5 DEF IInv, NotifiedByOne, RowsKept
<1>. QED BY <1>3, <1>4, <1>5 DEF IInv, RowsKept

-----------------------------------------------------------------------------
LEMMA DoneSound == /\ Done \in PassState /\ Informed(Done)
                   /\ [Done EXCEPT !.pc = "active"] \in PassState
                   /\ Informed([Done EXCEPT !.pc = "active"])
  BY DEF Done, PassState, Informed

\* Any other step: none moves a pass into notifying, none notifies.
LEMMA QuietIInv ==
  ASSUME IInv, RowsKept, pass' = pass, alerts' = alerts,
         idSeq' = idSeq,
         results' \in [Cmd -> {"SUCCEEDED", "FAILED", None}],
         restarts' = restarts, errors' = errors, acts' = acts, unsafe' = unsafe,
         overlapped' = overlapped
  PROVE  IInv'
  BY DEF IInv, TypeOK, RowsKept, PassesInformed, NotifiedByOne, Notifying, Row

\* A step of a pass that touches nothing but its row.
LEMMA PassIInv ==
  ASSUME IInv, NEW p \in Pass, NEW s \in PassState, Goto(p, s), Informed(s),
         RowsKept, s.pc # "notify", errors' \in 0 .. MaxError,
         UNCHANGED <<process, history>>
  PROVE  IInv'
  BY MoveIInv DEF IInv, TypeOK, process, history

\* Stage 1: what a pass does before it dispatches.
LEMMA DetectionIInv ==
  ASSUME IInv, NEW p \in Pass,
         \/ Detect(p) \/ CheckCooldown(p) \/ InsertCollides(p)
         \/ SkipCooldown(p) \/ (\E r \in Run : InsertRun(p, r))
         \/ Verify(p) \/ CheckOnline(p)
  PROVE  IInv'
<1>. DEFINE me == pass[p]
<1>0. me \in PassState /\ Informed(me)
  BY DEF IInv, TypeOK, PassState, PassesInformed
<1>a. errors \in 0 .. MaxError
  BY DEF IInv, TypeOK
<1>b. ASSUME StageTwo(p), RowsKept, UNCHANGED <<process, errors, history>>
      PROVE  IInv'
  BY <1>a, <1>b, DoneSound, PassIInv DEF StageTwo, Done
<1>1. CASE Detect(p)
  <2>1. ASSUME NEW on \in BOOLEAN
        PROVE  /\ [Done EXCEPT !.pc = "cooldown", !.online = on] \in PassState
               /\ Informed([Done EXCEPT !.pc = "cooldown", !.online = on])
               /\ [Done EXCEPT !.pc = "cooldown", !.online = on].pc # "notify"
    BY DEF Done, PassState, Informed
  <2>2. overlapped' \in BOOLEAN
    BY <1>1 DEF Detect, IInv, TypeOK
  <2>3. UNCHANGED <<run, process, errors, acts, unsafe, alerts>>
    BY <1>1 DEF Detect
  <2>4. ASSUME NEW s \in PassState, Informed(s), s.pc # "notify", Goto(p, s)
        PROVE  IInv'
    BY <2>2, <2>3, <2>4, SameRowsKept, MoveIInv DEF IInv, TypeOK, process
  <2>. QED BY <1>1, <2>1, <2>4, DoneSound DEF Detect, StageTwo, Done
<1>2. CASE CheckCooldown(p)
  <2>1. ASSUME NEW to \in {"insert", "refuse"}
        PROVE  /\ [me EXCEPT !.pc = to] \in PassState
               /\ Informed([me EXCEPT !.pc = to])
               /\ [me EXCEPT !.pc = to].pc # "notify"
    BY <1>0 DEF PassState, Informed
  <2>. QED BY <1>2, <1>a, <2>1, SameRowsKept, PassIInv DEF CheckCooldown
<1>3. CASE InsertCollides(p)
  BY <1>3, <1>b, SameRowsKept DEF InsertCollides
<1>4. ASSUME NEW r \in Run, InsertRun(p, r)
      PROVE  IInv'
  <2>1. ASSUME NEW to \in {"verify", "skip"}
        PROVE  /\ [me EXCEPT !.pc = to, !.run = r] \in PassState
               /\ Informed([me EXCEPT !.pc = to, !.run = r])
               /\ [me EXCEPT !.pc = to, !.run = r].pc # "notify"
    BY <1>0 DEF PassState, Informed
  <2>2. RowsKept
    <3>1. [NoRun EXCEPT !.status = "detected"] \in Row
      BY DEF NoRun, Row, ActiveStates
    <3>. QED
      BY <1>4, <3>1
      DEF InsertRun, Unused, RowsKept, IInv, TypeOK, Row, NoRun,
          RemediatingHasCommand
  <2>. QED BY <1>4, <1>a, <2>1, <2>2, PassIInv DEF InsertRun
<1>5. CASE SkipCooldown(p)
  BY <1>0, <1>5, <1>b, TransitionKeeps
  DEF SkipCooldown, Informed, ActiveStates, Terminal
<1>6. CASE Verify(p)
  <2>1. /\ [me EXCEPT !.pc = "online", !.from = "verifying"] \in PassState
        /\ Informed([me EXCEPT !.pc = "online", !.from = "verifying"])
        /\ [me EXCEPT !.pc = "online", !.from = "verifying"].pc # "notify"
    BY <1>0, <1>6 DEF Verify, PassState, Informed, ActiveStates
  <2>2. RowsKept
    BY <1>0, <1>6, TransitionKeeps DEF Verify, Informed, ActiveStates
  <2>. QED BY <1>6, <1>a, <2>1, <2>2, PassIInv DEF Verify
<1>7. CASE CheckOnline(p)
  <2>1. CASE me.online
    <3>1. /\ [me EXCEPT !.pc = "dispatch"] \in PassState
          /\ Informed([me EXCEPT !.pc = "dispatch"])
          /\ [me EXCEPT !.pc = "dispatch"].pc # "notify"
      BY <1>0, <1>7 DEF CheckOnline, PassState, Informed
    <3>. QED
      BY <1>7, <1>a, <2>1, <3>1, SameRowsKept, PassIInv DEF CheckOnline
  <2>2. CASE ~me.online
    BY <1>0, <1>7, <1>b, <2>2, TransitionKeeps
    DEF CheckOnline, Informed, ActiveStates, Terminal
  <2>. QED BY <2>1, <2>2
<1>. QED BY <1>1, <1>2, <1>3, <1>4, <1>5, <1>6, <1>7

\* The dispatch, fresh or resumed, and its record.
LEMMA DispatchIInv ==
  ASSUME IInv, NEW p \in Pass, Dispatch(p) \/ DispatchFails(p) \/ Record(p)
  PROVE  IInv'
<1>. DEFINE me == pass[p]
<1>0. me \in PassState /\ Informed(me)
  BY DEF IInv, TypeOK, PassState, PassesInformed
<1>a. errors \in 0 .. MaxError
  BY DEF IInv, TypeOK
<1>b. ASSUME Leave(p), RowsKept, UNCHANGED <<process, errors, history>>
      PROVE  IInv'
  BY <1>a, <1>b, DoneSound, PassIInv DEF Leave, Done
<1>1. CASE Dispatch(p)
  <2>. DEFINE s == [me EXCEPT !.pc = "record", !.cmd = idSeq + 1]
  <2>1. idSeq + 1 \in Cmd /\ idSeq' \in 0 .. MaxCmd
    BY <1>1, ConstAssumption DEF Dispatch, IInv, TypeOK, Cmd
  <2>2. s \in PassState /\ Informed(s) /\ s.pc # "notify" /\ Goto(p, s)
    BY <1>0, <1>1, <2>1 DEF Dispatch, PassState, Informed
  <2>3. acts' \in [Run -> 0 .. 2]
    BY <1>0, <1>1 DEF Dispatch, IInv, TypeOK, Capped, Informed
  <2>4. unsafe' \in BOOLEAN
    BY <1>1 DEF Dispatch, IInv, TypeOK
  <2>5. UNCHANGED <<run, results, restarts, errors, alerts, overlapped>>
    BY <1>1 DEF Dispatch
  <2>. HIDE DEF s
  <2>. QED
    BY <2>1, <2>2, <2>3, <2>4, <2>5, SameRowsKept, MoveIInv DEF IInv, TypeOK
<1>2. CASE DispatchFails(p)
  BY <1>0, <1>2, <1>b, TransitionKeeps
  DEF DispatchFails, Informed, ActiveStates, Terminal
<1>3. CASE Record(p)
  BY <1>0, <1>3, <1>b, TransitionKeeps
  DEF Record, Informed, ActiveStates, Terminal
<1>. QED BY <1>1, <1>2, <1>3

\* Stage 2: a run is advanced from the state the pass has read.  The pass
\* whose update to escalated applied found the run active.
LEMMA AdvanceIInv ==
  ASSUME IInv, NEW p \in Pass,
         \/ LoadActive(p) \/ Stuck(p) \/ ResumeDispatch(p)
         \/ AdvanceRemediating(p) \/ AdvanceConfirming(p)
  PROVE  IInv'
<1>. DEFINE me == pass[p]
<1>0. me \in PassState /\ Informed(me)
  BY DEF IInv, TypeOK, PassState, PassesInformed
<1>a. errors \in 0 .. MaxError
  BY DEF IInv, TypeOK
<1>b. ASSUME Goto(p, Done), RowsKept, UNCHANGED <<process, errors, history>>
      PROVE  IInv'
  BY <1>a, <1>b, DoneSound, PassIInv DEF Done
<1>c. ASSUME Escalate(p), me.pc = "advance",
             UNCHANGED <<process, errors, history>>
      PROVE  IInv'
  <2>1. /\ RowsKept
        /\ run[me.run].status = me.from => run'[me.run].status = "escalated"
    BY <1>0, <1>c, TransitionKeeps
    DEF Escalate, Informed, PassState, Terminal, ActiveStates
  <2>2. CASE run[me.run].status = me.from
    <3>. DEFINE s == [me EXCEPT !.pc = "notify"]
    <3>1. s \in PassState /\ Informed(s) /\ s.run = me.run /\ Goto(p, s)
      BY <1>0, <1>c, <2>2 DEF Escalate, PassState, Informed
    <3>2. run[me.run].status # "escalated"
      BY <1>0, <1>c, <2>2 DEF Informed, ActiveStates
    <3>. HIDE DEF s
    <3>. QED
      BY <1>c, <2>1, <2>2, <3>1, <3>2, MoveIInv
      DEF IInv, TypeOK, process, history
  <2>3. CASE run[me.run].status # me.from
    BY <1>b, <1>c, <2>1, <2>3 DEF Escalate
  <2>. QED BY <2>2, <2>3
<1>1. CASE LoadActive(p)
  <2>1. ASSUME NEW r \in Active,
               Goto(p, [Done EXCEPT !.pc = "advance", !.run = r,
                                    !.from = run[r].status, !.cmd = run[r].cmd,
                                    !.late = run[r].late])
        PROVE  IInv'
    <3>. DEFINE s == [Done EXCEPT !.pc = "advance", !.run = r,
                                  !.from = run[r].status, !.cmd = run[r].cmd,
                                  !.late = run[r].late]
    <3>1. s \in PassState /\ Informed(s) /\ s.pc # "notify"
      BY DEF Active, IInv, TypeOK, RemediatingHasCommand, PassState, Informed,
             Done
    <3>. HIDE DEF s
    <3>. QED
      BY <1>1, <1>a, <2>1, <3>1, SameRowsKept, PassIInv DEF LoadActive, s
  <2>. QED BY <1>1, <1>b, <2>1, SameRowsKept DEF LoadActive
<1>2. CASE Stuck(p)
  BY <1>0, <1>2, <1>b, TransitionKeeps
  DEF Stuck, Advancing, Informed, ActiveStates, Terminal
<1>3. CASE ResumeDispatch(p)
  <2>1. /\ [me EXCEPT !.pc = "dispatch", !.cmd = None] \in PassState
        /\ Informed([me EXCEPT !.pc = "dispatch", !.cmd = None])
        /\ [me EXCEPT !.pc = "dispatch", !.cmd = None].pc # "notify"
    BY <1>0, <1>3 DEF ResumeDispatch, Advancing, PassState, Informed
  <2>. QED BY <1>3, <1>a, <2>1, SameRowsKept, PassIInv DEF ResumeDispatch
<1>4. CASE AdvanceRemediating(p)
  <2>1. me.pc = "advance" /\ me.from = "remediating" /\ me.cmd \in Cmd
    BY <1>0, <1>4 DEF AdvanceRemediating, Advancing, Informed
  <2>2. results[me.cmd] \in {"SUCCEEDED", "FAILED", None}
    BY <2>1 DEF IInv, TypeOK
  <2>3. ASSUME Transition(me.run, "remediating", "confirming", me.cmd)
        PROVE  RowsKept
    BY <1>0, <2>1, <2>3, TransitionKeeps DEF Informed, ActiveStates
  <2>4. UNCHANGED <<process, errors, history>>
    BY <1>4 DEF AdvanceRemediating
  <2>5. \/ Transition(me.run, "remediating", "confirming", me.cmd)
              /\ Goto(p, Done)
        \/ Escalate(p)
        \/ Goto(p, Done) /\ UNCHANGED run
    BY <1>4, <2>2 DEF AdvanceRemediating
  <2>. QED BY <1>b, <1>c, <2>1, <2>3, <2>4, <2>5, SameRowsKept
<1>5. CASE AdvanceConfirming(p)
  <2>1. me.pc = "advance" /\ me.from = "confirming"
    BY <1>5 DEF AdvanceConfirming, Advancing
  <2>2. ASSUME Transition(me.run, "confirming", "resolved", me.cmd)
        PROVE  RowsKept
    BY <1>0, <2>1, <2>2, TransitionKeeps
    DEF Informed, PassState, ActiveStates, Terminal
  <2>3. UNCHANGED <<process, errors, history>>
    BY <1>5 DEF AdvanceConfirming
  <2>4. \/ Transition(me.run, "confirming", "resolved", me.cmd)
              /\ Goto(p, Done)
        \/ Escalate(p)
        \/ Goto(p, Done) /\ UNCHANGED run
    BY <1>5 DEF AdvanceConfirming, LatestSample
  <2>. QED BY <1>b, <1>c, <2>1, <2>2, <2>3, <2>4, SameRowsKept
<1>. QED BY <1>1, <1>2, <1>3, <1>4, <1>5

\* The one pass that notifies an escalation no longer does afterwards.
LEMMA NotifyIInv ==
  ASSUME IInv, NEW p \in Pass, Notify(p)
  PROVE  IInv'
<1>. DEFINE r == pass[p].run
<1>1. r \in Run /\ Notifying(p, r)
  BY DEF Notify, IInv, PassesInformed, Informed, Notifying
<1>2. /\ alerts[r] = 0 /\ run[r].status = "escalated"
      /\ \A q \in Pass : Notifying(q, r) => q = p
  BY <1>1 DEF IInv, NotifiedByOne
<1>3. \A x \in Run : alerts'[x] = IF x = r THEN 1 ELSE alerts[x]
  BY <1>1, <1>2 DEF Notify, Capped, IInv, TypeOK
<1>4. \A q \in Pass : pass'[q] = IF q = p THEN Done ELSE pass[q]
  BY DEF Notify, Goto, IInv, TypeOK
<1>5. TypeOK'
  <2>1. pass' \in [Pass -> PassState]
    BY DoneSound DEF Notify, Goto, IInv, TypeOK, PassState
  <2>2. alerts' \in [Run -> 0 .. 2]
    BY <1>1, <1>2 DEF Notify, Capped, IInv, TypeOK
  <2>. QED
    BY <2>1, <2>2 DEF Notify, IInv, TypeOK, PassState, process
<1>6. PassesInformed' /\ RemediatingHasCommand'
  <2>1. \A q \in Pass : Informed(pass'[q])
    BY <1>4, DoneSound DEF IInv, PassesInformed
  <2>. QED
    BY <2>1
    DEF PassesInformed, Informed, Notify, IInv, RemediatingHasCommand
<1>7. NotifiedByOne'
  <2>1. \A q \in Pass : \A x \in Run :
          Notifying(q, x)' => Notifying(q, x) /\ q # p /\ x # r
    BY <1>2, <1>4 DEF Notifying, Done
  <2>2. run' = run
    BY DEF Notify
  <2>. QED
    BY <1>2, <1>3, <2>1, <2>2 DEF IInv, NotifiedByOne
<1>. QED BY <1>5, <1>6, <1>7 DEF IInv

\* A failing store call only ends what the pass was doing.
LEMMA ErrorIInv ==
  ASSUME IInv, NEW p \in Pass, PassError(p)
  PROVE  IInv'
<1>1. errors' \in 0 .. MaxError
  BY ConstAssumption DEF PassError, IInv, TypeOK
<1>2. \/ Goto(p, Done)
      \/ Goto(p, [Done EXCEPT !.pc = "active"])
  BY DEF PassError, Leave, StageTwo
<1>3. UNCHANGED <<run, process, history>>
  BY DEF PassError
<1>4. RowsKept
  BY <1>3, SameRowsKept
<1>5. CASE Goto(p, Done)
  BY <1>1, <1>3, <1>4, <1>5, DoneSound, PassIInv DEF Done
<1>6. CASE Goto(p, [Done EXCEPT !.pc = "active"])
  BY <1>1, <1>3, <1>4, <1>6, DoneSound, PassIInv DEF Done
<1>. QED BY <1>2, <1>5, <1>6

\* The agent's report, the passage of time and a restart.
LEMMA EnvironmentIInv ==
  ASSUME IInv,
         \/ \E c \in Cmd : AgentReports(c)
         \/ \E r \in Run : DeadlinePasses(r) \/ CooldownEnds(r)
         \/ Restart \/ UNCHANGED vars
  PROVE  IInv'
<1>1. ASSUME NEW c \in Cmd, AgentReports(c)
      PROVE  IInv'
  BY <1>1, SameRowsKept, QuietIInv DEF AgentReports, IInv, TypeOK, history
<1>2. ASSUME NEW r \in Run, DeadlinePasses(r) \/ CooldownEnds(r)
      PROVE  IInv'
  <2>. DEFINE new == IF DeadlinePasses(r) THEN [run[r] EXCEPT !.late = TRUE]
                     ELSE [run[r] EXCEPT !.recent = FALSE]
  <2>0. run \in [Run -> Row]
    BY DEF IInv, TypeOK, Row
  <2>2. /\ new \in Row
        /\ new.status = run[r].status /\ new.cmd = run[r].cmd
    BY <2>0 DEF Row
  <2>3. run' = [run EXCEPT ![r] = new]
    BY <1>2 DEF DeadlinePasses, CooldownEnds
  <2>. HIDE DEF new
  <2>1. RowsKept
    BY <2>0, <2>2, <2>3 DEF RowsKept, IInv, RemediatingHasCommand
  <2>. QED
    BY <1>2, <2>1, QuietIInv
    DEF DeadlinePasses, CooldownEnds, IInv, TypeOK, process, history
<1>3. CASE Restart
  <2>1. \A q \in Pass : pass'[q] = Done
    BY <1>3 DEF Restart
  <2>2. TypeOK'
    <3>1. pass' \in [Pass -> PassState]
      BY <1>3, DoneSound DEF Restart
    <3>2. /\ idSeq' \in 0 .. MaxCmd /\ restarts' \in 0 .. MaxRestart
          /\ results' \in [Cmd -> {"SUCCEEDED", "FAILED", None}]
      BY <1>3, ConstAssumption DEF Restart, IInv, TypeOK
    <3>. QED
      BY <1>3, <3>1, <3>2 DEF Restart, IInv, TypeOK, PassState, history
  <2>3. PassesInformed'
    BY <2>1, DoneSound DEF PassesInformed, Informed, Done
  <2>4. RemediatingHasCommand' /\ NotifiedByOne'
    BY <1>3, <2>1
    DEF Restart, IInv, RemediatingHasCommand, NotifiedByOne, Notifying, Done,
        history
  <2>. QED BY <2>2, <2>3, <2>4 DEF IInv
<1>4. CASE UNCHANGED vars
  BY <1>4, SameRowsKept, QuietIInv DEF vars, process, history, IInv, TypeOK
<1>. QED BY <1>1, <1>2, <1>3, <1>4

LEMMA NextIInv == IInv /\ [Next]_vars => IInv'
<1> SUFFICES ASSUME IInv, [Next]_vars
             PROVE  IInv'
  OBVIOUS
<1>1. ASSUME NEW p \in Pass, PassStep(p) \/ PassError(p)
      PROVE  IInv'
  BY <1>1, DetectionIInv, DispatchIInv, AdvanceIInv, NotifyIInv, ErrorIInv
  DEF PassStep
<1>2. CASE UNCHANGED vars
  BY <1>2, EnvironmentIInv
<1>3. CASE Next
  <2>1. CASE \E p \in Pass : PassStep(p) \/ PassError(p)
    BY <1>1, <2>1
  <2>2. CASE \E c \in Cmd : AgentReports(c)
    BY <2>2, EnvironmentIInv
  <2>3. CASE \E r \in Run : DeadlinePasses(r) \/ CooldownEnds(r)
    BY <2>3, EnvironmentIInv
  <2>4. CASE Restart
    BY <2>4, EnvironmentIInv
  <2>. QED BY <1>3, <2>1, <2>2, <2>3, <2>4 DEF Next
<1>. QED BY <1>2, <1>3

-----------------------------------------------------------------------------
\* The engine's state is well typed, whatever passes overlap.
THEOREM TypeCorrect == Spec => []TypeOK
<1>1. IInv => TypeOK
  BY DEF IInv
<1>. QED BY <1>1, InitIInv, NextIInv, PTL DEF Spec

\* advance and the notifier: "replays never double-notify".  However many
\* passes overlap, fail and are cut off by restarts, the escalation of a run
\* is notified at most once.
THEOREM EscalatesOnce == Spec => []EscalatedOnce
<1>1. IInv => EscalatedOnce
  <2> SUFFICES ASSUME IInv, NEW r \in Run PROVE alerts[r] < 2
    BY DEF EscalatedOnce
  <2>. QED BY DEF IInv, NotifiedByOne
<1>. QED BY <1>1, InitIInv, NextIInv, PTL DEF Spec

\* A conditional update moves at most the one run, and along its stages.
LEMMA TransitionInStages ==
  ASSUME TypeOK, NEW r \in Run, NEW from \in ActiveStates,
         NEW to \in Stages[from], NEW c, Transition(r, from, to, c)
  PROVE  StageStep
<1>1. run \in [Run -> Row]
  BY DEF TypeOK, Row
<1>2. CASE run[r].status # from
  BY <1>2 DEF Transition, StageStep
<1>3. CASE run[r].status = from
  <2>. DEFINE new == [status |-> to, cmd |-> c,
                      late |-> run[r].late /\ to = "verifying",
                      recent |-> run[r].recent \/ to = "remediating"]
  <2>1. run' = [run EXCEPT ![r] = new]
    BY <1>3 DEF Transition
  <2>2. new.status = to
    OBVIOUS
  <2>. HIDE DEF new
  <2>. QED BY <1>1, <1>3, <2>1, <2>2 DEF StageStep
<1>. QED BY <1>2, <1>3

\* Every step of a pass is such an update, or starts a run, or leaves the rows.
LEMMA StepInStages ==
  ASSUME IInv, [Next]_vars
  PROVE  StageStep
<1>0. run \in [Run -> Row] /\ TypeOK
  BY DEF IInv, TypeOK, Row
<1>1. CASE UNCHANGED run
  BY <1>1 DEF StageStep
<1>2. ASSUME NEW p \in Pass, PassStep(p) \/ PassError(p)
      PROVE  StageStep
  <2>. DEFINE me == pass[p]
  <2>0. Informed(me)
    BY DEF IInv, PassesInformed
  <2>1. ASSUME NEW r \in Run, InsertRun(p, r)
        PROVE  StageStep
    <3>1. [NoRun EXCEPT !.status = "detected"].status = "detected"
      BY DEF NoRun
    <3>. QED BY <1>0, <2>1, <3>1 DEF InsertRun, Unused, StageStep, Stages
  <2>2. ASSUME Escalate(p), me.pc = "advance",
               me.from \in {"remediating", "confirming"}
        PROVE  StageStep
    BY <1>0, <2>0, <2>2, TransitionInStages
    DEF Escalate, Informed, ActiveStates, Stages
  <2>3. CASE SkipCooldown(p) \/ Verify(p) \/ CheckOnline(p)
    BY <1>0, <1>1, <2>0, <2>3, TransitionInStages
    DEF SkipCooldown, Verify, CheckOnline, Informed, ActiveStates, Stages
  <2>4. CASE DispatchFails(p) \/ Record(p)
    BY <1>0, <2>0, <2>4, TransitionInStages
    DEF DispatchFails, Record, Informed, ActiveStates, Stages
  <2>5. CASE Stuck(p)
    BY <1>0, <2>0, <2>5, TransitionInStages
    DEF Stuck, Advancing, Informed, ActiveStates, Stages
  <2>6. CASE AdvanceRemediating(p)
    <3>1. me.pc = "advance" /\ me.from = "remediating" /\ me.cmd \in Cmd
      BY <2>0, <2>6 DEF AdvanceRemediating, Advancing, Informed
    <3>2. results[me.cmd] \in {"SUCCEEDED", "FAILED", None}
      BY <1>0, <3>1 DEF TypeOK
    <3>3. \/ Transition(me.run, "remediating", "confirming", me.cmd)
          \/ Escalate(p)
          \/ UNCHANGED run
      BY <2>6, <3>2 DEF AdvanceRemediating
    <3>. QED
      BY <1>0, <1>1, <2>0, <2>2, <3>1, <3>3, TransitionInStages
      DEF Informed, ActiveStates, Stages
  <2>7. CASE AdvanceConfirming(p)
    <3>1. me.pc = "advance" /\ me.from = "confirming"
      BY <2>7 DEF AdvanceConfirming, Advancing
    <3>2. \/ Transition(me.run, "confirming", "resolved", me.cmd)
          \/ Escalate(p)
          \/ UNCHANGED run
      BY <2>7 DEF AdvanceConfirming, LatestSample
    <3>. QED
      BY <1>0, <1>1, <2>0, <2>2, <3>1, <3>2, TransitionInStages
      DEF Informed, ActiveStates, Stages
  <2>8. CASE \/ Detect(p) \/ CheckCooldown(p) \/ InsertCollides(p)
             \/ Dispatch(p) \/ LoadActive(p) \/ ResumeDispatch(p)
             \/ Notify(p) \/ PassError(p)
    BY <1>1, <2>8
    DEF Detect, CheckCooldown, InsertCollides, Dispatch, LoadActive,
        ResumeDispatch, Notify, PassError
  <2>. QED
    BY <1>2, <2>1, <2>3, <2>4, <2>5, <2>6, <2>7, <2>8 DEF PassStep
<1>3. ASSUME NEW r \in Run, DeadlinePasses(r) \/ CooldownEnds(r)
      PROVE  StageStep
  <2>1. \A x \in Run : run'[x].status = run[x].status
    BY <1>0, <1>3 DEF DeadlinePasses, CooldownEnds, Row
  <2>. QED BY <2>1 DEF StageStep
<1>4. CASE Restart \/ UNCHANGED vars \/ \E c \in Cmd : AgentReports(c)
  BY <1>1, <1>4 DEF Restart, vars, AgentReports
<1>5. CASE Next
  <2>1. CASE \E p \in Pass : PassStep(p) \/ PassError(p)
    BY <1>2, <2>1
  <2>2. CASE \E r \in Run : DeadlinePasses(r) \/ CooldownEnds(r)
    BY <1>3, <2>2
  <2>3. CASE Restart \/ \E c \in Cmd : AgentReports(c)
    BY <1>4, <2>3
  <2>. QED BY <1>5, <2>1, <2>2, <2>3 DEF Next
<1>. QED BY <1>4, <1>5

\* Transition's condition on the state it leaves: overlapping passes, errors
\* and restarts drive a run only along the stages of the playbook.
THEOREM StagesFollowPlaybook == Spec => StagesInOrder
<1>1. IInv /\ [Next]_vars => [StageStep]_vars
  BY StepInStages
<1>. QED BY <1>1, InitIInv, NextIInv, PTL DEF Spec, StagesInOrder

-----------------------------------------------------------------------------
(* Serial passes.  While passes do not overlap, no store call fails and    *)
(* the server keeps running, a row changes its status only by the one pass *)
(* that is in progress: what that pass has read is what the row still      *)
(* says, and the cooldown it has found over is over when it dispatches.    *)

Calm == ~overlapped /\ restarts = 0 /\ errors = 0

OnePass ==
  ~overlapped => \A p, q \in Pass : pass[p].pc # "idle" /\ pass[q].pc # "idle" => p = q

\* The unique index.
OneActive == \A r, x \in Active : r = x

\* Runs that have not been acted for.
Pending == {"none", "detected", "verifying"}

\* What holds while the pass in progress, if there is one, is in state s.
Serially(s) ==
  /\ s.pc \in {"dispatch", "record", "advance"} => run[s.run].status = s.from
  /\ s.pc \in {"verify", "skip"} => run[s.run].status = "detected"
  /\ s.pc = "online" => run[s.run].status = "verifying"
  /\ \A r \in Run : run[r].status \in Pending =>
       acts[r] = IF s.pc = "record" /\ s.run = r THEN 1 ELSE 0
  /\ s.pc = "insert" => ~CooldownActive
  /\ \A r \in Run : run[r].status \in {"detected", "verifying"} /\ ~(s.pc = "skip" /\ s.run = r) =>
       ~CooldownActive

\* No pass but p is in progress.
Lone(p) == \A q \in Pass \ {p} : pass[q].pc = "idle"

SerialSafe ==
  Calm => /\ \A r \in Run : acts[r] < 2
          /\ ~unsafe
          /\ \A p \in Pass : Lone(p) => Serially(pass[p])

SerialInv == OnePass /\ OneActive /\ SerialSafe

\* The effect of an update on a row that is in the state it leaves.
LEMMA UpdateApplies ==
  ASSUME IInv, NEW r \in Run, NEW from \in ActiveStates, NEW to, NEW c,
         Transition(r, from, to, c), run[r].status = from
  PROVE  \A x \in Run : /\ run'[x].status = IF x = r THEN to ELSE run[x].status
                        /\ run'[x].recent <=> run[x].recent \/ (x = r /\ to = "remediating")
<1> DEFINE new == [status |-> to, cmd |-> c, late |-> run[r].late /\ to = "verifying",
                   recent |-> run[r].recent \/ to = "remediating"]
<1>1. run' = [run EXCEPT ![r] = new]
  BY DEF Transition
<1>2. new.status = to /\ (new.recent <=> run[r].recent \/ to = "remediating")
  OBVIOUS
<1>. HIDE DEF new
<1>3. run \in [Run -> Row]
  BY DEF IInv, TypeOK, Row
<1>4. \A x \in Run : run'[x] = IF x = r THEN new ELSE run[x]
  BY <1>1, <1>3
<1>. QED BY <1>2, <1>4

\* An update leaves at most one run active, and starts none.
LEMMA UpdateActive ==
  ASSUME IInv, OneActive, NEW r \in Run, NEW from \in ActiveStates, NEW to, NEW c,
         Transition(r, from, to, c)
  PROVE  OneActive'
<1>1. CASE run[r].status = from
  BY <1>1, UpdateApplies DEF OneActive, Active
<1>2. CASE run[r].status # from
  BY <1>2 DEF Transition, OneActive, Active
<1>. QED BY <1>1, <1>2

\* A step of p that keeps what is known in its new state.
LEMMA MoveSerial ==
  ASSUME IInv, IInv', SerialInv, OneActive', NEW p \in Pass, NEW s, Goto(p, s),
         pass[p].pc # "idle", UNCHANGED <<restarts, overlapped>>, errors' = 0 => errors = 0,
         Calm /\ Serially(pass[p]) /\ errors' = 0 =>
           Serially(s)' /\ ~unsafe' /\ \A r \in Run : acts'[r] < 2
  PROVE  SerialInv'
<1>1. \A q \in Pass : pass'[q] = IF q = p THEN s ELSE pass[q]
  BY DEF Goto, IInv, TypeOK
<1>2. OnePass'
  BY <1>1 DEF SerialInv, OnePass
<1>3. SerialSafe'
  <2>. SUFFICES ASSUME Calm'
       PROVE  /\ \A r \in Run : acts'[r] < 2
              /\ ~unsafe'
              /\ \A q \in Pass : Lone(q)' => Serially(pass[q])'
    BY DEF SerialSafe
  <2>1. Calm /\ errors' = 0
    BY DEF Calm
  <2>2. Lone(p)
    BY <2>1 DEF SerialInv, OnePass, Calm, Lone
  <2>3. Serially(pass[p])
    BY <2>1, <2>2 DEF SerialInv, SerialSafe
  <2>4. Serially(s)' /\ ~unsafe' /\ \A r \in Run : acts'[r] < 2
    BY <2>1, <2>3
  <2>5. ASSUME NEW q \in Pass, Lone(q)'
        PROVE  Serially(pass[q])'
    <3>1. CASE q = p
      BY <1>1, <2>4, <3>1 DEF Serially
    <3>2. CASE q # p
      <4>1. s.pc = "idle" /\ pass'[q].pc = "idle"
        BY <1>1, <2>2, <2>5, <3>2 DEF Lone
      <4>. QED BY <2>4, <4>1 DEF Serially
    <3>. QED BY <3>1, <3>2
  <2>. QED BY <2>4, <2>5
<1>. QED BY <1>2, <1>3 DEF SerialInv

\* A step that leaves the rows alone, by a pass that neither records nor refuses.
LEMMA GlideSerial ==
  ASSUME IInv, SerialInv, NEW p \in Pass, NEW s, UNCHANGED <<run, acts>>, Serially(pass[p]),
         pass[p].pc \notin {"record", "skip"}, s.pc # "record",
         s.pc \in {"dispatch", "advance"} => run[s.run].status = s.from,
         s.pc \notin {"verify", "skip", "online"},
         s.pc = "insert" => ~CooldownActive
  PROVE  Serially(s)'
<1>1. \A r \in Run : run[r].status \in Pending => acts[r] = 0
  BY DEF Serially
<1>2. \A r \in Run : run[r].status \in {"detected", "verifying"} => ~CooldownActive
  BY DEF Serially
<1>3. CooldownActive' = CooldownActive
  BY DEF CooldownActive
<1>. QED BY <1>1, <1>2, <1>3 DEF Serially

\* The update of a run out of the pending states: no other run is active.
LEMMA UpdateSerial ==
  ASSUME IInv, SerialInv, NEW p \in Pass, NEW s, NEW r \in Run,
         NEW from \in ActiveStates, NEW to, NEW c,
         Transition(r, from, to, c), run[r].status = from, to \notin Pending,
         Serially(pass[p]), UNCHANGED acts, pass[p].pc = "record" => pass[p].run = r,
         s.pc \in {"idle", "active", "notify"}
  PROVE  Serially(s)'
<1>1. \A x \in Run : run'[x].status = IF x = r THEN to ELSE run[x].status
  BY UpdateApplies
<1>2. ASSUME NEW x \in Run, run'[x].status \in Pending
      PROVE  acts'[x] = 0
  <2>1. x # r /\ run[x].status \in Pending
    BY <1>1, <1>2
  <2>2. ~(pass[p].pc = "record" /\ pass[p].run = x)
    BY <2>1
  <2>3. acts[x] = IF pass[p].pc = "record" /\ pass[p].run = x THEN 1 ELSE 0
    BY <2>1 DEF Serially
  <2>. QED BY <2>2, <2>3
<1>3. ASSUME NEW x \in Run, run'[x].status \in {"detected", "verifying"}
      PROVE  FALSE
  <2>1. x # r /\ x \in Active /\ r \in Active
    BY <1>1, <1>3 DEF Active, Pending, ActiveStates
  <2>. QED BY <2>1 DEF SerialInv, OneActive
<1>. QED BY <1>2, <1>3 DEF Serially

\* A pass ends, or goes on to its second stage, with an update or without.
LEMMA LeaveSerial ==
  ASSUME IInv, IInv', SerialInv, NEW p \in Pass, NEW s, Goto(p, s),
         s.pc \in {"idle", "active", "notify"}, pass[p].pc # "idle",
         UNCHANGED <<restarts, errors, overlapped, acts, unsafe>>,
         \/ UNCHANGED run /\ pass[p].pc \notin {"record", "skip"}
         \/ \E to \in Terminal \cup {"remediating", "confirming"}, c \in Cmd \cup {None} :
              \E from \in ActiveStates :
                /\ Transition(pass[p].run, from, to, c) /\ pass[p].run \in Run
                /\ Serially(pass[p]) => run[pass[p].run].status = from
  PROVE  SerialInv'
<1>1. CASE UNCHANGED run /\ pass[p].pc \notin {"record", "skip"}
  <2>1. OneActive'
    BY <1>1 DEF SerialInv, OneActive, Active
  <2>2. Calm /\ Serially(pass[p]) => Serially(s)'
    BY <1>1, GlideSerial
  <2>3. Calm => ~unsafe' /\ \A r \in Run : acts'[r] < 2
    BY DEF SerialInv, SerialSafe
  <2>. QED BY <2>1, <2>2, <2>3, MoveSerial
<1>2. ASSUME NEW to \in Terminal \cup {"remediating", "confirming"}, NEW c \in Cmd \cup {None},
             NEW from \in ActiveStates,
             Transition(pass[p].run, from, to, c), pass[p].run \in Run,
             Serially(pass[p]) => run[pass[p].run].status = from
      PROVE  SerialInv'
  <2>1. OneActive'
    BY <1>2, UpdateActive DEF SerialInv
  <2>2. to \notin Pending
    BY DEF Terminal, Pending
  <2>3. Calm /\ Serially(pass[p]) => Serially(s)'
    BY <1>2, <2>2, UpdateSerial
  <2>4. Calm => ~unsafe' /\ \A r \in Run : acts'[r] < 2
    BY DEF SerialInv, SerialSafe
  <2>. QED BY <2>1, <2>3, <2>4, MoveSerial
<1>. QED BY <1>1, <1>2

LEMMA MeInformed ==
  ASSUME IInv, NEW p \in Pass
  PROVE  pass[p] \in PassState /\ Informed(pass[p])
  BY DEF IInv, TypeOK, PassState, PassesInformed

LEMMA LeaveStates ==
  Done.pc = "idle" /\ [Done EXCEPT !.pc = "active"].pc = "active"
  BY DEF Done

\* A pass starts: if another is in progress, they overlap from now on.
LEMMA DetectSerial == ASSUME IInv, SerialInv, NEW p \in Pass, Detect(p) PROVE SerialInv'
<1>1. PICK s : Goto(p, s) /\ s.pc \in {"cooldown", "active"}
  <2>1. CASE StageTwo(p)
    BY <2>1, LeaveStates DEF StageTwo
  <2>2. ASSUME NEW on \in BOOLEAN, Goto(p, [Done EXCEPT !.pc = "cooldown", !.online = on])
        PROVE  \E s : Goto(p, s) /\ s.pc \in {"cooldown", "active"}
    <3>1. [Done EXCEPT !.pc = "cooldown", !.online = on].pc = "cooldown"
      BY DEF Done
    <3>. QED BY <2>2, <3>1
  <2>. QED BY <2>1, <2>2 DEF Detect
<1>2. \A q \in Pass : pass'[q] = IF q = p THEN s ELSE pass[q]
  BY <1>1 DEF Goto, IInv, TypeOK
<1>3. /\ UNCHANGED <<run, restarts, errors, acts, unsafe>> /\ pass[p].pc = "idle"
      /\ overlapped' <=> (overlapped \/ ~Lone(p))
  BY DEF Detect, process, Lone
<1>4. OnePass'
  BY <1>2, <1>3 DEF SerialInv, OnePass, Lone
<1>5. OneActive'
  BY <1>3 DEF SerialInv, OneActive, Active
<1>6. SerialSafe'
  <2>. SUFFICES ASSUME Calm'
       PROVE  /\ \A r \in Run : acts'[r] < 2
              /\ ~unsafe'
              /\ \A q \in Pass : Lone(q)' => Serially(pass[q])'
    BY DEF SerialSafe
  <2>1. Calm /\ Lone(p)
    BY <1>3 DEF Calm
  <2>2. Serially(pass[p])
    BY <2>1 DEF SerialInv, SerialSafe
  <2>3. Serially(s)'
    BY <1>1, <1>3, <2>2, GlideSerial
  <2>4. \A q \in Pass : Lone(q)' => q = p
    BY <1>1, <1>2 DEF Lone
  <2>5. Serially(pass[p])'
    BY <1>2, <2>3 DEF Serially
  <2>. QED BY <1>3, <2>1, <2>4, <2>5 DEF SerialInv, SerialSafe
<1>. QED BY <1>4, <1>5, <1>6 DEF SerialInv

LEMMA CheckCooldownSerial ==
  ASSUME IInv, IInv', SerialInv, NEW p \in Pass, CheckCooldown(p) PROVE SerialInv'
<1>1. PICK s : Goto(p, s) /\ s.pc = IF CooldownActive THEN "refuse" ELSE "insert"
  BY MeInformed DEF CheckCooldown, PassState
<1>2. UNCHANGED <<run, restarts, errors, acts, unsafe, overlapped>> /\ pass[p].pc = "cooldown"
  BY DEF CheckCooldown, process, history
<1>3. OneActive'
  BY <1>2 DEF SerialInv, OneActive, Active
<1>4. Calm /\ Serially(pass[p]) => Serially(s)'
  BY <1>1, <1>2, GlideSerial
<1>5. Calm => ~unsafe' /\ \A r \in Run : acts'[r] < 2
  BY <1>2 DEF SerialInv, SerialSafe
<1>. QED BY <1>1, <1>2, <1>3, <1>4, <1>5, MoveSerial

\* Whoever inserts has found the cooldown over, or marks the run as refused.
LEMMA InsertSerial ==
  ASSUME IInv, IInv', SerialInv, NEW p \in Pass, NEW r \in Run, InsertRun(p, r) PROVE SerialInv'
<1> DEFINE new == [NoRun EXCEPT !.status = "detected"]
<1>1. PICK s : /\ Goto(p, s) /\ s.run = r
               /\ s.pc = IF pass[p].pc = "insert" THEN "verify" ELSE "skip"
  <2>1. PICK s : s = [pass[p] EXCEPT !.pc = IF pass[p].pc = "insert" THEN "verify" ELSE "skip", !.run = r]
                 /\ Goto(p, s)
    BY DEF InsertRun
  <2>2. s.run = r /\ s.pc = IF pass[p].pc = "insert" THEN "verify" ELSE "skip"
    BY <2>1, MeInformed DEF PassState
  <2>. QED BY <2>1, <2>2
<1>2. /\ UNCHANGED <<restarts, errors, acts, unsafe, overlapped>>
      /\ pass[p].pc \in {"insert", "refuse"} /\ Active = {} /\ run[r].status = "none"
      /\ run' = [run EXCEPT ![r] = new]
  BY DEF InsertRun, process, history, Unused
<1>3. new.status = "detected" /\ ~new.recent
  BY DEF NoRun
<1>4. run \in [Run -> Row]
  BY DEF IInv, TypeOK, Row
<1>. HIDE DEF new
<1>5. \A x \in Run : run'[x] = IF x = r THEN new ELSE run[x]
  BY <1>2, <1>4
<1>6. OneActive'
  BY <1>2, <1>5 DEF OneActive, Active
<1>7. ASSUME Calm, Serially(pass[p])
      PROVE  Serially(s)'
  <2>1. \A x \in Run : run[x].status \in Pending => acts[x] = 0
    BY <1>2, <1>7 DEF Serially
  <2>2. \A x \in Run : run'[x].status \in Pending => run[x].status \in Pending
    BY <1>2, <1>5 DEF Pending
  <2>3. \A x \in Run : run'[x].status \in {"detected", "verifying"} => x = r
    BY <1>2, <1>5 DEF Active, ActiveStates
  <2>4. CooldownActive' => CooldownActive
    BY <1>3, <1>5 DEF CooldownActive
  <2>5. pass[p].pc = "insert" => ~CooldownActive
    BY <1>7 DEF Serially
  <2>6. \A x \in Run : run'[x].status \in {"detected", "verifying"} /\ ~(s.pc = "skip" /\ s.run = x)
          => ~CooldownActive'
    BY <1>1, <1>2, <2>3, <2>4, <2>5
  <2>. QED BY <1>1, <1>2, <1>3, <1>5, <2>1, <2>2, <2>6 DEF Serially
<1>8. Calm => ~unsafe' /\ \A x \in Run : acts'[x] < 2
  BY <1>2 DEF SerialInv, SerialSafe
<1>. QED BY <1>1, <1>2, <1>6, <1>7, <1>8, MoveSerial

LEMMA VerifySerial ==
  ASSUME IInv, IInv', SerialInv, NEW p \in Pass, Verify(p) PROVE SerialInv'
<1> DEFINE r == pass[p].run
<1>1. PICK s : Goto(p, s) /\ s.pc = "online" /\ s.run = r
  <2>1. PICK s : s = [pass[p] EXCEPT !.pc = "online", !.from = "verifying"] /\ Goto(p, s)
    BY DEF Verify
  <2>2. s.pc = "online" /\ s.run = r
    BY <2>1, MeInformed DEF PassState
  <2>. QED BY <2>1, <2>2
<1>2. /\ UNCHANGED <<restarts, errors, acts, unsafe, overlapped>>
      /\ pass[p].pc = "verify" /\ r \in Run /\ Transition(r, "detected", "verifying", None)
  BY MeInformed DEF Verify, process, history, Informed
<1>. HIDE DEF r
<1>3. OneActive'
  BY <1>2, UpdateActive DEF SerialInv, ActiveStates
<1>4. ASSUME Calm, Serially(pass[p])
      PROVE  Serially(s)'
  <2>1. run[r].status = "detected"
    BY <1>2, <1>4 DEF Serially, r
  <2>2. \A x \in Run : /\ run'[x].status = IF x = r THEN "verifying" ELSE run[x].status
                       /\ run'[x].recent <=> run[x].recent
    BY <1>2, <2>1, UpdateApplies DEF ActiveStates
  <2>3. CooldownActive' <=> CooldownActive
    BY <2>2 DEF CooldownActive
  <2>4. \A x \in Run : run'[x].status \in Pending => run[x].status \in Pending
    BY <2>1, <2>2 DEF Pending
  <2>5. ~CooldownActive
    BY <1>2, <1>4, <2>1 DEF Serially
  <2>. QED BY <1>1, <1>2, <1>4, <2>2, <2>3, <2>4, <2>5 DEF Serially
<1>5. Calm => ~unsafe' /\ \A x \in Run : acts'[x] < 2
  BY <1>2 DEF SerialInv, SerialSafe
<1>. QED BY <1>1, <1>2, <1>3, <1>4, <1>5, MoveSerial

\* The first remediation of a run, and no other run is in its cooldown.
LEMMA DispatchSerial ==
  ASSUME IInv, IInv', SerialInv, NEW p \in Pass, Dispatch(p) PROVE SerialInv'
<1> DEFINE r == pass[p].run
<1>1. PICK s : Goto(p, s) /\ s.pc = "record" /\ s.run = r /\ s.from = pass[p].from
  <2>1. PICK s : s = [pass[p] EXCEPT !.pc = "record", !.cmd = idSeq + 1] /\ Goto(p, s)
    BY DEF Dispatch
  <2>2. s.pc = "record" /\ s.run = r /\ s.from = pass[p].from
    BY <2>1, MeInformed DEF PassState
  <2>. QED BY <2>1, <2>2
<1>2. /\ UNCHANGED <<run, restarts, errors, overlapped>> /\ pass[p].pc = "dispatch" /\ r \in Run
      /\ pass[p].from \in {"detected", "verifying"}
      /\ acts' = [acts EXCEPT ![r] = Capped(acts[r])]
      /\ unsafe' <=> (unsafe \/ \E x \in Run \ {r} : run[x].recent)
  BY MeInformed DEF Dispatch, Informed
<1>. HIDE DEF r
<1>3. OneActive'
  BY <1>2 DEF SerialInv, OneActive, Active
<1>4. ASSUME Calm, Serially(pass[p])
      PROVE  Serially(s)' /\ ~unsafe' /\ \A x \in Run : acts'[x] < 2
  <2>1. run[r].status = pass[p].from
    BY <1>2, <1>4 DEF Serially, r
  <2>2. acts[r] = 0 /\ \A x \in Run : run[x].status \in Pending => acts[x] = 0
    BY <1>2, <1>4, <2>1 DEF Serially, Pending
  <2>3. acts \in [Run -> 0 .. 2]
    BY DEF IInv, TypeOK
  <2>4. \A x \in Run : acts'[x] = IF x = r THEN 1 ELSE acts[x]
    BY <1>2, <2>2, <2>3 DEF Capped
  <2>5. ~CooldownActive
    BY <1>2, <1>4, <2>1 DEF Serially
  <2>6. ~unsafe /\ \A x \in Run : acts[x] < 2
    BY <1>4 DEF SerialInv, SerialSafe, OnePass, Calm, Lone
  <2>7. ~unsafe'
    BY <1>2, <2>5, <2>6 DEF CooldownActive
  <2>8. Serially(s)'
    BY <1>1, <1>2, <2>1, <2>2, <2>4, <2>5 DEF Serially, CooldownActive
  <2>. QED BY <2>4, <2>6, <2>7, <2>8
<1>. QED BY <1>1, <1>2, <1>3, <1>4, MoveSerial

\* Steps to a state the pass acts from, by the row as it is.
LEMMA ActFromSerial ==
  ASSUME IInv, IInv', SerialInv, NEW p \in Pass, NEW s, Goto(p, s),
         s.pc \in {"dispatch", "advance"}, pass[p].pc \in {"online", "active", "advance"},
         Serially(pass[p]) => run[s.run].status = s.from,
         UNCHANGED <<run, process, errors, history>>
  PROVE  SerialInv'
<1>1. UNCHANGED <<restarts, acts, unsafe, overlapped>>
  BY DEF process, history
<1>2. OneActive'
  BY DEF SerialInv, OneActive, Active
<1>3. Calm /\ Serially(pass[p]) => Serially(s)'
  BY <1>1, GlideSerial
<1>4. Calm => ~unsafe' /\ \A r \in Run : acts'[r] < 2
  BY <1>1 DEF SerialInv, SerialSafe
<1>. QED BY <1>1, <1>2, <1>3, <1>4, MoveSerial

LEMMA StageOneSerial ==
  ASSUME IInv, IInv', SerialInv, NEW p \in Pass,
         InsertCollides(p) \/ SkipCooldown(p) \/ CheckOnline(p) \/ DispatchFails(p) \/ Record(p)
  PROVE  SerialInv'
<1> DEFINE me == pass[p]
<1>0. me \in PassState /\ Informed(me)
  BY MeInformed
<1>1. CASE InsertCollides(p)
  BY <1>1, LeaveSerial, LeaveStates DEF InsertCollides, StageTwo, process, history
<1>2. CASE SkipCooldown(p)
  <2>1. me.pc = "skip" /\ me.run \in Run /\ Transition(me.run, "detected", "skipped", None)
    BY <1>0, <1>2 DEF SkipCooldown, Informed
  <2>2. Serially(me) => run[me.run].status = "detected"
    BY <2>1 DEF Serially
  <2>3. UNCHANGED <<restarts, errors, overlapped, acts, unsafe>>
    BY <1>2 DEF SkipCooldown, process, history
  <2>. QED BY <1>2, <2>1, <2>2, <2>3, LeaveSerial, LeaveStates
    DEF SkipCooldown, StageTwo, Terminal, ActiveStates
<1>3. CASE CheckOnline(p)
  <2>1. me.pc = "online" /\ me.run \in Run /\ me.from = "verifying"
    BY <1>0, <1>3 DEF CheckOnline, Informed
  <2>2. Serially(me) => run[me.run].status = "verifying"
    BY <2>1 DEF Serially
  <2>3. CASE me.online
    <3>1. PICK s : s = [me EXCEPT !.pc = "dispatch"] /\ Goto(p, s)
      BY <1>3, <2>3 DEF CheckOnline
    <3>2. s.pc = "dispatch" /\ s.run = me.run /\ s.from = me.from
      BY <1>0, <3>1 DEF PassState
    <3>. QED BY <1>3, <2>1, <2>2, <2>3, <3>1, <3>2, ActFromSerial DEF CheckOnline
  <2>4. CASE ~me.online
    <3>1. UNCHANGED <<restarts, errors, overlapped, acts, unsafe>>
      BY <1>3 DEF CheckOnline, process, history
    <3>. QED BY <1>3, <2>1, <2>2, <2>4, <3>1, LeaveSerial, LeaveStates
      DEF CheckOnline, StageTwo, Terminal, ActiveStates
  <2>. QED BY <2>3, <2>4
<1>4. CASE DispatchFails(p) \/ Record(p)
  <2>1. /\ me.pc \in {"dispatch", "record"} /\ me.run \in Run /\ me.from \in ActiveStates
        /\ \E to \in {"failed", "remediating"}, c \in Cmd \cup {None} : Transition(me.run, me.from, to, c)
    BY <1>0, <1>4 DEF DispatchFails, Record, Informed, ActiveStates
  <2>2. Serially(me) => run[me.run].status = me.from
    BY <2>1 DEF Serially
  <2>3. PICK s : Goto(p, s) /\ s.pc \in {"idle", "active"}
    BY <1>4, LeaveStates DEF DispatchFails, Record, Leave
  <2>4. UNCHANGED <<restarts, errors, overlapped, acts, unsafe>>
    BY <1>4 DEF DispatchFails, Record, process, history
  <2>. QED BY <2>1, <2>2, <2>3, <2>4, LeaveSerial DEF Terminal
<1>. QED BY <1>1, <1>2, <1>3, <1>4

LEMMA StageTwoSerial ==
  ASSUME IInv, IInv', SerialInv, NEW p \in Pass,
         \/ LoadActive(p) \/ Stuck(p) \/ ResumeDispatch(p)
         \/ AdvanceRemediating(p) \/ AdvanceConfirming(p) \/ Notify(p)
  PROVE  SerialInv'
<1> DEFINE me == pass[p]
<1>0. me \in PassState /\ Informed(me)
  BY MeInformed
<1>1. CASE LoadActive(p)
  <2>1. CASE Goto(p, Done)
    BY <1>1, <2>1, LeaveSerial, LeaveStates DEF LoadActive, process, history
  <2>2. ASSUME NEW r \in Active,
               Goto(p, [Done EXCEPT !.pc = "advance", !.run = r, !.from = run[r].status,
                                    !.cmd = run[r].cmd, !.late = run[r].late])
        PROVE  SerialInv'
    <3>1. PICK s : /\ s = [Done EXCEPT !.pc = "advance", !.run = r, !.from = run[r].status,
                                       !.cmd = run[r].cmd, !.late = run[r].late]
                   /\ Goto(p, s)
      BY <2>2
    <3>2. s.pc = "advance" /\ s.run = r /\ s.from = run[r].status
      BY <3>1 DEF Done
    <3>. QED BY <1>1, <3>1, <3>2, ActFromSerial DEF LoadActive
  <2>. QED BY <1>1, <2>1, <2>2 DEF LoadActive
<1>2. CASE ResumeDispatch(p)
  <2>1. PICK s : s = [me EXCEPT !.pc = "dispatch", !.cmd = None] /\ Goto(p, s)
    BY <1>2 DEF ResumeDispatch
  <2>2. s.pc = "dispatch" /\ s.run = me.run /\ s.from = me.from
    BY <1>0, <2>1 DEF PassState
  <2>3. me.pc = "advance" /\ (Serially(me) => run[me.run].status = me.from)
    BY <1>2 DEF ResumeDispatch, Advancing, Serially
  <2>. QED BY <1>2, <2>1, <2>2, <2>3, ActFromSerial DEF ResumeDispatch
<1>3. CASE Notify(p)
  BY <1>3, LeaveSerial, LeaveStates DEF Notify, process
<1>4. CASE Stuck(p) \/ AdvanceRemediating(p) \/ AdvanceConfirming(p)
  <2>1. /\ me.pc = "advance" /\ me.run \in Run /\ me.from \in ActiveStates
        /\ AdvanceRemediating(p) => me.from = "remediating" /\ me.cmd \in Cmd
        /\ AdvanceConfirming(p) => me.from = "confirming"
    BY <1>0, <1>4 DEF Stuck, AdvanceRemediating, AdvanceConfirming, Advancing, Informed
  <2>2. Serially(me) => run[me.run].status = me.from
    BY <2>1 DEF Serially
  <2>3. UNCHANGED <<restarts, errors, overlapped, acts, unsafe>>
    BY <1>4 DEF Stuck, AdvanceRemediating, AdvanceConfirming, process, history
  <2>4. me.cmd \in Cmd \cup {None}
    BY <1>0 DEF PassState
  <2>5. \/ UNCHANGED run
        \/ \E to \in Terminal \cup {"remediating", "confirming"}, c \in Cmd \cup {None} :
             Transition(me.run, me.from, to, c)
    <3>1. CASE Stuck(p)
      BY <3>1 DEF Stuck, Terminal
    <3>2. CASE AdvanceRemediating(p)
      <4>1. results[me.cmd] \in {"SUCCEEDED", "FAILED", None}
        BY <2>1, <3>2 DEF IInv, TypeOK
      <4>. QED BY <2>1, <2>4, <3>2, <4>1 DEF AdvanceRemediating, Escalate, Terminal
    <3>3. CASE AdvanceConfirming(p)
      BY <2>1, <2>4, <3>3 DEF AdvanceConfirming, Escalate, LatestSample, Terminal
    <3>. QED BY <1>4, <3>1, <3>2, <3>3
  <2>6. PICK s : Goto(p, s) /\ s.pc \in {"idle", "notify"}
    <3>1. [me EXCEPT !.pc = "notify"].pc = "notify"
      BY <1>0 DEF PassState
    <3>2. Goto(p, Done) \/ Goto(p, [me EXCEPT !.pc = "notify"])
      <4>1. CASE Stuck(p)
        BY <4>1 DEF Stuck
      <4>2. CASE AdvanceRemediating(p)
        <5>1. results[me.cmd] \in {"SUCCEEDED", "FAILED", None}
          BY <2>1, <4>2 DEF IInv, TypeOK
        <5>. QED BY <4>2, <5>1 DEF AdvanceRemediating, Escalate
      <4>3. CASE AdvanceConfirming(p)
        BY <4>3 DEF AdvanceConfirming, Escalate, LatestSample
      <4>. QED BY <1>4, <4>1, <4>2, <4>3
    <3>. QED BY <3>1, <3>2, LeaveStates
  <2>. HIDE DEF me
  <2>. QED BY <2>1, <2>2, <2>3, <2>5, <2>6, LeaveSerial DEF me
<1>. QED BY <1>1, <1>2, <1>3, <1>4

\* Whatever fails is the end of the calm.
LEMMA ErrorSerial == ASSUME IInv, IInv', SerialInv, NEW p \in Pass, PassError(p) PROVE SerialInv'
<1>1. PICK s : Goto(p, s)
  BY DEF PassError, Leave, StageTwo
<1>2. UNCHANGED <<run, restarts, overlapped>> /\ pass[p].pc # "idle" /\ errors' # 0
  BY DEF PassError, process, history, IInv, TypeOK
<1>3. OneActive'
  BY <1>2 DEF SerialInv, OneActive, Active
<1>. QED BY <1>1, <1>2, <1>3, MoveSerial

\* Time, the agent and a restart.
LEMMA EnvironmentSerial ==
  ASSUME IInv, SerialInv,
         \/ \E c \in Cmd : AgentReports(c)
         \/ \E r \in Run : DeadlinePasses(r) \/ CooldownEnds(r)
         \/ Restart \/ UNCHANGED vars
  PROVE  SerialInv'
<1>1. CASE Restart
  <2>1. (\A p \in Pass : pass'[p].pc = "idle") /\ UNCHANGED run /\ restarts' # 0
    BY <1>1, LeaveStates DEF Restart, IInv, TypeOK
  <2>. QED BY <2>1 DEF SerialInv, OnePass, OneActive, Active, SerialSafe, Calm
<1>2. CASE ~Restart
  <2>1. UNCHANGED <<pass, restarts, errors, acts, unsafe, overlapped>>
    BY <1>2 DEF AgentReports, DeadlinePasses, CooldownEnds, vars, process, history
  <2>2. \A x \in Run : run'[x].status = run[x].status /\ (run'[x].recent => run[x].recent)
    <3>1. CASE UNCHANGED run
      BY <3>1
    <3>2. ASSUME NEW r \in Run, DeadlinePasses(r) \/ CooldownEnds(r)
          PROVE  \A x \in Run : run'[x].status = run[x].status /\ (run'[x].recent => run[x].recent)
      <4>1. run \in [Run -> Row]
        BY DEF IInv, TypeOK, Row
      <4>. QED BY <3>2, <4>1 DEF DeadlinePasses, CooldownEnds, Row
    <3>. QED BY <1>2, <3>1, <3>2 DEF AgentReports, vars
  <2>3. Active' = Active /\ (CooldownActive' => CooldownActive)
    BY <2>2 DEF Active, CooldownActive
  <2>4. \A p \in Pass : /\ pass[p].pc \in {"dispatch", "record", "advance", "verify", "skip", "online"}
                             => pass[p].run \in Run
    BY DEF IInv, PassesInformed, Informed
  <2>5. ASSUME NEW p \in Pass, Serially(pass[p])
        PROVE  Serially(pass[p])'
    BY <2>1, <2>2, <2>3, <2>4, <2>5 DEF Serially
  <2>6. OneActive'
    BY <2>3 DEF SerialInv, OneActive
  <2>. QED BY <2>1, <2>5, <2>6 DEF SerialInv, OnePass, SerialSafe, Calm, Lone
<1>. QED BY <1>1, <1>2

LEMMA NextSerial == IInv /\ IInv' /\ SerialInv /\ [Next]_vars => SerialInv'
<1> SUFFICES ASSUME IInv, IInv', SerialInv, [Next]_vars
             PROVE  SerialInv'
  OBVIOUS
<1>1. ASSUME NEW p \in Pass, PassStep(p)
      PROVE  SerialInv'
  BY <1>1, DetectSerial, CheckCooldownSerial, InsertSerial, VerifySerial, DispatchSerial,
     StageOneSerial, StageTwoSerial DEF PassStep
<1>2. ASSUME NEW p \in Pass, PassError(p)
      PROVE  SerialInv'
  BY <1>2, ErrorSerial
<1>3. CASE \/ \E c \in Cmd : AgentReports(c)
           \/ \E r \in Run : DeadlinePasses(r) \/ CooldownEnds(r)
           \/ Restart \/ UNCHANGED vars
  BY <1>3, EnvironmentSerial
<1>. QED BY <1>1, <1>2, <1>3 DEF Next

\* handleDetection's verify-safe checks (SerialPassesAreSafe): for any number of
\* runs and of commands, as long as passes have not overlapped, no store call
\* has failed and the server has kept running, no run remediates twice and none
\* within the cooldown of another.
THEOREM SerialIsSafe == Spec => []SerialPassesAreSafe
<1>1. Init => SerialInv
  <2>. SUFFICES ASSUME Init PROVE SerialInv
    OBVIOUS
  <2>1. /\ \A r \in Run : run[r].status = "none" /\ ~run[r].recent /\ acts[r] = 0
        /\ \A p \in Pass : pass[p].pc = "idle"
    BY DEF Init, InitWith, NoRun, Done
  <2>2. ~unsafe
    BY DEF Init, InitWith
  <2>. QED BY <2>1, <2>2
    DEF SerialInv, OnePass, OneActive, Active, ActiveStates, SerialSafe, Serially, CooldownActive
<1>2. SerialInv => SerialPassesAreSafe
  BY DEF SerialInv, SerialSafe, Calm, SerialPassesAreSafe, NoDoubleRemediation
<1>. QED BY <1>1, <1>2, InitIInv, NextIInv, NextSerial, PTL DEF Spec
=============================================================================
