----------------------------- MODULE FlowProofs -----------------------------
(***************************************************************************)
(* Proofs about flows: FlowEngine for any acyclic graph, any number of     *)
(* runs and of handler invocations at once, and any number of restarts,    *)
(* failing calls and command ids; FlowGraph for graphs of any size.        *)
(*                                                                         *)
(* A run only moves down its graph, because every hop is a conditional     *)
(* update on the node it leaves.  So the handler that wins a hop is the    *)
(* only one ever to notify for the node it left: a run that was anywhere   *)
(* else, or had been there before, would have lost it.                     *)
(*                                                                         *)
(* That the graph is acyclic is what Validate is for.  Its search is shown *)
(* to be defined, to number the nodes it has left, to reach all and only   *)
(* what the entry leads to, and to cry cycle only where no numbering is.   *)
(***************************************************************************)
EXTENDS FlowEngine, FlowGraph, FiniteSetTheorems, SequenceTheorems, WellFoundedInduction, TLAPS

-----------------------------------------------------------------------------
(* The graph.                                                              *)

\* A numbering of the nodes along the edges.
Rank ==
  CHOOSE rank \in [Node -> 1 .. Cardinality(Node)] :
    \A n \in Node : \A m \in Edge[n] \ {End} : rank[n] < rank[m]

LEMMA RankIncreases ==
  /\ \A n \in Node : Rank[n] \in Int
  /\ \A n \in Node : \A m \in Edge[n] : m # End => m \in Node /\ Rank[n] < Rank[m]
<1>1. /\ Rank \in [Node -> 1 .. Cardinality(Node)]
      /\ \A n \in Node : \A m \in Edge[n] \ {End} : Rank[n] < Rank[m]
  BY AcyclicAssumption DEF Rank
<1>2. Cardinality(Node) \in Nat
  BY AcyclicAssumption, FS_CardinalityType
<1>. QED BY <1>1, <1>2, ConstAssumption

LEMMA EventFields ==
  ASSUME NEW e \in Event
  PROVE  /\ e.type = "step" => e.run \in Run /\ e.node \in Node
         /\ e.type = "command" => e.cmd \in Cmd /\ e.res \in Final /\ e.proc \in 0 .. MaxRestart
  BY DEF Event, Trigger, Step, CommandResult

-----------------------------------------------------------------------------
(* The invariant.                                                          *)

\* What a handler invocation that got so far holds.
SoundState(x) ==
  /\ x.pc = "start" => x.ev \in Event
  /\ x.pc \in {"dispatch", "record", "finish", "publish", "notify"} => x.run \in Run /\ x.node \in Node
  /\ x.pc = "record" \/ (x.pc = "finish" /\ Kind[x.node] = "script") => x.cmd \in Cmd
  /\ x.pc = "notify" => x.res \in Node \cup {End}

HeldSound == \A w \in Worker : SoundState(work[w])

RowSound == \A r \in Run : run[r].status # "none" => run[r].node \in Node

\* The run was at the node and is no more, or it ended there.
LeftNode(r, n) ==
  /\ run[r].status # "none"
  /\ run[r].status = "running" => Rank[run[r].node] > Rank[n]

Notifying(w, r, n) == work[w].pc = "notify" /\ work[w].run = r /\ work[w].node = n

\* One handler at most is about to notify for a node, after the run left it and
\* before anyone notified.
NotesSound ==
  \A r \in Run, n \in Node :
    /\ notes[<<r, n>>] < 2
    /\ notes[<<r, n>>] # 0 => LeftNode(r, n) /\ \A w \in Worker : ~Notifying(w, r, n)
    /\ \A w \in Worker : Notifying(w, r, n) =>
         LeftNode(r, n) /\ \A u \in Worker : Notifying(u, r, n) => u = w

FlowInv == TypeOK /\ HeldSound /\ RowSound /\ NotesSound

\* How a row changes: a run starts, hops along an edge, or ends.
Progress ==
  \A r \in Run :
    \/ run'[r].status = run[r].status /\ run'[r].node = run[r].node
       /\ (run[r].status \notin {"none", "running"} => run'[r] = run[r])
    \/ run[r].status = "none" /\ run'[r].status = "running" /\ run'[r].node = Start
    \/ /\ run[r].status = "running" /\ run'[r].status \in {"succeeded", "failed", "timeout"}
       /\ run'[r].node = run[r].node
    \/ /\ run[r].status = "running" /\ run'[r].status = "running"
       /\ run'[r].node \in Edge[run[r].node] \ {End}

LEMMA LeftForGood ==
  ASSUME TypeOK, RowSound, Progress, NEW r \in Run, NEW n \in Node, LeftNode(r, n)
  PROVE  LeftNode(r, n)'
<1>1. Rank[n] \in Int
  BY RankIncreases
<1>2. CASE run[r].status = "running"
  <2>1. run[r].node \in Node
    BY <1>2 DEF RowSound
  <2>2. Rank[run[r].node] \in Int
    BY <2>1, RankIncreases
  <2>3. CASE run'[r].status = "running" /\ run'[r].node \in Edge[run[r].node] \ {End}
    <3>1. run'[r].node \in Node /\ Rank[run[r].node] < Rank[run'[r].node]
      BY <2>1, <2>3, RankIncreases
    <3>2. Rank[run'[r].node] \in Int
      BY <3>1, RankIncreases
    <3>. QED BY <1>1, <1>2, <2>2, <2>3, <3>1, <3>2 DEF LeftNode
  <2>. QED BY <1>2, <2>3 DEF Progress, LeftNode
<1>3. CASE run[r].status # "running"
  BY <1>3 DEF Progress, LeftNode
<1>. QED BY <1>2, <1>3

\* A step by which nobody begins to notify.
LEMMA QuietStep ==
  ASSUME FlowInv, Progress, notes' = notes,
         \A u \in Worker, r \in Run, n \in Node : Notifying(u, r, n)' => Notifying(u, r, n)
  PROVE  NotesSound'
<1>1. \A r \in Run, n \in Node : LeftNode(r, n) => LeftNode(r, n)'
  BY LeftForGood DEF FlowInv
<1>. QED BY <1>1 DEF FlowInv, NotesSound

\* A step by which one worker begins to notify for the node its run was at.
LEMMA AnnouncingStep ==
  ASSUME FlowInv, Progress, notes' = notes, NEW w \in Worker, NEW r \in Run, NEW n \in Node,
         At(r, n), LeftNode(r, n)',
         \A u \in Worker, q \in Run, m \in Node :
           Notifying(u, q, m)' => (Notifying(u, q, m) /\ u # w) \/ (u = w /\ q = r /\ m = n)
  PROVE  NotesSound'
<1>1. \A q \in Run, m \in Node : LeftNode(q, m) => LeftNode(q, m)'
  BY LeftForGood DEF FlowInv
<1>2. ~LeftNode(r, n)
  <2>1. Rank[n] \in Int
    BY RankIncreases
  <2>. QED BY <2>1 DEF At, LeftNode
<1>3. notes[<<r, n>>] = 0 /\ \A u \in Worker : ~Notifying(u, r, n)
  BY <1>2 DEF FlowInv, NotesSound
<1>4. ASSUME NEW q \in Run, NEW m \in Node
      PROVE  /\ notes'[<<q, m>>] < 2
             /\ notes'[<<q, m>>] # 0 => LeftNode(q, m)' /\ \A u \in Worker : ~Notifying(u, q, m)'
             /\ \A u \in Worker : Notifying(u, q, m)' =>
                  LeftNode(q, m)' /\ \A v \in Worker : Notifying(v, q, m)' => v = u
  <2>1. CASE q = r /\ m = n
    BY <1>3, <2>1
  <2>2. CASE ~(q = r /\ m = n)
    <3>1. \A u \in Worker : Notifying(u, q, m)' => Notifying(u, q, m)
      BY <2>2
    <3>. QED BY <1>1, <3>1 DEF FlowInv, NotesSound
  <2>. QED BY <2>1, <2>2
<1>. QED BY <1>4 DEF NotesSound

-----------------------------------------------------------------------------
(* The parts of a handler.                                                 *)

StoreKept == run' \in [Run -> Row] /\ RowSound' /\ Progress
HandKept  == bus' \subseteq Event /\ work' \in [Worker -> State] /\ HeldSound'
Quiet     == \A u \in Worker, r \in Run, n \in Node : Notifying(u, r, n)' => Notifying(u, r, n)

LEMMA SameRows ==
  ASSUME FlowInv, run' = run
  PROVE  StoreKept
  BY DEF FlowInv, StoreKept, TypeOK, RowSound, Progress

LEMMA SetWork ==
  ASSUME FlowInv, NEW w \in Worker, NEW x \in State, SoundState(x), work' = [work EXCEPT ![w] = x]
  PROVE  /\ work' \in [Worker -> State] /\ HeldSound'
         /\ x.pc # "notify" => Quiet
         /\ \A u \in Worker, q \in Run, m \in Node :
              Notifying(u, q, m)' => (Notifying(u, q, m) /\ u # w) \/ (u = w /\ q = x.run /\ m = x.node)
<1>1. work \in [Worker -> State] /\ HeldSound
  BY DEF FlowInv, TypeOK
<1>2. work'[w] = x /\ \A u \in Worker : u # w => work'[u] = work[u]
  BY <1>1
<1>3. work' \in [Worker -> State]
  BY <1>1
<1>4. HeldSound'
  BY <1>1, <1>2 DEF HeldSound, SoundState
<1>5. \A u \in Worker, q \in Run, m \in Node :
        Notifying(u, q, m)' => (Notifying(u, q, m) /\ u # w) \/ (u = w /\ q = x.run /\ m = x.node)
  <2>. SUFFICES ASSUME NEW u \in Worker, NEW q \in Run, NEW m \in Node, Notifying(u, q, m)'
       PROVE  (Notifying(u, q, m) /\ u # w) \/ (u = w /\ q = x.run /\ m = x.node)
    OBVIOUS
  <2>. QED BY <1>2 DEF Notifying
<1>6. x.pc # "notify" => Quiet
  BY <1>2 DEF Notifying, Quiet
<1>. QED BY <1>3, <1>4, <1>5, <1>6

LEMMA RestIsSound == Rest \in State /\ SoundState(Rest) /\ Rest.pc = "idle"
  BY DEF Rest, State, SoundState

LEMMA GotoKeeps ==
  ASSUME FlowInv, NEW w \in Worker, NEW x \in State, SoundState(x), x.pc # "notify", Goto(w, x)
  PROVE  HandKept /\ Quiet
<1>1. work' = [work EXCEPT ![w] = x] /\ bus' = bus
  BY DEF Goto
<1>. QED BY <1>1, SetWork DEF FlowInv, TypeOK, HandKept

LEMMA ReturnKeeps ==
  ASSUME FlowInv, NEW w \in Worker, Return(w)
  PROVE  HandKept /\ Quiet
<1>1. work' = [work EXCEPT ![w] = Rest] /\ bus' \subseteq bus
  BY DEF Return
<1>. QED BY <1>1, SetWork, RestIsSound DEF FlowInv, TypeOK, HandKept

LEMMA FailKeeps ==
  ASSUME FlowInv, NEW w \in Worker, NEW r \in Run, NEW n \in Node, NEW status \in {"failed", "timeout"},
         FailThenNotify(w, r, n, status), notes' = notes
  PROVE  StoreKept /\ HandKept /\ NotesSound'
<1>0. run \in [Run -> Row] /\ run[r] \in Row /\ work[w] \in State
  BY DEF FlowInv, TypeOK
<1>1. CASE At(r, n)
  <2> DEFINE x == [work[w] EXCEPT !.pc = "notify", !.run = r, !.node = n, !.res = End]
  <2>1. run' = [run EXCEPT ![r] = [run[r] EXCEPT !.status = status]] /\ Goto(w, x)
    BY <1>0, <1>1 DEF FailThenNotify, FailRun
  <2>2. x \in State /\ SoundState(x) /\ x.run = r /\ x.node = n
    BY <1>0 DEF State, SoundState
  <2>. HIDE DEF x
  <2>3. /\ run'[r] \in Row /\ run'[r].status = status /\ run'[r].node = n
        /\ \A q \in Run : q # r => run'[q] = run[q]
    BY <1>0, <1>1, <2>1 DEF Row, At
  <2>4. StoreKept
    BY <1>0, <1>1, <2>1, <2>3 DEF FlowInv, StoreKept, RowSound, Progress, At
  <2>5. /\ HandKept
        /\ \A u \in Worker, q \in Run, m \in Node :
             Notifying(u, q, m)' => (Notifying(u, q, m) /\ u # w) \/ (u = w /\ q = r /\ m = n)
    BY <2>1, <2>2, SetWork DEF Goto, HandKept, FlowInv, TypeOK
  <2>6. LeftNode(r, n)'
    BY <2>3 DEF LeftNode
  <2>. QED BY <1>1, <2>4, <2>5, <2>6, AnnouncingStep DEF StoreKept
<1>2. CASE ~At(r, n)
  <2>1. run' = run /\ Return(w)
    BY <1>2 DEF FailThenNotify, FailRun
  <2>. QED BY <2>1, SameRows, ReturnKeeps, QuietStep DEF StoreKept, Quiet
<1>. QED BY <1>1, <1>2

LEMMA AdvanceToKeeps ==
  ASSUME FlowInv, NEW r \in Run, NEW n \in Node, NEW next \in Edge[n], AdvanceTo(r, n, next)
  PROVE  StoreKept /\ (At(r, n) => LeftNode(r, n)')
<1>0. run \in [Run -> Row] /\ run[r] \in Row
  BY DEF FlowInv, TypeOK
<1>1. next # End => next \in Node /\ Rank[n] < Rank[next]
  BY RankIncreases
<1>2. Rank[n] \in Int /\ (next # End => Rank[next] \in Int)
  BY <1>1, RankIncreases
<1>3. CASE At(r, n)
  <2>1. run' = [run EXCEPT ![r] = Advanced(r, n, next)]
    BY <1>3 DEF AdvanceTo
  <2>2. CASE next = End
    <3>1. /\ Advanced(r, n, next) \in Row /\ Advanced(r, n, next).status = "succeeded"
          /\ Advanced(r, n, next).node = n
      BY <1>0, <1>3, <2>2 DEF Advanced, Row, At
    <3>2. run'[r] = Advanced(r, n, next) /\ \A q \in Run : q # r => run'[q] = run[q]
      BY <1>0, <2>1
    <3>3. StoreKept
      BY <1>0, <1>3, <2>1, <3>1, <3>2 DEF FlowInv, StoreKept, RowSound, Progress, At
    <3>. QED BY <3>1, <3>2, <3>3 DEF LeftNode
  <2>3. CASE next # End
    <3>1. /\ Advanced(r, n, next) \in Row /\ Advanced(r, n, next).status = "running"
          /\ Advanced(r, n, next).node = next
      BY <1>0, <1>1, <1>3, <2>3 DEF Advanced, Row, At
    <3>2. run'[r] = Advanced(r, n, next) /\ \A q \in Run : q # r => run'[q] = run[q]
      BY <1>0, <2>1
    <3>3. run[r].status = "running" /\ run[r].node = n
      BY <1>3 DEF At
    <3>4. StoreKept
      BY <1>0, <1>1, <2>1, <2>3, <3>1, <3>2, <3>3 DEF FlowInv, StoreKept, RowSound, Progress
    <3>. QED BY <1>1, <1>2, <2>3, <3>1, <3>2, <3>4 DEF LeftNode
  <2>. QED BY <2>2, <2>3
<1>4. CASE ~At(r, n)
  BY <1>4, SameRows DEF AdvanceTo
<1>. QED BY <1>3, <1>4

LEMMA AdvanceKeeps ==
  ASSUME FlowInv, NEW w \in Worker, NEW r \in Run, NEW n \in Node, NEW next \in Edge[n],
         AdvanceThenPublish(w, r, n, next), notes' = notes
  PROVE  StoreKept /\ HandKept /\ NotesSound'
<1>1. StoreKept
  BY AdvanceToKeeps DEF AdvanceThenPublish
<1>2. HandKept /\ Quiet
  <2>1. CASE At(r, n) /\ next # End
    <3> DEFINE x == [work[w] EXCEPT !.pc = "publish", !.run = r, !.node = next]
    <3>1. next \in Node
      BY <2>1, RankIncreases
    <3>2. x \in State /\ SoundState(x) /\ x.pc # "notify"
      BY <3>1 DEF FlowInv, TypeOK, State, SoundState
    <3>3. Goto(w, x)
      BY <2>1 DEF AdvanceThenPublish
    <3>. HIDE DEF x
    <3>. QED BY <3>2, <3>3, GotoKeeps
  <2>2. CASE ~(At(r, n) /\ next # End)
    BY <2>2, ReturnKeeps DEF AdvanceThenPublish
  <2>. QED BY <2>1, <2>2
<1>. QED BY <1>1, <1>2, QuietStep DEF StoreKept, Quiet

LEMMA OnResultKeeps ==
  ASSUME FlowInv, NEW w \in Worker, NEW r \in Run, NEW n \in Node, NEW c \in Cmd, NEW res,
         OnResult(w, r, n, c, res)
  PROVE  HandKept /\ Quiet
<1>1. CASE res \in Final
  <2> DEFINE x == [work[w] EXCEPT !.pc = "finish", !.run = r, !.node = n, !.cmd = c, !.res = res]
  <2>1. x \in State /\ SoundState(x) /\ x.pc # "notify"
    BY <1>1 DEF FlowInv, TypeOK, State, SoundState
  <2>2. Goto(w, x)
    BY <1>1 DEF OnResult
  <2>. HIDE DEF x
  <2>. QED BY <2>1, <2>2, GotoKeeps
<1>2. CASE res \notin Final
  BY <1>2, ReturnKeeps DEF OnResult
<1>. QED BY <1>1, <1>2

-----------------------------------------------------------------------------
(* The steps.                                                              *)

OthersTyped ==
  /\ deleted \in BOOLEAN /\ cooling \in BOOLEAN /\ errors \in 0 .. MaxError
  /\ idSeq \in 0 .. MaxCmd /\ results \in [Cmd -> Final \cup {None}] /\ restarts \in 0 .. MaxRestart
  /\ issued \subseteq Dispatch /\ basis \in [Run -> Dispatch \cup {None}]

LEMMA Together ==
  ASSUME FlowInv, StoreKept, HandKept, NotesSound', OthersTyped', notes' = notes
  PROVE  FlowInv' /\ Progress
  BY DEF FlowInv, TypeOK, StoreKept, HandKept, OthersTyped

LEMMA QuietTogether ==
  ASSUME FlowInv, StoreKept, HandKept, Quiet, OthersTyped', notes' = notes
  PROVE  FlowInv' /\ Progress
  BY QuietStep, Together DEF StoreKept, Quiet

LEMMA OthersUnchanged ==
  ASSUME FlowInv, UNCHANGED <<deleted, cooling, process, errors, issued, basis>>
  PROVE  OthersTyped'
  BY DEF FlowInv, TypeOK, OthersTyped, process

LEMMA TriggerSteps ==
  ASSUME FlowInv, NEW w \in Worker,
         TriggerDropped(w) \/ TriggerPasses(w) \/ InsertRejected(w) \/ \E r \in Run : InsertRun(w, r)
  PROVE  FlowInv' /\ Progress
<1>0. work[w] \in State /\ run \in [Run -> Row]
  BY DEF FlowInv, TypeOK
<1>1. CASE TriggerDropped(w) \/ InsertRejected(w)
  <2>1. Return(w) /\ UNCHANGED <<run, deleted, cooling, process, errors, issued, basis, notes>>
    BY <1>1 DEF TriggerDropped, InsertRejected, rows, history
  <2>. QED BY <2>1, SameRows, ReturnKeeps, OthersUnchanged, QuietTogether
<1>2. CASE TriggerPasses(w)
  <2> DEFINE x == [work[w] EXCEPT !.pc = "insert"]
  <2>1. Goto(w, x) /\ UNCHANGED <<run, deleted, cooling, process, errors, issued, basis, notes>>
    BY <1>2 DEF TriggerPasses, rows, history
  <2>2. x \in State /\ SoundState(x) /\ x.pc # "notify"
    BY <1>0 DEF State, SoundState
  <2>. HIDE DEF x
  <2>. QED BY <2>1, <2>2, SameRows, GotoKeeps, OthersUnchanged, QuietTogether
<1>3. ASSUME NEW r \in Run, InsertRun(w, r)
      PROVE  FlowInv' /\ Progress
  <2> DEFINE x == [work[w] EXCEPT !.pc = "finish", !.run = r, !.node = Start, !.res = "SUCCEEDED"]
             row == [NoRun EXCEPT !.status = "running", !.node = Start]
  <2>1. /\ Goto(w, x) /\ UNCHANGED <<deleted, process, errors, issued, basis, notes>>
        /\ run' = [run EXCEPT ![r] = row] /\ cooling' = TRUE /\ run[r].status = "none"
    BY <1>3 DEF InsertRun, history, Unused
  <2>2. x \in State /\ SoundState(x) /\ x.pc # "notify"
    BY <1>0, ConstAssumption DEF State, SoundState, Final
  <2>3. row \in Row /\ row.status = "running" /\ row.node = Start
    BY ConstAssumption DEF Row, NoRun
  <2>. HIDE DEF x, row
  <2>4. run'[r] = row /\ \A q \in Run : q # r => run'[q] = run[q]
    BY <1>0, <2>1
  <2>5. StoreKept
    BY <1>0, <2>1, <2>3, <2>4, ConstAssumption DEF FlowInv, StoreKept, RowSound, Progress
  <2>6. OthersTyped'
    BY <2>1 DEF FlowInv, TypeOK, OthersTyped, process
  <2>. QED BY <2>1, <2>2, <2>5, <2>6, GotoKeeps, QuietTogether
<1>. QED BY <1>1, <1>2, <1>3

LEMMA StepSteps ==
  ASSUME FlowInv, NEW w \in Worker,
         StepStale(w) \/ StepScript(w) \/ StepAwaited(w) \/ StepCheck(w) \/ StepNotify(w)
  PROVE  FlowInv' /\ Progress
<1> DEFINE r == work[w].ev.run
           n == work[w].ev.node
<1>0. /\ work[w] \in State /\ work \in [Worker -> State] /\ run \in [Run -> Row]
      /\ r \in Run /\ n \in Node
  <2>1. work[w] \in State /\ work \in [Worker -> State] /\ run \in [Run -> Row] /\ SoundState(work[w])
    BY DEF FlowInv, TypeOK, HeldSound
  <2>2. work[w].pc = "start" /\ work[w].ev.type = "step"
    BY DEF StepStale, StepScript, StepAwaited, StepCheck, StepNotify, StepAt, IsStep
  <2>. QED BY <2>1, <2>2, EventFields DEF SoundState
<1>1. CASE StepStale(w)
  <2>1. Return(w) /\ UNCHANGED <<run, deleted, cooling, process, errors, issued, basis, notes>>
    BY <1>1 DEF StepStale, rows, history
  <2>. QED BY <2>1, SameRows, ReturnKeeps, OthersUnchanged, QuietTogether
<1>2. CASE StepScript(w)
  <2> DEFINE x == [work[w] EXCEPT !.pc = "dispatch", !.run = r, !.node = n]
  <2>1. Goto(w, x) /\ UNCHANGED <<run, deleted, cooling, process, errors, issued, basis, notes>>
    BY <1>2 DEF StepScript, rows, history
  <2>2. x \in State /\ SoundState(x) /\ x.pc # "notify"
    BY <1>0 DEF State, SoundState
  <2>. HIDE DEF x
  <2>. QED BY <2>1, <2>2, SameRows, GotoKeeps, OthersUnchanged, QuietTogether
<1>3. CASE StepAwaited(w)
  <2>1. /\ UNCHANGED <<run, deleted, cooling, process, errors, issued, basis, notes>>
        /\ run[r].cmd # None /\ OnResult(w, r, n, run[r].cmd, results[run[r].cmd])
    BY <1>3 DEF StepAwaited, rows, history
  <2>2. run[r].cmd \in Cmd
    BY <1>0, <2>1 DEF Row
  <2>3. HandKept /\ Quiet
    BY <1>0, <2>1, <2>2, OnResultKeeps
  <2>. QED BY <2>1, <2>3, SameRows, OthersUnchanged, QuietTogether
<1>4. CASE StepCheck(w)
  <2>1. UNCHANGED <<deleted, cooling, process, errors, issued, basis, notes>>
    BY <1>4 DEF StepCheck, history
  <2>2. OthersTyped'
    BY <2>1, OthersUnchanged
  <2>3. ASSUME NEW next \in Edge[n], AdvanceThenPublish(w, r, n, next)
        PROVE  FlowInv' /\ Progress
    <3>. HIDE DEF r, n
    <3>. QED BY <1>0, <2>1, <2>2, <2>3, AdvanceKeeps, Together
  <2>4. CASE UNCHANGED run /\ Return(w)
    BY <2>1, <2>2, <2>4, SameRows, ReturnKeeps, QuietTogether
  <2>5. CASE FailThenNotify(w, r, n, "timeout")
    <3>. HIDE DEF r, n
    <3>. QED BY <1>0, <2>1, <2>2, <2>5, FailKeeps, Together
  <2>. QED BY <1>4, <2>3, <2>4, <2>5 DEF StepCheck
<1>5. CASE StepNotify(w)
  <2>0. PICK q0 \in Run, n0 \in Node : q0 = r /\ n0 = n
    BY <1>0
  <2>1. UNCHANGED <<deleted, cooling, process, errors, issued, basis, notes>> /\ At(q0, n0)
    BY <1>5, <2>0 DEF StepNotify, history, StepAt
  <2>2. PICK next \in Edge[n0] :
          /\ AdvanceTo(q0, n0, next)
          /\ Goto(w, [work[w] EXCEPT !.pc = "notify", !.run = q0, !.node = n0, !.res = next])
    BY <1>5, <2>0 DEF StepNotify
  <2> DEFINE x == [work[w] EXCEPT !.pc = "notify", !.run = q0, !.node = n0, !.res = next]
  <2>3. next \in Node \cup {End}
    BY RankIncreases
  <2>4. x \in State /\ SoundState(x) /\ x.run = q0 /\ x.node = n0
    BY <1>0, <2>3 DEF State, SoundState
  <2>. HIDE DEF x
  <2>5. /\ HandKept
        /\ \A u \in Worker, q \in Run, m \in Node :
             Notifying(u, q, m)' => (Notifying(u, q, m) /\ u # w) \/ (u = w /\ q = q0 /\ m = n0)
    <3>1. work' = [work EXCEPT ![w] = x] /\ bus' = bus
      BY <2>2 DEF Goto, x
    <3>. QED BY <2>4, <3>1, SetWork DEF HandKept, FlowInv, TypeOK
  <2>6. StoreKept /\ LeftNode(q0, n0)'
    BY <2>1, <2>2, AdvanceToKeeps
  <2>7. NotesSound'
    BY <2>1, <2>5, <2>6, AnnouncingStep DEF StoreKept
  <2>. QED BY <2>1, <2>5, <2>6, <2>7, OthersUnchanged, Together
<1>. QED BY <1>1, <1>2, <1>3, <1>4, <1>5

LEMMA ScriptSteps ==
  ASSUME FlowInv, NEW w \in Worker,
         Remediate(w) \/ RemediateFails(w) \/ Dispatched(w) \/ FinishSucceeded(w) \/ FinishFailed(w)
  PROVE  FlowInv' /\ Progress
<1>0. PICK r \in Run, n \in Node : r = work[w].run /\ n = work[w].node
  <2>1. SoundState(work[w])
    BY DEF FlowInv, HeldSound
  <2>2. work[w].pc \in {"dispatch", "record", "finish"}
    BY DEF Remediate, RemediateFails, Dispatched, FinishSucceeded, FinishFailed
  <2>. QED BY <2>1, <2>2 DEF SoundState
<1>1. /\ work[w] \in State /\ SoundState(work[w]) /\ run \in [Run -> Row] /\ run[r] \in Row
      /\ idSeq \in 0 .. MaxCmd /\ MaxCmd \in Nat /\ restarts \in 0 .. MaxRestart
  BY ConstAssumption DEF FlowInv, TypeOK, HeldSound
<1>2. CASE Remediate(w)
  <2> DEFINE x == [work[w] EXCEPT !.pc = "record", !.cmd = idSeq + 1]
  <2>1. /\ Goto(w, x) /\ UNCHANGED <<run, deleted, cooling, results, restarts, errors, basis, notes>>
        /\ idSeq' = idSeq + 1 /\ idSeq < MaxCmd /\ work[w].pc = "dispatch"
        /\ issued' = issued \cup {<<restarts, idSeq + 1, r, n>>}
    BY <1>0, <1>2 DEF Remediate, rows
  <2>2. idSeq + 1 \in Cmd /\ idSeq + 1 \in 0 .. MaxCmd
    BY <1>1, <2>1 DEF Cmd
  <2>3. x \in State /\ SoundState(x) /\ x.pc # "notify"
    BY <1>1, <2>1, <2>2 DEF State, SoundState
  <2>. HIDE DEF x
  <2>4. OthersTyped'
    BY <1>1, <2>1, <2>2 DEF FlowInv, TypeOK, OthersTyped, Dispatch
  <2>. QED BY <2>1, <2>3, <2>4, SameRows, GotoKeeps, QuietTogether
<1>3. CASE RemediateFails(w) \/ FinishFailed(w)
  <2>1. /\ UNCHANGED <<deleted, cooling, process, errors, issued, basis, notes>>
        /\ FailThenNotify(w, r, n, "failed")
    BY <1>0, <1>3 DEF RemediateFails, FinishFailed, history
  <2>. QED BY <2>1, FailKeeps, OthersUnchanged, Together
<1>4. CASE Dispatched(w)
  <2> DEFINE applies == At(r, n) /\ run[r].cmd = None
  <2>1. /\ UNCHANGED <<deleted, cooling, process, errors, issued, basis, notes>> /\ work[w].pc = "record"
        /\ run' = IF applies THEN [run EXCEPT ![r].cmd = work[w].cmd, ![r].late = FALSE] ELSE run
    BY <1>0, <1>4 DEF Dispatched, history
  <2>2. HandKept /\ Quiet
    <3>1. CASE ~applies /\ run[r].cmd # None
      <4>1. OnResult(w, r, n, run[r].cmd, results[run[r].cmd])
        BY <1>0, <1>4, <3>1 DEF Dispatched
      <4>2. run[r].cmd \in Cmd
        BY <1>1, <3>1 DEF Row
      <4>. QED BY <4>1, <4>2, OnResultKeeps
    <3>2. CASE ~(~applies /\ run[r].cmd # None)
      BY <1>0, <1>4, <3>2, ReturnKeeps DEF Dispatched
    <3>. QED BY <3>1, <3>2
  <2>3. StoreKept
    <3>1. CASE ~applies
      BY <2>1, <3>1, SameRows
    <3>2. CASE applies
      <4> DEFINE row == [run[r] EXCEPT !.cmd = work[w].cmd, !.late = FALSE]
      <4>1. work[w].cmd \in Cmd
        BY <1>1, <2>1 DEF SoundState
      <4>2. run' = [run EXCEPT ![r] = row]
        BY <1>1, <2>1, <3>2
      <4>3. row \in Row /\ row.status = run[r].status /\ row.node = run[r].node
        BY <1>1, <4>1 DEF Row
      <4>. HIDE DEF row
      <4>4. run'[r] = row /\ \A q \in Run : q # r => run'[q] = run[q]
        BY <1>1, <4>2
      <4>. QED BY <1>1, <3>2, <4>2, <4>3, <4>4 DEF FlowInv, StoreKept, RowSound, Progress, At
    <3>. QED BY <3>1, <3>2
  <2>. QED BY <2>1, <2>2, <2>3, OthersUnchanged, QuietTogether
<1>5. CASE FinishSucceeded(w)
  <2>1. PICK next \in Edge[n] : AdvanceThenPublish(w, r, n, next)
    BY <1>0, <1>5 DEF FinishSucceeded
  <2>2. /\ UNCHANGED <<deleted, cooling, process, errors, issued, notes>> /\ work[w].pc = "finish"
        /\ basis' = IF At(r, n) /\ Kind[n] = "script"
                    THEN [basis EXCEPT ![r] = <<Answerer(w), work[w].cmd, r, n>>] ELSE basis
    BY <1>0, <1>5 DEF FinishSucceeded
  <2>3. Answerer(w) \in 0 .. MaxRestart
    BY <1>1, EventFields DEF Answerer, State
  <2>4. Kind[n] = "script" => work[w].cmd \in Cmd
    BY <1>0, <1>1, <2>2 DEF SoundState
  <2>5. basis' \in [Run -> Dispatch \cup {None}]
    BY <2>2, <2>3, <2>4 DEF FlowInv, TypeOK, Dispatch
  <2>6. OthersTyped'
    BY <2>2, <2>5 DEF FlowInv, TypeOK, OthersTyped, process
  <2>. QED BY <2>1, <2>2, <2>6, AdvanceKeeps, Together
<1>. QED BY <1>2, <1>3, <1>4, <1>5

LEMMA EndSteps ==
  ASSUME FlowInv, NEW w \in Worker,
         \/ Notify(w) \/ PublishStep(w) \/ HandleCommand(w) \/ CommandUnowned(w) \/ HandlerError(w)
         \/ \E ev \in bus : Deliver(w, ev)
  PROVE  FlowInv' /\ Progress
<1>1. /\ work[w] \in State /\ SoundState(work[w]) /\ run \in [Run -> Row] /\ work \in [Worker -> State]
      /\ notes \in [Run \X Node -> 0 .. 2] /\ bus \subseteq Event
  BY DEF FlowInv, TypeOK, HeldSound
<1>2. CASE Notify(w)
  <2>1. /\ UNCHANGED <<run, deleted, cooling, process, errors, issued, basis>> /\ work[w].pc = "notify"
    BY <1>2 DEF Notify, rows
  <2>2. PICK r \in Run, n \in Node : r = work[w].run /\ n = work[w].node
    BY <1>1, <2>1 DEF SoundState
  <2>3. Notifying(w, r, n) /\ notes[<<r, n>>] = 0
    BY <2>1, <2>2 DEF Notifying, FlowInv, NotesSound
  <2>4. notes' = [notes EXCEPT ![<<r, n>>] = 1]
    BY <1>1, <1>2, <2>2, <2>3 DEF Notify
  <2>5. notes' \in [Run \X Node -> 0 .. 2]
    BY <1>1, <2>4
  <2>6. \A q \in Run, m \in Node :
          notes'[<<q, m>>] = IF q = r /\ m = n THEN 1 ELSE notes[<<q, m>>]
    BY <1>1, <2>4
  <2>7. PICK x : /\ x \in State /\ SoundState(x) /\ x.pc # "notify"
                 /\ work' = [work EXCEPT ![w] = x] /\ bus' \subseteq Event
    <3>1. CASE work[w].res = End
      BY <1>1, <1>2, <3>1, RestIsSound DEF Notify, Return
    <3>2. CASE work[w].res # End
      <4> DEFINE x == [work[w] EXCEPT !.pc = "publish", !.node = work[w].res]
      <4>1. work[w].res \in Node
        BY <1>1, <2>1, <3>2 DEF SoundState
      <4>2. x \in State /\ SoundState(x) /\ x.pc # "notify"
        BY <1>1, <2>1, <4>1 DEF State, SoundState
      <4>3. work' = [work EXCEPT ![w] = x] /\ bus' = bus
        BY <1>2, <3>2 DEF Notify, Goto
      <4>. HIDE DEF x
      <4>. QED BY <1>1, <4>2, <4>3
    <3>. QED BY <3>1, <3>2
  <2>8. HandKept /\ Quiet /\ \A u \in Worker, q \in Run, m \in Node : Notifying(u, q, m)' => u # w
    <3>1. work' \in [Worker -> State] /\ HeldSound' /\ Quiet
      BY <2>7, SetWork
    <3>2. work'[w] = x
      BY <1>1, <2>7
    <3>. QED BY <2>7, <3>1, <3>2 DEF HandKept, Notifying
  <2>9. NotesSound'
    <3>1. \A q \in Run, m \in Node : LeftNode(q, m)' <=> LeftNode(q, m)
      BY <2>1 DEF LeftNode
    <3>2. \A u \in Worker : ~Notifying(u, r, n)'
      BY <2>3, <2>8 DEF FlowInv, NotesSound, Quiet
    <3>. SUFFICES ASSUME NEW q \in Run, NEW m \in Node
         PROVE  /\ notes'[<<q, m>>] < 2
                /\ notes'[<<q, m>>] # 0 => LeftNode(q, m)' /\ \A u \in Worker : ~Notifying(u, q, m)'
                /\ \A u \in Worker : Notifying(u, q, m)' =>
                     LeftNode(q, m)' /\ \A v \in Worker : Notifying(v, q, m)' => v = u
      BY DEF NotesSound
    <3>3. CASE q = r /\ m = n
      BY <2>3, <2>6, <3>1, <3>2, <3>3 DEF FlowInv, NotesSound
    <3>4. CASE ~(q = r /\ m = n)
      BY <2>6, <2>8, <3>1, <3>4 DEF FlowInv, NotesSound, Quiet
    <3>. QED BY <3>3, <3>4
  <2>10. StoreKept /\ OthersTyped'
    BY <2>1, SameRows, OthersUnchanged
  <2>. QED BY <2>5, <2>8, <2>9, <2>10 DEF FlowInv, TypeOK, StoreKept, HandKept, OthersTyped
<1>3. CASE PublishStep(w)
  <2>1. /\ UNCHANGED <<run, deleted, cooling, process, errors, issued, basis, notes>>
        /\ work[w].pc = "publish" /\ work' = [work EXCEPT ![w] = Rest]
        /\ bus' = (bus \ {work[w].ev}) \cup {Step(work[w].run, work[w].node)}
    BY <1>3 DEF PublishStep, rows, history
  <2>2. Step(work[w].run, work[w].node) \in Event
    BY <1>1, <2>1 DEF SoundState, Event
  <2>3. bus' \subseteq Event
    BY <1>1, <2>1, <2>2
  <2>4. HandKept /\ Quiet
    BY <2>1, <2>3, SetWork, RestIsSound DEF HandKept
  <2>. QED BY <2>1, <2>4, SameRows, OthersUnchanged, QuietTogether
<1>4. CASE HandleCommand(w)
  <2>1. /\ UNCHANGED <<run, deleted, cooling, process, errors, issued, basis, notes>>
        /\ work[w].pc = "start" /\ work[w].ev.type = "command"
    BY <1>4 DEF HandleCommand, rows, history, IsCommand
  <2>2. work[w].ev.cmd \in Cmd
    BY <1>1, <2>1, EventFields DEF SoundState
  <2>3. PICK r \in Owners(work[w].ev.cmd) : OnResult(w, r, run[r].node, work[w].ev.cmd, work[w].ev.res)
    BY <1>4 DEF HandleCommand
  <2>4. r \in Run /\ run[r].node \in Node
    BY <2>3 DEF Owners, Active, FlowInv, RowSound
  <2>5. HandKept /\ Quiet
    BY <2>2, <2>3, <2>4, OnResultKeeps
  <2>. QED BY <2>1, <2>5, SameRows, OthersUnchanged, QuietTogether
<1>5. CASE CommandUnowned(w)
  <2>1. Return(w) /\ UNCHANGED <<run, deleted, cooling, process, errors, issued, basis, notes>>
    BY <1>5 DEF CommandUnowned, rows, history
  <2>. QED BY <2>1, SameRows, ReturnKeeps, OthersUnchanged, QuietTogether
<1>6. CASE HandlerError(w)
  <2>1. /\ UNCHANGED <<run, deleted, cooling, process, issued, basis, notes>>
        /\ errors < MaxError /\ errors' = errors + 1
        /\ work' = [work EXCEPT ![w] = Rest] /\ bus' \subseteq bus
    BY <1>6 DEF HandlerError, rows, history
  <2>2. HandKept /\ Quiet
    BY <1>1, <2>1, SetWork, RestIsSound DEF HandKept
  <2>3. OthersTyped'
    BY <2>1, ConstAssumption DEF FlowInv, TypeOK, OthersTyped, process
  <2>. QED BY <2>1, <2>2, <2>3, SameRows, QuietTogether
<1>7. ASSUME NEW ev \in bus, Deliver(w, ev)
      PROVE  FlowInv' /\ Progress
  <2> DEFINE x == [Rest EXCEPT !.pc = "start", !.ev = ev]
  <2>1. /\ UNCHANGED <<run, deleted, cooling, bus, process, errors, issued, basis, notes>>
        /\ work' = [work EXCEPT ![w] = x]
    BY <1>7 DEF Deliver, rows, history
  <2>2. x \in State /\ SoundState(x) /\ x.pc # "notify"
    BY <1>1 DEF State, SoundState, Rest
  <2>. HIDE DEF x
  <2>3. HandKept /\ Quiet
    BY <1>1, <2>1, <2>2, SetWork DEF HandKept
  <2>. QED BY <2>1, <2>3, SameRows, OthersUnchanged, QuietTogether
<1>. QED BY <1>2, <1>3, <1>4, <1>5, <1>6, <1>7

LEMMA SweepSteps ==
  ASSUME FlowInv, NEW r \in Run, SweepStep(r) \/ NodeTimesOut(r)
  PROVE  FlowInv' /\ Progress
<1>0. /\ run \in [Run -> Row] /\ run[r] \in Row /\ run[r].status = "running" /\ run[r].node \in Node
      /\ bus \subseteq Event
  <2>1. r \in Active
    BY DEF SweepStep, SweepPublish, SweepTimeout, FlowGone, Loads, NodeTimesOut
  <2>. QED BY <2>1 DEF FlowInv, TypeOK, RowSound, Active
<1>1. PICK n \in Node : n = run[r].node
  BY <1>0
<1>2. CASE SweepPublish(r)
  <2>1. /\ UNCHANGED <<run, deleted, cooling, work, process, errors, issued, basis, notes>>
        /\ bus' = bus \cup {Step(r, n)}
    BY <1>1, <1>2 DEF SweepPublish, rows, history
  <2>2. bus' \subseteq Event
    BY <1>0, <2>1 DEF Event
  <2>3. HandKept /\ Quiet
    BY <2>1, <2>2 DEF FlowInv, TypeOK, HandKept, HeldSound, Quiet, Notifying
  <2>. QED BY <2>1, <2>3, SameRows, OthersUnchanged, QuietTogether
<1>3. ASSUME NEW w \in Worker, SweepTimeout(w, r)
      PROVE  FlowInv' /\ Progress
  <2>1. UNCHANGED <<deleted, cooling, process, errors, issued, basis, notes>>
    BY <1>3 DEF SweepTimeout, history
  <2>2. CASE UNCHANGED run /\ OnResult(w, r, n, run[r].cmd, results[run[r].cmd])
    <3>1. run[r].cmd \in Cmd
      BY <1>0, <1>3 DEF SweepTimeout, Row
    <3>2. HandKept /\ Quiet
      BY <2>2, <3>1, OnResultKeeps
    <3>. QED BY <2>1, <2>2, <3>2, SameRows, OthersUnchanged, QuietTogether
  <2>3. CASE FailThenNotify(w, r, n, "timeout")
    BY <2>1, <2>3, FailKeeps, OthersUnchanged, Together
  <2>. QED BY <1>1, <1>3, <2>2, <2>3 DEF SweepTimeout
<1>4. ASSUME NEW w \in Worker, FlowGone(w, r)
      PROVE  FlowInv' /\ Progress
  <2>1. /\ UNCHANGED <<deleted, cooling, process, issued, basis, notes>>
        /\ errors' \in 0 .. MaxError /\ FailThenNotify(w, r, n, "failed")
    BY <1>1, <1>4, ConstAssumption DEF FlowGone, history, FlowInv, TypeOK
  <2>2. OthersTyped'
    BY <2>1 DEF FlowInv, TypeOK, OthersTyped, process
  <2>. QED BY <2>1, <2>2, FailKeeps, Together
<1>5. CASE NodeTimesOut(r)
  <2> DEFINE row == [run[r] EXCEPT !.late = TRUE]
  <2>1. /\ UNCHANGED <<deleted, cooling, bus, work, process, errors, issued, basis, notes>>
        /\ run' = [run EXCEPT ![r] = row]
    BY <1>0, <1>5 DEF NodeTimesOut, history
  <2>2. row \in Row /\ row.status = run[r].status /\ row.node = run[r].node
    BY <1>0 DEF Row
  <2>. HIDE DEF row
  <2>3. run'[r] = row /\ \A q \in Run : q # r => run'[q] = run[q]
    BY <1>0, <2>1
  <2>4. StoreKept
    BY <1>0, <2>1, <2>2, <2>3 DEF FlowInv, StoreKept, RowSound, Progress
  <2>5. HandKept /\ Quiet
    BY <2>1 DEF FlowInv, TypeOK, HandKept, HeldSound, Quiet, Notifying
  <2>. QED BY <2>1, <2>4, <2>5, OthersUnchanged, QuietTogether
<1>. QED BY <1>2, <1>3, <1>4, <1>5 DEF SweepStep

LEMMA OutsideSteps ==
  ASSUME FlowInv,
         \/ \E c \in Cmd, st \in Final : AgentReports(c, st)
         \/ PublishTrigger \/ OtherDispatch \/ CooldownEnds \/ DeleteFlow \/ Restart
  PROVE  FlowInv' /\ Progress
<1>0. /\ bus \subseteq Event /\ work \in [Worker -> State] /\ HeldSound
      /\ restarts \in 0 .. MaxRestart /\ idSeq \in 0 .. MaxCmd
      /\ results \in [Cmd -> Final \cup {None}]
  BY DEF FlowInv, TypeOK
<1>1. ASSUME bus' \subseteq Event, work' = work
      PROVE  HandKept /\ Quiet
  BY <1>0, <1>1 DEF HandKept, HeldSound, Quiet, Notifying
<1>2. ASSUME NEW c \in Cmd, NEW st \in Final, AgentReports(c, st)
      PROVE  FlowInv' /\ Progress
  <2>1. /\ UNCHANGED <<run, deleted, cooling, work, idSeq, restarts, errors, issued, basis, notes>>
        /\ results' = [results EXCEPT ![c] = st]
        /\ bus' \subseteq bus \cup {CommandResult(c, st, restarts)}
    BY <1>2 DEF AgentReports, rows, history
  <2>2. CommandResult(c, st, restarts) \in Event
    BY <1>0 DEF Event
  <2>3. HandKept /\ Quiet
    BY <1>0, <1>1, <2>1, <2>2
  <2>4. OthersTyped'
    BY <1>0, <2>1 DEF FlowInv, TypeOK, OthersTyped
  <2>. QED BY <2>1, <2>3, <2>4, SameRows, QuietTogether
<1>3. CASE PublishTrigger
  <2>1. /\ UNCHANGED <<run, deleted, cooling, work, process, errors, issued, basis, notes>>
        /\ bus' = bus \cup {Trigger}
    BY <1>3 DEF PublishTrigger, rows, history
  <2>2. HandKept /\ Quiet
    BY <1>0, <1>1, <2>1 DEF Event
  <2>. QED BY <2>1, <2>2, SameRows, OthersUnchanged, QuietTogether
<1>4. CASE OtherDispatch
  <2>1. /\ UNCHANGED <<run, deleted, cooling, bus, work, results, restarts, errors, issued, basis, notes>>
        /\ idSeq < MaxCmd /\ idSeq' = idSeq + 1
    BY <1>4 DEF OtherDispatch, rows, history
  <2>2. idSeq' \in 0 .. MaxCmd
    BY <1>0, <2>1, ConstAssumption
  <2>3. HandKept /\ Quiet
    BY <1>0, <1>1, <2>1
  <2>4. OthersTyped'
    BY <2>1, <2>2 DEF FlowInv, TypeOK, OthersTyped
  <2>. QED BY <2>1, <2>3, <2>4, SameRows, QuietTogether
<1>5. CASE CooldownEnds \/ DeleteFlow
  <2>1. /\ UNCHANGED <<run, bus, work, process, errors, issued, basis, notes>>
        /\ deleted' \in BOOLEAN /\ cooling' \in BOOLEAN
    BY <1>5 DEF CooldownEnds, DeleteFlow, history, FlowInv, TypeOK
  <2>2. HandKept /\ Quiet
    BY <1>0, <1>1, <2>1
  <2>3. OthersTyped'
    BY <2>1 DEF FlowInv, TypeOK, OthersTyped, process
  <2>. QED BY <2>1, <2>2, <2>3, SameRows, QuietTogether
<1>6. CASE Restart
  <2>1. /\ UNCHANGED <<run, deleted, cooling, errors, issued, basis, notes>>
        /\ restarts < MaxRestart /\ restarts' = restarts + 1 /\ idSeq' = 0
        /\ results' = [c \in Cmd |-> None] /\ work' = [w \in Worker |-> Rest] /\ bus' \subseteq bus
    BY <1>6 DEF Restart, rows, history
  <2>2. \A w \in Worker : work'[w] = Rest
    BY <2>1
  <2>3. Rest \in State /\ SoundState(Rest) /\ Rest.pc # "notify"
    BY RestIsSound
  <2>4. work' \in [Worker -> State]
    BY <2>1, <2>3
  <2>5. HandKept /\ Quiet
    BY <1>0, <2>1, <2>2, <2>3, <2>4 DEF HandKept, HeldSound, Quiet, Notifying
  <2>6. restarts' \in 0 .. MaxRestart /\ idSeq' \in 0 .. MaxCmd
    BY <1>0, <2>1, ConstAssumption
  <2>7. OthersTyped'
    BY <2>1, <2>6 DEF FlowInv, TypeOK, OthersTyped
  <2>. QED BY <2>1, <2>5, <2>7, SameRows, QuietTogether
<1>. QED BY <1>2, <1>3, <1>4, <1>5, <1>6

LEMMA InitInv ==
  ASSUME Init
  PROVE  FlowInv
<1>1. NoRun \in Row /\ NoRun.status = "none"
  BY DEF NoRun, Row
<1>2. \A w \in Worker : work[w] = Rest
  BY DEF Init
<1>3. work \in [Worker -> State]
  BY RestIsSound DEF Init
<1>4. TypeOK
  <2>1. run \in [Run -> Row] /\ deleted \in BOOLEAN /\ cooling \in BOOLEAN
    BY <1>1 DEF Init
  <2>2. idSeq \in 0 .. MaxCmd /\ restarts \in 0 .. MaxRestart /\ errors \in 0 .. MaxError
    BY ConstAssumption DEF Init
  <2>3. results \in [Cmd -> Final \cup {None}] /\ basis \in [Run -> Dispatch \cup {None}]
    BY DEF Init
  <2>4. notes \in [Run \X Node -> 0 .. 2]
    BY DEF Init
  <2>5. bus \subseteq Event /\ issued \subseteq Dispatch
    BY DEF Init
  <2>. QED BY <1>3, <2>1, <2>2, <2>3, <2>4, <2>5 DEF TypeOK
<1>5. HeldSound /\ RowSound
  BY <1>1, <1>2, RestIsSound DEF Init, HeldSound, RowSound
<1>6. \A r \in Run, n \in Node : notes[<<r, n>>] = 0
  BY DEF Init
<1>7. NotesSound
  <2>1. \A w \in Worker, r \in Run, n \in Node : ~Notifying(w, r, n)
    BY <1>2, RestIsSound DEF Notifying
  <2>. SUFFICES ASSUME NEW r \in Run, NEW n \in Node
       PROVE  /\ notes[<<r, n>>] < 2
              /\ notes[<<r, n>>] # 0 => LeftNode(r, n) /\ \A w \in Worker : ~Notifying(w, r, n)
              /\ \A w \in Worker : Notifying(w, r, n) =>
                   LeftNode(r, n) /\ \A u \in Worker : Notifying(u, r, n) => u = w
    BY DEF NotesSound
  <2>2. notes[<<r, n>>] = 0
    BY <1>6
  <2>. QED BY <2>1, <2>2
<1>. QED BY <1>4, <1>5, <1>7 DEF FlowInv

LEMMA NextInv ==
  ASSUME FlowInv, [Next]_vars
  PROVE  FlowInv' /\ Progress
<1>1. CASE UNCHANGED vars
  <2>1. UNCHANGED <<run, deleted, cooling, bus, work, process, errors, issued, basis, notes>>
    BY <1>1 DEF vars, rows, history
  <2>2. HandKept /\ Quiet
    BY <2>1 DEF FlowInv, TypeOK, HandKept, HeldSound, Quiet, Notifying
  <2>. QED BY <2>1, <2>2, SameRows, OthersUnchanged, QuietTogether
<1>2. ASSUME NEW w \in Worker, HandlerStep(w)
      PROVE  FlowInv' /\ Progress
  BY <1>2, TriggerSteps, StepSteps, ScriptSteps, EndSteps DEF HandlerStep
<1>. QED BY <1>1, <1>2, EndSteps, SweepSteps, OutsideSteps DEF Next

LEMMA InvHolds == Spec => []FlowInv
<1>1. Init => FlowInv
  BY InitInv
<1>2. FlowInv /\ [Next]_vars => FlowInv'
  BY NextInv
<1>. QED BY <1>1, <1>2, PTL DEF Spec

-----------------------------------------------------------------------------
(* Whose command a run advances on, while the server does not restart.  A   *)
(* handler may be late: then its run has left the node, for good, and the   *)
(* result in its hands moves nothing.                                       *)

Reached(r, n) == At(r, n) \/ LeftNode(r, n)
Sent(c, r, n) == <<0, c, r, n>> \in issued

RowOwn(r) == run[r].cmd # None => Sent(run[r].cmd, r, run[r].node)

HandOwn(w) ==
  LET x == work[w] IN
  /\ x.pc \in {"dispatch", "record", "finish"} => Reached(x.run, x.node)
  /\ x.pc = "record" => Sent(x.cmd, x.run, x.node)
  /\ x.pc = "finish" /\ Kind[x.node] = "script" /\ At(x.run, x.node) => Sent(x.cmd, x.run, x.node)

OwnInv ==
  /\ \A r \in Run : RowOwn(r)
  /\ \A w \in Worker : HandOwn(w)
  /\ OwnResult

LEMMA ReachedForGood ==
  ASSUME FlowInv, Progress, NEW r \in Run, NEW n \in Node, Reached(r, n)
  PROVE  Reached(r, n)' /\ (At(r, n)' => At(r, n))
<1>1. Rank[n] \in Int
  BY RankIncreases
<1>2. CASE LeftNode(r, n)
  <2>1. LeftNode(r, n)'
    BY <1>2, LeftForGood DEF FlowInv
  <2>. QED BY <1>1, <2>1 DEF Reached, At, LeftNode
<1>3. CASE At(r, n)
  <2>1. run'[r].node \in Edge[n] \ {End} => Rank[n] < Rank[run'[r].node]
    BY RankIncreases
  <2>. QED BY <1>3, <2>1 DEF Reached, At, LeftNode, Progress
<1>. QED BY <1>2, <1>3 DEF Reached

\* What a step changes is sound again, and what it leaves stays sound.
LEMMA OwnKept ==
  ASSUME FlowInv, Progress, OwnInv, issued \subseteq issued',
         \A r \in Run : (run'[r].cmd = run[r].cmd /\ run'[r].node = run[r].node) \/ RowOwn(r)',
         \A w \in Worker : work'[w] = work[w] \/ HandOwn(w)',
         \A r \in Run : basis'[r] = basis[r] \/ basis'[r] \in issued'
  PROVE  OwnInv'
<1>1. ASSUME NEW r \in Run
      PROVE  RowOwn(r)'
  BY DEF OwnInv, RowOwn, Sent
<1>2. ASSUME NEW w \in Worker
      PROVE  HandOwn(w)'
  <2>1. CASE work'[w] = work[w] /\ work[w].pc \in {"dispatch", "record", "finish"}
    <3>1. work[w].run \in Run /\ work[w].node \in Node
      BY <2>1 DEF FlowInv, HeldSound, SoundState
    <3>2. HandOwn(w)
      BY DEF OwnInv
    <3>3. PICK r \in Run, n \in Node : r = work[w].run /\ n = work[w].node
      BY <3>1
    <3>4. Reached(r, n)
      BY <2>1, <3>2, <3>3 DEF HandOwn
    <3>5. Reached(r, n)' /\ (At(r, n)' => At(r, n))
      BY <3>4, ReachedForGood
    <3>6. Sent(work[w].cmd, r, n) => Sent(work[w].cmd, r, n)'
      BY <2>1 DEF Sent
    <3>. QED BY <2>1, <3>2, <3>3, <3>5, <3>6 DEF HandOwn
  <2>2. CASE work'[w] = work[w] /\ work[w].pc \notin {"dispatch", "record", "finish"}
    BY <2>2 DEF HandOwn
  <2>. QED BY <2>1, <2>2
<1>3. OwnResult'
  BY DEF OwnInv, OwnResult
<1>. QED BY <1>1, <1>2, <1>3 DEF OwnInv

\* The common case: rows keep their command, or have none.
LEMMA OwnHands ==
  ASSUME FlowInv, Progress, OwnInv, issued' = issued, basis' = basis,
         \A r \in Run : (run'[r].cmd = run[r].cmd /\ run'[r].node = run[r].node) \/ run'[r].cmd = None,
         \A w \in Worker : work'[w] = work[w] \/ HandOwn(w)'
  PROVE  OwnInv'
<1>1. \A r \in Run : (run'[r].cmd = run[r].cmd /\ run'[r].node = run[r].node) \/ RowOwn(r)'
  BY DEF RowOwn
<1>. QED BY <1>1, OwnKept

LEMMA IdleHand ==
  ASSUME FlowInv, NEW w \in Worker, NEW x, x.pc \notin {"dispatch", "record", "finish"},
         work' = [work EXCEPT ![w] = x]
  PROVE  \A u \in Worker : work'[u] = work[u] \/ HandOwn(u)'
<1>1. work' [w] = x /\ \A u \in Worker : u # w => work'[u] = work[u]
  BY DEF FlowInv, TypeOK
<1>. QED BY <1>1 DEF HandOwn

LEMMA ReturnHand ==
  ASSUME FlowInv, NEW w \in Worker, Return(w)
  PROVE  \A u \in Worker : work'[u] = work[u] \/ HandOwn(u)'
  BY IdleHand, RestIsSound DEF Return

LEMMA OnResultHand ==
  ASSUME FlowInv, NEW w \in Worker, NEW r \in Run, NEW n \in Node, NEW c, NEW res,
         OnResult(w, r, n, c, res), Reached(r, n)', At(r, n)' => <<0, c, r, n>> \in issued'
  PROVE  \A u \in Worker : work'[u] = work[u] \/ HandOwn(u)'
<1>1. CASE res \in Final
  <2>0. work \in [Worker -> State]
    BY DEF FlowInv, TypeOK
  <2>1. work' = [work EXCEPT ![w] = [work[w] EXCEPT !.pc = "finish", !.run = r, !.node = n,
                                                    !.cmd = c, !.res = res]]
    BY <1>1 DEF OnResult, Goto
  <2>2. /\ work'[w].pc = "finish" /\ work'[w].run = r /\ work'[w].node = n /\ work'[w].cmd = c
        /\ \A u \in Worker : u # w => work'[u] = work[u]
    BY <2>0, <2>1 DEF State
  <2>. QED BY <2>2 DEF HandOwn, Sent
<1>2. CASE res \notin Final
  BY <1>2, ReturnHand DEF OnResult
<1>. QED BY <1>1, <1>2

LEMMA FailOwn ==
  ASSUME FlowInv, Progress, OwnInv, NEW w \in Worker, NEW r \in Run, NEW n, NEW status,
         FailThenNotify(w, r, n, status), issued' = issued, basis' = basis
  PROVE  OwnInv'
<1>0. work \in [Worker -> State] /\ run \in [Run -> Row]
  BY DEF FlowInv, TypeOK
<1>1. \A q \in Run : run'[q].cmd = run[q].cmd /\ run'[q].node = run[q].node
  BY <1>0 DEF FailThenNotify, FailRun, Row
<1>2. \A u \in Worker : work'[u] = work[u] \/ HandOwn(u)'
  <2>1. CASE At(r, n)
    <3> DEFINE x == [work[w] EXCEPT !.pc = "notify", !.run = r, !.node = n, !.res = End]
    <3>1. work' = [work EXCEPT ![w] = x] /\ x.pc = "notify"
      BY <1>0, <2>1 DEF FailThenNotify, Goto, State
    <3>. HIDE DEF x
    <3>. QED BY <3>1, IdleHand
  <2>2. CASE ~At(r, n)
    BY <2>2, ReturnHand DEF FailThenNotify
  <2>. QED BY <2>1, <2>2
<1>. QED BY <1>1, <1>2, OwnHands

LEMMA AdvanceRows ==
  ASSUME FlowInv, NEW r \in Run, NEW n, NEW next, AdvanceTo(r, n, next)
  PROVE  \A q \in Run : (run'[q].cmd = run[q].cmd /\ run'[q].node = run[q].node) \/ run'[q].cmd = None
<1>0. run \in [Run -> Row]
  BY DEF FlowInv, TypeOK
<1>1. Advanced(r, n, next).cmd = None
  BY <1>0 DEF Advanced, Row
<1>. QED BY <1>0, <1>1 DEF AdvanceTo

LEMMA AdvanceHand ==
  ASSUME FlowInv, NEW w \in Worker, NEW r, NEW n, NEW next, AdvanceThenPublish(w, r, n, next)
  PROVE  \A u \in Worker : work'[u] = work[u] \/ HandOwn(u)'
<1>1. CASE At(r, n) /\ next # End
  <2> DEFINE x == [work[w] EXCEPT !.pc = "publish", !.run = r, !.node = next]
  <2>1. work' = [work EXCEPT ![w] = x] /\ x.pc = "publish"
    BY <1>1 DEF AdvanceThenPublish, Goto, FlowInv, TypeOK, State
  <2>. HIDE DEF x
  <2>. QED BY <2>1, IdleHand
<1>2. CASE ~(At(r, n) /\ next # End)
  BY <1>2, ReturnHand DEF AdvanceThenPublish
<1>. QED BY <1>1, <1>2

LEMMA OwnEventSteps ==
  ASSUME FlowInv, Progress, OwnInv, NEW w \in Worker,
         \/ TriggerDropped(w) \/ TriggerPasses(w) \/ InsertRejected(w) \/ \E r \in Run : InsertRun(w, r)
         \/ StepStale(w) \/ StepScript(w) \/ StepAwaited(w) \/ StepCheck(w) \/ StepNotify(w)
  PROVE  OwnInv'
<1>0. work \in [Worker -> State] /\ run \in [Run -> Row] /\ work[w].pc \in {"start", "insert"}
  BY DEF FlowInv, TypeOK, TriggerDropped, TriggerPasses, InsertRejected, InsertRun, StepStale,
         StepScript, StepAwaited, StepCheck, StepNotify, StepAt, IsStep
<1>1. CASE TriggerDropped(w) \/ InsertRejected(w) \/ StepStale(w)
  <2>1. Return(w) /\ UNCHANGED <<run, issued, basis>>
    BY <1>1 DEF TriggerDropped, InsertRejected, StepStale, rows, history
  <2>. QED BY <2>1, ReturnHand, OwnHands
<1>2. CASE TriggerPasses(w)
  <2> DEFINE x == [work[w] EXCEPT !.pc = "insert"]
  <2>1. UNCHANGED <<run, issued, basis>> /\ work' = [work EXCEPT ![w] = x] /\ x.pc = "insert"
    BY <1>0, <1>2 DEF TriggerPasses, Goto, rows, history, State
  <2>. HIDE DEF x
  <2>. QED BY <2>1, IdleHand, OwnHands
<1>3. ASSUME NEW r \in Run, InsertRun(w, r)
      PROVE  OwnInv'
  <2>1. /\ run' = [run EXCEPT ![r] = [NoRun EXCEPT !.status = "running", !.node = Start]]
        /\ work' = [work EXCEPT ![w] = [work[w] EXCEPT !.pc = "finish", !.run = r, !.node = Start,
                                                       !.res = "SUCCEEDED"]]
        /\ issued' = issued /\ basis' = basis
    BY <1>3 DEF InsertRun, Goto, history
  <2>2. run'[r].cmd = None /\ At(r, Start)' /\ \A q \in Run : q # r => run'[q] = run[q]
    BY <1>0, <2>1 DEF NoRun, At
  <2>3. /\ work'[w].pc = "finish" /\ work'[w].run = r /\ work'[w].node = Start
        /\ \A u \in Worker : u # w => work'[u] = work[u]
    BY <1>0, <2>1 DEF State
  <2>4. HandOwn(w)'
    BY <2>2, <2>3, ConstAssumption DEF HandOwn, Reached
  <2>. QED BY <2>1, <2>2, <2>3, <2>4, OwnHands
<1>4. CASE StepScript(w) \/ StepAwaited(w) \/ StepCheck(w) \/ StepNotify(w)
  <2>1. work[w].pc = "start" /\ work[w].ev.type = "step" /\ At(work[w].ev.run, work[w].ev.node)
    BY <1>4 DEF StepScript, StepAwaited, StepCheck, StepNotify, StepAt, IsStep
  <2>2. PICK r \in Run, n \in Node : r = work[w].ev.run /\ n = work[w].ev.node
    BY <2>1, EventFields DEF FlowInv, HeldSound, SoundState
  <2>3. At(r, n)
    BY <2>1, <2>2
  <2>4. CASE StepScript(w)
    <3>1. /\ UNCHANGED <<run, issued, basis>>
          /\ work' = [work EXCEPT ![w] = [work[w] EXCEPT !.pc = "dispatch", !.run = r, !.node = n]]
      BY <2>2, <2>4 DEF StepScript, Goto, rows, history
    <3>2. /\ work'[w].pc = "dispatch" /\ work'[w].run = r /\ work'[w].node = n
          /\ \A u \in Worker : u # w => work'[u] = work[u]
      BY <1>0, <3>1 DEF State
    <3>3. HandOwn(w)'
      BY <2>3, <3>1, <3>2 DEF HandOwn, Reached, At
    <3>. QED BY <3>1, <3>2, <3>3, OwnHands
  <2>5. CASE StepAwaited(w)
    <3>1. /\ UNCHANGED <<run, issued, basis>> /\ run[r].cmd # None
          /\ OnResult(w, r, n, run[r].cmd, results[run[r].cmd])
      BY <2>2, <2>5 DEF StepAwaited, rows, history
    <3>2. Reached(r, n)'
      BY <2>3, <3>1 DEF Reached, At
    <3>3. <<0, run[r].cmd, r, n>> \in issued'
      BY <2>3, <3>1 DEF OwnInv, RowOwn, At, Sent
    <3>4. \A u \in Worker : work'[u] = work[u] \/ HandOwn(u)'
      BY <3>1, <3>2, <3>3, OnResultHand
    <3>. QED BY <3>1, <3>4, OwnHands
  <2>6. CASE StepCheck(w)
    <3>1. issued' = issued /\ basis' = basis
      BY <2>6 DEF StepCheck, history
    <3>2. ASSUME NEW next \in Edge[n], AdvanceThenPublish(w, r, n, next)
          PROVE  OwnInv'
      BY <3>1, <3>2, AdvanceHand, AdvanceRows, OwnHands DEF AdvanceThenPublish
    <3>3. CASE UNCHANGED run /\ Return(w)
      BY <3>1, <3>3, ReturnHand, OwnHands
    <3>4. CASE FailThenNotify(w, r, n, "timeout")
      BY <3>1, <3>4, FailOwn
    <3>. QED BY <2>2, <2>6, <3>2, <3>3, <3>4 DEF StepCheck
  <2>7. CASE StepNotify(w)
    <3>1. PICK next \in Edge[n] :
            /\ AdvanceTo(r, n, next)
            /\ Goto(w, [work[w] EXCEPT !.pc = "notify", !.run = r, !.node = n, !.res = next])
      BY <2>2, <2>7 DEF StepNotify
    <3> DEFINE x == [work[w] EXCEPT !.pc = "notify", !.run = r, !.node = n, !.res = next]
    <3>2. work' = [work EXCEPT ![w] = x] /\ x.pc = "notify"
      BY <1>0, <3>1 DEF Goto, State
    <3>. HIDE DEF x
    <3>3. issued' = issued /\ basis' = basis
      BY <2>7 DEF StepNotify, history
    <3>. QED BY <3>1, <3>2, <3>3, AdvanceRows, IdleHand, OwnHands
  <2>. QED BY <1>4, <2>4, <2>5, <2>6, <2>7
<1>. QED BY <1>1, <1>2, <1>3, <1>4

LEMMA OwnScriptSteps ==
  ASSUME FlowInv, Progress, OwnInv, MaxRestart = 0, NEW w \in Worker,
         Remediate(w) \/ RemediateFails(w) \/ Dispatched(w) \/ FinishSucceeded(w) \/ FinishFailed(w)
  PROVE  OwnInv'
<1>0. PICK r \in Run, n \in Node : r = work[w].run /\ n = work[w].node
  <2>1. work[w].pc \in {"dispatch", "record", "finish"}
    BY DEF Remediate, RemediateFails, Dispatched, FinishSucceeded, FinishFailed
  <2>. QED BY <2>1 DEF FlowInv, HeldSound, SoundState
<1>1. /\ work \in [Worker -> State] /\ run \in [Run -> Row] /\ HandOwn(w) /\ RowOwn(r)
      /\ SoundState(work[w]) /\ work[w] \in State
  BY DEF FlowInv, TypeOK, OwnInv, HeldSound
<1>2. Reached(r, n)
  BY <1>0, <1>1 DEF HandOwn, Remediate, RemediateFails, Dispatched, FinishSucceeded, FinishFailed
<1>3. Reached(r, n)' /\ (At(r, n)' => At(r, n))
  BY <1>2, ReachedForGood
<1>4. CASE Remediate(w)
  <2>1. /\ UNCHANGED <<run, basis>> /\ issued' = issued \cup {<<restarts, idSeq + 1, r, n>>}
        /\ work' = [work EXCEPT ![w] = [work[w] EXCEPT !.pc = "record", !.cmd = idSeq + 1]]
    BY <1>0, <1>4 DEF Remediate, Goto, rows
  <2>2. restarts = 0
    BY DEF FlowInv, TypeOK
  <2>3. /\ work'[w].pc = "record" /\ work'[w].run = r /\ work'[w].node = n
        /\ work'[w].cmd = idSeq + 1 /\ \A u \in Worker : u # w => work'[u] = work[u]
    BY <1>0, <1>1, <2>1 DEF State
  <2>4. HandOwn(w)'
    BY <1>3, <2>1, <2>2, <2>3 DEF HandOwn, Sent
  <2>5. issued \subseteq issued'
    BY <2>1
  <2>. QED BY <2>1, <2>3, <2>4, <2>5, OwnKept
<1>5. CASE RemediateFails(w) \/ FinishFailed(w)
  <2>1. FailThenNotify(w, r, n, "failed") /\ issued' = issued /\ basis' = basis
    BY <1>0, <1>5 DEF RemediateFails, FinishFailed, history
  <2>. QED BY <2>1, FailOwn
<1>6. CASE Dispatched(w)
  <2> DEFINE applies == At(r, n) /\ run[r].cmd = None
  <2>1. /\ issued' = issued /\ basis' = basis /\ work[w].pc = "record"
        /\ run' = IF applies THEN [run EXCEPT ![r].cmd = work[w].cmd, ![r].late = FALSE] ELSE run
    BY <1>0, <1>6 DEF Dispatched, history
  <2>2. \A q \in Run : (run'[q].cmd = run[q].cmd /\ run'[q].node = run[q].node) \/ RowOwn(q)'
    <3>1. CASE applies
      <4>1. /\ run'[r].cmd = work[w].cmd /\ run'[r].node = n
            /\ \A q \in Run : q # r => run'[q] = run[q]
        BY <1>1, <2>1, <3>1 DEF Row, At
      <4>2. <<0, work[w].cmd, r, n>> \in issued'
        BY <1>0, <1>1, <2>1 DEF HandOwn, Sent
      <4>. QED BY <4>1, <4>2 DEF RowOwn, Sent
    <3>2. CASE ~applies
      BY <2>1, <3>2
    <3>. QED BY <3>1, <3>2
  <2>3. \A u \in Worker : work'[u] = work[u] \/ HandOwn(u)'
    <3>1. CASE ~applies /\ run[r].cmd # None
      <4>1. OnResult(w, r, n, run[r].cmd, results[run[r].cmd])
        BY <1>0, <1>6, <3>1 DEF Dispatched
      <4>2. At(r, n)' => <<0, run[r].cmd, r, n>> \in issued'
        BY <1>1, <1>3, <2>1, <3>1 DEF RowOwn, At, Sent
      <4>. QED BY <1>3, <4>1, <4>2, OnResultHand
    <3>2. CASE ~(~applies /\ run[r].cmd # None)
      BY <1>0, <1>6, <3>2, ReturnHand DEF Dispatched
    <3>. QED BY <3>1, <3>2
  <2>. QED BY <2>1, <2>2, <2>3, OwnKept
<1>7. CASE FinishSucceeded(w)
  <2>1. PICK next \in Edge[n] : AdvanceThenPublish(w, r, n, next)
    BY <1>0, <1>7 DEF FinishSucceeded
  <2>2. /\ issued' = issued /\ work[w].pc = "finish"
        /\ basis' = IF At(r, n) /\ Kind[n] = "script"
                    THEN [basis EXCEPT ![r] = <<Answerer(w), work[w].cmd, r, n>>] ELSE basis
    BY <1>0, <1>7 DEF FinishSucceeded
  <2>3. Answerer(w) = 0
    <3>1. restarts = 0
      BY DEF FlowInv, TypeOK
    <3>. QED BY <1>1, <3>1, EventFields DEF Answerer, State
  <2>4. \A q \in Run : basis'[q] = basis[q] \/ basis'[q] \in issued'
    <3>1. At(r, n) /\ Kind[n] = "script" => <<0, work[w].cmd, r, n>> \in issued
      BY <1>0, <1>1, <2>2 DEF HandOwn, Sent
    <3>2. basis \in [Run -> Dispatch \cup {None}]
      BY DEF FlowInv, TypeOK
    <3>. QED BY <2>2, <2>3, <3>1, <3>2
  <2>5. \A q \in Run : (run'[q].cmd = run[q].cmd /\ run'[q].node = run[q].node) \/ RowOwn(q)'
    BY <2>1, AdvanceRows DEF AdvanceThenPublish, RowOwn
  <2>6. \A u \in Worker : work'[u] = work[u] \/ HandOwn(u)'
    BY <2>1, AdvanceHand
  <2>7. issued \subseteq issued'
    BY <2>2
  <2>. QED BY <2>4, <2>5, <2>6, <2>7, OwnKept
<1>. QED BY <1>4, <1>5, <1>6, <1>7

LEMMA OwnOtherSteps ==
  ASSUME FlowInv, Progress, OwnInv, MaxRestart = 0,
         \/ \E w \in Worker :
              \/ Notify(w) \/ PublishStep(w) \/ HandleCommand(w) \/ CommandUnowned(w) \/ HandlerError(w)
              \/ \E ev \in bus : Deliver(w, ev)
         \/ \E r \in Run : SweepStep(r) \/ NodeTimesOut(r)
         \/ \E c \in Cmd, st \in Final : AgentReports(c, st)
         \/ PublishTrigger \/ OtherDispatch \/ CooldownEnds \/ DeleteFlow \/ Restart
  PROVE  OwnInv'
<1>0. work \in [Worker -> State] /\ run \in [Run -> Row] /\ restarts \in 0 .. MaxRestart
  BY DEF FlowInv, TypeOK
<1>1. ASSUME NEW w \in Worker,
             Notify(w) \/ PublishStep(w) \/ CommandUnowned(w) \/ HandlerError(w) \/ \E ev \in bus : Deliver(w, ev)
      PROVE  OwnInv'
  <2>1. UNCHANGED <<run, issued, basis>>
    BY <1>1 DEF Notify, PublishStep, CommandUnowned, HandlerError, Deliver, rows, history
  <2>2. PICK x : x.pc \notin {"dispatch", "record", "finish"} /\ work' = [work EXCEPT ![w] = x]
    <3>1. CASE PublishStep(w) \/ CommandUnowned(w) \/ HandlerError(w) \/ (Notify(w) /\ Return(w))
      BY <3>1, RestIsSound DEF PublishStep, CommandUnowned, HandlerError, Return
    <3>2. CASE Notify(w) /\ ~Return(w)
      <4> DEFINE x == [work[w] EXCEPT !.pc = "publish", !.node = work[w].res]
      <4>1. work' = [work EXCEPT ![w] = x]
        BY <3>2 DEF Notify, Goto
      <4>2. x.pc = "publish"
        BY <1>0 DEF State
      <4>. HIDE DEF x
      <4>. QED BY <4>1, <4>2
    <3>3. ASSUME NEW ev \in bus, Deliver(w, ev)
          PROVE  \E x : x.pc \notin {"dispatch", "record", "finish"} /\ work' = [work EXCEPT ![w] = x]
      <4> DEFINE x == [Rest EXCEPT !.pc = "start", !.ev = ev]
      <4>1. work' = [work EXCEPT ![w] = x] /\ x.pc = "start"
        BY <3>3 DEF Deliver, Rest
      <4>. HIDE DEF x
      <4>. QED BY <4>1
    <3>. QED BY <1>1, <3>1, <3>2, <3>3
  <2>. QED BY <2>1, <2>2, IdleHand, OwnHands
<1>2. ASSUME NEW w \in Worker, HandleCommand(w)
      PROVE  OwnInv'
  <2>1. UNCHANGED <<run, issued, basis>> /\ work[w].pc = "start" /\ work[w].ev.type = "command"
    BY <1>2 DEF HandleCommand, rows, history, IsCommand
  <2>2. work[w].ev.cmd \in Cmd
    BY <2>1, EventFields DEF FlowInv, HeldSound, SoundState
  <2>3. PICK r \in Owners(work[w].ev.cmd) : OnResult(w, r, run[r].node, work[w].ev.cmd, work[w].ev.res)
    BY <1>2 DEF HandleCommand
  <2>4. r \in Run /\ run[r].status = "running" /\ run[r].cmd = work[w].ev.cmd /\ run[r].cmd # None
    BY <2>2, <2>3, NoneAssumption DEF Owners, Active
  <2>5. PICK n \in Node : n = run[r].node
    BY <2>4 DEF FlowInv, RowSound
  <2>6. Reached(r, n)' /\ <<0, work[w].ev.cmd, r, n>> \in issued'
    BY <2>1, <2>4, <2>5 DEF Reached, At, OwnInv, RowOwn, Sent
  <2>7. \A u \in Worker : work'[u] = work[u] \/ HandOwn(u)'
    BY <2>3, <2>4, <2>5, <2>6, OnResultHand
  <2>. QED BY <2>1, <2>7, OwnHands
<1>3. ASSUME NEW r \in Run, SweepStep(r) \/ NodeTimesOut(r)
      PROVE  OwnInv'
  <2>0. run[r].status = "running" /\ run[r].node \in Node /\ issued' = issued /\ basis' = basis
    BY <1>3 DEF SweepStep, SweepPublish, SweepTimeout, FlowGone, Loads, NodeTimesOut, Active, FlowInv,
                RowSound, history
  <2>1. CASE SweepPublish(r)
    <3>1. run' = run /\ work' = work
      BY <2>1 DEF SweepPublish, rows
    <3>. QED BY <2>0, <3>1, OwnHands
  <2>2. ASSUME NEW w \in Worker, SweepTimeout(w, r)
        PROVE  OwnInv'
    <3>1. CASE UNCHANGED run /\ OnResult(w, r, run[r].node, run[r].cmd, results[run[r].cmd])
      <4>1. run[r].cmd # None
        BY <2>2 DEF SweepTimeout
      <4>2. PICK n \in Node : n = run[r].node
        BY <2>0
      <4>3. Reached(r, n)' /\ <<0, run[r].cmd, r, n>> \in issued'
        BY <2>0, <3>1, <4>1, <4>2 DEF Reached, At, OwnInv, RowOwn, Sent
      <4>4. \A u \in Worker : work'[u] = work[u] \/ HandOwn(u)'
        BY <3>1, <4>2, <4>3, OnResultHand
      <4>. QED BY <2>0, <3>1, <4>4, OwnHands
    <3>2. CASE FailThenNotify(w, r, run[r].node, "timeout")
      BY <2>0, <3>2, FailOwn
    <3>. QED BY <2>2, <3>1, <3>2 DEF SweepTimeout
  <2>3. ASSUME NEW w \in Worker, FlowGone(w, r)
        PROVE  OwnInv'
    <3>1. FailThenNotify(w, r, run[r].node, "failed")
      BY <2>3 DEF FlowGone
    <3>. QED BY <2>0, <3>1, FailOwn
  <2>4. CASE NodeTimesOut(r)
    <3>1. work' = work /\ \A q \in Run : run'[q].cmd = run[q].cmd /\ run'[q].node = run[q].node
      BY <1>0, <2>4 DEF NodeTimesOut, Row
    <3>. QED BY <2>0, <3>1, OwnHands
  <2>. QED BY <1>3, <2>1, <2>2, <2>3, <2>4 DEF SweepStep
<1>4. ASSUME UNCHANGED <<run, work, issued, basis>>
      PROVE  OwnInv'
  BY <1>4, OwnHands
<1>5. ASSUME NEW c \in Cmd, NEW st \in Final, AgentReports(c, st)
      PROVE  OwnInv'
  BY <1>4, <1>5 DEF AgentReports, rows, history
<1>6. CASE PublishTrigger \/ OtherDispatch \/ CooldownEnds \/ DeleteFlow
  BY <1>4, <1>6 DEF PublishTrigger, OtherDispatch, CooldownEnds, DeleteFlow, rows, history
<1>7. ~Restart
  BY <1>0 DEF Restart
<1>. QED BY <1>1, <1>2, <1>3, <1>5, <1>6, <1>7

-----------------------------------------------------------------------------
(* Theorems.                                                               *)

\* The types of the rows, the events, the handlers and the dispatcher.
THEOREM TypeCorrect == Spec => []TypeOK
<1>1. FlowInv => TypeOK
  BY DEF FlowInv
<1>. QED BY <1>1, InvHolds, PTL

\* stepNotify and notifyFail: redelivered events, racing handlers and restarts
\* never notify twice for one node of one run.
THEOREM NotifiesOnce == Spec => []NotifiedOnce
<1>1. FlowInv => NotifiedOnce
  BY DEF FlowInv, NotesSound, NotifiedOnce
<1>. QED BY <1>1, InvHolds, PTL

\* Whatever stale or repeated events race, a run moves along an edge of its
\* graph, and a finished run never changes (AdvanceTo, FailRun, Dispatched).
THEOREM HopsAreEdges == Spec => HopsFollowGraph
<1>1. FlowInv /\ [Next]_vars =>
        [\A r \in Run :
           /\ run[r].status = "running" /\ run'[r].node # run[r].node
                => run'[r].node \in Edge[run[r].node]
           /\ run[r].status \in {"succeeded", "failed", "timeout"}
                => run'[r] = run[r]]_vars
  BY NextInv DEF Progress
<1>. QED BY <1>1, InvHolds, PTL DEF Spec, HopsFollowGraph

\* handleCommand, finishScript: as long as the server does not restart, a
\* script node is only left on the success of a command dispatched for it.
THEOREM AdvancesOnOwnResult ==
  ASSUME MaxRestart = 0
  PROVE  Spec => []OwnResult
<1>1. Init => OwnInv
  BY RestIsSound DEF Init, OwnInv, RowOwn, HandOwn, OwnResult, NoRun
<1>2. FlowInv /\ [Next]_vars /\ OwnInv => OwnInv'
  <2>1. ASSUME FlowInv, Next, OwnInv
        PROVE  OwnInv'
    <3>1. Progress
      BY <2>1, NextInv
    <3>. QED BY <2>1, <3>1, OwnEventSteps, OwnScriptSteps, OwnOtherSteps DEF Next, HandlerStep
  <2>2. ASSUME FlowInv, UNCHANGED vars, OwnInv
        PROVE  OwnInv'
    <3>1. Progress /\ UNCHANGED <<run, work, issued, basis>>
      BY <2>2, NextInv DEF vars, rows, history
    <3>. QED BY <2>2, <3>1, OwnHands
  <2>. QED BY <2>1, <2>2
<1>3. OwnInv => OwnResult
  BY DEF OwnInv
<1>. QED BY <1>1, <1>2, <1>3, InvHolds, PTL DEF Spec

-----------------------------------------------------------------------------
(* Numbers and finite sets.                                                *)

LEMMA LeastNat ==
  ASSUME NEW S, S \subseteq Nat, S # {}
  PROVE  \E n \in S : \A m \in S : n <= m
<1>1. PICK n \in S : \A m \in S : ~(<<m, n>> \in OpToRel(<, Nat))
  BY NatLessThanWellFounded, WFMin, Zenon
<1>2. \A m \in S : m < n => <<m, n>> \in OpToRel(<, Nat)
  <2>. SUFFICES ASSUME NEW m \in S, m < n
       PROVE  <<m, n>> \in {ss \in Nat \X Nat : ss[1] < ss[2]}
    BY Zenon DEF OpToRel
  <2>. QED OBVIOUS
<1>3. \A m \in S : ~(m < n)
  BY <1>1, <1>2, Zenon
<1>. QED BY <1>3

\* The first of two digits decides.
LEMMA FirstDigit ==
  ASSUME NEW a \in Nat, NEW b \in Nat, NEW x \in Nat, NEW y \in Nat, NEW k \in Nat, a < b, x < k
  PROVE  a * k + x < b * k + y
<1>1. PICK d \in Nat : b = a + 1 + d
  <2>. b - a - 1 \in Nat /\ b = a + 1 + (b - a - 1)
    OBVIOUS
  <2>. QED OBVIOUS
<1>2. b * k = a * k + k + d * k
  BY <1>1
<1>3. a * k \in Nat /\ d * k \in Nat
  OBVIOUS
<1>4. b * k \in Nat
  OBVIOUS
<1>. HIDE <1>1
<1>. QED BY <1>2, <1>3, <1>4

-----------------------------------------------------------------------------
(* The ids of a graph.                                                     *)

LEMMA Interval ==
  ASSUME NEW n \in Nat
  PROVE  IsFiniteSet(1..n) /\ Cardinality(1..n) = n
<1>1. 1 \in Int /\ n \in Int
  OBVIOUS
<1>2. IsFiniteSet(1..n) /\ Cardinality(1..n) = IF 1 > n THEN 0 ELSE n - 1 + 1
  BY ONLY <1>1, FS_Interval, Zenon
<1>. QED BY <1>2

LEMMA IdsFinite ==
  ASSUME NEW g \in Seq(Vertex)
  PROVE  /\ IsFiniteSet(SeenIds(g)) /\ Cardinality(SeenIds(g)) \in Nat
         /\ Cardinality(SeenIds(g)) <= Len(g) /\ SeenIds(g) \subseteq Targets
<1>1. Len(g) \in Nat /\ DOMAIN g = 1..Len(g) /\ \A i \in DOMAIN g : g[i] \in Vertex
  BY LenProperties, ElementOfSeq
<1>2. IsFiniteSet(1..Len(g)) /\ Cardinality(1..Len(g)) = Len(g)
  BY <1>1, Interval, Zenon
<1>. DEFINE f == [i \in 1..Len(g) |-> g[i].id]
<1>3. f \in Surjection(1..Len(g), SeenIds(g))
  BY <1>1 DEF Surjection, SeenIds
<1>4. IsFiniteSet(SeenIds(g)) /\ Cardinality(SeenIds(g)) <= Cardinality(1..Len(g))
  BY <1>2, <1>3, FS_Surjection, Zenon
<1>5. SeenIds(g) \subseteq Targets
  BY <1>1 DEF SeenIds, Vertex
<1>. QED BY <1>2, <1>4, <1>5, FS_CardinalityType

Fine(g) == g \in Seq(Vertex) /\ g # <<>> /\ IdsAreUnique(g) /\ NodesAreFine(g)

\* Two nodes of a graph have different ids.
LEMMA IdsDiffer ==
  ASSUME NEW g, Fine(g), NEW i \in DOMAIN g, NEW j \in DOMAIN g, g[i].id = g[j].id
  PROVE  i = j
<1>1. Len(g) \in Nat /\ DOMAIN g = 1..Len(g)
  BY LenProperties DEF Fine
<1>2. IsFiniteSet(1..Len(g)) /\ Cardinality(1..Len(g)) = Len(g)
  BY <1>1, Interval, Zenon
<1>. DEFINE f == [k \in 1..Len(g) |-> g[k].id]
<1>3. f \in Surjection(1..Len(g), SeenIds(g))
  BY <1>1 DEF Surjection, SeenIds
<1>4. Cardinality(1..Len(g)) = Cardinality(SeenIds(g))
  BY <1>2 DEF Fine, IdsAreUnique
<1>5. f \in Injection(1..Len(g), SeenIds(g))
  BY <1>2, <1>3, <1>4, FS_SurjSameCardinalityImpliesInj, Zenon
<1>. QED BY <1>1, <1>5 DEF Injection, IsInjective

\* Of the places that pass a test, the first; 0 when none does.
LEMMA FirstPlace ==
  ASSUME NEW I, I \subseteq Nat
  PROVE  I # {} => Min(I) \in I
<1>. SUFFICES ASSUME I # {} PROVE Min(I) \in I
  OBVIOUS
<1>1. \E x \in I : \A y \in I : x <= y
  BY LeastNat
<1>. QED BY <1>1 DEF Min

LEMMA NodeFound ==
  ASSUME NEW g \in Seq(Vertex), NEW t
  PROVE  IF t \in SeenIds(g) THEN NodeOf(g, t) \in DOMAIN g /\ g[NodeOf(g, t)].id = t
                             ELSE NodeOf(g, t) = 0
<1>. DEFINE I == {i \in 1..Len(g) : g[i].id = t}
<1>1. NodeOf(g, t) = IF I # {} THEN Min(I) ELSE 0
  BY DEF NodeOf, SelectInSeq
<1>2. DOMAIN g = 1..Len(g) /\ Len(g) \in Nat
  BY LenProperties
<1>3. t \in SeenIds(g) <=> I # {}
  BY <1>2 DEF SeenIds
<1>4. I \subseteq Nat
  BY <1>2
<1>5. I # {} => Min(I) \in I
  BY <1>4, FirstPlace, Zenon
<1>. QED BY <1>1, <1>2, <1>3, <1>5

LEMMA TriggerFound ==
  ASSUME NEW g \in Seq(Vertex)
  PROVE  IF \E i \in DOMAIN g : g[i].kind = "trigger"
         THEN TriggerOf(g) \in DOMAIN g /\ g[TriggerOf(g)].kind = "trigger"
         ELSE TriggerOf(g) = 0
<1>. DEFINE I == {i \in 1..Len(g) : g[i].kind = "trigger"}
<1>1. TriggerOf(g) = IF I # {} THEN Min(I) ELSE 0
  BY DEF TriggerOf, SelectInSeq
<1>2. DOMAIN g = 1..Len(g) /\ Len(g) \in Nat
  BY LenProperties
<1>3. (\E i \in DOMAIN g : g[i].kind = "trigger") <=> I # {}
  BY <1>2
<1>4. I \subseteq Nat
  BY <1>2
<1>5. I # {} => Min(I) \in I
  BY <1>4, FirstPlace, Zenon
<1>. QED BY <1>1, <1>2, <1>3, <1>5

-----------------------------------------------------------------------------
(* Edges.                                                                  *)

Out(g, t) == OutEdges(g[NodeOf(g, t)]) \ {Nowhere}

LEMMA OutIsEdges ==
  ASSUME NEW g, Fine(g)
  PROVE  /\ \A t \in SeenIds(g) : Out(g, t) \subseteq SeenIds(g)
         /\ \A e \in Edges(g) : e[1] \in SeenIds(g) /\ e[2] \in Out(g, e[1])
         /\ \A t \in SeenIds(g) : \A s \in Out(g, t) : <<t, s>> \in Edges(g)
<1>. g \in Seq(Vertex)
  BY DEF Fine
<1>1. ASSUME NEW t \in SeenIds(g)
      PROVE  NodeOf(g, t) \in DOMAIN g /\ g[NodeOf(g, t)].id = t
  BY NodeFound
<1>2. ASSUME NEW t \in SeenIds(g) PROVE Out(g, t) \subseteq SeenIds(g)
  BY <1>1 DEF Out, Fine, NodesAreFine
<1>3. ASSUME NEW e \in Edges(g) PROVE e[1] \in SeenIds(g) /\ e[2] \in Out(g, e[1])
  <2>1. PICK i \in DOMAIN g : \E t \in OutEdges(g[i]) \ {Nowhere} : e = <<g[i].id, t>>
    BY DEF Edges
  <2>2. e[1] \in SeenIds(g) /\ e[1] = g[i].id
    BY <2>1 DEF SeenIds
  <2>3. NodeOf(g, e[1]) = i
    BY <1>1, <2>2, IdsDiffer
  <2>. QED BY <2>1, <2>2, <2>3 DEF Out
<1>4. ASSUME NEW t \in SeenIds(g), NEW s \in Out(g, t) PROVE <<t, s>> \in Edges(g)
  BY <1>1 DEF Out, Edges
<1>. QED BY <1>2, <1>3, <1>4

-----------------------------------------------------------------------------
(* The search is a recursive function.  It is defined because what it asks *)
(* of itself is smaller: fewer nodes off the path or, on the same path,    *)
(* fewer targets left.                                                     *)

Res(g) == [cycle : BOOLEAN, black : SUBSET SeenIds(g)]

Size(g, c) == Cardinality(SeenIds(g) \ c.grey) * (Len(g) + 1) + Cardinality(c.targets)

LEMMA SizeType ==
  ASSUME NEW g, Fine(g), NEW c \in Calls(g)
  PROVE  Size(g, c) \in Nat /\ Size(g, c) < (Len(g) + 1) * (Len(g) + 1)
<1>. DEFINE a == Cardinality(SeenIds(g) \ c.grey)
            b == Cardinality(c.targets)
            k == Len(g) + 1
<1>1. g \in Seq(Vertex) /\ Len(g) \in Nat
  BY LenProperties DEF Fine
<1>2. IsFiniteSet(SeenIds(g)) /\ Cardinality(SeenIds(g)) \in Nat /\ Cardinality(SeenIds(g)) <= Len(g)
  BY <1>1, IdsFinite
<1>3. c.targets \subseteq SeenIds(g) /\ SeenIds(g) \ c.grey \subseteq SeenIds(g)
  BY DEF Calls
<1>4. a \in Nat /\ a <= Cardinality(SeenIds(g)) /\ b \in Nat /\ b <= Cardinality(SeenIds(g))
  BY <1>2, <1>3, FS_Subset, FS_CardinalityType, Zenon
<1>. HIDE DEF a, b
<1>5. a * k + b < k * k + 0
  BY <1>1, <1>2, <1>4, FirstDigit
<1>6. k * k + 0 = k * k /\ a * k + b \in Nat
  BY <1>1, <1>4
<1>. QED BY <1>5, <1>6 DEF Size, a, b

\* To enter a node that is not on the path is a smaller call.
LEMMA EnterSmaller ==
  ASSUME NEW g, Fine(g), NEW c \in Calls(g), NEW t \in c.targets, t \notin c.grey
  PROVE  /\ Enter(g, t, c) \in Calls(g)
         /\ Size(g, Enter(g, t, c)) < Size(g, c)
<1>1. g \in Seq(Vertex) /\ Len(g) \in Nat
  BY LenProperties DEF Fine
<1>2. IsFiniteSet(SeenIds(g)) /\ Cardinality(SeenIds(g)) \in Nat /\ Cardinality(SeenIds(g)) <= Len(g)
  BY <1>1, IdsFinite
<1>3. t \in SeenIds(g) /\ c.targets \subseteq SeenIds(g) /\ c.grey \subseteq SeenIds(g) /\ c.black \subseteq SeenIds(g)
  BY DEF Calls
<1>4. Out(g, t) \subseteq SeenIds(g)
  BY <1>3, OutIsEdges
<1>5. Enter(g, t, c) \in Calls(g)
  BY <1>3, <1>4 DEF Enter, Out, Calls
<1>. DEFINE W == SeenIds(g) \ c.grey
            V == SeenIds(g) \ (c.grey \cup {t})
<1>6. IsFiniteSet(W) /\ t \in W /\ V = W \ {t}
  BY <1>2, <1>3, FS_Subset
<1>. HIDE DEF W, V
<1>7. Cardinality(V) = Cardinality(W) - 1 /\ Cardinality(W) \in Nat /\ Cardinality(V) \in Nat
  BY <1>6, FS_RemoveElement, FS_CardinalityType
<1>8. Cardinality(Out(g, t)) \in Nat /\ Cardinality(Out(g, t)) <= Cardinality(SeenIds(g))
  BY <1>2, <1>4, FS_Subset, FS_CardinalityType, Zenon
<1>9. Cardinality(c.targets) \in Nat
  BY <1>2, <1>3, FS_Subset, FS_CardinalityType, Zenon
<1>10. Cardinality(V) * (Len(g) + 1) + Cardinality(Out(g, t))
         < Cardinality(W) * (Len(g) + 1) + Cardinality(c.targets)
  <2>. DEFINE v == Cardinality(V) w == Cardinality(W) x == Cardinality(Out(g, t)) k == Len(g) + 1
  <2>1. v \in Nat /\ w \in Nat /\ v < w /\ x \in Nat /\ x < k /\ k \in Nat
    BY <1>1, <1>2, <1>7, <1>8
  <2>. QED BY <2>1, <1>9, FirstDigit
<1>. QED BY <1>5, <1>10 DEF Size, Enter, Out, W, V

\* So is to go on with one target less.
LEMMA LeaveSmaller ==
  ASSUME NEW g, Fine(g), NEW c \in Calls(g), NEW t \in c.targets, NEW B \in SUBSET SeenIds(g)
  PROVE  /\ Leave(t, c, B) \in Calls(g)
         /\ Size(g, Leave(t, c, B)) < Size(g, c)
<1>1. g \in Seq(Vertex) /\ Len(g) \in Nat
  BY LenProperties DEF Fine
<1>2. IsFiniteSet(SeenIds(g))
  BY <1>1, IdsFinite
<1>3. c.targets \subseteq SeenIds(g) /\ c.grey \subseteq SeenIds(g)
  BY DEF Calls
<1>4. Leave(t, c, B) \in Calls(g)
  BY <1>3 DEF Leave, Calls
<1>5. IsFiniteSet(c.targets) /\ IsFiniteSet(SeenIds(g) \ c.grey)
  BY <1>2, <1>3, FS_Subset
<1>6. /\ Cardinality(c.targets \ {t}) = Cardinality(c.targets) - 1
      /\ Cardinality(c.targets) \in Nat /\ Cardinality(c.targets \ {t}) \in Nat
  BY <1>5, FS_RemoveElement, FS_CardinalityType
<1>7. Cardinality(SeenIds(g) \ c.grey) * (Len(g) + 1) \in Nat
  BY <1>1, <1>5, FS_CardinalityType
<1>. QED BY <1>4, <1>6, <1>7 DEF Size, Leave

\* What a call answers depends on smaller calls only, and is an answer.
LEMMA VisitAllLocal ==
  ASSUME NEW g, Fine(g), NEW f \in [Calls(g) -> Res(g)], NEW c \in Calls(g)
  PROVE  /\ VisitAll(g, f, c) \in Res(g)
         /\ \A h : (\A d \in Calls(g) : Size(g, d) < Size(g, c) => h[d] = f[d])
                    => VisitAll(g, h, c) = VisitAll(g, f, c)
<1>1. CASE c.targets = {}
  BY <1>1 DEF VisitAll, Found, Res, Calls
<1>2. CASE c.targets # {}
  <2>. DEFINE t == CHOOSE x \in c.targets : TRUE
              Sub(h) == IF t \in c.grey THEN Found(TRUE, c.black)
                        ELSE IF t \in c.black THEN Found(FALSE, c.black) ELSE h[Enter(g, t, c)]
  <2>1. t \in c.targets
    BY <1>2
  <2>2. ASSUME NEW h PROVE VisitAll(g, h, c) = IF Sub(h).cycle THEN Sub(h) ELSE h[Leave(t, c, Sub(h).black)]
    BY <1>2, Zenon DEF VisitAll
  <2>. HIDE DEF t
  <2>3. t \in SeenIds(g) /\ c.black \in SUBSET SeenIds(g)
    BY <2>1 DEF Calls
  <2>4. t \notin c.grey => Enter(g, t, c) \in Calls(g) /\ Size(g, Enter(g, t, c)) < Size(g, c)
    BY <2>1, EnterSmaller
  <2>5. Sub(f) \in Res(g)
    BY <2>3, <2>4 DEF Found, Res
  <2>6. Leave(t, c, Sub(f).black) \in Calls(g) /\ Size(g, Leave(t, c, Sub(f).black)) < Size(g, c)
    BY <2>1, <2>5, LeaveSmaller DEF Res
  <2>7. VisitAll(g, f, c) \in Res(g)
    BY <2>2, <2>5, <2>6
  <2>8. ASSUME NEW h, \A d \in Calls(g) : Size(g, d) < Size(g, c) => h[d] = f[d]
        PROVE  VisitAll(g, h, c) = VisitAll(g, f, c)
    <3>1. Sub(h) = Sub(f)
      BY <2>4, <2>8
    <3>2. h[Leave(t, c, Sub(f).black)] = f[Leave(t, c, Sub(f).black)]
      BY <2>6, <2>8
    <3>. HIDE DEF Sub
    <3>. QED BY <2>2, <3>1, <3>2
  <2>. QED BY <2>7, <2>8
<1>. QED BY <1>1, <1>2

\* Of the calls in a set there is a smallest one.
LEMMA SmallestCall ==
  ASSUME NEW g, Fine(g), NEW S, S \subseteq Calls(g), S # {}
  PROVE  \E c \in S : \A d \in Calls(g) : Size(g, d) < Size(g, c) => d \notin S
<1>. DEFINE N == {Size(g, c) : c \in S}
<1>1. N \subseteq Nat /\ N # {}
  <2>1. \A c \in S : Size(g, c) \in Nat
    BY SizeType
  <2>. QED BY <2>1
<1>2. PICK n \in N : \A m \in N : n <= m
  BY <1>1, LeastNat
<1>3. PICK c \in S : Size(g, c) = n
  BY <1>2
<1>4. ASSUME NEW d \in Calls(g), Size(g, d) < Size(g, c), d \in S PROVE FALSE
  <2>1. n <= Size(g, d)
    BY <1>2, <1>4
  <2>. QED BY <1>3, <1>4, <2>1, SizeType
<1>. QED BY <1>3, <1>4

LEMMA SearchIsDefined ==
  ASSUME NEW g, Fine(g)
  PROVE  \E f \in [Calls(g) -> Res(g)] : \A c \in Calls(g) : f[c] = VisitAll(g, f, c)
<1>. DEFINE Good(n) == \E f \in [Calls(g) -> Res(g)] :
                         \A c \in Calls(g) : Size(g, c) < n => f[c] = VisitAll(g, f, c)
            Limit == (Len(g) + 1) * (Len(g) + 1)
<1>1. Limit \in Nat
  BY LenProperties DEF Fine
<1>2. Good(0)
  <2>1. [c \in Calls(g) |-> Found(FALSE, {})] \in [Calls(g) -> Res(g)]
    BY DEF Found, Res
  <2>2. \A c \in Calls(g) : ~(Size(g, c) < 0)
    BY SizeType
  <2>. QED BY <2>1, <2>2
<1>3. ASSUME NEW n \in Nat, Good(n) PROVE Good(n + 1)
  <2>1. PICK f \in [Calls(g) -> Res(g)] : \A c \in Calls(g) : Size(g, c) < n => f[c] = VisitAll(g, f, c)
    BY <1>3
  <2>. DEFINE h == [c \in Calls(g) |-> VisitAll(g, f, c)]
  <2>2. h \in [Calls(g) -> Res(g)]
    BY VisitAllLocal
  <2>3. ASSUME NEW c \in Calls(g), Size(g, c) < n + 1 PROVE h[c] = VisitAll(g, h, c)
    <3>1. ASSUME NEW d \in Calls(g), Size(g, d) < Size(g, c) PROVE h[d] = f[d]
      <4>1. Size(g, d) < n
        BY <2>3, <3>1, SizeType
      <4>. QED BY <2>1, <4>1
    <3>2. VisitAll(g, h, c) = VisitAll(g, f, c)
      BY <2>2, <3>1, VisitAllLocal
    <3>. QED BY <3>2
  <2>. HIDE DEF h
  <2>. QED BY <2>2, <2>3
<1>. HIDE DEF Good
<1>4. \A n \in Nat : Good(n)
  <2>. DEFINE Bad == {n \in Nat : ~Good(n)}
  <2>. SUFFICES ASSUME Bad # {} PROVE FALSE
    OBVIOUS
  <2>1. PICK n \in Bad : \A m \in Bad : n <= m
    BY LeastNat
  <2>2. n # 0
    BY <1>2
  <2>3. n - 1 \in Nat /\ ~(n <= n - 1)
    BY <2>2
  <2>4. Good(n - 1)
    BY <2>1, <2>3
  <2>5. Good((n - 1) + 1)
    BY <1>3, <2>3, <2>4
  <2>6. (n - 1) + 1 = n
    OBVIOUS
  <2>. QED BY <2>5, <2>6
<1>5. Good(Limit)
  BY <1>1, <1>4
<1>. QED BY <1>5, SizeType DEF Good

\* The search answers what visit computes from its own answers.
LEMMA SearchUnfolds ==
  ASSUME NEW g, Fine(g)
  PROVE  /\ Search(g) \in [Calls(g) -> Res(g)]
         /\ \A c \in Calls(g) : Search(g)[c] = VisitAll(g, Search(g), c)
<1>1. PICK f \in [Calls(g) -> Res(g)] : \A c \in Calls(g) : f[c] = VisitAll(g, f, c)
  BY SearchIsDefined
<1>2. f = [c \in Calls(g) |-> VisitAll(g, f, c)]
  <2>1. f = [c \in Calls(g) |-> f[c]]
    OBVIOUS
  <2>. QED BY <1>1, <2>1, Zenon
<1>3. Search(g) = CHOOSE h : h = [c \in Calls(g) |-> VisitAll(g, h, c)]
  BY Zenon DEF Search
<1>4. Search(g) = [c \in Calls(g) |-> VisitAll(g, Search(g), c)]
  BY <1>2, <1>3, Zenon
<1>5. \A c \in Calls(g) : Search(g)[c] = VisitAll(g, Search(g), c)
  BY <1>4, Zenon
<1>6. \A c \in Calls(g) : Search(g)[c] = f[c]
  <2>. DEFINE S == {c \in Calls(g) : Search(g)[c] # f[c]}
  <2>. SUFFICES ASSUME S # {} PROVE FALSE
    OBVIOUS
  <2>1. PICK c \in S : \A d \in Calls(g) : Size(g, d) < Size(g, c) => d \notin S
    BY SmallestCall, Zenon
  <2>2. \A d \in Calls(g) : Size(g, d) < Size(g, c) => Search(g)[d] = f[d]
    BY <2>1
  <2>3. VisitAll(g, Search(g), c) = VisitAll(g, f, c)
    BY <2>2, VisitAllLocal, Zenon
  <2>. QED BY <1>1, <1>5, <2>1, <2>3
<1>7. Search(g) = [c \in Calls(g) |-> Search(g)[c]]
  BY <1>4, Zenon
<1>8. Search(g) \in [Calls(g) -> Res(g)]
  BY <1>6, <1>7
<1>. QED BY <1>5, <1>8

-----------------------------------------------------------------------------
(* What the search finds.                                                  *)

\* No edge leads out of B.
Closed(g, B) == \A t \in B : Out(g, t) \subseteq B

\* The nodes of B can be numbered against the edges.
Numbered(g, B) ==
  \E rank \in [B -> 1..Cardinality(B)] : \A t \in B : \A s \in Out(g, t) : rank[s] < rank[t]

Black(g, B) == B \subseteq SeenIds(g) /\ Closed(g, B) /\ Numbered(g, B)

\* A node whose targets are black may be blackened.
LEMMA Blacken ==
  ASSUME NEW g, Fine(g), NEW B, Black(g, B), NEW t \in SeenIds(g), t \notin B, Out(g, t) \subseteq B
  PROVE  Black(g, B \cup {t})
<1>. DEFINE C == B \cup {t}
<1>1. IsFiniteSet(SeenIds(g))
  BY IdsFinite DEF Fine
<1>2. IsFiniteSet(B) /\ Cardinality(B) \in Nat
  BY <1>1, FS_Subset, FS_CardinalityType DEF Black
<1>3. Cardinality(C) = Cardinality(B) + 1
  BY <1>2, FS_AddElement
<1>. HIDE DEF C
<1>4. C = B \cup {t}
  BY DEF C
<1>5. PICK rank \in [B -> 1..Cardinality(B)] : \A x \in B : \A s \in Out(g, x) : rank[s] < rank[x]
  BY DEF Black, Numbered
<1>. DEFINE new == [x \in C |-> IF x = t THEN Cardinality(B) + 1 ELSE rank[x]]
<1>6. new \in [C -> 1..Cardinality(C)]
  BY <1>2, <1>3, <1>4, <1>5
<1>7. \A x \in B : Out(g, x) \subseteq B
  BY DEF Black, Closed
<1>8. ASSUME NEW x \in C, NEW s \in Out(g, x) PROVE new[s] < new[x]
  <2>1. s \in B /\ s # t /\ s \in C
    BY <1>4, <1>7
  <2>2. new[s] = rank[s] /\ rank[s] \in 1..Cardinality(B)
    BY <1>5, <2>1
  <2>3. CASE x = t
    BY <1>2, <1>4, <2>2, <2>3
  <2>4. CASE x # t
    BY <1>4, <1>5, <2>2, <2>4
  <2>. QED BY <2>3, <2>4
<1>9. Numbered(g, C)
  BY <1>6, <1>8 DEF Numbered
<1>. QED BY <1>4, <1>7, <1>9 DEF Black, Closed

\* What a call that found no cycle has done.
Finished(g, c, black) ==
  /\ Black(g, black) /\ black \cap c.grey = {} /\ c.targets \cup c.black \subseteq black
  /\ \A X \in SUBSET SeenIds(g) : Closed(g, X) /\ c.targets \cup c.black \subseteq X => black \subseteq X

Finishes(g, c) ==
  Black(g, c.black) /\ c.black \cap c.grey = {} /\ ~Search(g)[c].cycle => Finished(g, c, Search(g)[c].black)

LEMMA CallFinishes ==
  ASSUME NEW g, Fine(g), NEW c \in Calls(g),
         \A d \in Calls(g) : Size(g, d) < Size(g, c) => Finishes(g, d)
  PROVE  Finishes(g, c)
<1>. DEFINE r == Search(g)[c]
<1>. SUFFICES ASSUME Black(g, c.black), c.black \cap c.grey = {}, ~r.cycle
     PROVE  Finished(g, c, r.black)
  BY DEF Finishes
<1>1. r = VisitAll(g, Search(g), c)
  BY SearchUnfolds
<1>2. CASE c.targets = {}
  <2>1. r.black = c.black
    BY <1>1, <1>2 DEF VisitAll, Found
  <2>. QED BY <1>2, <2>1 DEF Finished
<1>3. CASE c.targets # {}
  <2>. DEFINE t == CHOOSE x \in c.targets : TRUE
              sub == IF t \in c.grey THEN Found(TRUE, c.black)
                     ELSE IF t \in c.black THEN Found(FALSE, c.black) ELSE Search(g)[Enter(g, t, c)]
              next == Leave(t, c, sub.black)
              into == Enter(g, t, c)
  <2>1. t \in c.targets
    BY <1>3
  <2>2. r = IF sub.cycle THEN sub ELSE Search(g)[next]
    BY <1>1, <1>3, Zenon DEF VisitAll
  <2>. HIDE DEF t
  <2>3. t \in SeenIds(g) /\ c.black \subseteq SeenIds(g)
    BY <2>1 DEF Calls
  <2>4. ~sub.cycle /\ r = Search(g)[next] /\ t \notin c.grey
    BY <2>2 DEF Found
  <2>5. /\ sub.black \subseteq SeenIds(g) /\ Black(g, sub.black \cup {t})
        /\ (sub.black \cup {t}) \cap c.grey = {} /\ c.black \subseteq sub.black
        /\ \A X \in SUBSET SeenIds(g) : Closed(g, X) /\ c.targets \cup c.black \subseteq X
                                        => sub.black \cup {t} \subseteq X
    <3>1. CASE t \in c.black
      <4>1. sub.black = c.black /\ sub.black \cup {t} = c.black
        BY <2>4, <3>1 DEF Found
      <4>. QED BY <2>3, <4>1
    <3>2. CASE t \notin c.black
      <4>1. sub = Search(g)[into]
        BY <2>4, <3>2
      <4>2. into \in Calls(g) /\ Size(g, into) < Size(g, c)
        BY <2>1, <2>4, EnterSmaller
      <4>3. into.targets = Out(g, t) /\ into.grey = c.grey \cup {t} /\ into.black = c.black
        BY DEF Enter, Out
      <4>4. Finished(g, into, sub.black)
        BY <2>4, <3>2, <4>1, <4>2, <4>3 DEF Finishes
      <4>. HIDE DEF sub, into
      <4>5. /\ Black(g, sub.black) /\ t \notin sub.black /\ sub.black \cap c.grey = {}
            /\ Out(g, t) \subseteq sub.black /\ c.black \subseteq sub.black
        BY <4>3, <4>4 DEF Finished
      <4>6. Black(g, sub.black \cup {t})
        BY <2>3, <4>5, Blacken
      <4>7. ASSUME NEW X \in SUBSET SeenIds(g), Closed(g, X), c.targets \cup c.black \subseteq X
            PROVE  sub.black \cup {t} \subseteq X
        <5>1. t \in X /\ Out(g, t) \subseteq X
          BY <2>1, <4>7 DEF Closed
        <5>. QED BY <4>3, <4>4, <4>7, <5>1 DEF Finished
      <4>8. sub.black \subseteq SeenIds(g)
        BY <4>5 DEF Black
      <4>. QED BY <2>4, <4>5, <4>6, <4>7, <4>8
    <3>. QED BY <3>1, <3>2
  <2>. HIDE DEF sub
  <2>6. next \in Calls(g) /\ Size(g, next) < Size(g, c)
    BY <2>1, <2>5, LeaveSmaller
  <2>7. next.targets = c.targets \ {t} /\ next.grey = c.grey /\ next.black = sub.black \cup {t}
    BY DEF Leave
  <2>. HIDE DEF next
  <2>8. Finished(g, next, r.black)
    BY <2>4, <2>5, <2>6, <2>7 DEF Finishes
  <2>9. Black(g, r.black) /\ r.black \cap c.grey = {} /\ c.targets \cup c.black \subseteq r.black
    BY <2>5, <2>7, <2>8 DEF Finished
  <2>10. ASSUME NEW X \in SUBSET SeenIds(g), Closed(g, X), c.targets \cup c.black \subseteq X
         PROVE  r.black \subseteq X
    BY <2>5, <2>7, <2>8, <2>10 DEF Finished
  <2>. QED BY <2>9, <2>10 DEF Finished
<1>. QED BY <1>2, <1>3

\* The targets' descendants, and no others, turn black.
LEMMA SearchFinishes ==
  ASSUME NEW g, Fine(g), NEW c \in Calls(g)
  PROVE  Finishes(g, c)
<1>. DEFINE S == {d \in Calls(g) : ~Finishes(g, d)}
<1>. SUFFICES ASSUME S # {} PROVE FALSE
  OBVIOUS
<1>1. PICK d \in S : \A e \in Calls(g) : Size(g, e) < Size(g, d) => e \notin S
  BY SmallestCall, Zenon
<1>2. \A e \in Calls(g) : Size(g, e) < Size(g, d) => Finishes(g, e)
  BY <1>1
<1>. QED BY <1>1, <1>2, CallFinishes

\* A numbering along the edges.
Ascends(g, rank) ==
  /\ rank \in [SeenIds(g) -> Int]
  /\ \A t \in SeenIds(g) : \A s \in Out(g, t) : rank[t] < rank[s]

\* While the path leads up to the targets, no target is on the path.
Clear(g, rank, c) == (\A x \in c.grey : \A t \in c.targets : rank[x] < rank[t]) => ~Search(g)[c].cycle

LEMMA CallClear ==
  ASSUME NEW g, Fine(g), NEW rank, Ascends(g, rank), NEW c \in Calls(g),
         \A d \in Calls(g) : Size(g, d) < Size(g, c) => Clear(g, rank, d)
  PROVE  Clear(g, rank, c)
<1>. DEFINE r == Search(g)[c]
<1>. SUFFICES ASSUME \A x \in c.grey : \A t \in c.targets : rank[x] < rank[t]
     PROVE  ~r.cycle
  BY DEF Clear
<1>1. r = VisitAll(g, Search(g), c)
  BY SearchUnfolds
<1>2. CASE c.targets = {}
  BY <1>1, <1>2 DEF VisitAll, Found
<1>3. CASE c.targets # {}
  <2>. DEFINE t == CHOOSE x \in c.targets : TRUE
              sub == IF t \in c.grey THEN Found(TRUE, c.black)
                     ELSE IF t \in c.black THEN Found(FALSE, c.black) ELSE Search(g)[Enter(g, t, c)]
              next == Leave(t, c, sub.black)
              into == Enter(g, t, c)
  <2>1. t \in c.targets
    BY <1>3
  <2>2. r = IF sub.cycle THEN sub ELSE Search(g)[next]
    BY <1>1, <1>3, Zenon DEF VisitAll
  <2>. HIDE DEF t
  <2>3. t \in SeenIds(g) /\ c.grey \subseteq SeenIds(g) /\ c.black \in SUBSET SeenIds(g)
    BY <2>1 DEF Calls
  <2>4. t \notin c.grey
    BY <2>1, <2>3 DEF Ascends
  <2>5. into \in Calls(g) /\ Size(g, into) < Size(g, c)
    BY <2>1, <2>4, EnterSmaller
  <2>6. into.targets = Out(g, t) /\ into.grey = c.grey \cup {t}
    BY DEF Enter, Out
  <2>7. ~Search(g)[into].cycle /\ Search(g)[into] \in Res(g)
    <3>1. \A s \in Out(g, t) : rank[t] < rank[s] /\ rank[s] \in Int
      BY <2>3, OutIsEdges DEF Ascends
    <3>2. \A x \in c.grey : rank[x] < rank[t] /\ rank[x] \in Int /\ rank[t] \in Int
      BY <2>1, <2>3 DEF Ascends
    <3>3. \A x \in c.grey \cup {t} : \A s \in Out(g, t) : rank[x] < rank[s]
      BY <3>1, <3>2
    <3>4. ~Search(g)[into].cycle
      BY <2>5, <2>6, <3>3 DEF Clear
    <3>5. Search(g)[into] \in Res(g)
      BY <2>5, SearchUnfolds
    <3>. QED BY <3>4, <3>5
  <2>8. ~sub.cycle /\ sub.black \in SUBSET SeenIds(g)
    BY <2>3, <2>4, <2>7 DEF Found, Res
  <2>. HIDE DEF sub
  <2>9. next \in Calls(g) /\ Size(g, next) < Size(g, c)
    BY <2>1, <2>8, LeaveSmaller
  <2>10. next.targets = c.targets \ {t} /\ next.grey = c.grey
    BY DEF Leave
  <2>. HIDE DEF next
  <2>11. ~Search(g)[next].cycle
    BY <2>9, <2>10 DEF Clear
  <2>. QED BY <2>2, <2>8, <2>11
<1>. QED BY <1>2, <1>3

\* A graph that can be numbered along its edges has no cycle for the search.
LEMMA SearchClear ==
  ASSUME NEW g, Fine(g), NEW rank, Ascends(g, rank), NEW c \in Calls(g)
  PROVE  Clear(g, rank, c)
<1>. DEFINE S == {d \in Calls(g) : ~Clear(g, rank, d)}
<1>. SUFFICES ASSUME S # {} PROVE FALSE
  OBVIOUS
<1>1. PICK d \in S : \A e \in Calls(g) : Size(g, e) < Size(g, d) => e \notin S
  BY SmallestCall, Zenon
<1>2. \A e \in Calls(g) : Size(g, e) < Size(g, d) => Clear(g, rank, e)
  BY <1>1
<1>. QED BY <1>1, <1>2, CallClear

-----------------------------------------------------------------------------
(* Validate.                                                               *)

Entry(g) == g[TriggerOf(g)].id

FirstCall(g) == [targets |-> {Entry(g)}, grey |-> {}, black |-> {}]

IsEntry(g, i) == g[i].kind \in {"trigger", "schedule"}

LEMMA OneEntry ==
  ASSUME NEW g, Fine(g)
  PROVE  \E i \in DOMAIN g : \A j \in DOMAIN g : IsEntry(g, j) <=> j = i
<1>. DEFINE I == {i \in DOMAIN g : g[i].kind \in {"trigger", "schedule"}}
<1>1. Cardinality(I) = 1
  BY DEF Fine, NodesAreFine
<1>2. DOMAIN g = 1..Len(g) /\ Len(g) \in Nat
  BY LenProperties DEF Fine
<1>3. IsFiniteSet(DOMAIN g)
  BY <1>2, Interval
<1>4. IsFiniteSet(I)
  BY <1>3, FS_Subset
<1>. HIDE DEF I
<1>5. \E i : I = {i}
  BY <1>1, <1>4, FS_Singleton
<1>6. PICK i : I = {i}
  BY <1>5
<1>. QED BY <1>6 DEF I, IsEntry

LEMMA TriggerIsEntry ==
  ASSUME NEW g, Fine(g), TriggerOf(g) # 0
  PROVE  /\ TriggerOf(g) \in DOMAIN g /\ g[TriggerOf(g)].kind = "trigger" /\ Entry(g) \in SeenIds(g)
         /\ \A i \in DOMAIN g : IsEntry(g, i) => i = TriggerOf(g)
         /\ FirstCall(g) \in Calls(g) /\ Visit(g) = Search(g)[FirstCall(g)]
<1>1. TriggerOf(g) \in DOMAIN g /\ g[TriggerOf(g)].kind = "trigger"
  BY TriggerFound DEF Fine
<1>2. Entry(g) \in SeenIds(g)
  BY <1>1 DEF Entry, SeenIds
<1>3. \A i \in DOMAIN g : IsEntry(g, i) => i = TriggerOf(g)
  BY <1>1, OneEntry DEF IsEntry
<1>4. FirstCall(g) \in Calls(g) /\ Visit(g) = Search(g)[FirstCall(g)]
  BY <1>2 DEF FirstCall, Calls, Visit, Entry
<1>. QED BY <1>1, <1>2, <1>3, <1>4

\* The search that started at the entry, when it found no cycle.
LEMMA VisitFinishes ==
  ASSUME NEW g, Fine(g), TriggerOf(g) # 0, ~Visit(g).cycle
  PROVE  /\ Black(g, Visit(g).black) /\ Entry(g) \in Visit(g).black
         /\ \A X \in SUBSET SeenIds(g) : Closed(g, X) /\ Entry(g) \in X => Visit(g).black \subseteq X
<1>1. FirstCall(g) \in Calls(g) /\ Visit(g) = Search(g)[FirstCall(g)]
  BY TriggerIsEntry
<1>2. Black(g, {})
  <2>1. Cardinality({}) = 0
    BY FS_EmptySet
  <2>2. [x \in {} |-> x] \in [{} -> 1..Cardinality({})]
    OBVIOUS
  <2>. QED BY <2>2 DEF Black, Closed, Numbered
<1>3. FirstCall(g).targets = {Entry(g)} /\ FirstCall(g).grey = {} /\ FirstCall(g).black = {}
  BY DEF FirstCall
<1>4. Finished(g, FirstCall(g), Visit(g).black)
  BY <1>1, <1>2, <1>3, SearchFinishes DEF Finishes
<1>. QED BY <1>3, <1>4 DEF Finished

LEMMA ClosedIsByEdges ==
  ASSUME NEW g, Fine(g), NEW X \in SUBSET SeenIds(g)
  PROVE  Closed(g, X) <=> \A e \in Edges(g) : e[1] \in X => e[2] \in X
<1>1. ASSUME Closed(g, X), NEW e \in Edges(g), e[1] \in X PROVE e[2] \in X
  BY <1>1, OutIsEdges DEF Closed
<1>2. ASSUME \A e \in Edges(g) : e[1] \in X => e[2] \in X, NEW t \in X, NEW s \in Out(g, t) PROVE s \in X
  <2>1. <<t, s>> \in Edges(g)
    BY OutIsEdges
  <2>. QED BY <1>2, <2>1
<1>. QED BY <1>1, <1>2 DEF Closed

\* A graph is acyclic when its nodes can be numbered, and then they can be
\* numbered against the edges as well.
LEMMA AcyclicAscends ==
  ASSUME NEW g, Fine(g), Acyclic(g)
  PROVE  \E rank \in [SeenIds(g) -> 1..Len(g)] : Ascends(g, rank)
<1>1. PICK rank \in [SeenIds(g) -> 1..Len(g)] : \A e \in Edges(g) : rank[e[1]] < rank[e[2]]
  BY DEF Acyclic
<1>2. ASSUME NEW t \in SeenIds(g), NEW s \in Out(g, t) PROVE rank[t] < rank[s]
  <2>1. <<t, s>> \in Edges(g)
    BY OutIsEdges
  <2>. QED BY <1>1, <2>1
<1>. QED BY <1>1, <1>2 DEF Ascends

LEMMA NumberedIsAcyclic ==
  ASSUME NEW g, Fine(g), Numbered(g, SeenIds(g))
  PROVE  Acyclic(g)
<1>1. Cardinality(SeenIds(g)) = Len(g) /\ Len(g) \in Nat
  BY LenProperties DEF Fine, IdsAreUnique
<1>2. PICK rank \in [SeenIds(g) -> 1..Len(g)] :
        \A t \in SeenIds(g) : \A s \in Out(g, t) : rank[s] < rank[t]
  BY <1>1 DEF Numbered
<1>. DEFINE up == [t \in SeenIds(g) |-> Len(g) + 1 - rank[t]]
<1>3. up \in [SeenIds(g) -> 1..Len(g)]
  BY <1>1, <1>2
<1>4. ASSUME NEW e \in Edges(g) PROVE up[e[1]] < up[e[2]]
  <2>1. e[1] \in SeenIds(g) /\ e[2] \in Out(g, e[1]) /\ e[2] \in SeenIds(g)
    BY OutIsEdges
  <2>2. rank[e[2]] < rank[e[1]] /\ rank[e[1]] \in 1..Len(g) /\ rank[e[2]] \in 1..Len(g)
    BY <1>2, <2>1
  <2>. QED BY <1>1, <2>1, <2>2
<1>. QED BY <1>3, <1>4 DEF Acyclic

\* Whatever Validate accepts is well-formed.
LEMMA CreatedIsWellFormed ==
  ASSUME NEW g \in Seq(Vertex), Validate(g) = "created"
  PROVE  Fine(g) /\ TriggerOf(g) # 0 /\ WellFormed(g)
<1>1. Fine(g) /\ TriggerOf(g) # 0 /\ ~Visit(g).cycle /\ SeenIds(g) = Visit(g).black
  BY DEF Validate, Fine
<1>2. Numbered(g, SeenIds(g))
  BY <1>1, VisitFinishes DEF Black
<1>3. Acyclic(g)
  BY <1>1, <1>2, NumberedIsAcyclic
<1>4. Connected(g, Entry(g))
  <2>. SUFFICES ASSUME NEW X \in SUBSET SeenIds(g), Entry(g) \in X, \A e \in Edges(g) : e[1] \in X => e[2] \in X
       PROVE  X = SeenIds(g)
    BY DEF Connected
  <2>1. Closed(g, X)
    BY <1>1, ClosedIsByEdges
  <2>. QED BY <1>1, <2>1, VisitFinishes
<1>. QED BY <1>1, <1>3, <1>4, TriggerIsEntry DEF WellFormed, Fine, Entry

\* Whatever Validate refuses is not.
LEMMA RefusedIsNot ==
  ASSUME NEW g \in Seq(Vertex), Validate(g) = "refused", WellFormed(g)
  PROVE  FALSE
<1>1. Fine(g) /\ Acyclic(g)
  BY DEF WellFormed, Fine
<1>2. TriggerOf(g) # 0 /\ (Visit(g).cycle \/ SeenIds(g) # Visit(g).black)
  BY <1>1, Zenon DEF Validate, Fine
<1>3. ~Visit(g).cycle
  <2>1. PICK rank : Ascends(g, rank)
    BY <1>1, AcyclicAscends
  <2>2. Clear(g, rank, FirstCall(g))
    BY <1>1, <1>2, <2>1, SearchClear, TriggerIsEntry
  <2>. QED BY <1>1, <1>2, <2>2, TriggerIsEntry DEF Clear, FirstCall
<1>4. PICK i \in DOMAIN g : IsEntry(g, i) /\ Connected(g, g[i].id)
  BY DEF WellFormed, IsEntry
<1>5. Connected(g, Entry(g))
  BY <1>1, <1>2, <1>4, TriggerIsEntry DEF Entry
<1>6. /\ Visit(g).black \in SUBSET SeenIds(g) /\ Closed(g, Visit(g).black) /\ Entry(g) \in Visit(g).black
  BY <1>1, <1>2, <1>3, VisitFinishes DEF Black
<1>7. \A e \in Edges(g) : e[1] \in Visit(g).black => e[2] \in Visit(g).black
  BY <1>1, <1>6, ClosedIsByEdges
<1>8. Visit(g).black = SeenIds(g)
  BY <1>5, <1>6, <1>7 DEF Connected
<1>. QED BY <1>2, <1>3, <1>8

\* It panics on the graphs that start with a schedule.
LEMMA PanicIsSchedule ==
  ASSUME NEW g \in Seq(Vertex), Validate(g) = "panic"
  PROVE  \E i \in DOMAIN g : g[i].kind = "schedule"
<1>1. Fine(g) /\ TriggerOf(g) = 0
  BY DEF Validate, Fine
<1>2. PICK i \in DOMAIN g : IsEntry(g, i)
  BY <1>1, OneEntry
<1>3. ~\E j \in DOMAIN g : g[j].kind = "trigger"
  <2>1. DOMAIN g = 1..Len(g)
    BY LenProperties
  <2>. QED BY <1>1, <2>1, TriggerFound
<1>. QED BY <1>2, <1>3 DEF IsEntry

\* Graph.Validate: for a graph of any size, the colouring search accepts exactly
\* the well-formed graphs, but for those with a schedule, on which it panics.
THEOREM ValidateExact ==
  ASSUME NEW g \in Seq(Vertex)
  PROVE  /\ Validate(g) = "created" => WellFormed(g)
         /\ Validate(g) = "refused" => ~WellFormed(g)
         /\ Validate(g) = "panic" => \E i \in DOMAIN g : g[i].kind = "schedule"
BY CreatedIsWellFormed, RefusedIsNot, PanicIsSchedule

\* Engine.handleStep: an accepted graph meets what FlowEngine assumes of the
\* graph it runs: finitely many nodes, numbered along the edges.
THEOREM AcceptedGraphRuns ==
  ASSUME NEW g \in Seq(Vertex), Validate(g) = "created"
  PROVE  /\ IsFiniteSet(SeenIds(g))
         /\ \E rank \in [SeenIds(g) -> 1 .. Cardinality(SeenIds(g))] :
              \A n \in SeenIds(g) : \A m \in OutEdges(g[NodeOf(g, n)]) \ {Nowhere} : rank[n] < rank[m]
<1>1. Fine(g) /\ Acyclic(g)
  BY CreatedIsWellFormed DEF WellFormed
<1>2. Cardinality(SeenIds(g)) = Len(g)
  BY <1>1 DEF Fine, IdsAreUnique
<1>3. \E rank \in [SeenIds(g) -> 1..Len(g)] : Ascends(g, rank)
  BY <1>1, AcyclicAscends
<1>4. IsFiniteSet(SeenIds(g))
  BY IdsFinite
<1>. QED BY <1>2, <1>3, <1>4 DEF Ascends, Out

-----------------------------------------------------------------------------
(* The invariant of FlowGraph.                                             *)

Accepted(g) == g \in Seq(Vertex) /\ (g # <<>> => Validate(g) = "created")

GraphTypeOK ==
  /\ submitted \in Seq(Vertex) /\ edits \in Nat /\ standing \in Targets
  /\ visits \in Seq(Nat \X Targets)

\* Rows and handlers hold accepted graphs; the answer is the one of Validate.
GraphsSound ==
  /\ Accepted(flow) /\ Accepted(reading)
  /\ answer \in {"none", "replaced"} \/ answer = Validate(submitted)
  /\ answer = "replaced" => submitted = <<>>
  /\ answer = "none" => flow = <<>> /\ reading = <<>> /\ standing = Nowhere /\ visits = <<>> /\ edits = 0

\* The history ends where the run stands, and its versions ascend to the newest.
HistorySound ==
  /\ visits # <<>> <=> standing # Nowhere
  /\ visits # <<>> => visits[Len(visits)][2] = standing
  /\ \A i \in DOMAIN visits : visits[i][1] <= edits
  /\ \A i, j \in DOMAIN visits : i < j => visits[i][1] <= visits[j][1]

\* What a run visited of the graph as it is now lies along its edges.
WalksUp ==
  flow # <<>> => \A rank : Ascends(flow, rank) =>
    \A i, j \in DOMAIN visits : i < j /\ visits[i][1] = edits /\ visits[j][1] = edits =>
      /\ visits[i][2] \in SeenIds(flow) /\ visits[j][2] \in SeenIds(flow)
      /\ rank[visits[i][2]] < rank[visits[j][2]]

GraphInv == GraphTypeOK /\ GraphsSound /\ HistorySound /\ WalksUp /\ NeverTwice

LEMMA GraphInvInit == FlowInit => GraphInv
<1>. SUFFICES ASSUME FlowInit PROVE GraphInv
  OBVIOUS
<1>1. submitted \in Seq(Vertex) /\ DOMAIN visits = {} /\ visits \in Seq(Nat \X Targets) /\ flow \in Seq(Vertex)
  BY GraphAssumption, EmptySeq DEF FlowInit
<1>. QED BY <1>1 DEF FlowInit, GraphInv, GraphTypeOK, GraphsSound, Accepted, HistorySound, WalksUp, NeverTwice, Targets

\* An edge of the graph of a handler leads to a target.
LEMMA NextIsTarget ==
  ASSUME NEW g \in Seq(Vertex), NEW i \in DOMAIN g, NEW n \in OutEdges(g[i])
  PROVE  n \in Targets
<1>1. DOMAIN g = 1..Len(g) /\ g[i] \in Vertex
  BY LenProperties, ElementOfSeq
<1>2. PICK k \in DOMAIN g[i].next : n = g[i].next[k]
  BY DEF OutEdges
<1>3. g[i].next \in Seq(Targets)
  BY <1>1 DEF Vertex
<1>4. DOMAIN g[i].next = 1..Len(g[i].next)
  BY <1>3, LenProperties
<1>. QED BY <1>2, <1>3, <1>4, ElementOfSeq

\* A run that is not at the end of its history's version begins a new one.
LEMMA ArriveKeeps ==
  ASSUME GraphInv, NEW next \in Targets, Arrive(next), UNCHANGED <<submitted, answer, flow, enabled, edits>>,
         Accepted(reading)', answer = "none" => FALSE,
         next # Nowhere /\ visits # <<>> /\ visits[Len(visits)][1] = edits =>
           flow # <<>> /\ standing \in SeenIds(flow) /\ next \in SeenIds(flow)
           /\ (\E rank : Ascends(flow, rank))
           /\ \A rank : Ascends(flow, rank) => rank[standing] < rank[next]
  PROVE  GraphInv'
<1>1. CASE next = Nowhere
  <2>1. visits' = <<>> /\ standing' = Nowhere /\ DOMAIN visits' = {} /\ visits' \in Seq(Nat \X Targets)
    BY <1>1, EmptySeq DEF Arrive
  <2>. QED BY <2>1 DEF GraphInv, GraphTypeOK, GraphsSound, HistorySound, WalksUp, NeverTwice, Targets
<1>2. CASE next # Nowhere
  <2>. DEFINE n == Len(visits)
  <2>1. visits' = Append(visits, <<edits, next>>) /\ standing' = next
    BY <1>2 DEF Arrive
  <2>2. visits \in Seq(Nat \X Targets) /\ edits \in Nat /\ edits' = edits /\ n \in Nat /\ DOMAIN visits = 1..n
    BY LenProperties DEF GraphInv, GraphTypeOK
  <2>. HIDE DEF n
  <2>9. n \in Nat
    BY <2>2
  <2>10. edits \in Nat
    BY <2>2
  <2>3. /\ visits' \in Seq(Nat \X Targets) /\ DOMAIN visits' = 1..n + 1 /\ Len(visits') = n + 1
        /\ \A i \in 1..n : visits'[i] = visits[i]
        /\ visits'[n + 1] = <<edits, next>>
    BY <2>1, <2>2, AppendProperties, LenProperties DEF n
  <2>4. ASSUME NEW i \in 1..n, visits[i][1] = edits
        PROVE  /\ flow # <<>> /\ standing \in SeenIds(flow) /\ next \in SeenIds(flow) /\ visits[i][2] \in SeenIds(flow)
               /\ \E rank : Ascends(flow, rank)
               /\ \A rank : Ascends(flow, rank) => rank[visits[i][2]] < rank[next]
    <3>1. n \in DOMAIN visits /\ i \in DOMAIN visits /\ visits # <<>> /\ visits[n][2] = standing
      BY <2>2 DEF GraphInv, HistorySound, n
    <3>2. visits[n][1] = edits
      <4>1. visits[i][1] <= visits[n][1] \/ i = n
        BY <2>9, <3>1 DEF GraphInv, HistorySound
      <4>2. visits[n][1] <= edits
        BY <3>1 DEF GraphInv, HistorySound
      <4>3. visits[n][1] \in Nat
        BY <2>2, <3>1, ElementOfSeq DEF n
      <4>. QED BY <2>10, <2>4, <4>1, <4>2, <4>3
    <3>3. /\ flow # <<>> /\ standing \in SeenIds(flow) /\ next \in SeenIds(flow)
          /\ \E rank : Ascends(flow, rank)
          /\ \A rank : Ascends(flow, rank) => rank[standing] < rank[next]
      BY <1>2, <3>1, <3>2 DEF n
    <3>4. CASE i = n
      BY <3>1, <3>3, <3>4
    <3>5. CASE i # n
      <4>1. i < n
        BY <2>9, <3>5
      <4>2. \A rank : Ascends(flow, rank) =>
              visits[i][2] \in SeenIds(flow) /\ rank[visits[i][2]] < rank[standing]
        BY <2>4, <3>1, <3>2, <3>3, <4>1 DEF GraphInv, WalksUp
      <4>3. ASSUME NEW rank, Ascends(flow, rank) PROVE rank[visits[i][2]] < rank[next]
        BY <3>3, <4>2, <4>3 DEF Ascends
      <4>. QED BY <3>3, <4>2, <4>3
    <3>. QED BY <3>4, <3>5
  <2>5. NeverTwice'
    <3>1. ASSUME NEW i \in 1..n PROVE visits'[i] # visits'[n + 1]
      <4>. SUFFICES ASSUME visits[i] = <<edits, next>> PROVE FALSE
        BY <2>3
      <4>1. visits[i][1] = edits /\ visits[i][2] = next
        OBVIOUS
      <4>2. PICK rank : Ascends(flow, rank)
        BY <2>4, <4>1
      <4>3. rank[next] < rank[next] /\ next \in SeenIds(flow)
        BY <2>4, <4>1, <4>2
      <4>. QED BY <4>2, <4>3 DEF Ascends
    <3>2. ASSUME NEW i \in 1..n, NEW j \in 1..n, visits'[i] = visits'[j] PROVE i = j
      BY <2>2, <2>3, <3>2 DEF GraphInv, NeverTwice
    <3>3. ASSUME NEW i \in 1..n + 1, NEW j \in 1..n + 1, visits'[i] = visits'[j] PROVE i = j
      <4>1. (i = n + 1 \/ i \in 1..n) /\ (j = n + 1 \/ j \in 1..n)
        BY <2>9
      <4>. QED BY <3>1, <3>2, <3>3, <4>1
    <3>. QED BY <2>3, <3>3 DEF NeverTwice
  <2>6. HistorySound'
    <3>1. \A i \in 1..n : visits[i][1] <= edits
      BY <2>2 DEF GraphInv, HistorySound
    <3>2. \A i, j \in 1..n : i < j => visits[i][1] <= visits[j][1]
      BY <2>2 DEF GraphInv, HistorySound
    <3>3. visits' # <<>>
      BY <2>2, <2>3
    <3>4. visits'[Len(visits')][2] = standing'
      BY <2>1, <2>3
    <3>5. \A i \in DOMAIN visits' : visits'[i][1] <= edits'
      BY <2>2, <2>3, <3>1
    <3>6. ASSUME NEW i \in 1..n + 1, NEW j \in 1..n + 1, i < j PROVE visits'[i][1] <= visits'[j][1]
      <4>1. i \in 1..n /\ (j = n + 1 \/ j \in 1..n)
        BY <2>9, <3>6
      <4>2. CASE j = n + 1
        BY <2>3, <3>1, <4>1, <4>2
      <4>3. CASE j \in 1..n
        BY <2>3, <3>2, <3>6, <4>1, <4>3
      <4>. QED BY <4>1, <4>2, <4>3
    <3>. QED BY <1>2, <2>1, <2>3, <3>3, <3>4, <3>5, <3>6 DEF HistorySound
  <2>7. WalksUp'
    <3>. SUFFICES ASSUME flow # <<>>, NEW rank, Ascends(flow, rank), NEW i \in 1..n + 1, NEW j \in 1..n + 1,
                         i < j, visits'[i][1] = edits, visits'[j][1] = edits
         PROVE  /\ visits'[i][2] \in SeenIds(flow) /\ visits'[j][2] \in SeenIds(flow)
                /\ rank[visits'[i][2]] < rank[visits'[j][2]]
      <4>1. flow' = flow /\ edits' = edits
        OBVIOUS
      <4>2. \A rank : Ascends(flow, rank)' <=> Ascends(flow, rank)
        BY <4>1
      <4>3. SeenIds(flow)' = SeenIds(flow)
        BY <4>1 DEF SeenIds
      <4>. QED BY <2>3, <4>1, <4>2, <4>3 DEF WalksUp
    <3>1. CASE j = n + 1
      <4>1. i \in 1..n /\ visits'[j][2] = next /\ visits'[i] = visits[i]
        BY <2>9, <2>3, <3>1
      <4>. QED BY <2>4, <4>1
    <3>2. CASE j # n + 1
      <4>1. i \in 1..n /\ j \in 1..n /\ visits'[i] = visits[i] /\ visits'[j] = visits[j]
        BY <2>9, <2>3, <3>2
      <4>. QED BY <2>2, <4>1 DEF GraphInv, WalksUp
    <3>. QED BY <3>1, <3>2
  <2>8. GraphTypeOK' /\ GraphsSound'
    BY <2>1, <2>2, <2>3 DEF GraphInv, GraphTypeOK, GraphsSound
  <2>. QED BY <2>5, <2>6, <2>7, <2>8 DEF GraphInv
<1>. QED BY <1>1, <1>2

\* What an edge of the stored graph does to a numbering.
LEMMA StepAscends ==
  ASSUME NEW g \in Seq(Vertex), g # <<>>, Validate(g) = "created",
         NodeOf(g, standing) # 0, NEW next \in OutEdges(g[NodeOf(g, standing)]), next # Nowhere
  PROVE  /\ standing \in SeenIds(g) /\ next \in SeenIds(g)
         /\ \E rank : Ascends(g, rank)
         /\ \A rank : Ascends(g, rank) => rank[standing] < rank[next]
<1>1. Fine(g) /\ Acyclic(g)
  BY CreatedIsWellFormed DEF WellFormed
<1>2. standing \in SeenIds(g)
  BY NodeFound
<1>3. next \in Out(g, standing)
  BY DEF Out
<1>4. next \in SeenIds(g)
  BY <1>1, <1>2, <1>3, OutIsEdges
<1>5. \E rank : Ascends(g, rank)
  BY <1>1, AcyclicAscends
<1>. QED BY <1>2, <1>3, <1>4, <1>5 DEF Ascends

LEMMA HandleFlowsKeeps == GraphInv /\ HandleFlows => GraphInv'
<1>. SUFFICES ASSUME GraphInv, HandleFlows PROVE GraphInv'
  OBVIOUS
<1>1. answer' = Validate(submitted) /\ submitted' = submitted /\ reading' = <<>> /\ standing' = Nowhere
      /\ visits' = <<>> /\ submitted \in Seq(Vertex) /\ visits \in Seq(Nat \X Targets)
  BY DEF HandleFlows, GraphInv, GraphTypeOK, GraphsSound
<1>2. (answer' = "created" /\ flow' = submitted /\ edits' = 1) \/ (answer' # "created" /\ flow' = <<>> /\ edits' = 0)
  BY DEF HandleFlows, CreateFlow, GraphInv, GraphsSound
<1>3. Validate(submitted) \in {"refused", "panic", "created"}
  BY Zenon DEF Validate
<1>4. DOMAIN visits' = {} /\ <<>> \in Seq(Vertex)
  BY <1>1, EmptySeq
<1>5. GraphTypeOK'
  BY <1>1, <1>2 DEF GraphTypeOK, Targets
<1>6. GraphsSound'
  <2>1. Accepted(flow') /\ Accepted(reading')
    BY <1>1, <1>2, <1>4 DEF Accepted
  <2>2. answer' = Validate(submitted')
    BY <1>1
  <2>3. answer' # "none" /\ answer' # "replaced"
    BY <1>1, <1>3
  <2>. QED BY <2>1, <2>2, <2>3 DEF GraphsSound
<1>. QED BY <1>1, <1>4, <1>5, <1>6 DEF GraphInv, HistorySound, WalksUp, NeverTwice

LEMMA HandleFlowSubKeeps == GraphInv /\ HandleFlowSub => GraphInv'
<1>. SUFFICES ASSUME GraphInv, HandleFlowSub PROVE GraphInv'
  OBVIOUS
<1>1. answer # "none" /\ UNCHANGED <<reading, standing, visits>> /\ edits \in Nat /\ visits \in Seq(Nat \X Targets)
  BY DEF HandleFlowSub, GraphInv, GraphTypeOK, GraphsSound
<1>2. CASE flow' = flow /\ UNCHANGED <<edits, submitted, answer>>
  BY <1>1, <1>2 DEF GraphInv, GraphTypeOK, GraphsSound, HistorySound, WalksUp, NeverTwice
<1>3. ASSUME NEW g \in Revisions, edits' = edits + 1, Validate(g) = "created", flow' = g,
             submitted' = <<>>, answer' = "replaced"
      PROVE  GraphInv'
  <2>1. g \in Seq(Vertex) /\ <<>> \in Seq(Vertex)
    BY GraphAssumption, EmptySeq
  <2>2. GraphTypeOK' /\ GraphsSound'
    BY <1>1, <1>3, <2>1 DEF GraphInv, GraphTypeOK, GraphsSound, Accepted
  <2>3. \A i \in DOMAIN visits : visits[i][1] <= edits /\ visits[i][1] \in Nat
    BY <1>1, LenProperties, ElementOfSeq DEF GraphInv, HistorySound
  <2>4. \A i \in DOMAIN visits' : visits'[i][1] <= edits' /\ visits'[i][1] # edits'
    BY <1>1, <1>3, <2>3
  <2>5. HistorySound'
    BY <1>1, <2>4 DEF GraphInv, HistorySound
  <2>6. WalksUp'
    BY <2>4 DEF WalksUp
  <2>7. NeverTwice'
    BY <1>1 DEF GraphInv, NeverTwice
  <2>. QED BY <2>2, <2>5, <2>6, <2>7 DEF GraphInv
<1>. QED BY <1>2, <1>3 DEF HandleFlowSub, UpdateFlow

LEMMA DeleteStoredKeeps == GraphInv /\ DeleteStored => GraphInv'
<1>. SUFFICES ASSUME GraphInv, DeleteStored PROVE GraphInv'
  OBVIOUS
<1>1. <<>> \in Seq(Vertex)
  BY EmptySeq
<1>. QED BY <1>1 DEF DeleteStored, GraphInv, GraphTypeOK, GraphsSound, Accepted, HistorySound, WalksUp, NeverTwice

LEMMA HandleMetricTriggerKeeps == GraphInv /\ HandleMetricTrigger => GraphInv'
<1>. SUFFICES ASSUME GraphInv, HandleMetricTrigger PROVE GraphInv'
  OBVIOUS
<1>1. reading # <<>> /\ reading' = <<>> /\ reading \in Seq(Vertex) /\ Validate(reading) = "created"
  BY DEF HandleMetricTrigger, GraphInv, GraphsSound, Accepted
<1>2. Accepted(reading)' /\ (answer = "none" => FALSE)
  BY <1>1, EmptySeq DEF Accepted, GraphInv, GraphsSound
<1>3. UNCHANGED <<submitted, answer, flow, enabled, edits>>
  BY DEF HandleMetricTrigger
<1>4. CASE standing # Nowhere
  <2>1. UNCHANGED <<standing, visits>>
    BY <1>4 DEF HandleMetricTrigger
  <2>. QED BY <1>2, <1>3, <2>1 DEF GraphInv, GraphTypeOK, GraphsSound, HistorySound, WalksUp, NeverTwice
<1>5. CASE standing = Nowhere
  <2>1. PICK next \in OutEdges(reading[TriggerOf(reading)]) : Arrive(next)
    BY <1>5 DEF HandleMetricTrigger
  <2>2. TriggerOf(reading) \in DOMAIN reading
    BY <1>1, CreatedIsWellFormed, TriggerIsEntry
  <2>3. next \in Targets
    BY <1>1, <2>2, NextIsTarget
  <2>4. visits = <<>>
    BY <1>5 DEF GraphInv, HistorySound
  <2>. QED BY <1>2, <1>3, <2>1, <2>3, <2>4, ArriveKeeps
<1>. QED BY <1>4, <1>5

LEMMA HandleStepKeeps == GraphInv /\ HandleStep => GraphInv'
<1>. SUFFICES ASSUME GraphInv, HandleStep PROVE GraphInv'
  OBVIOUS
<1>1. UNCHANGED <<submitted, answer, flow, enabled, edits, reading>> /\ standing # Nowhere
  BY DEF HandleStep
<1>2. Accepted(reading)' /\ (answer = "none" => FALSE)
  BY <1>1 DEF Accepted, GraphInv, GraphsSound
<1>. DEFINE i == IF flow = <<>> THEN 0 ELSE NodeOf(flow, standing)
<1>3. CASE i = 0
  <2>1. Arrive(Nowhere)
    BY <1>3 DEF HandleStep
  <2>. QED BY <1>1, <1>2, <2>1, ArriveKeeps DEF Targets
<1>4. CASE i # 0
  <2>1. PICK next \in OutEdges(flow[i]) : Arrive(next)
    BY <1>4 DEF HandleStep
  <2>2. flow # <<>> /\ i = NodeOf(flow, standing) /\ flow \in Seq(Vertex) /\ Validate(flow) = "created"
    BY <1>4 DEF GraphInv, GraphsSound, Accepted
  <2>. HIDE DEF i
  <2>3. i \in DOMAIN flow
    BY <1>4, <2>2, NodeFound
  <2>4. next \in Targets
    BY <2>2, <2>3, NextIsTarget
  <2>5. next # Nowhere =>
          /\ standing \in SeenIds(flow) /\ next \in SeenIds(flow)
          /\ \E rank : Ascends(flow, rank)
          /\ \A rank : Ascends(flow, rank) => rank[standing] < rank[next]
    BY <1>4, <2>1, <2>2, StepAscends
  <2>. QED BY <1>1, <1>2, <2>1, <2>2, <2>4, <2>5, ArriveKeeps
<1>. QED BY <1>3, <1>4

LEMMA GraphInvStep == GraphInv /\ [FlowNext]_flowVars => GraphInv'
<1>. SUFFICES ASSUME GraphInv, [FlowNext]_flowVars PROVE GraphInv'
  OBVIOUS
<1>. USE DEF GraphInv, GraphTypeOK, GraphsSound, Accepted, HistorySound, WalksUp, NeverTwice
<1>1. CASE SampleChanges \/ SampleOnce \/ HandleFlowTrigger
  BY <1>1 DEF SampleChanges, SampleOnce, HandleFlowTrigger
<1>2. CASE HandleTrigger
  <2>1. UNCHANGED <<submitted, answer, flow, edits, standing, visits>> /\ reading' \in {flow, <<>>}
    BY <1>2 DEF HandleTrigger
  <2>2. Accepted(reading)' /\ (answer = "none" => reading' = <<>>)
    BY <2>1, EmptySeq
  <2>. QED BY <2>1, <2>2
<1>3. CASE UNCHANGED flowVars
  BY <1>3 DEF flowVars
<1>. QED
  BY <1>1, <1>2, <1>3, HandleFlowsKeeps, HandleFlowSubKeeps, DeleteStoredKeeps, HandleMetricTriggerKeeps,
     HandleStepKeeps DEF FlowNext

LEMMA GraphInvariant == FlowSpec => []GraphInv
BY GraphInvInit, GraphInvStep, PTL DEF FlowSpec

\* Graph.Validate, POST /flows: for graphs of any size, what the operator is told
\* is right: the graph is a DAG that is reachable from its one trigger, or it is
\* not, or it has a schedule.
THEOREM ValidatesExactly == FlowSpec => []ValidateIsExact
<1>1. GraphInv => ValidateIsExact
  <2>. SUFFICES ASSUME GraphInv PROVE ValidateIsExact
    OBVIOUS
  <2>1. submitted \in Seq(Vertex) /\ (answer \in {"none", "replaced"} \/ answer = Validate(submitted))
    BY DEF GraphInv, GraphTypeOK, GraphsSound
  <2>. QED BY <2>1, ValidateExact DEF ValidateIsExact
<1>. QED BY <1>1, GraphInvariant, PTL

\* Engine.handleStep: whatever graphs are submitted, edited and deleted under a
\* run, it never comes back to a node of one version of the graph.
THEOREM WalksOnce == FlowSpec => []NeverTwice
<1>1. GraphInv => NeverTwice
  BY DEF GraphInv
<1>. QED BY <1>1, GraphInvariant, PTL
=============================================================================
