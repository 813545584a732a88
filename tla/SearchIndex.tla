---------------------------- MODULE SearchIndex ----------------------------
(***************************************************************************)
(* The search index of devices.  The table is the truth; whoever changes a *)
(* device queues it, or synchronises it himself, and a synchronisation     *)
(* lists the table first and writes to the index later; on the way it      *)
(* makes sure of the index, in several requests that others come between.  *)
(***************************************************************************)
EXTENDS Integers, Sequences

CONSTANTS
  Device,    \* devices
  Patch,   \* requests that set tags, each its own handler
  MaxWrite,  \* bound: writes to rows
  MaxFail  \* bound: synchronisations that fail

ASSUME SearchAssumption == MaxWrite \in Nat /\ MaxFail \in Nat /\ {"loop", "full"} \cap Patch = {}

Syncer == {"loop", "full"} \cup Patch

VARIABLES
  saved,    \* device -> its row: when it was last written
  index,   \* device -> the row its document was made from
  shape,   \* the index at Meilisearch: "missing", "wrong key", "ours"
  tasks,   \* Meilisearch's queue: what is asked, and who asked
  pending, \* IndexerHook.pending
  due,     \* what the loop has claimed and not yet synchronised
  touched, \* devices whose row was written, and Touch not yet called
  serving, \* the first full synchronisation is over
  syncer,  \* syncer -> where it stands, what it waits for, its devices, the rows it listed
  fails,
  behind   \* history: devices whose document may be so (see the property)

searchVars == <<saved, index, shape, tasks, pending, due, touched, serving, syncer, fails, behind>>

Resting == [at |-> "idle", doing |-> "none", nodes |-> {}, listed |-> [n \in Device |-> 0]]

SearchInit ==
  /\ saved = [n \in Device |-> 1] /\ index = [n \in Device |-> 0] /\ shape \in {"missing", "wrong key", "ours"}
  /\ tasks = <<>> /\ pending = {} /\ due = {} /\ touched = {} /\ serving = FALSE
  /\ syncer = [s \in Syncer |-> [Resting EXCEPT !.at = IF s = "full" THEN "ensure" ELSE "idle"]]
  /\ fails = 0 /\ behind = Device

Working(s) == syncer[s].at \notin {"idle", "over", "retry"}
Syncs(s, n) == Working(s) /\ n \in syncer[s].nodes

Queued(n) == \E i \in DOMAIN tasks : n \in tasks[i].nodes

Newest(m) == \A d \in Device : saved[d] <= saved[m]
Store(n) == \E m \in Device : Newest(m) /\ saved[m] < MaxWrite /\ saved' = [saved EXCEPT ![n] = saved[m] + 1]

(***************************************************************************)
(* Who changes a row.                                                      *)
(***************************************************************************)

\* Enrolment, a connection, the offline sweep: the row is written ...
WriteRow(n) ==
  /\ serving /\ Store(n) /\ touched' = touched \cup {n}
  /\ UNCHANGED <<index, shape, tasks, pending, due, serving, syncer, fails, behind>>

\* Mutant of Touch: a device that is being synchronised is not queued.
TouchOnce(n) ==
  /\ n \in touched /\ touched' = touched \ {n}
  /\ pending' = IF Syncs("loop", n) THEN pending ELSE pending \cup {n}
  /\ UNCHANGED <<saved, index, shape, tasks, due, serving, syncer, fails, behind>>

\* ... and the device is queued, for the loop to claim.
Touch(n) ==
  /\ n \in touched /\ touched' = touched \ {n} /\ pending' = pending \cup {n}
  /\ UNCHANGED <<saved, index, shape, tasks, due, serving, syncer, fails, behind>>

\* A heartbeat writes last_seen and online, and queues nothing.
Heartbeat(n) ==
  /\ serving /\ Store(n) /\ behind' = behind \cup {n}
  /\ UNCHANGED <<index, shape, tasks, pending, due, touched, serving, syncer, fails>>

\* patchDeviceTags: SetTags, and a synchronisation of its own.
PatchDeviceTags(p, n) ==
  /\ serving /\ syncer[p].at = "idle" /\ Store(n)
  /\ syncer' = [syncer EXCEPT ![p] = [Resting EXCEPT !.at = "list", !.nodes = {n}]]
  /\ UNCHANGED <<index, shape, tasks, pending, due, touched, serving, fails, behind>>

(***************************************************************************)
(* IndexerHook.loop: claimDue empties the set before the synchronisations  *)
(* begin, so that a Touch during one of them is not lost.                  *)
(***************************************************************************)

ClaimDue ==
  /\ pending # {} /\ due = {} /\ syncer["loop"].at = "idle"
  /\ due' = pending /\ pending' = {}
  /\ UNCHANGED <<saved, index, shape, tasks, touched, serving, syncer, fails, behind>>

LoopNext(n) ==
  /\ n \in due /\ syncer["loop"].at = "idle"
  /\ due' = due \ {n} /\ syncer' = [syncer EXCEPT !["loop"] = [Resting EXCEPT !.at = "list", !.nodes = {n}]]
  /\ UNCHANGED <<saved, index, shape, tasks, pending, touched, serving, fails, behind>>

(***************************************************************************)
(* Sync and FullSync.                                                      *)
(***************************************************************************)

\* The table is read.  Whoever else is synchronising the same device may write
\* what is older, later.
ListRows(s, from, to) ==
  LET nodes == IF s = "full" THEN Device ELSE syncer[s].nodes
      Contended(n) == Queued(n) \/ \E t \in Syncer \ {s} : Syncs(t, n) /\ syncer[t].at # "list"
  IN  /\ syncer[s].at = from
      /\ syncer' = [syncer EXCEPT ![s] = [at |-> to, doing |-> "none", nodes |-> nodes, listed |-> saved]]
      /\ behind' = {n \in behind : n \notin nodes} \cup {n \in nodes : Contended(n)}
      /\ UNCHANGED <<saved, index, shape, tasks, pending, due, touched, serving, fails>>

\* Sync lists and then looks after the index, FullSync the other way round.
Sync(s) == s # "full" /\ ListRows(s, "list", "ensure")
FullSync == ListRows("full", "list", "documents")

\* A missing index is created, one with another primary key is deleted first,
\* and any other gets its settings: by what it was when it was looked at.
EnsureIndex(s) ==
  /\ syncer[s].at = "ensure"
  /\ syncer' = [syncer EXCEPT ![s].at = CASE shape = "missing" -> "create" [] shape = "wrong key" -> "delete" [] OTHER -> "settings"]
  /\ UNCHANGED <<saved, index, shape, tasks, pending, due, touched, serving, fails, behind>>

\* A write is a task at Meilisearch.
PostTask(s) ==
  LET kind == syncer[s].at
      posts == kind = "documents"
  IN  /\ kind \in {"delete", "create", "settings", "documents"}
      /\ tasks' = Append(tasks, [kind |-> kind, by |-> s, nodes |-> IF posts THEN syncer[s].nodes ELSE {}, rows |-> syncer[s].listed])
      /\ syncer' = [syncer EXCEPT ![s] = [@ EXCEPT !.at = "wait", !.doing = kind]]
      /\ UNCHANGED <<saved, index, shape, pending, due, touched, serving, fails, behind>>

\* Settings make an index that is missing, without our key; documents go only
\* where it is.
Fails(kind) ==
  CASE kind = "create" -> shape # "missing" [] kind = "delete" -> shape = "missing"
    [] kind = "documents" -> shape # "ours" [] OTHER -> FALSE

Reshaped(kind) ==
  CASE kind = "create" -> {IF shape = "missing" THEN "ours" ELSE shape}
    [] kind = "delete" -> {"missing"}
    [] kind = "settings" -> {IF shape = "missing" THEN "wrong key" ELSE shape}
    [] OTHER -> IF shape = "missing" THEN {"missing", "wrong key"} ELSE {shape}

\* Tasks are done in the order they were taken in.  An index is deleted with all
\* its documents.
DoTask ==
  LET task == Head(tasks)
      failed == Fails(task.kind)
      awaited == syncer[task.by].at = "wait" /\ \A i \in DOMAIN Tail(tasks) : Tail(tasks)[i].by # task.by
  IN  /\ tasks # <<>> /\ tasks' = Tail(tasks) /\ shape' \in Reshaped(task.kind)
      /\ index' = CASE task.kind = "delete" -> [n \in Device |-> 0]
                    [] failed -> index
                    [] OTHER -> [n \in Device |-> IF n \in task.nodes THEN task.rows[n] ELSE index[n]]
      /\ behind' = behind \cup (IF task.kind = "delete" THEN {n \in Device : index[n] # 0} ELSE IF failed THEN task.nodes ELSE {})
      /\ syncer' = IF failed /\ awaited THEN [syncer EXCEPT ![task.by].at = "failed"] ELSE syncer
      /\ UNCHANGED <<saved, pending, due, touched, serving, fails>>

Over(s) ==
  /\ syncer' = [syncer EXCEPT ![s] = [Resting EXCEPT !.at = IF s = "loop" THEN "idle" ELSE "over"]]
  /\ serving' = (serving \/ s = "full")

\* The waiter sees by polling that its task was done.
WaitTask(s) ==
  /\ syncer[s].at = "wait" /\ \A i \in DOMAIN tasks : tasks[i].by # s
  /\ IF syncer[s].doing = "documents" THEN Over(s)
     ELSE /\ syncer' = [syncer EXCEPT ![s].at = IF syncer[s].doing = "delete" THEN "create"
                                               ELSE IF s = "full" THEN "list" ELSE "documents"]
          /\ UNCHANGED serving
  /\ UNCHANGED <<saved, index, shape, tasks, pending, due, touched, fails, behind>>

\* A task failed, or Meilisearch is down or slow, and what was posted may still
\* be done.  The loop forgets the device; the tags are stored and the answer says
\* they are not indexed; the full synchronisation is tried again, by now with the
\* server up.
GiveUp(s) ==
  /\ behind' = behind \cup syncer[s].nodes
  /\ IF s = "full"
     THEN syncer' = [syncer EXCEPT ![s] = [Resting EXCEPT !.at = "retry"]] /\ serving' = TRUE
     ELSE Over(s)
  /\ UNCHANGED <<saved, index, shape, tasks, pending, due, touched>>

TaskFailed(s) == syncer[s].at = "failed" /\ GiveUp(s) /\ UNCHANGED fails
SyncFails(s) == Working(s) /\ fails < MaxFail /\ fails' = fails + 1 /\ GiveUp(s)

\* retryMeiliSync: every 30 s, until one succeeds.
RetryMeiliSync ==
  /\ syncer["full"].at = "retry" /\ syncer' = [syncer EXCEPT !["full"].at = "ensure"]
  /\ UNCHANGED <<saved, index, shape, tasks, pending, due, touched, serving, fails, behind>>

\* The queue is gone with the process; boot begins with a full synchronisation.
RestartIndexer ==
  /\ fails < MaxFail /\ fails' = fails + 1
  /\ pending' = {} /\ due' = {} /\ touched' = {} /\ serving' = FALSE /\ behind' = Device
  /\ syncer' = [s \in Syncer |-> [Resting EXCEPT !.at =
                  CASE s = "full" -> "ensure" [] s = "loop" -> "idle"
                    [] OTHER -> IF syncer[s].at = "idle" THEN "idle" ELSE "over"]]
  /\ UNCHANGED <<saved, index, shape, tasks>>

Syncing(s) == Sync(s) \/ EnsureIndex(s) \/ PostTask(s) \/ WaitTask(s) \/ TaskFailed(s)

SearchNext ==
  \/ \E n \in Device : WriteRow(n) \/ Touch(n) \/ Heartbeat(n) \/ LoopNext(n) \/ \E p \in Patch : PatchDeviceTags(p, n)
  \/ ClaimDue \/ FullSync \/ DoTask \/ RetryMeiliSync \/ RestartIndexer
  \/ \E s \in Syncer : Syncing(s) \/ SyncFails(s)

SearchSpec == SearchInit /\ [][SearchNext]_searchVars

(***************************************************************************)
(* Properties.                                                             *)
(***************************************************************************)

\* Touch, claimDue and Sync: once nothing is queued or on its way for a device,
\* its document is made of its row, whoever changed the row meanwhile.  Behind
\* may be a device whose last synchronisation failed, one that two synchronised at
\* the same time, one that a heartbeat has written since, and one whose document
\* went with an index that someone deleted for a key it no longer had.
IndexIsCurrent ==
  \A n \in Device :
    \/ n \in behind \cup touched \cup pending \cup due
    \/ \E s \in Syncer : Syncs(s, n)
    \/ index[n] = saved[n]
=============================================================================
