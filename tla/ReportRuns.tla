----------------------------- MODULE ReportRuns -----------------------------
(***************************************************************************)
(* Reports: schedules, which nothing executes, and runs, generated inside  *)
(* the request that asks for them.  Every statement of the handler uses    *)
(* the request's context, which ends when the client goes away, and any    *)
(* statement may fail by itself.                                           *)
(***************************************************************************)
EXTENDS Integers, FiniteSets

CONSTANTS
  Job,        \* runs: requests, each its own handler
  MaxDevice,  \* devices are 1..MaxDevice, in the order of their host names
  MaxSchedule

ASSUME ReportAssumption == MaxDevice \in Nat /\ MaxSchedule \in Nat

ReportType == {"fleet_status", "device", "patch_compliance", "license_compliance", "uptime_sla", "other"}

\* Their queries name tables or columns no migration creates.
Broken == {"patch_compliance", "license_compliance", "uptime_sla"}

VARIABLES
  devices,   \* rows of devices
  schedules, \* rows of report_schedules
  runs,      \* job -> its row in report_runs: "none", "running", "completed", "failed"
  asked,     \* job -> what the request asks for
  pc,        \* job -> where its handler is
  left,      \* jobs whose client has gone, or whose process has
  unwritten, \* jobs whose last UPDATE failed, which nobody looks at
  snapshot,  \* job -> the rows its query selects
  content    \* job -> the rows in what it renders

reportVars == <<devices, schedules, runs, asked, pc, left, unwritten, snapshot, content>>

Request == [type : ReportType, format : {"csv", "pdf"}, device : BOOLEAN]

ReportInit ==
  /\ devices \in SUBSET (1 .. MaxDevice) /\ schedules = 0
  /\ runs = [j \in Job |-> "none"] /\ asked \in [Job -> Request] /\ pc = [j \in Job |-> "idle"]
  /\ left = {} /\ unwritten = {} /\ snapshot = [j \in Job |-> {}] /\ content = [j \in Job |-> {}]

Goto(j, p) == pc' = [pc EXCEPT ![j] = p]

\* Devices enrol while a report is generated.
Enrol ==
  /\ \E d \in 1 .. MaxDevice : devices' = devices \cup {d}
  /\ UNCHANGED <<schedules, runs, asked, pc, left, unwritten, snapshot, content>>

CreateSchedule ==
  /\ schedules < MaxSchedule /\ schedules' = schedules + 1
  /\ UNCHANGED <<devices, runs, asked, pc, left, unwritten, snapshot, content>>

DeleteSchedule ==
  /\ schedules > 0 /\ schedules' = schedules - 1
  /\ UNCHANGED <<devices, runs, asked, pc, left, unwritten, snapshot, content>>

(***************************************************************************)
(* handleGenerateReport.                                                   *)
(***************************************************************************)

\* The context of the request is done: the client went away or the server stops.
ClientLeaves(j) ==
  /\ pc[j] \notin {"idle", "over"} /\ left' = left \cup {j}
  /\ UNCHANGED <<devices, schedules, runs, asked, pc, unwritten, snapshot, content>>

CreateRun(j) ==
  /\ pc[j] = "idle"
  /\ \/ Goto(j, "generate") /\ runs' = [runs EXCEPT ![j] = "running"]
     \/ Goto(j, "over") /\ UNCHANGED runs
  /\ UNCHANGED <<devices, schedules, asked, left, unwritten, snapshot, content>>

\* A type nobody knows, a device report without a device, a query that must fail.
Refused(j) ==
  \/ asked[j].type \in Broken \cup {"other"}
  \/ asked[j].type = "device" /\ ~asked[j].device
  \/ j \in left

\* These, and a query that fails by itself.
GenerateFails(j) ==
  /\ pc[j] = "generate" /\ Goto(j, "fail")
  /\ UNCHANGED <<devices, schedules, runs, asked, left, unwritten, snapshot, content>>

\* A fleet report selects all devices, a device report the one.
Query(j) ==
  /\ pc[j] = "generate" /\ ~Refused(j) /\ Goto(j, "rows")
  /\ \E d \in 1 .. MaxDevice :
       snapshot' = [snapshot EXCEPT ![j] = IF asked[j].type = "fleet_status" THEN devices ELSE devices \cap {d}]
  /\ UNCHANGED <<devices, schedules, runs, asked, left, unwritten, content>>

Prefix(S, k) == {d \in S : d <= k}

\* The rows are closed when the generator returns, while its goroutine still
\* reads them: it writes as many as it got hold of, and no error.
GenerateCSV(j) ==
  /\ pc[j] = "rows" /\ asked[j].format = "csv" /\ Goto(j, "copy")
  /\ \E k \in 0 .. MaxDevice : content' = [content EXCEPT ![j] = Prefix(snapshot[j], k)]
  /\ UNCHANGED <<devices, schedules, runs, asked, left, unwritten, snapshot>>

\* Mutant of GeneratePDF: an error while reading is not looked at.
GeneratePDFUnchecked(j) ==
  /\ pc[j] = "rows" /\ asked[j].format = "pdf" /\ Goto(j, "copy")
  /\ \E k \in 0 .. MaxDevice : content' = [content EXCEPT ![j] = Prefix(snapshot[j], k)]
  /\ UNCHANGED <<devices, schedules, runs, asked, left, unwritten, snapshot>>

\* All rows are read before a page is drawn, and an error ends it; a device
\* report of an unknown device is one.
GeneratePDF(j) ==
  /\ pc[j] = "rows" /\ asked[j].format = "pdf"
  /\ \/ Goto(j, "fail") /\ UNCHANGED content
     \/ /\ j \notin left /\ (asked[j].type = "device" => snapshot[j] # {})
        /\ Goto(j, "copy") /\ content' = [content EXCEPT ![j] = snapshot[j]]
  /\ UNCHANGED <<devices, schedules, runs, asked, left, unwritten, snapshot>>

\* The UPDATE that ends a run, whose error is not looked at.
Record(j, status) ==
  \/ j \notin left /\ runs' = [runs EXCEPT ![j] = status] /\ UNCHANGED unwritten
  \/ unwritten' = unwritten \cup {j} /\ UNCHANGED runs

\* The answer has been copied, as far as the client took it.
CompleteRun(j) ==
  /\ pc[j] = "copy" /\ Goto(j, "over") /\ Record(j, "completed")
  /\ UNCHANGED <<devices, schedules, asked, left, snapshot, content>>

FailRun(j) ==
  /\ pc[j] = "fail" /\ Goto(j, "over") /\ Record(j, "failed")
  /\ UNCHANGED <<devices, schedules, asked, left, snapshot, content>>

HandleGenerateReport(j) ==
  CreateRun(j) \/ GenerateFails(j) \/ Query(j) \/ GenerateCSV(j) \/ GeneratePDF(j) \/ CompleteRun(j) \/ FailRun(j)

ReportNext == \/ Enrol \/ CreateSchedule \/ DeleteSchedule
              \/ \E j \in Job : HandleGenerateReport(j) \/ ClientLeaves(j)

ReportSpec == ReportInit /\ [][ReportNext]_reportVars

ListRuns(status) == {j \in Job : runs[j] = status}

(***************************************************************************)
(* Properties.                                                             *)
(***************************************************************************)

\* handleGenerateReport: a run says what became of it.  A completed PDF holds
\* every row of one state of the table, whoever enrolled meanwhile and whatever
\* failed (a CSV may hold fewer), and a failed run has rendered none; a run whose
\* handler has returned is completed or failed, unless its last UPDATE failed,
\* which a client that left makes sure of: that one stays running.
StatusIsTrue ==
  /\ \A j \in ListRuns("completed") : asked[j].format = "pdf" => content[j] = snapshot[j]
  /\ \A j \in ListRuns("failed") : content[j] = {}
  /\ \A j \in ListRuns("running") : pc[j] = "over" => j \in unwritten
=============================================================================
