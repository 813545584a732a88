----------------------------- MODULE DataExport -----------------------------
(***************************************************************************)
(* The full export of a device: a zip bundle written straight into the     *)
(* response while samples and alerts keep arriving and being retired, its  *)
(* manifest, and Verify, which the reader of a copy calls.  A sha256       *)
(* stands for the content it was taken of.                                 *)
(***************************************************************************)
EXTENDS Integers, FiniteSets

CONSTANTS
  MaxRow,   \* bound: samples and alerts that ever arrive
  NoBundle

ASSUME ExportAssumption == MaxRow \in Nat

Data == {"readme", "device", "metrics", "rollups", "alerts"}
Item == 0 .. MaxRow

VARIABLES
  metrics,  \* the rows of the device in metrics
  alerts,   \* the rows of the device in alerts
  newest,   \* the newest of each
  since,    \* the range asked for starts here
  step,     \* what the handler writes next
  entries,  \* entry -> content, as written so far
  files,    \* the manifest's entries, as collected so far
  copy      \* what the reader holds of the bundle

exportVars == <<metrics, alerts, newest, since, step, entries, files, copy>>

ExportInit ==
  /\ metrics = {} /\ alerts = {} /\ newest = 0 /\ since \in Item
  /\ step = "readme" /\ entries = [n \in {} |-> {}] /\ files = [n \in {} |-> 0] /\ copy = NoBundle

Extend(f, n, v) == [x \in DOMAIN f \cup {n} |-> IF x = n THEN v ELSE f[x]]

(***************************************************************************)
(* The tables go on changing.                                              *)
(***************************************************************************)

Arrives ==
  /\ newest < MaxRow /\ newest' = newest + 1
  /\ \/ metrics' = metrics \cup {newest'} /\ UNCHANGED alerts
     \/ alerts' = alerts \cup {newest'} /\ UNCHANGED metrics
  /\ UNCHANGED <<since, step, entries, files, copy>>

\* The retention policy drops the oldest samples; alerts stay.
Retention ==
  /\ \E r \in metrics : metrics' = {x \in metrics : x > r}
  /\ UNCHANGED <<alerts, newest, since, step, entries, files, copy>>

(***************************************************************************)
(* Export.                                                                 *)
(***************************************************************************)

\* An entry of the bundle and its line in the manifest; rows 0 are left out.
AddFile(n, content, rows, next) ==
  /\ step = n /\ step' = next
  /\ entries' = Extend(entries, n, content)
  /\ files' = Extend(files, n, [size |-> Cardinality(content), sha |-> content, rows |-> rows])
  /\ UNCHANGED <<metrics, alerts, newest, since, copy>>

AddReadme == AddFile("readme", {0}, 0, "device")
AddDevice == AddFile("device", {0}, 0, "metrics")

Select == {r \in metrics : r >= since}

\* One query, streamed: the rows counted are the rows written.
WriteParquet == AddFile("metrics", Select, Cardinality(Select), "rollups")

\* The aggregate lags the samples and outlives them; it may be left out.
WriteRollups ==
  \/ \E rolled \in SUBSET (1 .. newest) : AddFile("rollups", rolled, Cardinality(rolled), "alerts")
  \/ step = "rollups" /\ step' = "alerts" /\ UNCHANGED <<metrics, alerts, newest, since, entries, files, copy>>

AddAlerts == AddFile("alerts", alerts, Cardinality(alerts), "manifest")

\* Mutant of ManifestFiles: the rows are counted again at the end.
ManifestRecounts ==
  [n \in DOMAIN files |-> IF n = "metrics" THEN [files[n] EXCEPT !.rows = Cardinality(Select)] ELSE files[n]]

ManifestFiles == files

\* The manifest lists itself, with its size and without a hash; then the zip
\* is closed: its directory comes last.
AddManifest ==
  /\ step = "manifest" /\ step' = "done"
  /\ copy' = [closed |-> TRUE, device |-> 0, entries |-> Extend(entries, "manifest", {}),
              files |-> Extend(ManifestFiles, "manifest", [size |-> 0, sha |-> {}, rows |-> 0])]
  /\ UNCHANGED <<metrics, alerts, newest, since, entries, files>>

\* A query or a write fails: the response, begun long ago, ends with the error.
ExportFails ==
  /\ step \in Data \cup {"manifest"} /\ step' = "failed"
  /\ copy' = [closed |-> FALSE, device |-> 0, entries |-> entries, files |-> [n \in {} |-> 0]]
  /\ UNCHANGED <<metrics, alerts, newest, since, entries, files>>

(***************************************************************************)
(* What may become of the copy.                                            *)
(***************************************************************************)

\* The transfer ends early, the directory is missing.
CutShort(c) == [c EXCEPT !.closed = FALSE]

\* One entry changes, goes or is added; or a number in the manifest changes.
Damaged(c) ==
  (UNION {{[c EXCEPT !.entries[n] = s] : s \in (SUBSET Item) \ {c.entries[n]}} : n \in DOMAIN c.entries \cap Data})
  \cup {[c EXCEPT !.entries = [x \in DOMAIN c.entries \ {n} |-> c.entries[x]]] : n \in DOMAIN c.entries}
  \cup {[c EXCEPT !.entries = Extend(c.entries, "stray", {})]}
  \cup {[c EXCEPT !.files[n].rows = @ + 1] : n \in DOMAIN c.files \cap {"metrics", "rollups", "alerts"}}
  \cup {[c EXCEPT !.files[n].sha = @ \cup {MaxRow + 1}] : n \in DOMAIN c.files \cap Data}

Spoil ==
  /\ step = "done" /\ step' = "spoilt"
  /\ copy' \in {CutShort(copy)} \cup Damaged(copy)
  /\ UNCHANGED <<metrics, alerts, newest, since, entries, files>>

(***************************************************************************)
(* Verify.                                                                 *)
(***************************************************************************)

\* A reader without the directory is not a zip.
EntryFor(c, n) == c.closed /\ n \in DOMAIN c.entries

\* The manifest's lines against the entries, and the entries against its lines.
ManifestMatches(c) ==
  /\ c.files # [n \in {} |-> 0]
  /\ \A n \in DOMAIN c.files :
       /\ EntryFor(c, n)
       /\ n \in Data => /\ c.files[n].size = Cardinality(c.entries[n])
                        /\ c.files[n].sha = c.entries[n]
  /\ DOMAIN c.entries \subseteq DOMAIN c.files

DeviceMatches(c) == EntryFor(c, "device") /\ c.device = 0

AlertsMatch(c) == EntryFor(c, "alerts") => c.files["alerts"].rows = Cardinality(c.entries["alerts"])

\* When the manifest lists the file its rows are counted.
CheckParquet(c, n) == n \in DOMAIN c.files => EntryFor(c, n) /\ c.files[n].rows = Cardinality(c.entries[n])

Verify(c) ==
  /\ EntryFor(c, "manifest") /\ ManifestMatches(c) /\ DeviceMatches(c) /\ AlertsMatch(c)
  /\ CheckParquet(c, "metrics") /\ CheckParquet(c, "rollups")

ExportNext == \/ Arrives \/ Retention
              \/ AddReadme \/ AddDevice \/ WriteParquet \/ WriteRollups \/ AddAlerts \/ AddManifest
              \/ ExportFails \/ Spoil

ExportSpec == ExportInit /\ [][ExportNext]_exportVars

(***************************************************************************)
(* Properties.                                                             *)
(***************************************************************************)

\* Export and Verify agree: the bundle of an export that ended well verifies,
\* whatever was written and retired meanwhile; one that ended with an error,
\* was cut short, or lost, gained or changed an entry does not.
BundleVerifies == copy # NoBundle => (Verify(copy) <=> step = "done")
=============================================================================
