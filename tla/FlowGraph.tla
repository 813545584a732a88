------------------------------ MODULE FlowGraph ------------------------------
(***************************************************************************)
(* The graph of a flow: what Validate accepts when an operator stores or   *)
(* edits it, who triggers it, and the walk of one run through it while the *)
(* graph may be edited underneath.  How hops are delivered and what the    *)
(* nodes do is FlowEngine's; there the graph is a constant.                *)
(***************************************************************************)
EXTENDS Integers, Sequences, FiniteSets, SequencesExt

CONSTANTS
  NodeId,    \* node ids
  Nowhere,   \* the empty edge target, and the empty id
  Graphs,    \* the graphs operators submit as new flows
  Revisions, \* the graphs they submit as edits
  MaxEdit    \* bound: edits of the stored graph

Targets == NodeId \cup {Nowhere}

\* A graph is a sequence of these: fine says that the fields of the kind are,
\* next holds the targets.  A script stands where a notify does.  Then and else
\* of a check, next of everything else.
Vertex == [id : Targets, kind : {"trigger", "schedule", "check", "notify"}, next : Seq(Targets), fine : BOOLEAN]

ASSUME GraphAssumption == Nowhere \notin NodeId /\ MaxEdit \in Nat /\ Graphs \cup Revisions \subseteq Seq(Vertex)

VARIABLES
  submitted,   \* the graph an operator submits, <<>> once another took its place
  answer,  \* what POST /flows said of it: "none", "created", "refused", "panic"
  flow,    \* the stored row: its graph, or <<>> when there is none
  enabled, \* the row's flag
  edits,   \* versions the stored graph has had
  sample,  \* the newest sample of the trigger's metric: its age, and whether the condition holds
  events,  \* trigger events on the bus; one at a time, a bound
  reading, \* the graph the trigger handler has read, <<>> when it is idle
  standing, \* where the active run stands, Nowhere when there is none
  visits   \* history: <<version, node>> of the active run

flowVars == <<submitted, answer, flow, enabled, edits, sample, events, reading, standing, visits>>

(***************************************************************************)
(* Graphs.                                                                 *)
(***************************************************************************)

OutEdges(n) == {n.next[i] : i \in DOMAIN n.next}

NodeOf(g, id) == SelectInSeq(g, LAMBDA n : n.id = id)

\* Only a metric trigger is looked for.
TriggerOf(g) == SelectInSeq(g, LAMBDA n : n.kind = "trigger")

SeenIds(g) == {g[i].id : i \in DOMAIN g}

\* Ids that are not empty and not repeated.
IdsAreUnique(g) == Nowhere \notin SeenIds(g) /\ Cardinality(SeenIds(g)) = Len(g)

\* Per node, its kind's fields and its targets; then the one entry.
NodesAreFine(g) ==
  /\ \A i \in DOMAIN g : g[i].fine /\ OutEdges(g[i]) \subseteq SeenIds(g) \cup {Nowhere}
  /\ Cardinality({i \in DOMAIN g : g[i].kind \in {"trigger", "schedule"}}) = 1

\* What visit is asked: the targets left, and the colours of the nodes; grey
\* ones are on the path, black ones are done.
Calls(g) == [targets : SUBSET SeenIds(g), grey : SUBSET SeenIds(g), black : SUBSET SeenIds(g)]

Found(cycle, black) == [cycle |-> cycle, black |-> black]

\* The targets of t that visit goes through when it enters it.
Enter(g, t, c) ==
  [targets |-> OutEdges(g[NodeOf(g, t)]) \ {Nowhere}, grey |-> c.grey \cup {t}, black |-> c.black]

Leave(t, c, black) == [targets |-> c.targets \ {t}, grey |-> c.grey, black |-> black \cup {t}]

\* Mutant of VisitAll: a target that is being visited is passed over.
VisitAllKeepsWhite(g, visit, c) ==
  IF c.targets = {} THEN Found(FALSE, c.black)
  ELSE LET t == CHOOSE x \in c.targets : TRUE
           sub == IF t \in c.black \cup c.grey THEN Found(FALSE, c.black) ELSE visit[Enter(g, t, c)]
       IN  IF sub.cycle THEN sub ELSE visit[Leave(t, c, sub.black)]

\* The depth-first search, which visit goes on with: a grey target is a cycle.
VisitAll(g, visit, c) ==
  IF c.targets = {} THEN Found(FALSE, c.black)
  ELSE LET t == CHOOSE x \in c.targets : TRUE
           sub == IF t \in c.grey THEN Found(TRUE, c.black)
                  ELSE IF t \in c.black THEN Found(FALSE, c.black) ELSE visit[Enter(g, t, c)]
       IN  IF sub.cycle THEN sub ELSE visit[Leave(t, c, sub.black)]

Search(g) == LET visit[c \in Calls(g)] == VisitAll(g, visit, c) IN visit

Visit(g) == Search(g)[[targets |-> {g[TriggerOf(g)].id}, grey |-> {}, black |-> {}]]

\* Mutant of Validate: unreachable nodes pass.
ValidateAnyReach(g) ==
  IF g = <<>> \/ ~IdsAreUnique(g) \/ ~NodesAreFine(g) THEN "refused"
  ELSE IF TriggerOf(g) = 0 THEN "panic" ELSE IF Visit(g).cycle THEN "refused" ELSE "created"

\* "panic": a graph whose one entry is a schedule has no trigger to start from.
Validate(g) ==
  IF g = <<>> \/ ~IdsAreUnique(g) \/ ~NodesAreFine(g) THEN "refused"
  ELSE IF TriggerOf(g) = 0 THEN "panic"
  ELSE LET v == Visit(g) IN IF v.cycle \/ SeenIds(g) # v.black THEN "refused" ELSE "created"

FlowInit ==
  /\ submitted \in Graphs /\ answer = "none" /\ flow = <<>> /\ enabled = TRUE /\ edits = 0
  /\ sample = [age |-> "old", holds |-> FALSE]
  /\ events = {} /\ reading = <<>> /\ standing = Nowhere /\ visits = <<>>

(***************************************************************************)
(* The API.                                                                *)
(***************************************************************************)

CreateFlow(g) == flow' = g /\ edits' = 1

\* POST /flows.  net/http recovers a panic of the handler.
HandleFlows ==
  /\ answer = "none" /\ answer' = Validate(submitted)
  /\ IF answer' = "created" THEN CreateFlow(submitted) ELSE UNCHANGED <<flow, edits>>
  /\ UNCHANGED <<submitted, enabled, sample, events, reading, standing, visits>>

\* Whatever is not in the request stays.
UpdateFlow(g, on) == flow' = g /\ enabled' = on

\* PATCH: a new graph, validated, or the flag; the runs are not looked at.
HandleFlowSub ==
  /\ flow # <<>>
  /\ \/ /\ edits < MaxEdit /\ edits' = edits + 1
        /\ \E g \in Revisions : Validate(g) = "created" /\ UpdateFlow(g, enabled)
        /\ submitted' = <<>> /\ answer' = "replaced"
     \/ UpdateFlow(flow, ~enabled) /\ UNCHANGED <<edits, submitted, answer>>
  /\ UNCHANGED <<sample, events, reading, standing, visits>>

DeleteStored ==
  /\ flow # <<>> /\ flow' = <<>> /\ submitted' = <<>> /\ answer' = "replaced"
  /\ UNCHANGED <<enabled, edits, sample, events, reading, standing, visits>>

(***************************************************************************)
(* Triggers.                                                               *)
(***************************************************************************)

\* Metrics arrive and age: fresh for the sampler, recent for a manual trigger.
SampleChanges ==
  /\ flow # <<>> /\ sample' \in [age : {"fresh", "recent", "old"}, holds : BOOLEAN]
  /\ UNCHANGED <<submitted, answer, flow, enabled, edits, events, reading, standing, visits>>

\* FreshSamples looks back five minutes.
FreshSamples == {sample} \cap [age : {"fresh"}, holds : BOOLEAN]

\* The sampler: enabled flows only, with the value it has seen.
SampleOnce ==
  /\ flow # <<>> /\ enabled /\ \E s \in FreshSamples : s.holds
  /\ events = {} /\ events' = {"holds"}
  /\ UNCHANGED <<submitted, answer, flow, enabled, edits, sample, reading, standing, visits>>

\* The operator gives a value, or leaves it to the latest sample.
HandleFlowTrigger ==
  /\ flow # <<>> /\ events = {} /\ \E v \in {"holds", "fails", "latest"} : events' = {v}
  /\ UNCHANGED <<submitted, answer, flow, enabled, edits, sample, reading, standing, visits>>

\* LatestSample looks back fifteen.
LatestSample == {sample} \cap [age : {"fresh", "recent"}, holds : BOOLEAN]

Holds(v) == v = "holds" \/ (v = "latest" /\ \E s \in LatestSample : s.holds)

\* The flow is read; it may be gone, disabled, or the condition fails after all.
HandleTrigger ==
  /\ reading = <<>>
  /\ \E v \in events :
       /\ events' = events \ {v}
       /\ reading' = IF flow # <<>> /\ enabled /\ Holds(v) THEN flow ELSE <<>>
  /\ UNCHANGED <<submitted, answer, flow, enabled, edits, sample, standing, visits>>

Arrive(id) ==
  /\ standing' = id
  /\ visits' = IF id = Nowhere THEN <<>> ELSE Append(visits, <<edits, id>>)

\* InsertRun, unless a run is active, then the advance past the trigger, both
\* by the graph that was read.
HandleMetricTrigger ==
  /\ reading # <<>> /\ reading' = <<>>
  /\ IF standing = Nowhere THEN \E next \in OutEdges(reading[TriggerOf(reading)]) : Arrive(next)
                     ELSE UNCHANGED <<standing, visits>>
  /\ UNCHANGED <<submitted, answer, flow, enabled, edits, sample, events>>

\* One hop, by the graph as it is now: the run fails when its node or its flow
\* is gone, and stays where it is when its node has become the trigger.
HandleStep ==
  /\ standing # Nowhere
  /\ LET i == IF flow = <<>> THEN 0 ELSE NodeOf(flow, standing) IN
       IF i = 0 THEN Arrive(Nowhere)
       ELSE flow[i].kind # "trigger" /\ \E next \in OutEdges(flow[i]) : Arrive(next)
  /\ UNCHANGED <<submitted, answer, flow, enabled, edits, sample, events, reading>>

FlowNext == \/ HandleFlows \/ HandleFlowSub \/ DeleteStored
            \/ SampleChanges \/ SampleOnce \/ HandleFlowTrigger
            \/ HandleTrigger \/ HandleMetricTrigger \/ HandleStep

FlowSpec == FlowInit /\ [][FlowNext]_flowVars

(***************************************************************************)
(* Properties.                                                             *)
(***************************************************************************)

Edges(g) == UNION {{<<g[i].id, t>> : t \in OutEdges(g[i]) \ {Nowhere}} : i \in DOMAIN g}

\* A numbering that every edge ascends is there exactly when there is no cycle.
Acyclic(g) == \E rank \in [SeenIds(g) -> 1 .. Len(g)] : \A e \in Edges(g) : rank[e[1]] < rank[e[2]]

\* No set that holds the entry and is closed under the edges leaves a node out.
Connected(g, id) ==
  \A S \in SUBSET SeenIds(g) :
    id \in S /\ (\A e \in Edges(g) : e[1] \in S => e[2] \in S) => S = SeenIds(g)

WellFormed(g) ==
  /\ g # <<>> /\ IdsAreUnique(g) /\ NodesAreFine(g) /\ Acyclic(g)
  /\ \E i \in DOMAIN g : g[i].kind \in {"trigger", "schedule"} /\ Connected(g, g[i].id)

\* Graph.Validate accepts a DAG that is reachable from its one trigger, and
\* nothing else; of the well-formed graphs it misses those that start with a
\* schedule, on which it panics.
ValidateIsExact ==
  /\ answer = "created" => WellFormed(submitted)
  /\ answer = "refused" => ~WellFormed(submitted)
  /\ answer = "panic" => \E i \in DOMAIN submitted : submitted[i].kind = "schedule"

\* One hop per event ends: as long as the graph is not edited a run never comes
\* back to a node, whatever edits, deletions and triggers came before.
NeverTwice == \A i, j \in DOMAIN visits : visits[i] = visits[j] => i = j
=============================================================================
