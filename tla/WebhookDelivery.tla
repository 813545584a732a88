--------------------------- MODULE WebhookDelivery ---------------------------
(***************************************************************************)
(* The event journal and its two kinds of readers: the sweep that posts    *)
(* the events after an endpoint's cursor to its receiver, and the viewer   *)
(* of the event stream, which catches up from the journal and then follows *)
(* a channel the bus handler writes to.                                    *)
(*                                                                         *)
(* One endpoint and one viewer.  An event is its category.                 *)
(***************************************************************************)
EXTENDS Integers, Sequences, FiniteSets

CONSTANTS
  Category,
  MaxAttempts,  \* of the endpoint
  CatchUp,      \* events a viewer is given from the journal
  ChanCap,      \* capacity of a viewer's channel
  MaxSeq,       \* bound: journaled events
  MaxEdit,      \* bound: changes of the endpoint
  MaxFault,     \* bound: failing writes of the sweep, and restarts
  None

ASSUME DeliveryAssumption ==
  /\ {MaxAttempts, CatchUp, ChanCap} \subseteq Nat \ {0} /\ {MaxSeq, MaxEdit, MaxFault} \subseteq Nat

VARIABLES
  journal,   \* the categories of the journaled events, by seq
  handler,   \* the bus handler: the event in hand, and the channel it found
  endpoint,  \* the endpoint's row
  sweep,     \* the sweep: the row it read and the event it posts
  viewer,    \* the viewer's handler
  received,  \* seqs the receiver has accepted since the cursor was last set
  excused,   \* seqs the endpoint does not get: older, unwanted, or jumped over
  edits, faults

sinkVars == <<endpoint, sweep, received, excused, edits>>
whkVars  == <<journal, handler, viewer, sinkVars, faults>>

Seq1 == 1..Len(journal)
Off  == [at |-> "off"]

Endpoint ==
  [cats : SUBSET Category, enabled : BOOLEAN, status : {"ok", "failing"}, cursor : Nat, attempts : Nat, due : BOOLEAN]
SweepState ==
  [at : {"read", "post", "advance", "record"}, row : {"same", "replayed", "gone"}, cursor : Nat, attempts : Nat, seq : Nat]
HandlerState == [seq : Nat \ {0}, chan : {"unknown", "open", "closed"}]
ViewerState ==
  [at : {"subscribed", "started", "live"}, filter : Category \cup {None}, queue : Seq(Nat), last : Nat,
   lost : SUBSET Nat, gap : BOOLEAN]

ASSUME NoneAssumption == None \notin Endpoint \cup SweepState \cup HandlerState

WhkTypeOK ==
  /\ journal \in Seq(Category) /\ Len(journal) <= MaxSeq
  /\ handler \in HandlerState \cup {None} /\ endpoint \in Endpoint \cup {None}
  /\ sweep \in SweepState \cup {None} /\ viewer \in ViewerState \cup {Off}

WhkInit ==
  /\ journal = <<>> /\ handler = None /\ endpoint = None /\ sweep = None /\ viewer = Off
  /\ received = {} /\ excused = {} /\ edits = 0 /\ faults = 0

(***************************************************************************)
(* The bus handler.                                                        *)
(***************************************************************************)

\* An event is journaled first; one that cannot be is dropped.
AppendEvent(c) ==
  /\ handler = None /\ Len(journal) < MaxSeq
  /\ journal' = Append(journal, c) /\ handler' = [seq |-> Len(journal) + 1, chan |-> "unknown"]
  /\ UNCHANGED <<viewer, sinkVars, faults>>

\* Filter.matches: the filter of a stream is a category, or none at all.
Matches(filter, s) == filter = None \/ journal[s] = filter

Subscribed == viewer.at # "off"

\* The channels are collected under the lock ...
Broadcast ==
  /\ handler # None /\ handler.chan = "unknown"
  /\ handler' = IF Subscribed /\ Matches(viewer.filter, handler.seq) THEN [handler EXCEPT !.chan = "open"] ELSE None
  /\ UNCHANGED <<journal, viewer, sinkVars, faults>>

\* ... and written to outside it: a full one is skipped.
Send ==
  /\ handler # None /\ handler.chan = "open" /\ handler' = None
  /\ viewer' = IF Len(viewer.queue) < ChanCap THEN [viewer EXCEPT !.queue = Append(@, handler.seq)]
                                              ELSE [viewer EXCEPT !.lost = @ \cup {handler.seq}]
  /\ UNCHANGED <<journal, sinkVars, faults>>

\* Everything the process had in hand is gone; the journal and the row stay.
Crash == handler' = None /\ sweep' = None /\ viewer' = Off /\ faults' = faults + 1

\* A send on a channel that was closed meanwhile panics.
SendPanics ==
  /\ handler # None /\ handler.chan = "closed" /\ faults < MaxFault /\ Crash
  /\ UNCHANGED <<journal, endpoint, received, excused, edits>>

Restart ==
  /\ faults < MaxFault /\ Crash
  /\ UNCHANGED <<journal, endpoint, received, excused, edits>>

(***************************************************************************)
(* The endpoint.                                                           *)
(***************************************************************************)

\* No category is all of them.
NormalizeCategories(cats) == IF cats = {} THEN Category ELSE cats

\* It starts at the end of the journal.
CreateEndpoint(cats) ==
  /\ endpoint' = [cats |-> cats, enabled |-> TRUE, status |-> "ok", cursor |-> Len(journal), attempts |-> 0, due |-> TRUE]
  /\ received' = {} /\ excused' = Seq1

HandleWebhooks ==
  /\ endpoint = None /\ edits < MaxEdit /\ edits' = edits + 1
  /\ \E cats \in SUBSET Category : CreateEndpoint(NormalizeCategories(cats))
  /\ UNCHANGED <<journal, handler, viewer, sweep, faults>>

\* What an edit of the row means for the sweep that has read it.
Meanwhile(what) == sweep' = IF sweep = None \/ sweep.row = "gone" THEN sweep ELSE [sweep EXCEPT !.row = what]

Edit == endpoint # None /\ edits < MaxEdit /\ edits' = edits + 1

\* Enabling it again forgives the attempts.
UpdateEndpoint(cats) ==
  /\ \/ endpoint' = [endpoint EXCEPT !.cats = cats]
     \/ endpoint' = [endpoint EXCEPT !.enabled = FALSE]
     \/ endpoint' = [endpoint EXCEPT !.enabled = TRUE, !.attempts = 0, !.status = "ok", !.due = TRUE]
  /\ UNCHANGED sweep

DeleteEndpoint == endpoint' = None /\ Meanwhile("gone")

HandleWebhookSub ==
  /\ Edit
  /\ (\E cats \in SUBSET Category : UpdateEndpoint(NormalizeCategories(cats))) \/ DeleteEndpoint
  /\ UNCHANGED <<journal, handler, viewer, received, excused, faults>>

\* A replay: what follows the new cursor is to be received again.
SetCursor(seq) ==
  /\ endpoint' = [endpoint EXCEPT !.cursor = seq, !.attempts = 0, !.status = "ok", !.due = TRUE]
  /\ received' = {s \in received : s <= seq}
  /\ excused' = {s \in excused : s <= seq} \cup (endpoint.cursor + 1 .. seq)

HandleWebhookReplay ==
  /\ Edit /\ (\E seq \in 0..Len(journal) : SetCursor(seq)) /\ Meanwhile("replayed")
  /\ UNCHANGED <<journal, handler, viewer, faults>>

(***************************************************************************)
(* The sweep.                                                              *)
(***************************************************************************)

PendingAll == IF sweep.row # "gone" /\ sweep.cursor < Len(journal) THEN {Len(journal)} ELSE {}

\* The first event after the cursor the sweep has read, of a category the row
\* asks for by now.
PendingEvents ==
  LET wanted == {s \in Seq1 : s > sweep.cursor /\ sweep.row # "gone" /\ journal[s] \in endpoint.cats}
  IN  {s \in wanted : \A t \in wanted : s <= t}

Sweep ==
  /\ sweep = None /\ endpoint # None /\ endpoint.enabled /\ endpoint.status = "ok" /\ endpoint.due
  /\ sweep' = [at |-> "read", row |-> "same", cursor |-> endpoint.cursor, attempts |-> endpoint.attempts, seq |-> 0]
  /\ UNCHANGED <<journal, handler, viewer, endpoint, received, excused, edits, faults>>

\* What lies between and is not wanted is what the cursor may jump over.
SweepEndpoint ==
  /\ sweep # None /\ sweep.at = "read"
  /\ IF PendingEvents = {} THEN sweep' = None /\ UNCHANGED excused
     ELSE \E s \in PendingEvents :
            /\ sweep' = [sweep EXCEPT !.at = "post", !.seq = s]
            /\ excused' = excused \cup {t \in sweep.cursor + 1 .. s - 1 : journal[t] \notin endpoint.cats}
  /\ UNCHANGED <<journal, handler, viewer, endpoint, received, edits, faults>>

\* The receiver accepts it, or it does not within the timeout.
Deliver ==
  /\ sweep # None /\ sweep.at = "post"
  /\ \/ received' = received \cup {sweep.seq} /\ sweep' = [sweep EXCEPT !.at = "advance"]
     \/ UNCHANGED received /\ sweep' = [sweep EXCEPT !.at = "record", !.attempts = @ + 1]
  /\ UNCHANGED <<journal, handler, viewer, endpoint, excused, edits, faults>>

\* Forward only.  A replay that came in between is run over.
AdvanceCursor(seq) ==
  IF sweep.row # "gone" /\ endpoint.cursor < seq
  THEN /\ endpoint' = [endpoint EXCEPT !.cursor = seq]
       /\ excused' = IF sweep.row = "same" THEN excused ELSE excused \cup (endpoint.cursor + 1 .. seq)
  ELSE UNCHANGED <<endpoint, excused>>

Advance ==
  /\ sweep # None /\ sweep.at = "advance" /\ sweep' = [sweep EXCEPT !.at = "record", !.attempts = 0]
  /\ \/ AdvanceCursor(sweep.seq) /\ UNCHANGED faults
     \/ faults < MaxFault /\ faults' = faults + 1 /\ UNCHANGED <<endpoint, excused>>
  /\ UNCHANGED <<journal, handler, viewer, received, edits>>

RecordAttemptForgets ==
  /\ sweep # None /\ sweep.at = "record" /\ sweep' = None
  /\ endpoint' = IF sweep.row = "gone" THEN endpoint ELSE [endpoint EXCEPT !.due = (sweep.attempts = 0)]
  /\ UNCHANGED <<journal, handler, viewer, received, excused, edits, faults>>

\* A row that was attempted too often is failing; any other failure waits.
RecordAttempt ==
  /\ sweep # None /\ sweep.at = "record" /\ sweep' = None
  /\ endpoint' = IF sweep.row = "gone" THEN endpoint
                 ELSE [endpoint EXCEPT !.attempts = sweep.attempts, !.due = (sweep.attempts = 0),
                                       !.status = IF sweep.attempts >= MaxAttempts THEN "failing" ELSE "ok"]
  /\ UNCHANGED <<journal, handler, viewer, received, excused, edits, faults>>

BackoffEnds ==
  /\ endpoint # None /\ ~endpoint.due /\ endpoint' = [endpoint EXCEPT !.due = TRUE]
  /\ UNCHANGED <<journal, handler, viewer, sweep, received, excused, edits, faults>>

(***************************************************************************)
(* The viewer.                                                             *)
(***************************************************************************)

\* It subscribes first, ...
AddLiveFilter ==
  /\ viewer.at = "off"
  /\ \E filter \in Category \cup {None} :
       viewer' = [at |-> "subscribed", filter |-> filter, queue |-> <<>>, last |-> 0, lost |-> {}, gap |-> FALSE]
  /\ UNCHANGED <<journal, handler, sinkVars, faults>>

\* ... then decides where it starts: after the event it had last, or CatchUp
\* events back, or at the beginning when it cannot tell how many there are.
StreamStarts ==
  /\ viewer.at = "subscribed"
  /\ \E last \in Seq1 \cup {0, IF Len(journal) > CatchUp THEN Len(journal) - CatchUp ELSE 0} :
       viewer' = [viewer EXCEPT !.at = "started", !.last = last]
  /\ UNCHANGED <<journal, handler, sinkVars, faults>>

EventsNewest(last, filter, limit) ==
  LET found == {s \in Seq1 : s > last /\ Matches(filter, s)}
  IN  {s \in found : Cardinality({t \in found : t >= s}) <= limit}

\* The oldest ones, up to the limit.
EventsAfterFilter(last, filter, limit) ==
  LET found == {s \in Seq1 : s > last /\ Matches(filter, s)}
  IN  {s \in found : Cardinality({t \in found : t <= s}) <= limit}

\* An event between the last one written and the next that is neither among
\* the ones being written nor known to be lost.
Skips(v, s, written) == \E t \in v.last + 1 .. s - 1 : Matches(v.filter, t) /\ t \notin written \cup v.lost

\* What was sent is not sent again.
WriteSSE(v, s) == IF s <= v.last THEN v ELSE [v EXCEPT !.last = s, !.gap = (@ \/ Skips(v, s, {}))]

MaxOf(S, default) == CHOOSE s \in S \cup {default} : \A t \in S \cup {default} : t <= s

\* The first CatchUp events are written, or none if the query fails; the others
\* come, if at all, from the channel.
HandleEventStream ==
  /\ viewer.at = "started"
  /\ \E caught \in {EventsAfterFilter(viewer.last, viewer.filter, CatchUp), {}} :
       LET beyond == EventsAfterFilter(viewer.last, viewer.filter, MaxSeq) \ caught
           queued == {viewer.queue[i] : i \in DOMAIN viewer.queue}
       IN  viewer' = [viewer EXCEPT !.at = "live", !.last = MaxOf(caught, @), !.lost = @ \cup (beyond \ queued),
                                    !.gap = Skips(viewer, MaxOf(caught, viewer.last), caught)]
  /\ UNCHANGED <<journal, handler, sinkVars, faults>>

FollowLive ==
  /\ viewer.at = "live" /\ viewer.queue # <<>>
  /\ viewer' = [WriteSSE(viewer, Head(viewer.queue)) EXCEPT !.queue = Tail(@)]
  /\ UNCHANGED <<journal, handler, sinkVars, faults>>

\* The viewer leaves: its channel is closed, also for a handler that holds it.
CancelLive ==
  /\ Subscribed /\ viewer' = Off
  /\ handler' = IF handler # None /\ handler.chan = "open" THEN [handler EXCEPT !.chan = "closed"] ELSE handler
  /\ UNCHANGED <<journal, sinkVars, faults>>

BusHandler == (\E c \in Category : AppendEvent(c)) \/ Broadcast \/ Send \/ SendPanics
Operator   == HandleWebhooks \/ HandleWebhookSub \/ HandleWebhookReplay
Sweeper    == Sweep \/ SweepEndpoint \/ Deliver \/ Advance \/ RecordAttempt
Viewer     == AddLiveFilter \/ StreamStarts \/ HandleEventStream \/ FollowLive \/ CancelLive

WhkNext == BusHandler \/ Operator \/ Sweeper \/ BackoffEnds \/ Viewer \/ Restart

WhkSpec == WhkInit /\ [][WhkNext]_whkVars

(***************************************************************************)
(* Properties.                                                             *)
(***************************************************************************)

\* sweepEndpoint and SetCursor: the cursor leaves behind no event but those
\* that were accepted since it was last set, that the endpoint did not ask for
\* when they were passed, or that a replay and a delivery in flight ran over.
NoneSkipped == endpoint # None => \A s \in 1..endpoint.cursor : s \in received \cup excused

Behind ==
  /\ endpoint # None /\ endpoint.enabled /\ endpoint.status = "ok"
  /\ \E s \in Seq1 : s > endpoint.cursor /\ journal[s] \in endpoint.cats

\* Sweep: when no more events come, an endpoint has been sent everything it
\* asks for, or it fails, is changed or goes away; it never just stays behind.
EndpointCatchesUp == Behind ~> ~Behind

\* handleEventStream: the switch from the journal to the channel leaves out
\* nothing between, except what a full channel, the catch-up limit or a catch-up
\* query that failed cost.
StreamHasNoGap == Subscribed => ~viewer.gap
=============================================================================
