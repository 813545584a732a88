------------------------------ MODULE Notices ------------------------------
(***************************************************************************)
(* Notification channels and policies, held in memory whatever else the    *)
(* server stores, and maintenance windows and snoozes, rows of Postgres.   *)
(* An update is handed the stored row itself and changes it field by field *)
(* with no lock held; then the store copies a policy onto itself, field by *)
(* field, under a lock the other updates do not take.                      *)
(***************************************************************************)
EXTENDS Integers, FiniteSets

CONSTANTS
  Call,    \* requests, each its own handler
  MaxTime, \* bound: the clock
  NoCall

ASSUME NoticesAssumption == MaxTime \in Nat /\ NoCall \notin Call

VARIABLES
  rows,    \* channel or policy -> its table, its type, and who wrote each field last
  windows, \* maintenance window or snooze -> its bounds, or none
  call,    \* request -> what it asks for and where its handler stands
  undone,  \* history: fields written while the store was about to put back what they held
  sent,    \* requests whose test message was accepted
  clock

noteVars == <<rows, windows, call, undone, sent, clock>>

ChannelType == {"email", "slack", "teams", "pagerduty", "webhook", "unknown"}

\* A policy's client and role are its scope.  Fields are set in this order.
Fields(table) == IF table = "channel" THEN <<"name", "config", "enabled">> ELSE <<"category", "scope", "channels", "enabled">>
FieldsOf(table) == {Fields(table)[i] : i \in DOMAIN Fields(table)}
Field == FieldsOf("channel") \cup FieldsOf("policy")

\* Rows and windows are named after the request that makes them.
Absent == [table |-> "none", type |-> "unknown", by |-> [f \in Field |-> NoCall]]
NoWindow == [kind |-> "none", from |-> 0, until |-> 0]

NoteInit ==
  /\ rows = [c \in Call |-> Absent] /\ windows = [c \in Call |-> NoWindow]
  /\ call = [c \in Call |-> [kind |-> "none", at |-> "idle", on |-> NoCall, given |-> {}, next |-> 1, holds |-> NoCall]]
  /\ undone = {} /\ sent = {} /\ clock = 0

Answer(c, a) == call' = [call EXCEPT ![c].at = a]
There(t) == t \in Call /\ rows[t].table # "none"

\* The store's lock is held for the whole of a call; only UpdatePolicy takes
\* steps meanwhile.
Unlocked == \A c \in Call : call[c].at \notin {"load", "store"}

(***************************************************************************)
(* Channels and policies.                                                  *)
(***************************************************************************)

\* notifyChannelCreate: a channel without name or type is refused, and
\* created all the same.
CreateChannel(c) ==
  /\ call[c].at = "idle" /\ Unlocked
  /\ \E t \in ChannelType, named \in BOOLEAN :
       /\ rows' = [rows EXCEPT ![c] = [table |-> "channel", type |-> t,
                                       by |-> [f \in Field |-> IF f = "name" /\ ~named THEN NoCall ELSE c]]]
       /\ call' = [call EXCEPT ![c] = [@ EXCEPT !.kind = "create", !.at = IF named THEN "ok" ELSE "refused"]]
  /\ UNCHANGED <<windows, undone, sent, clock>>

\* notifyPolicyCreate does likewise without a category, and takes a policy
\* without channels; it is enabled whatever the request says.
CreatePolicy(c) ==
  /\ call[c].at = "idle" /\ Unlocked
  /\ \E empty \in SUBSET {"category", "channels"} :
       /\ rows' = [rows EXCEPT ![c] = [table |-> "policy", type |-> "unknown",
                                       by |-> [f \in Field |-> IF f \in empty THEN NoCall ELSE c]]]
       /\ call' = [call EXCEPT ![c] = [@ EXCEPT !.kind = "create", !.at = IF "category" \in empty THEN "refused" ELSE "ok"]]
  /\ UNCHANGED <<windows, undone, sent, clock>>

\* GetChannel and GetPolicy return what the map holds, not a copy.
StartUpdate(c, table) ==
  /\ call[c].at = "idle" /\ Unlocked
  /\ \E t \in Call, given \in SUBSET FieldsOf(table) :
       /\ There(t) => rows[t].table = table
       /\ call' = [call EXCEPT ![c] = [@ EXCEPT !.kind = "update", !.on = t, !.given = given,
                                                !.at = IF There(t) THEN "edit" ELSE "missing"]]
  /\ UNCHANGED <<rows, windows, undone, sent, clock>>

\* Mutant of Written: a switch that is left out is off.
WrittenOff(c) == call[c].given \cup {"enabled"}

\* The fields an update sets: those it is given, and a policy's scope, which
\* is cleared when the request leaves it out.
Written(c) == call[c].given \cup (IF rows[call[c].on].table = "policy" THEN {"scope"} ELSE {})

\* notifyChannelUpdate, notifyPolicyUpdate: one field after the other.
EditField(c) ==
  LET t == call[c].on  i == call[c].next  all == Fields(rows[t].table)
  IN  /\ call[c].at = "edit" /\ i \in DOMAIN all
      /\ rows' = IF all[i] \in Written(c) THEN [rows EXCEPT ![t].by[all[i]] = c] ELSE rows
      /\ call' = [call EXCEPT ![c].next = i + 1]
      /\ undone' = IF all[i] \in Written(c) /\ (\E d \in Call : call[d].at = "store" /\ call[d].on = t /\ call[d].next = i)
                   THEN undone \cup {<<t, all[i]>>} ELSE undone
      /\ UNCHANGED <<windows, sent, clock>>

\* UpdateChannel stores the channel that is stored.
UpdateChannel(c) ==
  /\ call[c].at = "edit" /\ rows[call[c].on].table = "channel" /\ call[c].next > 3 /\ Unlocked /\ Answer(c, "ok")
  /\ UNCHANGED <<rows, windows, undone, sent, clock>>

\* UpdatePolicy takes the lock and copies the policy onto itself: ...
UpdatePolicy(c) ==
  /\ call[c].at = "edit" /\ rows[call[c].on].table = "policy" /\ call[c].next > 4 /\ Unlocked
  /\ call' = [call EXCEPT ![c] = [@ EXCEPT !.at = "load", !.next = 1]]
  /\ UNCHANGED <<rows, windows, undone, sent, clock>>

\* ... each field is read, and passed over when it is empty, ...
LoadField(c) ==
  LET held == rows[call[c].on].by[Fields("policy")[call[c].next]]
  IN  /\ call[c].at = "load" /\ call[c].next <= 4
      /\ call' = [call EXCEPT ![c] = IF held = NoCall THEN [@ EXCEPT !.next = call[c].next + 1]
                                     ELSE [@ EXCEPT !.at = "store", !.holds = held]]
      /\ UNCHANGED <<rows, windows, undone, sent, clock>>

\* ... and written again as it was read, whatever was written to it since.
StoreField(c) ==
  /\ call[c].at = "store"
  /\ rows' = [rows EXCEPT ![call[c].on].by[Fields("policy")[call[c].next]] = call[c].holds]
  /\ call' = [call EXCEPT ![c] = [@ EXCEPT !.at = "load", !.next = call[c].next + 1, !.holds = NoCall]]
  /\ UNCHANGED <<windows, undone, sent, clock>>

PolicyStored(c) ==
  /\ call[c].at = "load" /\ call[c].next > 4 /\ Answer(c, "ok")
  /\ UNCHANGED <<rows, windows, undone, sent, clock>>

\* notifyChannelTest: For makes a channel of a type it knows.
StartTest(c) ==
  /\ call[c].at = "idle" /\ Unlocked
  /\ \E t \in Call :
       /\ There(t) => rows[t].table = "channel"
       /\ call' = [call EXCEPT ![c] = [@ EXCEPT !.kind = "test", !.on = t,
                     !.at = IF ~There(t) THEN "missing" ELSE IF rows[t].type = "unknown" THEN "failed" ELSE "send"]]
  /\ UNCHANGED <<rows, windows, undone, sent, clock>>

Testing(c, type) == call[c].at = "send" /\ rows[call[c].on].type = type

\* The server's mail function is a stub that returns no error.
SendEmail(c) == Testing(c, "email") /\ Answer(c, "ok") /\ UNCHANGED <<rows, windows, undone, sent, clock>>

\* The address comes from the configuration of the moment; the other side
\* accepts, refuses, or accepts and is not heard.
Post(c) ==
  /\ \/ Answer(c, "ok") /\ sent' = sent \cup {c}
     \/ Answer(c, "failed") /\ sent' \in {sent, sent \cup {c}}
  /\ UNCHANGED <<rows, windows, undone, clock>>

SendSlack(c) == Testing(c, "slack") /\ Post(c)
SendTeams(c) == Testing(c, "teams") /\ Post(c)
SendPagerDuty(c) == Testing(c, "pagerduty") /\ Post(c)
SendWebhook(c) == Testing(c, "webhook") /\ Post(c)

(***************************************************************************)
(* Maintenance windows and snoozes.                                        *)
(***************************************************************************)

\* handleMaintenanceWindows: an end before the start is refused.
CreateWindow(c) ==
  /\ call[c].at = "idle"
  /\ \E from, until \in 0 .. MaxTime :
       LET ok == until >= from
       IN  /\ windows' = IF ok THEN [windows EXCEPT ![c] = [kind |-> "window", from |-> from, until |-> until]] ELSE windows
           /\ call' = [call EXCEPT ![c] = [@ EXCEPT !.kind = "window", !.on = c, !.at = IF ok THEN "get" ELSE "refused"]]
  /\ UNCHANGED <<rows, undone, sent, clock>>

\* The row is read back; by then it may be gone.
GetWindow(c) ==
  /\ call[c].at = "get" /\ Answer(c, IF windows[c] = NoWindow THEN "failed" ELSE "ok")
  /\ UNCHANGED <<rows, windows, undone, sent, clock>>

DeleteWindow(c) ==
  /\ call[c].at = "idle"
  /\ \E w \in Call :
       /\ windows[w].kind # "snooze"
       /\ windows' = [windows EXCEPT ![w] = NoWindow]
       /\ call' = [call EXCEPT ![c] = [@ EXCEPT !.kind = "delete", !.on = w, !.at = IF windows[w] = NoWindow THEN "missing" ELSE "ok"]]
  /\ UNCHANGED <<rows, undone, sent, clock>>

\* handleSnoozes: from now on, for any duration that parses, a negative one too.
CreateSnooze(c) ==
  /\ call[c].at = "idle"
  /\ \E d \in -1 .. 1 : windows' = [windows EXCEPT ![c] = [kind |-> "snooze", from |-> clock, until |-> clock + d]]
  /\ call' = [call EXCEPT ![c] = [@ EXCEPT !.kind = "snooze", !.at = "ok"]]
  /\ UNCHANGED <<rows, undone, sent, clock>>

Tick == clock < MaxTime /\ clock' = clock + 1 /\ UNCHANGED <<rows, windows, call, undone, sent>>

Busy == {"edit", "load", "store", "send", "get"}

\* Channels and policies are gone with the process.
RestartNotices ==
  /\ \E c \in Call : There(c) \/ call[c].at \in Busy
  /\ rows' = [c \in Call |-> Absent]
  /\ call' = [c \in Call |-> IF call[c].at \in Busy THEN [call[c] EXCEPT !.at = "lost"] ELSE call[c]]
  /\ undone' = {} /\ UNCHANGED <<windows, sent, clock>>

NoteNext ==
  \/ Tick \/ RestartNotices
  \/ \E c \in Call :
       \/ CreateChannel(c) \/ CreatePolicy(c) \/ StartUpdate(c, "channel") \/ StartUpdate(c, "policy")
       \/ EditField(c) \/ UpdateChannel(c) \/ UpdatePolicy(c) \/ LoadField(c) \/ StoreField(c) \/ PolicyStored(c)
       \/ StartTest(c)
       \/ SendEmail(c) \/ SendSlack(c) \/ SendTeams(c) \/ SendPagerDuty(c) \/ SendWebhook(c)
       \/ CreateWindow(c) \/ GetWindow(c) \/ DeleteWindow(c) \/ CreateSnooze(c)

NoteSpec == NoteInit /\ [][NoteNext]_noteVars

(***************************************************************************)
(* Properties.                                                             *)
(***************************************************************************)

\* notifyChannelUpdate and notifyPolicyUpdate change the stored row, field by
\* field and without a lock: whoever set a field was asked to, and an update
\* that was answered keeps what it set until another one sets that field, unless
\* it was set while UpdatePolicy, on behalf of another, had read the field and
\* not yet written it back.
NoUpdateIsLost ==
  \A t \in {c \in Call : There(c)}, f \in Field :
    LET w == rows[t].by[f]
        Asked(u) == call[u].on = t /\ (f \in call[u].given \/ (f = "scope" /\ rows[t].table = "policy"))
    IN  /\ w \notin {t, NoCall} => Asked(w)
        /\ \A u \in Call : call[u].kind = "update" /\ call[u].at = "ok" /\ Asked(u) /\ <<t, f>> \notin undone
                           => w \notin {t, NoCall}
=============================================================================
