-------------------------------- MODULE Desk --------------------------------
(***************************************************************************)
(* The helpdesk: clients, the device's assignment to one of them, tickets  *)
(* with their status and notes, and the notifier that turns an escalated   *)
(* healing run into a ticket and an event.  One device.                    *)
(***************************************************************************)
EXTENDS Integers, FiniteSets

CONSTANTS
  Client,     \* clients an operator may create
  Unassigned, \* DefaultClientID, seeded by the migration
  Name,       \* client names, up to case
  Ticket,     \* ids newTicketID may draw
  Run,        \* healing runs that escalate
  MaxNote,    \* bound: notes of a ticket
  NoOne

ASSUME DeskAssumption ==
  /\ Unassigned \notin Client /\ NoOne \notin Client \cup {Unassigned} \cup Name \cup Run
  /\ MaxNote \in Nat

VARIABLES
  clients,   \* the rows: client -> name
  assigned,  \* the device's client_id, NoOne for NULL
  moving,    \* a device update that has found its client
  listing,   \* a client list that has read the rows but not the devices
  counts,    \* the device counts of the last list
  tickets,   \* the rows: ticket -> fields
  notes,     \* ticket -> number of notes
  escalated, \* run -> how far the notifier is
  down       \* <<run, ticket>> of the events published for escalations

deskVars == <<clients, assigned, moving, listing, counts, tickets, notes, escalated, down>>

Status == {"open", "in_progress", "resolved", "closed"}

\* What the caller leaves out gets its default: a ticket starts open.
NewTicket == [status : {"open"}, run : Run \cup {NoOne}, client : Client \cup {Unassigned, NoOne},
              resolved_at : {FALSE}, closed_at : {FALSE}]

DeskInit ==
  /\ clients = [c \in {Unassigned} |-> Unassigned] /\ assigned = NoOne /\ moving = NoOne
  /\ listing = {} /\ counts = [c \in {} |-> 0]
  /\ tickets = [t \in {} |-> 0] /\ notes = [t \in {} |-> 0]
  /\ escalated = [r \in Run |-> "no"] /\ down = FALSE

With(f, x, y) == [z \in DOMAIN f \cup {x} |-> IF z = x THEN y ELSE f[z]]

(***************************************************************************)
(* Clients.                                                                *)
(***************************************************************************)

\* One client per name, whatever its case.
NameFree(c, n) == \A d \in DOMAIN clients \ {c} : clients[d] # n

InsertClient(c, n) == c \notin DOMAIN clients /\ NameFree(c, n) /\ clients' = With(clients, c, n)

CreateClient(c, n) ==
  /\ InsertClient(c, n)
  /\ UNCHANGED <<assigned, moving, listing, counts, tickets, notes, escalated, down>>

RenameClient(c, n) == c \in DOMAIN clients /\ NameFree(c, n) /\ clients' = [clients EXCEPT ![c] = n]

\* A request that names no column reads the row back.
UpdateClient(c, n) ==
  /\ RenameClient(c, n)
  /\ UNCHANGED <<assigned, moving, listing, counts, tickets, notes, escalated, down>>

\* The rows first ...
ClientList ==
  /\ listing = {} /\ listing' = DOMAIN clients
  /\ UNCHANGED <<clients, assigned, moving, counts, tickets, notes, escalated, down>>

\* ... then the devices: one without a client counts for the default client.
CountDevices ==
  /\ listing # {} /\ listing' = {}
  /\ LET owner == IF assigned = NoOne THEN Unassigned ELSE assigned
     IN  counts' = [c \in listing |-> IF c = owner THEN 1 ELSE 0]
  /\ UNCHANGED <<clients, assigned, moving, tickets, notes, escalated, down>>

ListByColumn(c) == assigned = c

\* Whether ListByClient selects the device for a client.
ListByClient(c) == assigned = c \/ (c = Unassigned /\ assigned = NoOne)

\* The handler looks the client up, ...
HandleDeviceClient(c) ==
  /\ moving = NoOne /\ c \in DOMAIN clients /\ moving' = c
  /\ UNCHANGED <<clients, assigned, listing, counts, tickets, notes, escalated, down>>

\* ... then assigns the device; an empty client needs no look-up.
SetClient ==
  /\ \/ moving # NoOne /\ assigned' = moving /\ moving' = NoOne
     \/ assigned' = NoOne /\ UNCHANGED moving
  /\ UNCHANGED <<clients, listing, counts, tickets, notes, escalated, down>>

(***************************************************************************)
(* Tickets.                                                                *)
(***************************************************************************)

\* The foreign key asks for a known client.
InsertTicket(t, row) ==
  /\ t \notin DOMAIN tickets /\ row.client \in DOMAIN clients \cup {NoOne}
  /\ tickets' = With(tickets, t, row) /\ notes' = With(notes, t, 0)

CreateTicket(t) ==
  /\ \E row \in NewTicket : InsertTicket(t, row)
  /\ UNCHANGED <<clients, assigned, moving, listing, counts, escalated, down>>

\* Any field but the status.
UpdateTicket(t, c) == t \in DOMAIN tickets /\ c \in DOMAIN clients /\ tickets' = [tickets EXCEPT ![t].client = c]

PatchTicket(t) ==
  /\ \E c \in DOMAIN clients : UpdateTicket(t, c)
  /\ UNCHANGED <<clients, assigned, moving, listing, counts, notes, escalated, down>>

\* The stamp of a status is set with it, and stays.
Stamped(row, s) ==
  [row EXCEPT !.status = s, !.resolved_at = (@ \/ s = "resolved"), !.closed_at = (@ \/ s = "closed")]

Transition(t, s) == t \in DOMAIN tickets /\ tickets' = [tickets EXCEPT ![t] = Stamped(@, s)]

\* Any status may follow any other.
TransitionTicket(t) ==
  /\ \E s \in Status : Transition(t, s)
  /\ UNCHANGED <<clients, assigned, moving, listing, counts, notes, escalated, down>>

\* A note of an unknown ticket is refused by the foreign key.
CreateNote(t) ==
  /\ t \in DOMAIN tickets /\ notes[t] < MaxNote
  /\ notes' = [notes EXCEPT ![t] = @ + 1]
  /\ UNCHANGED <<clients, assigned, moving, listing, counts, tickets, escalated, down>>

MatchesFilter(t, filter) ==
  /\ "status" \in DOMAIN filter => tickets[t].status = filter.status
  /\ "client" \in DOMAIN filter => tickets[t].client = filter.client

ListTickets(filter) == {t \in DOMAIN tickets : MatchesFilter(t, filter)}

(***************************************************************************)
(* Escalations.                                                            *)
(***************************************************************************)

\* The heal engine has moved the run to escalated and calls its notifier.
Escalated(r) ==
  /\ escalated[r] = "no" /\ ~down /\ escalated' = [escalated EXCEPT ![r] = "called"]
  /\ UNCHANGED <<clients, assigned, moving, listing, counts, tickets, notes, down>>

\* The pool asks the context whether it is done: without one it panics.
PoolPanics(ctx) == ctx = NoOne

\* The ticket is created with no context, and nothing recovers the panic: the
\* server goes down with everything it had in hand.
Escalate(r) ==
  /\ escalated[r] = "called" /\ ~down /\ PoolPanics(NoOne)
  /\ down' = TRUE /\ moving' = NoOne /\ listing' = {}
  /\ escalated' = [q \in Run |-> IF escalated[q] = "called" THEN "over" ELSE escalated[q]]
  /\ UNCHANGED <<clients, assigned, counts, tickets, notes>>

ServerStarts ==
  /\ down /\ down' = FALSE
  /\ UNCHANGED <<clients, assigned, moving, listing, counts, tickets, notes, escalated>>

ClientHandlers == ClientList \/ CountDevices \/ SetClient
                  \/ \E c \in Client \cup {Unassigned} :
                       \/ HandleDeviceClient(c)
                       \/ \E n \in Name : CreateClient(c, n) \/ UpdateClient(c, n)
TicketHandlers == \E t \in Ticket : CreateTicket(t) \/ PatchTicket(t) \/ CreateNote(t) \/ TransitionTicket(t)
Escalations    == ServerStarts \/ \E r \in Run : Escalated(r) \/ Escalate(r)

DeskNext == (~down /\ (ClientHandlers \/ TicketHandlers)) \/ Escalations

DeskSpec == DeskInit /\ [][DeskNext]_deskVars

(***************************************************************************)
(* Properties.                                                             *)
(***************************************************************************)

\* clientList and ListByClient, each with its own rule for a device that has
\* no client, agree on whose device it is.
CountMatchesList ==
  [][CountDevices => \A c \in listing : counts'[c] = 1 <=> ListByClient(c)]_deskVars
=============================================================================
