--------------------------- MODULE CommandService ---------------------------
(***************************************************************************)
(* What dispatching promises to those who dispatch, without queues, tokens *)
(* that travel, sessions or readers: a command runs at most once, on the   *)
(* device it was asked for, under an authorisation of its own that has not *)
(* run out, and only if its dispatcher was told that it was sent; and what *)
(* the server records of it is what happened, in the order it happened: a  *)
(* command is acknowledged when it has started, refused when it never      *)
(* will, and its final result stays.                                       *)
(***************************************************************************)
EXTENDS Sequences

CONSTANTS Cmd, Device, Action, None

VARIABLES
  request,    \* command -> the device and the action asked for, None before
  authorised, \* commands with a token minted for them
  expired,    \* commands whose token has run out
  told,       \* command -> what its dispatcher was told
  ran,        \* <<command, device>> in the order of execution
  answer      \* command -> what the server has recorded last

serviceVars == <<request, authorised, expired, told, ran, answer>>

Init ==
  /\ request = [c \in Cmd |-> None] /\ authorised = {} /\ expired = {}
  /\ told = [c \in Cmd |-> "none"] /\ ran = <<>> /\ answer = [c \in Cmd |-> None]

HasRun(c) == \E i \in DOMAIN ran : ran[i][1] = c

Ask(c) ==
  /\ request[c] = None
  /\ \E r \in [dev : Device, action : Action] : request' = [request EXCEPT ![c] = r]
  /\ UNCHANGED <<authorised, expired, told, ran, answer>>

Authorise(c) ==
  /\ request[c] # None /\ told[c] = "none"
  /\ authorised' = authorised \cup {c}
  /\ UNCHANGED <<request, expired, told, ran, answer>>

Expire(c) ==
  /\ request[c] # None /\ expired' = expired \cup {c}
  /\ UNCHANGED <<request, authorised, told, ran, answer>>

Tell(c) ==
  /\ request[c] # None /\ told[c] = "none"
  /\ \E what \in {"sent", "failed"} : told' = [told EXCEPT ![c] = what]
  /\ UNCHANGED <<request, authorised, expired, ran, answer>>

Run(c) ==
  /\ told[c] = "sent" /\ c \in authorised \ expired
  /\ ~HasRun(c) /\ answer[c] = None
  /\ ran' = Append(ran, <<c, request[c].dev>>)
  /\ UNCHANGED <<request, authorised, expired, told, answer>>

Record(c, status) ==
  /\ answer' = [answer EXCEPT ![c] = status]
  /\ UNCHANGED <<request, authorised, expired, told, ran>>

Acknowledge(c) == HasRun(c) /\ answer[c] = None /\ Record(c, "RECEIVED")

Refuse(c) == told[c] = "sent" /\ ~HasRun(c) /\ answer[c] = None /\ Record(c, "REFUSED")

Complete(c) ==
  /\ answer[c] = "RECEIVED"
  /\ \E status \in {"SUCCEEDED", "FAILED", "TIMED_OUT"} : Record(c, status)

Next == \E c \in Cmd : \/ Ask(c) \/ Authorise(c) \/ Expire(c) \/ Tell(c) \/ Run(c)
                       \/ Acknowledge(c) \/ Refuse(c) \/ Complete(c)

Spec == Init /\ [][Next]_serviceVars
=============================================================================
