---------------------------- MODULE LogDelivery ----------------------------
(***************************************************************************)
(* What the agent's log shipper promises, without files, offsets, batches  *)
(* or retries: a line that was logged is owed until both sinks accepted    *)
(* it; while the agent runs, an owed line leaves the debt only by being    *)
(* accepted or, when more than Cap lines are owed, by being dropped.  The  *)
(* end of the process is the one event that may forgive lines silently.    *)
(***************************************************************************)
EXTENDS Naturals, FiniteSets

CONSTANTS Line,   \* the lines the agent may log
          Cap     \* lines the shipper may hold

VARIABLES logged,    \* lines written to the log
          owed,      \* logged, and still to be shipped
          accepted,  \* accepted by every configured sink at least once
          running    \* the agent process is up

absVars == <<logged, owed, accepted, running>>

Init == logged = {} /\ owed = {} /\ accepted = {} /\ running = TRUE

\* The agent logs lines; several may reach the file between two looks at it.
Log ==
  /\ \E S \in SUBSET (Line \ logged) : logged' = logged \cup S /\ owed' = owed \cup S
  /\ UNCHANGED <<accepted, running>>

\* A batch of owed lines is accepted by both sinks.
Accept ==
  /\ running
  /\ \E S \in (SUBSET owed) \ {{}} : accepted' = accepted \cup S /\ owed' = owed \ S
  /\ UNCHANGED <<logged, running>>

\* Over the cap, lines are dropped until the cap is met again.
Overflow ==
  /\ running
  /\ \E S \in SUBSET owed :
       /\ Cardinality(owed \ S) >= Cap
       /\ owed' = owed \ S
  /\ UNCHANGED <<logged, accepted, running>>

\* The process ends: owed lines may be forgotten, accepted ones owed again.
End ==
  /\ running /\ running' = FALSE
  /\ owed' \in SUBSET logged
  /\ UNCHANGED <<logged, accepted>>

Restart == ~running /\ running' = TRUE /\ UNCHANGED <<logged, owed, accepted>>

Next == Log \/ Accept \/ Overflow \/ End \/ Restart

Spec == Init /\ [][Next]_absVars
=============================================================================
