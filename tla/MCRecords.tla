----------------------------- MODULE MCRecords -----------------------------
(***************************************************************************)
(* What the server keeps about itself: its setup, its notices and its      *)
(* search index.  They share no variable: every behaviour checked moves    *)
(* one and leaves the others in an initial state.                          *)
(***************************************************************************)
EXTENDS FirstRun, Notices, SearchIndex, TLC

VARIABLE focus

Init ==
  /\ focus \in {"first", "notices", "search"}
  /\ focus # "first" => relay = "sink"
  /\ focus # "search" => shape = "ours"
  /\ FirstInit /\ NoteInit /\ SearchInit

Next ==
  /\ UNCHANGED focus
  /\ \/ focus = "first" /\ FirstNext /\ UNCHANGED <<noteVars, searchVars>>
     \/ focus = "notices" /\ NoteNext /\ UNCHANGED <<firstVars, searchVars>>
     \/ focus = "search" /\ SearchNext /\ UNCHANGED <<firstVars, noteVars>>

\* Settings a request may send: none, the default port, TLS with a password,
\* no TLS, and a port that is none.
MailChoices ==
  LET At(port) == [Unconfigured EXCEPT !.host = TRUE, !.port = port]
  IN  {Unconfigured, At(0), [At(465) EXCEPT !.password = CHOOSE r \in Req : TRUE], At(25), At(70000)}

Symmetry == Permutations(Call)
=============================================================================
