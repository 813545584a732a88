------------------------- MODULE MCCommandDispatch -------------------------
(***************************************************************************)
(* A behaviour has either one device and up to MaxCmd commands, or two     *)
(* devices and one command, which only the wrong device could misuse.      *)
(***************************************************************************)
EXTENDS CommandDispatch

CONSTANT Second  \* the device the first kind of behaviour does without

VARIABLE mode

Kept ==
  /\ mode' = mode
  /\ mode = "pair" => idSeq' <= 1
  /\ mode = "single" => /\ live'[Second] = None
                        /\ \A c \in Cmd : cmd'[c] # None => cmd'[c].dev # Second

MCInit == Init /\ mode \in {"single", "pair"}

\* Only Begin and Connect are ever held back, which need no fairness.
MCSpec == MCInit /\ [][Next /\ Kept]_<<vars, mode>> /\ Fairness
=============================================================================
