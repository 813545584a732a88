----------------------------- MODULE MCLogShip -----------------------------
(* Small instances of LogShip for TLC.                                     *)
EXTENDS LogShip

\* Two events in one millisecond, then a later one.
Times == <<1, 1, 2>>
=============================================================================
