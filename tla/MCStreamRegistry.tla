-------------------------- MODULE MCStreamRegistry --------------------------
(* Small instances of StreamRegistry for TLC.                              *)
EXTENDS StreamRegistry
=============================================================================
