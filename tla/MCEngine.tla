------------------------------- MODULE MCEngine -------------------------------
(* Small instances of Engine: its constants are numbers, given in the       *)
(* configurations.                                                          *)
EXTENDS Engine
=============================================================================
