----------------------------- MODULE MCEvaluation -----------------------------
(* Small instances of Evaluation: its constants are given in the            *)
(* configurations.                                                          *)
EXTENDS Evaluation
=============================================================================
