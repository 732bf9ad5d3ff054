---------------------------- MODULE MCStreamProbe ----------------------------
(* Small instances of StreamProbe: its constants are numbers, given in the  *)
(* configurations.                                                          *)
EXTENDS StreamProbe
=============================================================================
