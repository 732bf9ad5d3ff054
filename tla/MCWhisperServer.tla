--------------------------- MODULE MCWhisperServer ---------------------------
(* Small instances of WhisperServer: two goroutines, and enough servers for *)
(* a start-up of three attempts or for two restarts.                        *)
EXTENDS WhisperServer, TLC

CONSTANTS a, b

OneEach   == [c \in Callers |-> 1]
Both      == Permutations(Callers)
=============================================================================
