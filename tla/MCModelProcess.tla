---------------------------- MODULE MCModelProcess ----------------------------
(* Small instances of ModelProcess: two goroutines and up to three children, *)
(* which is two restarts.                                                    *)
EXTENDS ModelProcess, TLC

CONSTANTS a, b

TwoAndOne == a :> 2 @@ b :> 1
OneEach   == [c \in Callers |-> 1]
Both      == Permutations(Callers)
=============================================================================
