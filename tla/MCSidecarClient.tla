--------------------------- MODULE MCSidecarClient ---------------------------
(* Small instances of SidecarClient: two host goroutines and at most two    *)
(* launches, which is one restart.                                          *)
EXTENDS SidecarClient

CONSTANTS a, b

(* One request each, or two of one caller: the two stages of one            *)
(* TranscribeAndInterpret, or a Close after the first has failed.           *)
OneEach   == [c \in Callers |-> 1]
TwoAndOne == [c \in Callers |-> IF c = a THEN 2 ELSE 1]

(* One caller speaks and closes; the other starts, or calls and cancels. *)
Mixed  == [c \in Callers |-> IF c = a THEN {"speech", "close"} ELSE {"call", "start", "cancel"}]

(* Both call; one of them cancels, the other closes. *)
Ending == [c \in Callers |-> IF c = a THEN {"call", "cancel"} ELSE {"call", "close"}]

(* Both call or start, and neither gives up by itself. *)
Starting == [c \in Callers |-> {"call", "start"}]
=============================================================================
