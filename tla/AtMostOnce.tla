------------------------------ MODULE AtMostOnce ------------------------------
(***************************************************************************)
(* What the engine promises of a request that crosses a process boundary:  *)
(* it is sent at most once, carried out at most once, never sent again     *)
(* after a failure, and only its own answer reaches the call, while the    *)
(* call still waits.  Requests and answers may be lost at any time, and a  *)
(* call may fail at any time.  The Go client (README.md:92, "Failed        *)
(* requests are never automatically replayed"), the persistent model       *)
(* process and the whisper transcriber implement it.                       *)
(***************************************************************************)
CONSTANT Calls

VARIABLES phase,   (* of each call: new, sent, answered or done              *)
          queue,   (* the calls whose request may still be carried out       *)
          answers  (* the calls whose answer is on its way                   *)

vars == <<phase, queue, answers>>

Init == /\ phase = [k \in Calls |-> "new"]
        /\ queue = {}
        /\ answers = {}

Send(k) == /\ phase[k] = "new"
           /\ phase' = [phase EXCEPT ![k] = "sent"]
           /\ queue' = queue \cup {k}
           /\ UNCHANGED answers

Execute(k) == /\ k \in queue
              /\ queue' = queue \ {k}
              /\ answers' = answers \cup {k}
              /\ UNCHANGED phase

Deliver(k) == /\ k \in answers /\ phase[k] = "sent"
              /\ phase' = [phase EXCEPT ![k] = "answered"]
              /\ answers' = answers \ {k}
              /\ UNCHANGED queue

(* With its answer, or without one; what is left of its request or answer   *)
(* may be dropped at the same time.                                         *)
Return(k) == /\ phase[k] # "done"
             /\ phase' = [phase EXCEPT ![k] = "done"]
             /\ queue' \subseteq queue
             /\ answers' \subseteq answers

(* A process ends, a pipe is closed, or nobody waits for an answer. *)
Lose == /\ queue' \subseteq queue
        /\ answers' \subseteq answers
        /\ UNCHANGED phase

Next == \/ Lose
        \/ \E k \in Calls : Send(k) \/ Execute(k) \/ Deliver(k) \/ Return(k)

Spec == Init /\ [][Next]_vars
=============================================================================
