------------------------------ MODULE StreamProbe ------------------------------
(***************************************************************************)
(* The replay of a recording with speculative transcriptions               *)
(* (internal/streamprobe/probe.go): Run, and the goroutine it starts for   *)
(* each partial transcription.  Audio is counted in chunks; the            *)
(* transcriber is a partner that answers, fails or is cancelled.           *)
(***************************************************************************)
EXTENDS Naturals, FiniteSets

CONSTANTS Chunks,          (* chunks in the recording                      *)
          PartialAfter,    (* chunks before the first partial              *)
          PartialInterval  (* chunks between the starts of two partials    *)

ASSUME ChunksAssumption == Chunks \in Nat \ {0}
ASSUME ScheduleAssumption == PartialAfter \in Nat /\ PartialInterval \in Nat

None     == 0                      (* active == nil *)
Partials == 1..Chunks
Final    == 0                      (* the file of the final transcription *)
Outcomes == {"ok", "canceled", "error"}

VARIABLES pc,            (* the next statement of Run                        *)
          captured,      (* chunks in captured                               *)
          nextPartialAt,
          active,        (* the partial in flight, as Run sees it            *)
          ctxDone,       (* Run's context is done                            *)
          released,      (* the time of release has been taken               *)
          attempts,      (* Metrics.PartialAttempts                          *)
          collected,     (* the partials counted, by outcome                 *)
          firstPartial,  (* the partial whose completion time was kept       *)
          stage,         (* of a partial's goroutine: none, running,         *)
                         (* returned, sent (into done) or ended              *)
          cancelled,     (* partials whose context was cancelled             *)
          outcome,       (* what a partial's Transcribe returned             *)
          early,         (* partials that completed before the release       *)
          files          (* temporary WAV files that exist                   *)

runVars  == <<captured, nextPartialAt, released, attempts, collected, firstPartial>>
goVars   == <<stage, outcome, early>>
vars     == <<pc, active, ctxDone, cancelled, files, runVars, goVars>>

Init ==
  /\ pc = "wait" /\ captured = 0 /\ nextPartialAt = PartialAfter
  /\ active = None /\ ctxDone = FALSE /\ released = FALSE
  /\ attempts = 0 /\ collected = [o \in Outcomes |-> {}] /\ firstPartial = None
  /\ stage = [p \in Partials |-> "none"]
  /\ cancelled = {} /\ early = {} /\ files = {}
  /\ outcome = [p \in Partials |-> "ok"]

(* ---------------------------------- Run --------------------------------- *)

(* waitContext: the chunk's time passes, ... *)
Capture ==
  /\ pc = "wait" /\ captured < Chunks
  /\ captured' = captured + 1
  /\ pc' = "poll"
  /\ UNCHANGED <<active, ctxDone, cancelled, files, goVars,
                 nextPartialAt, released, attempts, collected, firstPartial>>

(* ... or the context is done: the partial is cancelled, not awaited. *)
CaptureCancelled ==
  /\ pc = "wait" /\ captured < Chunks /\ ctxDone
  /\ cancelled' = cancelled \cup ({active} \ {None})
  /\ pc' = "failed"
  /\ UNCHANGED <<active, ctxDone, files, runVars, goVars>>

(* active.cancel and collect, for a partial that has sent its value; the    *)
(* time of the first completed one is kept.                                 *)
Collect_KeepLast(next) ==
  /\ active # None /\ stage[active] = "sent"
  /\ cancelled' = cancelled \cup {active}
  /\ collected' = [collected EXCEPT ![outcome[active]] = @ \cup {active}]
  /\ firstPartial' = IF outcome[active] = "ok" THEN active ELSE firstPartial
  /\ active' = None
  /\ pc' = next
  /\ UNCHANGED <<ctxDone, files, goVars, captured, nextPartialAt, released, attempts>>

Collect(next) ==
  /\ active # None /\ stage[active] = "sent"
  /\ cancelled' = cancelled \cup {active}
  /\ collected' = [collected EXCEPT ![outcome[active]] = @ \cup {active}]
  /\ firstPartial' = IF outcome[active] = "ok" /\ firstPartial = None
                     THEN active ELSE firstPartial
  /\ active' = None
  /\ pc' = next
  /\ UNCHANGED <<ctxDone, files, goVars, captured, nextPartialAt, released, attempts>>

(* The select after a chunk does not wait for the partial. *)
Unsent == active \notin {p \in Partials : stage[p] = "sent"}
KeepWaiting ==
  /\ pc = "poll" /\ Unsent
  /\ pc' = "decide"
  /\ UNCHANGED <<active, ctxDone, cancelled, files, runVars, goVars>>

(* No partial while one is in flight, and none on the last chunk. *)
Due_Overlapping == captured >= nextPartialAt /\ captured < Chunks
Due == active = None /\ captured >= nextPartialAt /\ captured < Chunks

NextChunk ==
  /\ pc = "decide" /\ ~Due
  /\ pc' = IF captured < Chunks THEN "wait" ELSE "release"
  /\ UNCHANGED <<active, ctxDone, cancelled, files, runVars, goVars>>

(* The file is written and the partial started under a context of its own. *)
StartPartial ==
  /\ pc = "decide" /\ Due
  /\ attempts' = attempts + 1
  /\ active' = attempts'
  /\ stage' = [stage EXCEPT ![attempts'] = "running"]
  /\ files' = files \cup {attempts'}
  /\ nextPartialAt' = captured + PartialInterval
  /\ pc' = "wait"
  /\ UNCHANGED <<ctxDone, cancelled, outcome, early, captured, released, collected, firstPartial>>

(* writeTemporaryWAV removes what it could not write. *)
WriteFails ==
  /\ (pc = "decide" /\ Due) \/ pc = "write"
  /\ pc' = "failed"
  /\ UNCHANGED <<active, ctxDone, cancelled, files, runVars, goVars>>

Release_NoNilCheck ==
  /\ pc = "release"
  /\ released' = TRUE
  /\ pc' = "select"
  /\ UNCHANGED <<active, ctxDone, cancelled, files, goVars,
                 captured, nextPartialAt, attempts, collected, firstPartial>>

Release ==
  /\ pc = "release"
  /\ released' = TRUE
  /\ pc' = IF active = None THEN "write" ELSE "select"
  /\ UNCHANGED <<active, ctxDone, cancelled, files, goVars,
                 captured, nextPartialAt, attempts, collected, firstPartial>>

(* The partial in flight is cancelled and awaited, ... *)
Preempt_NoWait ==
  /\ pc = "select" /\ Unsent
  /\ cancelled' = cancelled \cup {active}
  /\ active' = None
  /\ pc' = "write"
  /\ UNCHANGED <<ctxDone, files, runVars, goVars>>

Preempt ==
  /\ pc = "select" /\ Unsent
  /\ cancelled' = cancelled \cup {active}
  /\ pc' = "preempt"
  /\ UNCHANGED <<active, ctxDone, files, runVars, goVars>>

(* ... and then the whole recording is transcribed. *)
StartFinal ==
  /\ pc = "write"
  /\ files' = files \cup {Final}
  /\ pc' = "final"
  /\ UNCHANGED <<active, ctxDone, cancelled, runVars, goVars>>

FinalReturns ==
  /\ pc = "final"
  /\ files' = files \ {Final}
  /\ pc' \in {"done", "failed"}
  /\ UNCHANGED <<active, ctxDone, cancelled, runVars, goVars>>

(* ------------------------ the goroutine of a partial -------------------- *)

(* Transcribe returns and completedAt is taken; a cancelled one may still   *)
(* have answered.                                                           *)
PartialReturns(p, o) ==
  /\ stage[p] = "running"
  /\ o = "canceled" => p \in cancelled \/ ctxDone
  /\ stage' = [stage EXCEPT ![p] = "returned"]
  /\ outcome' = [outcome EXCEPT ![p] = o]
  /\ early' = IF released THEN early ELSE early \cup {p}
  /\ UNCHANGED <<pc, active, ctxDone, cancelled, files, runVars>>

(* done has room for the value: the goroutine ends although Run has left. *)
SendResult_Unbuffered(p) ==
  /\ stage[p] = "returned" /\ active = p /\ pc \in {"poll", "select", "preempt"}
  /\ stage' = [stage EXCEPT ![p] = "sent"]
  /\ UNCHANGED <<pc, active, ctxDone, cancelled, files, outcome, early, runVars>>

SendResult(p) ==
  /\ stage[p] = "returned"
  /\ stage' = [stage EXCEPT ![p] = "sent"]
  /\ UNCHANGED <<pc, active, ctxDone, cancelled, files, outcome, early, runVars>>

(* The deferred os.Remove; the value stays in done. *)
RemoveFile(p) ==
  /\ stage[p] = "sent" /\ p \in files
  /\ files' = files \ {p}
  /\ UNCHANGED <<pc, active, ctxDone, cancelled, runVars, goVars>>

(* The caller's context is cancelled or its time is up. *)
ContextDone ==
  /\ ~ctxDone /\ pc \notin {"done", "failed"}
  /\ ctxDone' = TRUE
  /\ UNCHANGED <<pc, active, cancelled, files, runVars, goVars>>

(* ------------------------------------------------------------------------ *)

RunStep ==
  \/ Capture \/ CaptureCancelled \/ NextChunk \/ KeepWaiting \/ StartPartial \/ WriteFails
  \/ pc = "poll" /\ Collect("decide")
  \/ Release \/ Preempt \/ StartFinal \/ FinalReturns
  \/ pc \in {"select", "preempt"} /\ Collect("write")

PartialStep(p) == (\E o \in Outcomes : PartialReturns(p, o)) \/ SendResult(p) \/ RemoveFile(p)

Ended == /\ pc \in {"done", "failed"}
         /\ UNCHANGED vars

Next == RunStep \/ (\E p \in Partials : PartialStep(p)) \/ ContextDone \/ Ended

Spec == Init /\ [][Next]_vars

(* Fairness: Run and the goroutines run, timers fire, the final             *)
(* transcription returns; a partial is sure to return only once its context *)
(* is done, as the transcribers of internal/speech do.                      *)
Fairness ==
  /\ WF_vars(RunStep)
  /\ \A p \in Partials :
       /\ WF_vars(SendResult(p)) /\ WF_vars(RemoveFile(p))
       /\ WF_vars((p \in cancelled \/ ctxDone) /\ \E o \in Outcomes : PartialReturns(p, o))

FairSpec == Spec /\ Fairness
-----------------------------------------------------------------------------

(* Type correctness of the variables. *)
TypeOK ==
  /\ pc \in {"wait", "poll", "decide", "release", "select", "preempt", "write",
             "final", "done", "failed"}
  /\ captured \in 0..Chunks /\ nextPartialAt \in Nat
  /\ active \in Partials \cup {None}
  /\ ctxDone \in BOOLEAN /\ released \in BOOLEAN
  /\ attempts \in 0..Chunks /\ firstPartial \in Partials \cup {None}
  /\ collected \in [Outcomes -> SUBSET Partials]
  /\ stage \in [Partials -> {"none", "running", "returned", "sent"}]
  /\ cancelled \subseteq Partials /\ early \subseteq Partials
  /\ outcome \in [Partials -> Outcomes]
  /\ files \subseteq Partials \cup {Final}

(* Inference is never asked for twice at once: at most one partial runs,    *)
(* and none beside the final transcription.                                 *)
Running == {p \in Partials : stage[p] = "running"}
OneInference == /\ Cardinality(Running) <= 1
                /\ pc = "final" => Running = {}

(* No attempt is lost: every one that Run is not waiting for was counted,   *)
(* once, as completed, cancelled or failed.                                 *)
Counted == UNION {collected[o] : o \in Outcomes}
Accounted ==
  pc # "failed" =>
    /\ 1..attempts = Counted \cup ({active} \ {None})
    /\ active \notin Counted
    /\ \A o, q \in Outcomes : o # q => collected[o] \cap collected[q] = {}

(* The report says whether a hypothesis came before the release: of the     *)
(* completed ones the first one kept decides.                               *)
BeforeRelease ==
  pc = "done" =>
    (firstPartial \in early <=> collected["ok"] \cap early # {})

(* Run returns although a partial hangs until it is cancelled, and then     *)
(* every temporary file is removed, also when Run returned before the       *)
(* goroutine that owns it.                                                  *)
EndsClean == <>[](pc \in {"done", "failed"} /\ files = {})
=============================================================================
