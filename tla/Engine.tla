-------------------------------- MODULE Engine --------------------------------
(***************************************************************************)
(* The engine as a process (cmd/lifx-command-engine/main.go): the options, *)
(* the start-up of whisper-server, the request loop of internal/jsonl and  *)
(* the deferred shutdown, between a host that closes, kills or dies and    *)
(* runtimes that load, answer, crash or hang.                              *)
(*                                                                         *)
(* ModelProcess and WhisperServer have the runtimes in detail, with many   *)
(* callers and cancellation.  Here each is in short form, because the      *)
(* engine uses it in a narrow way: one request at a time, and under        *)
(* context.Background(), which never ends.  SidecarClient has the host's   *)
(* side in detail; here it writes, closes stdin, and kills after a while.  *)
(***************************************************************************)
EXTENDS Naturals, Sequences

CONSTANTS MaxRequests, (* bound: the requests of the host                  *)
          Attempts     (* startupAttempts                                  *)

ASSUME BoundsAssumption == MaxRequests \in Nat /\ Attempts \in Nat \ {0}

(* What the host may write: a request that needs no runtime, one that needs *)
(* the model or whisper, and one whose id the engine cannot know, because   *)
(* the line is oversized or undecodable or has no id.                       *)
Kinds    == {"plain", "interpret", "transcribe", "anonymous"}
Children == {"model", "whisper"}
Flags    == [modelCommand : BOOLEAN, modelPersistent : BOOLEAN, whisperCommand : BOOLEAN,
             whisperModel : BOOLEAN, whisperPersistent : BOOLEAN, whisperArgs : BOOLEAN]

VARIABLES options,   (* the flags and configuration, fixed at the start     *)
          pc,        (* the engine's next statement                         *)
          attempt,   (* attempts of the start-up under way                  *)
          cmd,       (* whether the generator holds a model process, which  *)
                     (* may have ended unnoticed                            *)
          child,     (* of a runtime's process: none, loading, idle, busy,  *)
                     (* or killed, which is signalled and not yet gone      *)
          stray,     (* whether a whisper-server is left that was killed    *)
                     (* and that the engine waits for no longer             *)
          asked,     (* the requests the host wrote                         *)
          newline,   (* whether the last of them is terminated              *)
          taken,     (* the requests the engine read                        *)
          answers,   (* the responses the engine wrote                      *)
          body,      (* the response to be written next                     *)
          host,      (* open; closing, after Close or a failed Start; dead  *)
          failed     (* whether runServe returns an error                   *)

hostVars == <<asked, newline, host>>
vars == <<options, pc, attempt, cmd, child, stray, hostVars, taken, answers, body, failed>>

Exited  == pc = "exited"
Ended   == pc \in {"exited", "dead"}
Eof     == host # "open"
Alive(r) == child[r] # "none"

Init ==
  /\ options \in Flags
  /\ pc = "options" /\ attempt = 0 /\ cmd = FALSE /\ failed = FALSE
  /\ child = [r \in Children |-> "none"] /\ stray = FALSE
  /\ asked = <<>> /\ newline = TRUE /\ taken = 0 /\ answers = <<>> /\ body = "none"
  /\ host = "open"

Goto(point) == pc' = point
Become(r, status) == child' = [child EXCEPT ![r] = status]

(* ------------------------------ start-up -------------------------------- *)

Valid ==
  /\ options.modelPersistent => options.modelCommand
  /\ options.whisperCommand = options.whisperModel
  /\ options.whisperPersistent => options.whisperCommand /\ options.whisperArgs

(* The options, and runServe up to the start of a persistent server.        *)
Configure ==
  /\ pc = "options"
  /\ Goto(IF ~Valid THEN "exited" ELSE IF options.whisperPersistent THEN "start" ELSE "read")
  /\ failed' = ~Valid
  /\ UNCHANGED <<options, stray, cmd, attempt, child, hostVars, taken, answers, body>>

Starting == pc \in {"start", "restart"}

MayLaunch_OneMore == ~Alive("whisper") /\ attempt <= Attempts
MayLaunch == ~Alive("whisper") /\ attempt < Attempts

(* startLocked, in Start and in a transcription that finds no server: up to *)
(* Attempts servers, each after the end of the one before it.               *)
Launch ==
  /\ Starting /\ MayLaunch
  /\ attempt' = attempt + 1
  /\ Become("whisper", "loading")
  /\ UNCHANGED <<options, stray, cmd, pc, hostVars, taken, answers, body, failed>>

Ready ==
  /\ Starting /\ child["whisper"] = "idle"
  /\ attempt' = 0
  /\ IF pc = "start" THEN Goto("read") /\ UNCHANGED child
                     ELSE Goto("transcribe") /\ Become("whisper", "busy")
  /\ UNCHANGED <<options, stray, cmd, hostVars, taken, answers, body, failed>>

(* The last attempt ended before readiness, or no server can be launched.   *)
StartFails ==
  /\ Starting /\ ~Alive("whisper")
  /\ attempt' = 0
  /\ \/ pc = "start" /\ Goto("closeWhisper") /\ failed' = TRUE /\ UNCHANGED body
     \/ pc = "restart" /\ Goto("reply") /\ body' = "error" /\ UNCHANGED failed
  /\ UNCHANGED <<options, stray, cmd, child, hostVars, taken, answers>>

(* The two minutes of startupCtx, which a restart does not have.            *)
StartExpires ==
  /\ pc = "start" /\ Alive("whisper")
  /\ Become("whisper", "killed")
  /\ attempt' = Attempts
  /\ UNCHANGED <<options, stray, cmd, pc, hostVars, taken, answers, body, failed>>

(* stopProcessLocked waits two seconds for the server it has killed.  Then  *)
(* startLocked and discardProcess forget it.                                *)
GiveUp ==
  /\ Starting \/ pc = "discard"
  /\ child["whisper"] = "killed"
  /\ Become("whisper", "none")
  /\ stray' = TRUE
  /\ UNCHANGED <<options, pc, attempt, cmd, hostVars, taken, answers, body, failed>>

(* ---------------------------- request loop ------------------------------ *)

(* readLine has a line: a terminated one, or the rest before the end.       *)
Line == taken < Len(asked) /\ (taken + 1 < Len(asked) \/ newline \/ Eof)

(* The deferred calls of runServe: the server first, the model after it.    *)
Deferred == IF options.whisperPersistent THEN "closeWhisper" ELSE "closeModel"

Confident == {"plan", "error"}   (* the rules' own plan, or their error     *)

(* A blank line is skipped and not modelled: no host writes one. *)
Read ==
  /\ pc = "read" /\ Line
  /\ taken' = taken + 1
  /\ LET kind == asked[taken'] IN
       \/ kind = "plain" /\ Goto("reply") /\ body' = "result" /\ UNCHANGED child
       \/ kind = "anonymous" /\ Goto("reply") /\ body' = "noid" /\ UNCHANGED child
       \/ kind = "interpret" /\ Goto("reply") /\ body' \in Confident /\ UNCHANGED child
       \/ /\ kind = "interpret" /\ options.modelCommand
          /\ Goto(IF cmd THEN "generate" ELSE "load")
          /\ IF cmd /\ Alive("model") THEN Become("model", "busy") ELSE UNCHANGED child
          /\ UNCHANGED body
       \/ /\ kind = "transcribe" /\ ~options.whisperCommand
          /\ Goto("reply") /\ body' = "error" /\ UNCHANGED child
       \/ /\ kind = "transcribe" /\ options.whisperCommand
          /\ IF options.whisperPersistent /\ ~Alive("whisper")
               THEN Goto("restart") /\ UNCHANGED child
               ELSE Goto("transcribe") /\ Become("whisper", "busy")
          /\ UNCHANGED body
  /\ UNCHANGED <<options, stray, cmd, attempt, hostVars, answers, failed>>

ReadEnd_Early == pc = "read" /\ Eof /\ (taken = Len(asked) \/ ~newline)
ReadEnd == pc = "read" /\ Eof /\ taken = Len(asked)

End ==
  /\ ReadEnd
  /\ Goto(Deferred)
  /\ UNCHANGED <<options, stray, cmd, attempt, child, hostVars, taken, answers, body, failed>>

(* A response on a stdout that is still open; a host that died has closed   *)
(* it, and the Go runtime turns the failing write to descriptor 1 into the  *)
(* end of the process by SIGPIPE.                                           *)
Reply ==
  /\ pc = "reply"
  /\ IF host = "dead" THEN Goto("dead") /\ UNCHANGED answers
     ELSE Goto("read") /\ answers' = Append(answers, [req |-> taken, body |-> body])
  /\ body' = "none"
  /\ UNCHANGED <<options, stray, cmd, attempt, child, hostVars, taken, failed>>

(* ------------------------------ runtimes -------------------------------- *)

ReplyPlan == Goto("reply") /\ body' = "plan"

(* A model process is launched: for this request alone, with the request as *)
(* its input, or to stay, with a handshake first.                           *)
LoadModel ==
  /\ pc = "load"
  /\ cmd' = options.modelPersistent
  /\ IF cmd' THEN Goto("handshake") /\ Become("model", "loading")
             ELSE Goto("generate") /\ Become("model", "busy")
  /\ UNCHANGED <<options, stray, attempt, hostVars, taken, answers, body, failed>>

LoadModelFails ==
  /\ pc = "load"
  /\ ReplyPlan
  /\ UNCHANGED <<options, stray, attempt, cmd, child, hostVars, taken, answers, failed>>

ModelReady ==
  /\ pc = "handshake" /\ child["model"] = "idle"
  /\ Goto("generate") /\ Become("model", "busy")
  /\ UNCHANGED <<options, stray, attempt, cmd, hostVars, taken, answers, body, failed>>

(* The model's plan or, after an error it reports, that of the rules; an    *)
(* undecodable line has the child killed.  A process that was made for the  *)
(* request has ended when its output is read.                               *)
ModelAnswers ==
  /\ pc = "generate" /\ child["model"] = "busy"
  /\ \/ ReplyPlan /\ Become("model", IF cmd THEN "idle" ELSE "none")
     \/ cmd /\ Goto("stopModel") /\ Become("model", "killed") /\ UNCHANGED body
  /\ UNCHANGED <<options, stray, attempt, cmd, hostVars, taken, answers, failed>>

(* The child is gone: it ended under the handshake or the request, or       *)
(* between two requests, or stopLocked has waited for it.                   *)
ModelEnds_Unnoticed == {"generate", "stopModel"}
ModelEnds == {"handshake", "generate", "stopModel"}

ModelReaped_NoWait == pc \in ModelEnds /\ (pc = "stopModel" \/ ~Alive("model"))
ModelReaped == pc \in ModelEnds /\ ~Alive("model")

ModelGone ==
  /\ ModelReaped
  /\ ReplyPlan
  /\ cmd' = FALSE
  /\ UNCHANGED <<options, stray, attempt, child, hostVars, taken, answers, failed>>

(* The transcript or an HTTP error of a living server, or the end of        *)
(* whisper-cli.  A connection that fails has the server discarded.          *)
WhisperAnswers ==
  /\ pc = "transcribe" /\ child["whisper"] = "busy"
  /\ \/ /\ Goto("reply") /\ body' \in {"result", "error"}
        /\ Become("whisper", IF options.whisperPersistent THEN "idle" ELSE "none")
     \/ /\ options.whisperPersistent
        /\ Goto("discard") /\ Become("whisper", "killed") /\ UNCHANGED body
  /\ UNCHANGED <<options, stray, cmd, attempt, hostVars, taken, answers, failed>>

(* The connection is lost with the server, or discardProcess is through.    *)
WhisperLost ==
  /\ pc \in {"transcribe", "discard"} /\ ~Alive("whisper")
  /\ Goto("reply") /\ body' = "error"
  /\ UNCHANGED <<options, stray, cmd, attempt, child, hostVars, taken, answers, failed>>

(* ------------------------------ shutdown -------------------------------- *)

(* Close of the transcriber and of the generator: kill the process they     *)
(* hold and wait for it, without a bound.                                   *)
Owner == [closeWhisper |-> "whisper", closeModel |-> "model"]

Stop ==
  /\ pc \in DOMAIN Owner /\ Alive(Owner[pc]) /\ child[Owner[pc]] # "killed"
  /\ Become(Owner[pc], "killed")
  /\ UNCHANGED <<options, stray, pc, attempt, cmd, hostVars, taken, answers, body, failed>>

Stopped ==
  /\ pc \in DOMAIN Owner /\ ~Alive(Owner[pc])
  /\ Goto(IF pc = "closeWhisper" THEN "closeModel" ELSE "exited")
  /\ UNCHANGED <<options, stray, attempt, cmd, child, hostVars, taken, answers, body, failed>>

(* ------------------------- processes and host --------------------------- *)

(* A runtime has loaded. *)
Loaded(r) ==
  /\ pc # "dead" /\ child[r] = "loading"
  /\ Become(r, "idle")
  /\ UNCHANGED <<options, stray, cmd, pc, attempt, hostVars, taken, answers, body, failed>>

(* A runtime dies by itself, or of the signal it was sent. *)
Crash(r) ==
  /\ Alive(r)
  /\ Become(r, "none")
  /\ UNCHANGED <<options, stray, cmd, pc, attempt, hostVars, taken, answers, body, failed>>

KillArrives(r) == child[r] = "killed" /\ Crash(r)

(* The last server that was given up on dies of its signal. *)
StrayGone ==
  /\ stray
  /\ stray' = FALSE
  /\ UNCHANGED <<options, cmd, pc, attempt, child, hostVars, taken, answers, body, failed>>

(* What a killed engine leaves behind.  The model's serve loop ends with    *)
(* its input, and a process at work with the first line it writes to a pipe *)
(* that nobody reads.  An idle whisper-server neither reads nor writes.     *)
Notices_Never(r) == FALSE
Notices(r) == r = "model" \/ child[r] # "idle"

Orphaned(r) ==
  /\ pc = "dead" /\ child[r] \in {"loading", "idle", "busy"}
  /\ Notices(r)
  /\ Become(r, "none")
  /\ UNCHANGED <<options, stray, cmd, pc, attempt, hostVars, taken, answers, body, failed>>

(* The host writes a request; the end of a host may be its last terminator. *)
Ask(kind) ==
  /\ host = "open" /\ Len(asked) < MaxRequests /\ newline
  /\ asked' = Append(asked, kind)
  /\ newline' \in BOOLEAN
  /\ UNCHANGED <<options, stray, cmd, pc, attempt, child, taken, answers, body, host, failed>>

(* Client.Close, or the stop of a Start that ran out of time.               *)
HostCloses ==
  /\ host = "open"
  /\ host' = "closing"
  /\ UNCHANGED <<options, stray, cmd, pc, attempt, child, asked, newline, taken, answers, body,
                 failed>>

(* The host process ends: both pipes lose their other end.                  *)
HostDies ==
  /\ host # "dead"
  /\ host' = "dead"
  /\ UNCHANGED <<options, stray, cmd, pc, attempt, child, asked, newline, taken, answers, body,
                 failed>>

(* stop kills an engine that outlives the grace period.                     *)
Kill ==
  /\ host = "closing" /\ ~Ended
  /\ Goto("dead")
  /\ UNCHANGED <<options, stray, cmd, attempt, child, hostVars, taken, answers, body, failed>>

(* ------------------------------------------------------------------------ *)

EngineStep == \/ Configure \/ Launch \/ Ready \/ StartFails \/ StartExpires \/ GiveUp
              \/ Read \/ End \/ Reply
              \/ LoadModel \/ LoadModelFails \/ ModelReady \/ ModelGone
              \/ WhisperLost \/ Stop \/ Stopped
RuntimeStep == \/ ModelAnswers \/ WhisperAnswers \/ StrayGone
               \/ \E r \in Children : Loaded(r) \/ Crash(r) \/ Orphaned(r)
HostStep == HostCloses \/ HostDies \/ Kill \/ \E kind \in Kinds : Ask(kind)

Finished == Ended /\ UNCHANGED vars

Next == EngineStep \/ RuntimeStep \/ HostStep \/ Finished
Spec == Init /\ [][Next]_vars

(* The engine runs, startupCtx and the grace period expire, signals arrive, *)
(* and a process whose pipes have no other end notices.  Nothing is assumed *)
(* of the host, and of the runtimes only in RuntimesAnswer: they load, and  *)
(* they come to the end of what they were asked.                            *)
Fairness ==
  /\ WF_vars(EngineStep) /\ WF_vars(StartExpires) /\ WF_vars(Kill) /\ WF_vars(StrayGone)
  /\ \A r \in Children : WF_vars(KillArrives(r))

FairSpec == Spec /\ Fairness

RuntimesAnswer ==
  /\ WF_vars(ModelAnswers) /\ WF_vars(WhisperAnswers)
  /\ \A r \in Children : WF_vars(Loaded(r)) /\ WF_vars(Orphaned(r))
-----------------------------------------------------------------------------

(* Type correctness of the variables. *)
TypeOK ==
  /\ options \in Flags
  /\ pc \in {"options", "start", "read", "load", "handshake", "generate", "stopModel",
             "restart", "transcribe", "discard", "reply", "closeWhisper", "closeModel",
             "exited", "dead"}
  /\ attempt \in 0..Attempts /\ cmd \in BOOLEAN
  /\ child \in [Children -> {"none", "loading", "idle", "busy", "killed"}]
  /\ stray \in BOOLEAN
  /\ asked \in Seq(Kinds) /\ newline \in BOOLEAN /\ taken \in 0..Len(asked)
  /\ answers \in Seq([req : 1..MaxRequests, body : {"result", "plan", "error", "noid"}])
  /\ body \in {"none", "result", "plan", "error", "noid"}
  /\ host \in {"open", "closing", "dead"} /\ failed \in BOOLEAN

(* The engine waits for what it starts and for what it kills: between two   *)
(* requests it holds no runtime that is at work or dying, and when it       *)
(* returns, after a served input as after a failed start-up, it holds none. *)
(* A whisper-server that outlives its kill by two seconds is the exception: *)
(* it is held no longer, and may be there beside its successor, between     *)
(* requests and after the return (stray).  A model process is none.         *)
RuntimesReaped ==
  /\ pc = "read" => \A r \in Children : child[r] \in {"none", "idle"}
  /\ Exited => \A r \in Children : ~Alive(r)

(* Requests are answered in their order, each once: an engine that returns  *)
(* without an error has answered all it was sent, an unterminated last line *)
(* included.  An answer lacks its id exactly if the engine cannot know it:  *)
(* the line is oversized or undecodable or has no id (server.go:53-84).     *)
AllAnswered ==
  /\ Exited /\ ~failed => Len(answers) = Len(asked)
  /\ \A i \in 1..Len(answers) :
       /\ answers[i].req = i
       /\ answers[i].body = "noid" <=> asked[i] = "anonymous"

(* Every terminated request is answered unless the engine ends: as long as  *)
(* the runtimes come to the end of what they were asked, no crash of theirs *)
(* (in a start-up, a handshake, a request, between two requests) and no     *)
(* answer keeps the loop from going on.                                     *)
RequestsAnswered ==
  RuntimesAnswer => \A n \in 1..MaxRequests :
    (Len(asked) > n \/ (Len(asked) = n /\ newline)) ~> (Len(answers) >= n \/ Ended)

(* The engine ends with its host, however that ends and whatever it is      *)
(* doing, and its model process ends with it.  (A whisper-server may stay.) *)
EndsWithHost == RuntimesAnswer => (Eof ~> Ended /\ ~Alive("model"))

(* A patient host: it goes on, and its grace period is too long for what    *)
(* the engine does by itself, but not for every wait for a runtime.         *)
PatientNext == Next /\ host' # "dead" /\ (Kill => ~ENABLED EngineStep)
PatientSpec == Init /\ [][PatientNext]_vars /\ Fairness

(* Closing the engine stops its server, whatever it waits for.  The code    *)
(* does not: a killed engine runs no deferred call, and an idle server      *)
(* stays.                                                                   *)
ServerEndsWithEngine == RuntimesAnswer => (Ended ~> ~Alive("whisper") /\ ~stray)

(* What the code does not guarantee: a closed engine that hangs ends by the *)
(* kill of its host only, and not when that host has died.                  *)
EndsWithHungRuntime == Eof ~> Ended
=============================================================================
