----------------------------- MODULE WhisperServer -----------------------------
(***************************************************************************)
(* The persistent whisper transcriber                                      *)
(* (internal/speech/whispercpp/persistent.go): Start, Transcribe and Close *)
(* of PersistentTranscriber, the goroutine that waits for each             *)
(* whisper-server process, and the server, reached over HTTP.              *)
(*                                                                         *)
(* pc says which statement a caller executes next.  Two locks overlap: the *)
(* inference token, held by a Transcribe from the select to its return,    *)
(* and t.mu, held over a whole start-up and over a discard, but not during *)
(* the inference.                                                          *)
(***************************************************************************)
EXTENDS Naturals, FiniteSets

CONSTANTS Callers,   (* the goroutines that use the transcriber             *)
          MaxCalls,  (* bound: the transcriptions and starts of each caller *)
          MaxProcs,  (* bound: servers launched over the run                *)
          Ops        (* the operations callers use                          *)

None  == 0           (* the nil *serverProcess *)
Procs == 1..MaxProcs
Attempts == 3        (* startupAttempts *)

ASSUME BoundsAssumption == MaxCalls \in [Callers -> Nat] /\ MaxProcs \in Nat
ASSUME OpsAssumption == Ops \subseteq {"transcribe", "start", "close", "cancel"}

VARIABLES process,   (* t.process                                           *)
          closed,    (* t.closed; lifetimeCtx is done from then on          *)
          pc,        (* the next statement of each caller                   *)
          op,        (* the operation a caller is in                        *)
          left,      (* the operations a caller may still begin             *)
          target,    (* the server a caller's statement works on            *)
          attempts,  (* the attempts of a caller's start-up so far          *)
          cancelled, (* whether a caller's context is done                  *)
          exchange,  (* a caller's HTTP exchange: none, request, headers,   *)
                     (* response, or reset by the server                    *)
          launched,  (* the number of servers started so far                *)
          status,    (* of a server: none, loading, ready or exited         *)
          killed,    (* whether it was sent a kill                          *)
          done,      (* serverProcess.done is closed: Wait has returned     *)
          failed     (* transcriptions that failed because it had ended     *)

callerVars == <<op, left, target, attempts, cancelled, exchange>>
serverVars == <<launched, status, killed, done, failed>>
vars == <<process, closed, pc, callerVars, serverVars>>

MuPoints    == {"launch", "probe", "kill", "reap", "discardKill", "discardReap"}
TokenPoints == MuPoints \cup {"lock", "send", "await", "body", "discard"}
Working     == (TokenPoints \cup {"closeWait"}) \ {"launch", "lock"}
Points == {"idle", "token", "closing", "closeWait"} \cup TokenPoints

Alive(p) == status[p] \in {"loading", "ready"}
MuFree    == \A d \in Callers : pc[d] \notin MuPoints
TokenFree == \A d \in Callers : op[d] = "transcribe" => pc[d] \notin TokenPoints

(* runningLocked; a variant that takes no server for a running one. *)
RunningLocked_Nil == IF process = None THEN TRUE ELSE ~done[process]
RunningLocked == process # None /\ ~done[process]

Init ==
  /\ process = None /\ closed = FALSE
  /\ pc = [c \in Callers |-> "idle"]
  /\ op = [c \in Callers |-> "transcribe"]
  /\ left = MaxCalls
  /\ target = [c \in Callers |-> None]
  /\ attempts = [c \in Callers |-> 0]
  /\ cancelled = [c \in Callers |-> FALSE]
  /\ exchange = [c \in Callers |-> "none"]
  /\ launched = 0
  /\ status = [p \in Procs |-> "none"]
  /\ killed = [p \in Procs |-> FALSE]
  /\ done = [p \in Procs |-> FALSE]
  /\ failed = [p \in Procs |-> 0]

Goto(c, point) == pc' = [pc EXCEPT ![c] = point]

(* The operation returns; t.mu and the token are released. *)
Return(c) ==
  /\ Goto(c, "idle")
  /\ op' = [op EXCEPT ![c] = "transcribe"]
  /\ target' = [target EXCEPT ![c] = None]
  /\ attempts' = [attempts EXCEPT ![c] = 0]
  /\ cancelled' = [cancelled EXCEPT ![c] = FALSE]
  /\ exchange' = [exchange EXCEPT ![c] = "none"]

(* ------------------------------ operations ------------------------------ *)

Begin(c) ==
  /\ pc[c] = "idle" /\ left[c] > 0
  /\ left' = [left EXCEPT ![c] = @ - 1]
  /\ \/ /\ "transcribe" \in Ops
        /\ op' = [op EXCEPT ![c] = "transcribe"]
        /\ Goto(c, "token")
     \/ /\ "start" \in Ops
        /\ op' = [op EXCEPT ![c] = "start"]
        /\ Goto(c, "lock")
  /\ UNCHANGED <<process, closed, target, attempts, cancelled, exchange, serverVars>>

(* A Close after Close returns at once and is left out. *)
BeginClose(c) ==
  /\ pc[c] = "idle" /\ "close" \in Ops /\ ~closed
  /\ op' = [op EXCEPT ![c] = "close"]
  /\ Goto(c, "closing")
  /\ UNCHANGED <<process, closed, left, target, attempts, cancelled, exchange, serverVars>>

(* The host's context ends; it is read by the selects and by HTTP. *)
Cancel(c) ==
  /\ "cancel" \in Ops /\ pc[c] \notin {"idle", "closing", "closeWait"} /\ ~cancelled[c]
  /\ cancelled' = [cancelled EXCEPT ![c] = TRUE]
  /\ UNCHANGED <<process, closed, pc, op, left, target, attempts, exchange, serverVars>>

(* The select of Transcribe. *)
TakeToken(c) ==
  /\ pc[c] = "token" /\ TokenFree
  /\ Goto(c, "lock")
  /\ UNCHANGED <<process, closed, callerVars, serverVars>>

TokenCancelled_Ignored(c) == FALSE
TokenCancelled(c) ==
  /\ pc[c] = "token" /\ cancelled[c]
  /\ Return(c)
  /\ UNCHANGED <<process, closed, left, serverVars>>

(* t.mu: a closed transcriber fails, a running server is used, and          *)
(* otherwise a start-up begins, with t.mu held until its end.               *)
Lock(c) ==
  /\ pc[c] = "lock" /\ MuFree
  /\ \/ /\ closed \/ (RunningLocked /\ op[c] = "start")
        /\ Return(c)
        /\ UNCHANGED left
     \/ /\ ~closed /\ RunningLocked /\ op[c] = "transcribe"
        /\ target' = [target EXCEPT ![c] = process]
        /\ Goto(c, "send")
        /\ UNCHANGED <<op, left, attempts, cancelled, exchange>>
     \/ /\ ~closed /\ ~RunningLocked
        /\ Goto(c, "launch")
        /\ UNCHANGED callerVars
  /\ process' = IF closed \/ RunningLocked THEN process ELSE None
  /\ UNCHANGED <<closed, serverVars>>

(* startLocked, one attempt: a server is launched, ... *)
Launch(c) ==
  /\ pc[c] = "launch"
  /\ launched < MaxProcs
  /\ launched' = launched + 1
  /\ process' = launched'
  /\ target' = [target EXCEPT ![c] = launched']
  /\ attempts' = [attempts EXCEPT ![c] = @ + 1]
  /\ status' = [status EXCEPT ![launched'] = "loading"]
  /\ Goto(c, "probe")
  /\ UNCHANGED <<closed, op, left, cancelled, exchange, killed, done, failed>>

LaunchFails(c) ==
  /\ pc[c] = "launch"
  /\ Return(c)
  /\ UNCHANGED <<process, closed, left, serverVars>>

(* ... waitReadyLocked polls it until it answers, ... *)
ProbeReady(c) ==
  /\ pc[c] = "probe" /\ status[target[c]] = "ready"
  /\ IF op[c] = "transcribe"
     THEN Goto(c, "send") /\ UNCHANGED callerVars
     ELSE Return(c) /\ UNCHANGED left
  /\ UNCHANGED <<process, closed, serverVars>>

(* ... ends, the context is done or Close was called, ... *)
ProbeFails(c) ==
  /\ pc[c] = "probe"
  /\ done[target[c]] \/ cancelled[c] \/ closed
  /\ Goto(c, "kill")
  /\ UNCHANGED <<process, closed, callerVars, serverVars>>

(* ... and then it is stopped. *)
AfterKill == [kill |-> "reap", discardKill |-> "discardReap"]

KillLocked_Skip(c) ==
  /\ pc[c] \in DOMAIN AfterKill
  /\ Goto(c, AfterKill[pc[c]])
  /\ UNCHANGED <<process, closed, callerVars, serverVars>>

KillLocked(c) ==
  /\ pc[c] \in DOMAIN AfterKill
  /\ killed' = IF done[target[c]] THEN killed ELSE [killed EXCEPT ![target[c]] = TRUE]
  /\ Goto(c, AfterKill[pc[c]])
  /\ UNCHANGED <<process, closed, callerVars, launched, status, done, failed>>

(* stopProcessLocked returns when the server is reaped or after two         *)
(* seconds; startLocked then tries again or gives up.                       *)
MayRetry(c) == attempts[c] < Attempts /\ ~cancelled[c] /\ ~closed

Reap(c) ==
  /\ pc[c] = "reap"
  /\ process' = None
  /\ \/ MayRetry(c) /\ Goto(c, "launch") /\ UNCHANGED callerVars
     \/ ~MayRetry(c) /\ Return(c) /\ UNCHANGED left
  /\ UNCHANGED <<closed, serverVars>>

(* infer: the request is written to the server that was found running. *)
Send(c) ==
  /\ pc[c] = "send" /\ status[target[c]] = "ready"
  /\ exchange' = [exchange EXCEPT ![c] = "request"]
  /\ Goto(c, "await")
  /\ UNCHANGED <<process, closed, op, left, target, attempts, cancelled, serverVars>>

(* client.Do fails because the server has ended or has dropped the          *)
(* connection: a transport error, which discards the server.                *)
Refused(c) ==
  /\ pc[c] \in {"send", "await"}
  /\ \/ status[target[c]] = "exited" /\ exchange[c] \in {"none", "request"}
     \/ exchange[c] = "reset"

CountFailure(c) ==
  failed' = [failed EXCEPT ![target[c]] = IF status[target[c]] = "exited" THEN @ + 1 ELSE @]

TransportError_Retry(c) ==
  /\ Refused(c)
  /\ Goto(c, "lock")
  /\ exchange' = [exchange EXCEPT ![c] = "none"]
  /\ UNCHANGED <<process, closed, op, left, target, attempts, cancelled, serverVars>>

TransportError(c) ==
  /\ Refused(c)
  /\ CountFailure(c)
  /\ IF cancelled[c]
     THEN Return(c) /\ UNCHANGED left
     ELSE Goto(c, "discard") /\ UNCHANGED callerVars
  /\ UNCHANGED <<process, closed, launched, status, killed, done>>

(* client.Do fails because the context is done. *)
InferCancelled(c) ==
  /\ pc[c] \in {"send", "await", "body"} /\ cancelled[c]
  /\ Return(c)
  /\ UNCHANGED <<process, closed, left, serverVars>>

(* client.Do returns with the headers of the response. *)
Headers(c) ==
  /\ pc[c] = "await" /\ exchange[c] \in {"headers", "response"}
  /\ Goto(c, "body")
  /\ UNCHANGED <<process, closed, callerVars, serverVars>>

(* The body is complete: a result, an HTTP status, or JSON that does not    *)
(* decode; none of them discards the server.                                *)
Body(c) ==
  /\ pc[c] = "body" /\ exchange[c] = "response"
  /\ Return(c)
  /\ UNCHANGED <<process, closed, left, serverVars>>

(* The server ended within the body: not a transport error. *)
BodyFails(c) ==
  /\ pc[c] = "body" /\ exchange[c] = "headers" /\ status[target[c]] = "exited"
  /\ CountFailure(c)
  /\ Return(c)
  /\ UNCHANGED <<process, closed, left, launched, status, killed, done>>

(* discardProcess: unless another server has taken its place. *)
Superseded_Never(c) == FALSE
Superseded(c) == process # target[c]

Discard(c) ==
  /\ pc[c] = "discard" /\ MuFree
  /\ \/ Superseded(c) /\ Return(c) /\ UNCHANGED left
     \/ ~Superseded(c) /\ Goto(c, "discardKill") /\ UNCHANGED callerVars
  /\ UNCHANGED <<process, closed, serverVars>>

DiscardReap(c) ==
  /\ pc[c] = "discardReap"
  /\ process' = None
  /\ Return(c)
  /\ UNCHANGED <<closed, left, serverVars>>

(* Close: lifetimeCancel kills every server that runs, ... *)
LifetimeCancel_Forgotten == killed
LifetimeCancel == [p \in Procs |-> killed[p] \/ (status[p] # "none" /\ ~done[p])]

Close(c) ==
  /\ pc[c] = "closing" /\ MuFree
  /\ closed' = TRUE
  /\ \/ /\ ~closed
        /\ killed' = LifetimeCancel
        /\ process' = None
        /\ \/ process = None /\ Return(c) /\ UNCHANGED left
           \/ /\ process # None
              /\ target' = [target EXCEPT ![c] = process]
              /\ Goto(c, "closeWait")
              /\ UNCHANGED <<op, left, attempts, cancelled, exchange>>
     \/ closed /\ Return(c) /\ UNCHANGED <<left, process, killed>>
  /\ UNCHANGED <<launched, status, done, failed>>

(* ... and Close waits until the current one is reaped; its second kill,    *)
(* after three seconds, adds nothing to the first.                          *)
CloseDone(c) ==
  /\ pc[c] = "closeWait" /\ done[target[c]]
  /\ Return(c)
  /\ UNCHANGED <<process, closed, left, serverVars>>

(* ------------------------------ the server ------------------------------ *)

(* The goroutine of launchLocked: Wait returns, done is closed. *)
WaitReturns_Never(p) == FALSE
WaitReturns(p) ==
  /\ status[p] = "exited" /\ ~done[p]
  /\ done' = [done EXCEPT ![p] = TRUE]
  /\ UNCHANGED <<process, closed, pc, callerVars, launched, status, killed, failed>>

Load(p) ==
  /\ status[p] = "loading"
  /\ status' = [status EXCEPT ![p] = "ready"]
  /\ UNCHANGED <<process, closed, pc, callerVars, launched, killed, done, failed>>

Respond(c) ==
  /\ exchange[c] \in {"request", "headers"} /\ status[target[c]] = "ready"
  /\ exchange' = [exchange EXCEPT ![c] = IF @ = "request" THEN "headers" ELSE "response"]
  /\ UNCHANGED <<process, closed, pc, op, left, target, attempts, cancelled, serverVars>>

Reset(c) ==
  /\ exchange[c] = "request" /\ pc[c] = "await" /\ status[target[c]] = "ready"
  /\ exchange' = [exchange EXCEPT ![c] = "reset"]
  /\ UNCHANGED <<process, closed, pc, op, left, target, attempts, cancelled, serverVars>>

End(p) ==
  /\ status' = [status EXCEPT ![p] = "exited"]
  /\ UNCHANGED <<process, closed, pc, callerVars, launched, killed, done, failed>>

Die(p) == Alive(p) /\ killed[p] /\ End(p)

Crash(p) == Alive(p) /\ ~killed[p] /\ End(p)

(* ------------------------------------------------------------------------ *)

Startup(c)  == \/ Launch(c) \/ LaunchFails(c) \/ ProbeReady(c) \/ ProbeFails(c)
               \/ KillLocked(c) \/ Reap(c)
Infer(c)    == \/ Send(c) \/ TransportError(c) \/ InferCancelled(c)
               \/ Headers(c) \/ Body(c) \/ BodyFails(c) \/ DiscardReap(c)
Acquire(c)  == TakeToken(c) \/ Lock(c) \/ Discard(c) \/ Close(c)
Step(c)     == Startup(c) \/ Infer(c) \/ TokenCancelled(c) \/ CloseDone(c)
Server      == (\E p \in Procs : Load(p)) \/ (\E c \in Callers : Respond(c))

Rest == /\ \A c \in Callers : pc[c] = "idle"
        /\ UNCHANGED vars

Next ==
  \/ \E c \in Callers : Begin(c) \/ BeginClose(c) \/ Cancel(c) \/ Acquire(c) \/ Step(c)
  \/ Server \/ \E c \in Callers : Reset(c)
  \/ \E p \in Procs : WaitReturns(p) \/ Die(p) \/ Crash(p)
  \/ Rest

Spec == Init /\ [][Next]_vars

(* Fairness: every goroutine that can run does, the token and t.mu are not  *)
(* withheld for ever, kills are carried out.                                *)
CallerFairness ==
  /\ \A c \in Callers : WF_vars(Step(c)) /\ SF_vars(Acquire(c))
  /\ \A p \in Procs : WF_vars(WaitReturns(p)) /\ WF_vars(Die(p))

(* A server that loads its model and answers. *)
ServerFairness ==
  /\ \A p \in Procs : WF_vars(Load(p))
  /\ \A c \in Callers : WF_vars(Respond(c))

FairSpec == Spec /\ CallerFairness
-----------------------------------------------------------------------------

(* Type correctness of the variables; who works on a server has one. *)
TypeOK ==
  /\ process \in Procs \cup {None}
  /\ closed \in BOOLEAN
  /\ pc \in [Callers -> Points]
  /\ op \in [Callers -> {"transcribe", "start", "close"}]
  /\ left \in [Callers -> Nat]
  /\ target \in [Callers -> Procs \cup {None}]
  /\ attempts \in [Callers -> 0..Attempts]
  /\ cancelled \in [Callers -> BOOLEAN]
  /\ exchange \in [Callers -> {"none", "request", "headers", "response", "reset"}]
  /\ launched \in 0..MaxProcs
  /\ status \in [Procs -> {"none", "loading", "ready", "exited"}]
  /\ killed \in [Procs -> BOOLEAN]
  /\ done \in [Procs -> BOOLEAN]
  /\ failed \in [Procs -> Nat]
  /\ \A c \in Callers : pc[c] \in Working => target[c] # None

(* No server is left behind: one that was not told to end is the current    *)
(* one.  A start-up, a discard and Close may each drop the current server   *)
(* while another caller has put a new one in its place.                     *)
NoOrphan == \A p \in Procs : Alive(p) /\ ~killed[p] => process = p

(* After Close every server has ended or was told to, and none is started.  *)
ClosedIsFinal == closed => process = None /\ \A p \in Procs : Alive(p) => killed[p]

(* Who starts or discards a server works on the current one: nobody         *)
(* replaces a server under a start-up, and a transcription that failed      *)
(* never drops the server that took the place of the one it failed on.      *)
WorksOnCurrent ==
  \A c \in Callers : pc[c] \in MuPoints \ {"launch"} => process = target[c]

(* The transcriptions as calls of AtMostOnce: begun, a transcription has    *)
(* the number left + 1.                                                     *)
Phase(k) ==
  LET c == k[1] IN
  IF k[2] <= left[c] THEN "new"
  ELSE IF k[2] > left[c] + 1 \/ pc[c] = "idle" \/ op[c] = "close" THEN "done"
  ELSE IF pc[c] = "await" THEN "sent"
  ELSE IF pc[c] = "body" THEN "answered"
  ELSE IF pc[c] \in {"discard", "discardKill", "discardReap"} THEN "done" ELSE "new"
Tokens == UNION {{c} \X (1..MaxCalls[c]) : c \in Callers}
Awaiting(kinds) == {<<c, left[c] + 1>> : c \in {d \in Callers : pc[d] = "await"
                                                              /\ exchange[d] \in kinds}}
Once == INSTANCE AtMostOnce WITH
          Calls <- Tokens,
          phase <- [k \in Tokens |-> Phase(k)],
          queue <- Awaiting({"request"}),
          answers <- Awaiting({"headers", "response"})

(* A transcription that failed is never sent again.                         *)
NeverReplayed == Once!Spec

(* Every operation comes to an end with a server that loads and answers. *)
EveryOpReturns == ServerFairness => \A c \in Callers : pc[c] # "idle" ~> pc[c] = "idle"

(* Whatever the server does, a cancelled start-up or inference comes to an  *)
(* end, and a cancelled transcription does not wait for the token.          *)
CancelReturns ==
  \A c \in Callers :
    /\ cancelled[c] /\ pc[c] = "token" ~> pc[c] # "token"
    /\ cancelled[c] /\ pc[c] \in {"probe", "send", "await", "body"} ~> pc[c] = "idle"

(* ---------------- what the code does not guarantee ---------------------- *)
(* TLC refutes each of the following.                                      *)

(* Close comes to an end, whatever the server does.  (It takes t.mu before  *)
(* lifetimeCancel, and the start-up holds t.mu.)                            *)
CloseReturns == \A c \in Callers : op[c] = "close" ~> op[c] # "close"

(* A start-up comes to an end, whatever the server does. *)
StartupReturns == \A c \in Callers : pc[c] = "probe" ~> pc[c] # "probe"

(* A server that ended fails one transcription, and the next finds a new    *)
(* one.                                                                     *)
FailsOnce == \A p \in Procs : failed[p] <= 1
=============================================================================
