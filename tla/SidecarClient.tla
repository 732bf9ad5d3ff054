---------------------------- MODULE SidecarClient ----------------------------
(***************************************************************************)
(* The Go client of the engine (client/client.go): callers that share one  *)
(* sidecar process, its reader and waiter goroutines, restart after a      *)
(* crash, cancellation, readiness (Start) and Close.  The sidecar itself   *)
(* is reduced to its request loop (internal/jsonl/server.go, Serve): one   *)
(* request line in, one response line out, in order.                       *)
(*                                                                         *)
(* A thread is a caller, or the reader or the waiter of a process; pc says *)
(* which statement it executes next.  A section under Client.mu is one     *)
(* step.  Requests and responses carry the ghost field req, the call they  *)
(* were made for, which the code does not have.                            *)
(***************************************************************************)
EXTENDS Naturals, Sequences

CONSTANTS Callers,         (* the goroutines that use the client             *)
          MaxProcs,        (* bound: processes launched over the run         *)
          MaxCalls,        (* bound: the requests each caller may make       *)
          PipeCap,         (* bound: lines a pipe holds before a write waits *)
          RestartOnCrash,  (* Config.RestartOnCrash                          *)
          Ops,             (* the operations each caller uses                *)
          Sizes,           (* "large" is a request over 1 MiB                *)
          Replies          (* "garbage" is a line the reader cannot decode   *)

None  == 0                 (* the nil *process *)
Procs == 1..MaxProcs
Readers == {"reader"} \X Procs
Waiters == {"waiter"} \X Procs
Threads == Callers \cup Readers \cup Waiters

ASSUME CallersAssumption == Callers \cap (Readers \cup Waiters) = {}
ASSUME BoundsAssumption  == /\ MaxProcs \in Nat
                            /\ MaxCalls \in [Callers -> Nat]
                            /\ PipeCap \in Nat \ {0}
ASSUME ConfigAssumption  == /\ RestartOnCrash \in BOOLEAN
                            /\ Ops \in [Callers -> SUBSET
                                             {"call", "speech", "start", "close", "cancel"}]
                            /\ Sizes \subseteq {"small", "large"}
                            /\ Replies \subseteq {"result", "error", "garbage"}

VARIABLES process,   (* Client.process, the current process or None          *)
          closed,    (* Client.closed                                        *)
          nextID,    (* Client.nextID                                        *)
          pending,   (* the keys of Client.pending; the channel registered   *)
                     (* under i is the one of the caller whose id is i       *)
          pc,        (* the next statement of each thread                    *)
          op,        (* the operation a caller is in                         *)
          left,      (* the requests a caller may still make                 *)
          target,    (* the process a caller's call or stop works on         *)
          id,        (* the id of a caller's request, 0 before it has one    *)
          chan,      (* a caller's result channel, of capacity one           *)
          cancelled, (* whether a caller's context is done                   *)
          launched,  (* the number of processes started so far               *)
          status,    (* of a process: none, running or exited                *)
          killed,    (* whether Process.Kill was called on it                *)
          stdinOpen, (* whether the client's end of its stdin is open        *)
          stdin,     (* request lines in its stdin pipe                      *)
          stdout,    (* response lines in its stdout pipe                    *)
          hand,      (* the response its reader took and has not sent yet    *)
          once       (* process.once; the channel done is closed unless idle *)

clientVars  == <<process, closed, nextID, pending>>
callerVars  == <<op, left, target, id, chan, cancelled>>
processVars == <<launched, status, killed, stdinOpen, stdin, stdout>>
vars == <<clientVars, pc, callerVars, processVars, hand, once>>

CallPoints == {"ensure", "alloc", "register", "lockWrite", "write", "wait",
               "unpend", "unwait", "fail", "failLock", "failed"}
StopPoints == {"drop", "stopStdin", "stopWait", "stopReap"}
CallerPoints == CallPoints \cup StopPoints \cup {"idle", "startEnsure"}
ReaderPoints == {"scan", "fail", "failLock", "done"}
WaiterPoints == {"reap", "fail", "failLock", "done"}
Points == CallerPoints \cup ReaderPoints \cup WaiterPoints

(* The request of caller c that is under way: its n-th from the end. *)
Token(c) == <<c, left[c]>>
Requests == [id : Nat, req : Callers \X Nat, size : {"small", "large"}]
Answers  == [id : Nat, req : Callers \X Nat, kind : {"result", "error", "garbage"}]
Failures == [kind : {"failed", "closed"}]

(* The process a thread works on: a goroutine of a process knows it. *)
Target(t) == IF t \in Callers THEN target[t] ELSE t[2]
DoneClosed(p) == once[p] # "idle"

Init ==
  /\ process = None /\ closed = FALSE /\ nextID = 0 /\ pending = {}
  /\ pc = [t \in Threads |-> IF t \in Callers THEN "idle"
                             ELSE IF t \in Readers THEN "scan" ELSE "reap"]
  /\ op = [c \in Callers |-> "call"]
  /\ left = MaxCalls
  /\ target = [c \in Callers |-> None]
  /\ id = [c \in Callers |-> 0]
  /\ chan = [c \in Callers |-> <<>>]
  /\ cancelled = [c \in Callers |-> FALSE]
  /\ launched = 0
  /\ status = [p \in Procs |-> "none"]
  /\ killed = [p \in Procs |-> FALSE]
  /\ stdinOpen = [p \in Procs |-> TRUE]
  /\ stdin = [p \in Procs |-> <<>>]
  /\ stdout = [p \in Procs |-> <<>>]
  /\ hand = [p \in Procs |-> <<>>]
  /\ once = [p \in Procs |-> "idle"]

Goto(t, point) == pc' = [pc EXCEPT ![t] = point]

(* delete(c.pending, i), by the reader or by removePending. *)
Unregister_Kept(i) == pending
Unregister(i) == pending \ {i}

(* failPendingLocked: every registered channel receives the error. *)
FailPending(kind) ==
  /\ chan' = [c \in Callers |-> IF id[c] \in pending
                                THEN Append(chan[c], [kind |-> kind]) ELSE chan[c]]
  /\ pending' = {}

(* call returns: its locals are gone. *)
Leave(c, point) ==
  /\ Goto(c, point)
  /\ left' = [left EXCEPT ![c] = @ - 1]
  /\ target' = [target EXCEPT ![c] = None]
  /\ id' = [id EXCEPT ![c] = 0]
  /\ chan' = [chan EXCEPT ![c] = <<>>]

(* After Transcribe, TranscribeAndInterpret goes on to Interpret with the   *)
(* same context; any other operation is over.                               *)
ReturnResult(c) ==
  /\ Leave(c, IF op[c] = "speech" THEN "ensure" ELSE "idle")
  /\ op' = [op EXCEPT ![c] = "call"]
  /\ cancelled' = [cancelled EXCEPT ![c] = IF op[c] = "speech" THEN @ ELSE FALSE]

(* When Health failed, Start goes on to stopProcess. *)
ReturnError(c) ==
  /\ Leave(c, IF op[c] = "start" THEN "drop" ELSE "idle")
  /\ op' = [op EXCEPT ![c] = IF @ = "start" THEN "start" ELSE "call"]
  /\ cancelled' = [cancelled EXCEPT ![c] = FALSE]

(* ------------------------------ operations ------------------------------ *)

(* A caller enters Health, Interpret, ..., TranscribeAndInterpret or Start. *)
Begin(c) ==
  /\ pc[c] = "idle"
  /\ \E o \in Ops[c] \cap {"call", "speech", "start"} :
       /\ left[c] >= (IF o = "speech" THEN 2 ELSE 1)
       /\ op' = [op EXCEPT ![c] = o]
       /\ Goto(c, IF o = "start" THEN "startEnsure" ELSE "ensure")
  /\ UNCHANGED <<clientVars, left, target, id, chan, cancelled, processVars, hand, once>>

AfterEnsure(c) == IF pc[c] = "startEnsure" THEN "ensure" ELSE "alloc"

(* ensureProcess returns the current process. *)
EnsureCurrent(c) ==
  /\ pc[c] \in {"startEnsure", "ensure"}
  /\ ~closed /\ process # None
  /\ target' = [target EXCEPT ![c] = process]
  /\ Goto(c, AfterEnsure(c))
  /\ UNCHANGED <<clientVars, op, left, id, chan, cancelled, processVars, hand, once>>

(* ensureProcess launches the first process, and others with RestartOnCrash. *)
MayLaunch_Closed == process = None /\ (nextID = 0 \/ RestartOnCrash)
MayLaunch == ~closed /\ process = None /\ (nextID = 0 \/ RestartOnCrash)

EnsureLaunch(c) ==
  /\ pc[c] \in {"startEnsure", "ensure"}
  /\ MayLaunch
  /\ launched < MaxProcs
  /\ launched' = launched + 1
  /\ process' = launched'
  /\ status' = [status EXCEPT ![launched'] = "running"]
  /\ target' = [target EXCEPT ![c] = launched']
  /\ Goto(c, AfterEnsure(c))
  /\ UNCHANGED <<closed, nextID, pending, op, left, id, chan, cancelled,
                 killed, stdinOpen, stdin, stdout, hand, once>>

(* ensureProcess fails: closed, not running, or exec fails for reasons of   *)
(* the system's own.                                                        *)
EnsureFails(c) ==
  /\ pc[c] \in {"startEnsure", "ensure"}
  /\ closed \/ process = None
  /\ IF pc[c] = "startEnsure"
     THEN /\ Goto(c, "idle") /\ op' = [op EXCEPT ![c] = "call"]
          /\ UNCHANGED <<left, target, id, chan, cancelled>>
     ELSE ReturnError(c)
  /\ UNCHANGED <<clientVars, processVars, hand, once>>

NewID_Reused == CHOOSE i \in 1..(nextID + 1) : i \notin pending /\ \A d \in Callers : id[d] # i
NewID == nextID + 1

(* call takes the next id; the request is encoded and the channel made. *)
AllocateID(c) ==
  /\ pc[c] = "alloc"
  /\ nextID' = NewID
  /\ id' = [id EXCEPT ![c] = nextID']
  /\ Goto(c, "register")
  /\ UNCHANGED <<process, closed, pending, op, left, target, chan, cancelled,
                 processVars, hand, once>>

(* The process of the call must still be the current one. *)
MayRegister_Stale(c) == ~closed
MayRegister(c) == ~closed /\ process = target[c]

Register(c) ==
  /\ pc[c] = "register"
  /\ MayRegister(c)
  /\ pending' = pending \cup {id[c]}
  /\ Goto(c, "lockWrite")
  /\ UNCHANGED <<process, closed, nextID, callerVars, processVars, hand, once>>

RegisterFails(c) ==
  /\ pc[c] = "register"
  /\ ~MayRegister(c)
  /\ ReturnError(c)
  /\ UNCHANGED <<clientVars, processVars, hand, once>>

(* writeMu is held by the caller that is in its write. *)
LockWrite(c) ==
  /\ pc[c] = "lockWrite"
  /\ \A d \in Callers : pc[d] # "write"
  /\ Goto(c, "write")
  /\ UNCHANGED <<clientVars, callerVars, processVars, hand, once>>

(* The write completes when the pipe has room for the line. *)
Write(c) ==
  LET p == target[c] IN
  /\ pc[c] = "write"
  /\ status[p] = "running" /\ stdinOpen[p] /\ Len(stdin[p]) < PipeCap
  /\ \E s \in Sizes :
       stdin' = [stdin EXCEPT ![p] = Append(@, [id |-> id[c], req |-> Token(c), size |-> s])]
  /\ Goto(c, "wait")
  /\ UNCHANGED <<clientVars, callerVars, launched, status, killed, stdinOpen, stdout,
                 hand, once>>

(* The read end is gone, or stop or Wait closed the write end. *)
WriteFails(c) ==
  LET p == target[c] IN
  /\ pc[c] = "write"
  /\ status[p] = "exited" \/ ~stdinOpen[p]
  /\ Goto(c, "unpend")
  /\ UNCHANGED <<clientVars, callerVars, processVars, hand, once>>

(* removePending: after a failed write, then failProcess; or after the      *)
(* context ended, and the call is over.                                     *)
Unpend(c) ==
  /\ pc[c] = "unpend"
  /\ pending' = Unregister(id[c])
  /\ Goto(c, "fail")
  /\ UNCHANGED <<process, closed, nextID, callerVars, processVars, hand, once>>

ReturnFailed(c) ==
  /\ pc[c] = "failed"
  /\ ReturnError(c)
  /\ UNCHANGED <<clientVars, processVars, hand, once>>

(* The select of call: the channel's message, ... *)
Receive_Retry(c) ==
  /\ pc[c] = "wait" /\ chan[c] # <<>>
  /\ IF Head(chan[c]).kind = "failed"
     THEN /\ Goto(c, "ensure")
          /\ chan' = [chan EXCEPT ![c] = <<>>]
          /\ UNCHANGED <<op, left, target, id, cancelled>>
     ELSE IF Head(chan[c]).kind = "result" THEN ReturnResult(c) ELSE ReturnError(c)
  /\ UNCHANGED <<clientVars, processVars, hand, once>>

Receive(c) ==
  /\ pc[c] = "wait" /\ chan[c] # <<>>
  /\ IF Head(chan[c]).kind = "result" THEN ReturnResult(c) ELSE ReturnError(c)
  /\ UNCHANGED <<clientVars, processVars, hand, once>>

(* ... or the context is done. *)
CtxDone_Ignored(c) == FALSE

CtxDone(c) ==
  /\ pc[c] = "wait" /\ cancelled[c]
  /\ Goto(c, "unwait")
  /\ UNCHANGED <<clientVars, callerVars, processVars, hand, once>>

Unwait(c) ==
  /\ pc[c] = "unwait"
  /\ pending' = Unregister(id[c])
  /\ ReturnError(c)
  /\ UNCHANGED <<process, closed, nextID, processVars, hand, once>>

(* The host cancels a call's context, or the startup timeout of Start does. *)
(* The context is read in the select only: one that ended earlier has the   *)
(* effect of one that ends during the write.                                *)
Cancel(c) ==
  /\ pc[c] \in {"write", "wait"} /\ ~cancelled[c]
  /\ op[c] = "start" \/ "cancel" \in Ops[c]
  /\ cancelled' = [cancelled EXCEPT ![c] = TRUE]
  /\ UNCHANGED <<clientVars, pc, op, left, target, id, chan, processVars, hand, once>>

(* stop(nil) returns at once. *)
AfterDrop_Forget == "idle"
AfterDrop == IF process = None THEN "idle" ELSE "stopStdin"

(* stopProcess of a Start that failed: whatever process is current goes. *)
StopProcess(c) ==
  /\ pc[c] = "drop"
  /\ target' = [target EXCEPT ![c] = process]
  /\ op' = [op EXCEPT ![c] = IF process = None THEN "call" ELSE "start"]
  /\ process' = None
  /\ Goto(c, AfterDrop)
  /\ UNCHANGED <<closed, nextID, pending, left, id, chan, cancelled, processVars, hand, once>>

(* Close; a second Close returns at once and changes nothing. *)
Close(c) ==
  /\ pc[c] = "idle" /\ "close" \in Ops[c] /\ ~closed
  /\ closed' = TRUE
  /\ process' = None
  /\ FailPending("closed")
  /\ target' = [target EXCEPT ![c] = process]
  /\ op' = [op EXCEPT ![c] = IF process = None THEN "call" ELSE "close"]
  /\ Goto(c, AfterDrop)
  /\ UNCHANGED <<nextID, left, id, cancelled, processVars, hand, once>>

(* stop: close stdin, wait for done, and kill after the grace period. *)
StopStdin(c) ==
  /\ pc[c] = "stopStdin"
  /\ stdinOpen' = [stdinOpen EXCEPT ![target[c]] = FALSE]
  /\ Goto(c, "stopWait")
  /\ UNCHANGED <<clientVars, callerVars, launched, status, killed, stdin, stdout, hand, once>>

StopTimer_NoKill(c) ==
  /\ pc[c] = "stopWait"
  /\ Goto(c, "stopReap")
  /\ UNCHANGED <<clientVars, callerVars, processVars, hand, once>>

StopTimer(c) ==
  /\ pc[c] = "stopWait"
  /\ killed' = [killed EXCEPT ![target[c]] = TRUE]
  /\ Goto(c, "stopReap")
  /\ UNCHANGED <<clientVars, callerVars, launched, status, stdinOpen, stdin, stdout, hand, once>>

StopDone(c) ==
  /\ pc[c] \in {"stopWait", "stopReap"} /\ DoneClosed(target[c])
  /\ target' = [target EXCEPT ![c] = None]
  /\ op' = [op EXCEPT ![c] = "call"]
  /\ Goto(c, "idle")
  /\ UNCHANGED <<clientVars, left, id, chan, cancelled, processVars, hand, once>>

(* ------------------------------ failProcess ------------------------------ *)

AfterFail_Again(t) == "failed"
AfterFail(t) == IF t \in Callers THEN "failed" ELSE "done"

(* once.Do for the first thread: kill the process and close done. *)
FailFirst(t) ==
  LET p == Target(t) IN
  /\ pc[t] = "fail" /\ once[p] = "idle"
  /\ once' = [once EXCEPT ![p] = "running"]
  /\ killed' = [killed EXCEPT ![p] = TRUE]
  /\ Goto(t, "failLock")
  /\ UNCHANGED <<clientVars, callerVars, launched, status, stdinOpen, stdin, stdout, hand>>

(* once.Do for the others, who wait until the first thread is through. *)
FailAgain(t) ==
  /\ pc[t] = "fail" /\ once[Target(t)] = "complete"
  /\ Goto(t, AfterFail(t))
  /\ UNCHANGED <<clientVars, callerVars, processVars, hand, once>>

Current_Any(p) == TRUE
Current(p) == process = p

(* The locked section: a process that is still current is dropped, and with *)
(* it every pending call.                                                   *)
FailLocked(t) ==
  LET p == Target(t) IN
  /\ pc[t] = "failLock"
  /\ IF Current(p)
     THEN process' = None /\ FailPending("failed")
     ELSE UNCHANGED <<process, pending, chan>>
  /\ once' = [once EXCEPT ![p] = "complete"]
  /\ Goto(t, AfterFail(t))
  /\ UNCHANGED <<closed, nextID, op, left, target, id, cancelled, processVars, hand>>

(* ------------------------- reader and waiter ---------------------------- *)

(* The reader decodes the next line and takes its id out of pending; a line *)
(* nobody waits for is dropped, one it cannot decode fails the process.     *)
ReadResponse(p) ==
  LET r == <<"reader", p>>  m == Head(stdout[p]) IN
  /\ pc[r] = "scan" /\ hand[p] = <<>> /\ stdout[p] # <<>>
  /\ stdout' = [stdout EXCEPT ![p] = Tail(@)]
  /\ IF m.kind = "garbage"
     THEN Goto(r, "fail") /\ UNCHANGED <<pending, hand>>
     ELSE /\ pending' = Unregister(m.id)
          /\ hand' = IF m.id \in pending THEN [hand EXCEPT ![p] = <<m>>] ELSE hand
          /\ UNCHANGED pc
  /\ UNCHANGED <<process, closed, nextID, callerVars, launched, status, killed, stdinOpen,
                 stdin, once>>

(* It sends the response to the channel it found: the call may be over. *)
Deliver(p) ==
  /\ hand[p] # <<>>
  /\ chan' = [c \in Callers |-> IF id[c] = Head(hand[p]).id
                                THEN Append(chan[c], Head(hand[p])) ELSE chan[c]]
  /\ hand' = [hand EXCEPT ![p] = <<>>]
  /\ UNCHANGED <<clientVars, pc, op, left, target, id, cancelled, processVars, once>>

(* Wait has closed the pipe under the reader; what it had not read is lost. *)
ReadError(p) ==
  LET r == <<"reader", p>> IN
  /\ pc[r] = "scan" /\ hand[p] = <<>>
  /\ pc[<<"waiter", p>>] # "reap"
  /\ Goto(r, "fail")
  /\ UNCHANGED <<clientVars, callerVars, processVars, hand, once>>

ReadEOF(p) ==
  LET r == <<"reader", p>> IN
  /\ pc[r] = "scan" /\ hand[p] = <<>> /\ stdout[p] = <<>>
  /\ status[p] = "exited" /\ pc[<<"waiter", p>>] = "reap"
  /\ Goto(r, "done")
  /\ UNCHANGED <<clientVars, callerVars, processVars, hand, once>>

(* cmd.Wait returns: the pipes are closed and the process is failed. *)
WaitReturns(p) ==
  LET w == <<"waiter", p>> IN
  /\ pc[w] = "reap" /\ status[p] = "exited"
  /\ Goto(w, "fail")
  /\ UNCHANGED <<clientVars, callerVars, processVars, hand, once>>

(* ------------------------------ the sidecar ----------------------------- *)

(* Serve: a response with the request's id, except for an oversized line,   *)
(* which is answered without one (the client decodes id 0).                 *)
AnswerID_None(m) == 0
AnswerID(m) == IF m.size = "large" THEN 0 ELSE m.id

Serve(p) ==
  LET m == Head(stdin[p]) IN
  /\ status[p] = "running" /\ stdin[p] # <<>> /\ Len(stdout[p]) < PipeCap
  /\ \E k \in IF m.size = "large" THEN {"error"} ELSE Replies :
       stdout' = [stdout EXCEPT ![p] =
                    Append(@, [id |-> AnswerID(m), req |-> m.req, kind |-> k])]
  /\ stdin' = [stdin EXCEPT ![p] = Tail(@)]
  /\ UNCHANGED <<clientVars, pc, callerVars, launched, status, killed, stdinOpen, hand, once>>

Exit(p) ==
  /\ status' = [status EXCEPT ![p] = "exited"]
  /\ stdin' = [stdin EXCEPT ![p] = <<>>]
  /\ UNCHANGED <<clientVars, pc, callerVars, launched, killed, stdinOpen, stdout, hand, once>>

(* Serve returns at the end of its input, after the last request in it. *)
ExitAtEOF(p) == status[p] = "running" /\ ~stdinOpen[p] /\ stdin[p] = <<>> /\ Exit(p)

Die(p) == status[p] = "running" /\ killed[p] /\ Exit(p)

Crash(p) == status[p] = "running" /\ ~killed[p] /\ Exit(p)

(* ------------------------------------------------------------------------ *)

CallStep(c) ==
  \/ EnsureCurrent(c) \/ EnsureLaunch(c) \/ EnsureFails(c) \/ AllocateID(c)
  \/ Register(c) \/ RegisterFails(c) \/ LockWrite(c) \/ Write(c) \/ WriteFails(c)
  \/ Unpend(c) \/ ReturnFailed(c) \/ Receive(c) \/ CtxDone(c) \/ Unwait(c)
StopStep(c) == StopProcess(c) \/ StopStdin(c) \/ StopTimer(c) \/ StopDone(c)
FailStep(t) == FailFirst(t) \/ FailAgain(t) \/ FailLocked(t)
CallerStep(c) == CallStep(c) \/ StopStep(c) \/ FailStep(c)
ReaderStep(p) == \/ ReadResponse(p) \/ Deliver(p) \/ ReadError(p) \/ ReadEOF(p)
                 \/ FailStep(<<"reader", p>>)
WaiterStep(p) == WaitReturns(p) \/ FailStep(<<"waiter", p>>)

(* The host leaves the client alone; its goroutines wait for the sidecar. *)
Rest == /\ \A t \in Threads : pc[t] \in {"idle", "scan", "reap", "done"}
        /\ UNCHANGED vars

Next ==
  \/ \E c \in Callers : Begin(c) \/ Close(c) \/ Cancel(c) \/ CallerStep(c)
  \/ \E p \in Procs : ReaderStep(p) \/ WaiterStep(p)
  \/ \E p \in Procs : Serve(p) \/ ExitAtEOF(p) \/ Die(p) \/ Crash(p)
  \/ Rest

Spec == Init /\ [][Next]_vars

(* Fairness: the scheduler runs every goroutine that can run, a mutex is    *)
(* not withheld for ever, a timer fires, and a kill is carried out.  The    *)
(* startup timeout of Start is such a timer; the host's own contexts are    *)
(* not.                                                                     *)
ClientFairness ==
  /\ \A c \in Callers : /\ WF_vars(CallerStep(c))
                        /\ SF_vars(LockWrite(c))
                        /\ WF_vars(op[c] = "start" /\ Cancel(c))
  /\ \A p \in Procs : WF_vars(ReaderStep(p)) /\ WF_vars(WaiterStep(p)) /\ WF_vars(Die(p))

(* A sidecar that works through its input and stops at the end of it. *)
SidecarFairness == \A p \in Procs : WF_vars(Serve(p) \/ ExitAtEOF(p))

FairSpec == Spec /\ ClientFairness
-----------------------------------------------------------------------------

(* Type correctness of the variables. *)
TypeOK ==
  /\ process \in Procs \cup {None}
  /\ closed \in BOOLEAN
  /\ nextID \in Nat
  /\ pending \subseteq Nat \ {0}
  /\ pc \in [Threads -> Points]
  /\ \A c \in Callers : pc[c] \in CallerPoints
  /\ \A r \in Readers : pc[r] \in ReaderPoints
  /\ \A w \in Waiters : pc[w] \in WaiterPoints
  /\ op \in [Callers -> {"call", "speech", "start", "close"}]
  /\ left \in [Callers -> Nat]
  /\ target \in [Callers -> Procs \cup {None}]
  /\ id \in [Callers -> Nat]
  /\ chan \in [Callers -> Seq(Answers \cup Failures)]
  /\ cancelled \in [Callers -> BOOLEAN]
  /\ launched \in 0..MaxProcs
  /\ status \in [Procs -> {"none", "running", "exited"}]
  /\ killed \in [Procs -> BOOLEAN]
  /\ stdinOpen \in [Procs -> BOOLEAN]
  /\ stdin \in [Procs -> Seq(Requests)]
  /\ stdout \in [Procs -> Seq(Answers)]
  /\ hand \in [Procs -> Seq(Answers)]
  /\ once \in [Procs -> {"idle", "running", "complete"}]

(* A send to a result channel never blocks: the channel of a registered     *)
(* call is empty, and so is the one the reader is about to send to.         *)
(* failPendingLocked (client.go:301) sends while it holds mu, and a full    *)
(* channel there would stop every caller for good.                          *)
NoBlockedSend ==
  \A c \in Callers :
    (\/ id[c] \in pending
     \/ \E p \in Procs : hand[p] # <<>> /\ Head(hand[p]).id = id[c])
    => chan[c] = <<>>

(* A response reaches only the call it answers, whatever was cancelled,     *)
(* failed or restarted in between (client.go:270).                          *)
OwnAnswer ==
  \A c \in Callers : \A i \in DOMAIN chan[c] :
    chan[c][i] \in Failures \/ chan[c][i].req = Token(c)

(* No sidecar is left behind: one that runs and was not killed is the       *)
(* client's current process, or someone is stopping it.                     *)
NoLeakedProcess ==
  \A p \in Procs :
    status[p] = "running" /\ ~killed[p] /\ process # p
    => \E c \in Callers : target[c] = p /\ pc[c] \in {"stopStdin", "stopWait"}

(* After Close has taken effect nothing is pending and nothing is started:  *)
(* a caller that was between two locked sections finds out in the next.     *)
ClosedIsQuiet == closed => process = None /\ pending = {}

(* A call is failed only when its own process failed, or is being stopped by *)
(* the Start that dropped it (client.go:316): the late failure of an old     *)
(* process never reaches the calls of the one that is current (:293).        *)
Abandoned(p) ==
  \/ DoneClosed(p)
  \/ \E d \in Callers : target[d] = p /\ op[d] = "start" /\ pc[d] \in StopPoints \ {"drop"}

FailureIsOwn ==
  \A c \in Callers : \A i \in DOMAIN chan[c] :
    chan[c][i] = [kind |-> "failed"] => Abandoned(target[c])

(* A call that waits will hear: its response is in the reader's hand, or it *)
(* is registered with the current process and its request or response is    *)
(* on the way, or that process is about to fail and to take it along.       *)
OnTheWay(c, p) ==
  \/ \E i \in DOMAIN stdin[p] : stdin[p][i].id = id[c]
  \/ \E i \in DOMAIN stdout[p] : stdout[p][i].id = id[c]
  \/ status[p] = "exited" \/ pc[<<"reader", p>>] # "scan"

NoLostCall ==
  \A c \in Callers :
    pc[c] = "wait" /\ chan[c] = <<>>
    => \/ \E p \in Procs : hand[p] # <<>> /\ Head(hand[p]).id = id[c]
       \/ id[c] \in pending /\ process = target[c] /\ OnTheWay(c, process)

(* The requests of the callers as calls of AtMostOnce: a request is sent    *)
(* once, carried out once, and never sent again after a failure.            *)
Items(s) == {s[i].req : i \in DOMAIN s}
Phase(k) ==
  LET c == k[1] IN
  IF k[2] > left[c] THEN "done"
  ELSE IF k[2] < left[c] \/ pc[c] \notin {"wait", "unwait"} THEN "new"
  ELSE IF \E i \in DOMAIN chan[c] : chan[c][i] \notin Failures THEN "answered" ELSE "sent"
CallSet == UNION {{c} \X (1..MaxCalls[c]) : c \in Callers}
Once == INSTANCE AtMostOnce WITH
          Calls <- CallSet,
          phase <- [k \in CallSet |-> Phase(k)],
          queue <- UNION {Items(stdin[p]) : p \in Procs},
          answers <- UNION {Items(stdout[p]) \cup Items(hand[p]) : p \in Procs}

NeverReplayed == Once!Spec

(* Every operation on a responsive sidecar comes to an end. *)
EveryOpReturns == SidecarFairness => \A c \in Callers : pc[c] # "idle" ~> pc[c] = "idle"

(* The callers that use an operation. *)
Using(operation) == {c \in Callers : operation \in Ops[c]}

(* Close comes to an end, even when the sidecar hangs. *)
CloseReturns == \A c \in Using("close") : op[c] = "close" ~> op[c] # "close"

(* A call that is cancelled once its request is written comes to an end,    *)
(* even when the sidecar hangs.  (A write into a full pipe reads no         *)
(* context, client.go:195.)                                                 *)
CancelReturns ==
  \A c \in Using("cancel") : cancelled[c] /\ pc[c] = "wait" ~> ~cancelled[c]

(* ---------------- what the code does not guarantee ---------------------- *)
(* TLC refutes each of the following; no run checks them.                   *)

(* A call is failed by its own process only.  A Start drops the process and  *)
(* leaves its calls pending (client.go:317): while they wait a third         *)
(* goroutine may launch the next process, and its failure fails them too.    *)
OnlyOwnFailure ==
  \A c \in Callers : \A i \in DOMAIN chan[c] :
    chan[c][i] = [kind |-> "failed"] => DoneClosed(target[c])

(* A response the sidecar wrote before it exited reaches its caller: a call *)
(* is not failed while its response is in the pipe.                         *)
AnswerSurvivesExit ==
  \A c \in Callers : \A i \in DOMAIN chan[c] :
    chan[c][i] = [kind |-> "failed"] =>
      \A j \in DOMAIN stdout[target[c]] : stdout[target[c]][j].id # id[c]

(* Without RestartOnCrash the client starts one sidecar at most. *)
NoUnwantedRestart == ~RestartOnCrash => launched <= 1

(* After Close only the end of the grace period gets a running sidecar      *)
(* killed.                                                                  *)
GraceBeforeKill ==
  [][\A p \in Procs :
       closed /\ status[p] = "running" /\ ~killed[p] /\ killed'[p]
       => \E c \in Callers : pc[c] = "stopWait" /\ pc'[c] = "stopReap"]_vars
=============================================================================
