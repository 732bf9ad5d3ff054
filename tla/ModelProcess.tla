----------------------------- MODULE ModelProcess -----------------------------
(***************************************************************************)
(* The persistent model runtime (internal/model/persistent_process.go):    *)
(* Generate and Close of PersistentProcessGenerator, whose callers share   *)
(* one child process and match its answers to their requests by order      *)
(* alone.  The child is the runner's serve loop                            *)
(* (runtimes/functiongemma/runner.py): a readiness line, then one line for *)
(* each request line.                                                      *)
(*                                                                         *)
(* pc says which statement a caller executes next.  p.mu is held from Lock *)
(* to the return, so the statements between belong to one caller at a      *)
(* time; they interleave with the child, with contexts that end and with   *)
(* callers that queue for p.mu.  Requests and lines carry the ghost field  *)
(* req, the request they belong to, which the code does not have.          *)
(***************************************************************************)
EXTENDS Naturals, Sequences, FiniteSets

CONSTANTS Callers,    (* the goroutines that use the generator              *)
          MaxCalls,   (* bound: the requests each caller may make           *)
          MaxProcs,   (* bound: processes launched over the run             *)
          Ops,        (* the operations callers use                         *)
          Sizes,      (* "large" is a request the pipe has no room for      *)
          Replies     (* what the child may write: its protocol's lines, or *)
                      (* "garbage", which stands for undecodable lines, for *)
                      (* wrong versions and for empty results               *)

None  == 0            (* the nil *exec.Cmd *)
Procs == 1..MaxProcs

ASSUME BoundsAssumption == /\ MaxCalls \in [Callers -> Nat]
                           /\ MaxProcs \in Nat
ASSUME InputsAssumption == /\ Ops \subseteq {"generate", "close", "cancel"}
                           /\ Sizes \subseteq {"small", "large"}
                           /\ Replies \subseteq {"result", "error", "garbage"}

VARIABLES cmd,        (* p.cmd, with its pipes: the child in use, or None   *)
          pc,         (* the next statement of each caller                  *)
          op,         (* the operation a caller is in                       *)
          left,       (* the requests a caller may still make               *)
          cancelled,  (* whether a caller's context is done                 *)
          line,       (* the line that readLine returned to a caller        *)
          launched,   (* the number of processes started so far             *)
          status,     (* of a process: none, loading, serving or exited     *)
          killed,     (* whether Process.Kill was called on it              *)
          stdinOpen,  (* whether the generator's end of its stdin is open   *)
          stdin,      (* request lines in its stdin pipe                    *)
          stdout      (* lines in its stdout pipe                           *)

callerVars  == <<op, left, cancelled, line>>
processVars == <<launched, status, killed, stdinOpen, stdin, stdout>>
vars == <<cmd, pc, callerVars, processVars>>

Reading == {"handshake", "read"}
Inside  == {"launch", "checkReady", "write", "flush", "decode", "drain", "stop", "reap"}
           \cup Reading
Points  == {"idle", "lock"} \cup Inside

Token(c) == <<c, left[c]>>
NoToken  == <<>>
Requests == Callers \X Nat
Lines    == [req : Requests \cup {NoToken}, kind : {"ready", "result", "error", "garbage"}]
Running(p) == status[p] \in {"loading", "serving"}

Init ==
  /\ cmd = None
  /\ pc = [c \in Callers |-> "idle"]
  /\ op = [c \in Callers |-> "generate"]
  /\ left = MaxCalls
  /\ cancelled = [c \in Callers |-> FALSE]
  /\ line = [c \in Callers |-> <<>>]
  /\ launched = 0
  /\ status = [p \in Procs |-> "none"]
  /\ killed = [p \in Procs |-> FALSE]
  /\ stdinOpen = [p \in Procs |-> TRUE]
  /\ stdin = [p \in Procs |-> <<>>]
  /\ stdout = [p \in Procs |-> <<>>]

Goto(c, point) == pc' = [pc EXCEPT ![c] = point]

(* Generate or Close returns, and p.mu is released. *)
Return(c) ==
  /\ Goto(c, "idle")
  /\ left' = [left EXCEPT ![c] = IF op[c] = "generate" THEN @ - 1 ELSE @]
  /\ op' = [op EXCEPT ![c] = "generate"]
  /\ cancelled' = [cancelled EXCEPT ![c] = FALSE]
  /\ line' = [line EXCEPT ![c] = <<>>]

(* ------------------------------ operations ------------------------------ *)

Begin(c) ==
  /\ pc[c] = "idle"
  /\ \/ "generate" \in Ops /\ left[c] > 0 /\ UNCHANGED op
     \/ "close" \in Ops /\ op' = [op EXCEPT ![c] = "close"]
  /\ Goto(c, "lock")
  /\ UNCHANGED <<cmd, left, cancelled, line, processVars>>

(* The host's context ends. *)
Cancel(c) ==
  /\ "cancel" \in Ops /\ op[c] = "generate" /\ pc[c] # "idle" /\ ~cancelled[c]
  /\ cancelled' = [cancelled EXCEPT ![c] = TRUE]
  /\ UNCHANGED <<cmd, pc, op, left, line, processVars>>

(* p.mu: stopLocked finds nothing to stop, ensureStarted starts a child or  *)
(* takes the one that is there.                                             *)
LockFree == \A d \in Callers : pc[d] \notin Inside

Started_Always == TRUE
Started == cmd # None

Lock(c) ==
  /\ pc[c] = "lock" /\ LockFree
  /\ \/ /\ op[c] = "close" /\ ~Started
        /\ Return(c)
     \/ /\ op[c] = "close" /\ Started
        /\ Goto(c, "stop")
        /\ UNCHANGED callerVars
     \/ /\ op[c] = "generate"
        /\ Goto(c, IF Started THEN "write" ELSE "launch")
        /\ UNCHANGED callerVars
  /\ UNCHANGED <<cmd, processVars>>

(* ensureStarted. *)
Launch(c) ==
  /\ pc[c] = "launch"
  /\ launched < MaxProcs
  /\ launched' = launched + 1
  /\ cmd' = launched'
  /\ status' = [status EXCEPT ![launched'] = "loading"]
  /\ Goto(c, "handshake")
  /\ UNCHANGED <<callerVars, killed, stdinOpen, stdin, stdout>>

LaunchFails(c) ==
  /\ pc[c] = "launch"
  /\ Return(c)
  /\ UNCHANGED <<cmd, processVars>>

CheckReady(c) ==
  /\ pc[c] = "checkReady"
  /\ Goto(c, IF Head(line[c]).kind = "ready" THEN "write" ELSE "stop")
  /\ line' = [line EXCEPT ![c] = <<>>]
  /\ UNCHANGED <<cmd, op, left, cancelled, processVars>>

(* The write is over when the pipe holds the line: a large one must be read *)
(* by the child first.                                                      *)
Write(c) ==
  /\ pc[c] = "write" /\ status[cmd] # "exited"
  /\ stdin' = [stdin EXCEPT ![cmd] = Append(@, Token(c))]
  /\ \E s \in Sizes : Goto(c, IF s = "large" THEN "flush" ELSE "read")
  /\ UNCHANGED <<cmd, callerVars, launched, status, killed, stdinOpen, stdout>>

Flush(c) ==
  /\ pc[c] = "flush" /\ status[cmd] # "exited" /\ stdin[cmd] = <<>>
  /\ Goto(c, "read")
  /\ UNCHANGED <<cmd, callerVars, processVars>>

WriteFails(c) ==
  /\ pc[c] \in {"write", "flush"} /\ status[cmd] = "exited"
  /\ Goto(c, "stop")
  /\ UNCHANGED <<cmd, callerVars, processVars>>

(* readLine: the next line of stdout, ... *)
ReadLine(c) ==
  /\ pc[c] \in Reading /\ stdout[cmd] # <<>>
  /\ line' = [line EXCEPT ![c] = <<Head(stdout[cmd])>>]
  /\ stdout' = [stdout EXCEPT ![cmd] = Tail(@)]
  /\ Goto(c, IF pc[c] = "handshake" THEN "checkReady" ELSE "decode")
  /\ UNCHANGED <<cmd, op, left, cancelled, launched, status, killed, stdinOpen, stdin>>

(* ... its end, ... *)
ReadEOF_Ignored(c) == FALSE

ReadEOF_Retry(c) ==
  /\ pc[c] \in Reading /\ stdout[cmd] = <<>> /\ status[cmd] = "exited"
  /\ cmd' = None
  /\ Goto(c, "launch")
  /\ UNCHANGED <<callerVars, processVars>>

ReadEOF(c) ==
  /\ pc[c] \in Reading /\ stdout[cmd] = <<>> /\ status[cmd] = "exited"
  /\ Goto(c, "stop")
  /\ UNCHANGED <<cmd, callerVars, processVars>>

(* ... or the context is done: the child is killed, and readLine waits for  *)
(* its reading goroutine, which gets a line or the end and whose result is  *)
(* dropped.                                                                 *)
ReadCancelled_Leave(c) ==
  /\ pc[c] \in Reading /\ cancelled[c]
  /\ Return(c)
  /\ UNCHANGED <<cmd, processVars>>

ReadCancelled_NoKill(c) ==
  /\ pc[c] \in Reading /\ cancelled[c]
  /\ Goto(c, "drain")
  /\ UNCHANGED <<cmd, callerVars, processVars>>

ReadCancelled(c) ==
  /\ pc[c] \in Reading /\ cancelled[c]
  /\ killed' = [killed EXCEPT ![cmd] = TRUE]
  /\ Goto(c, "drain")
  /\ UNCHANGED <<cmd, callerVars, launched, status, stdinOpen, stdin, stdout>>

AfterDrain_Keep(c) == Return(c)
AfterDrain(c) == Goto(c, "stop") /\ UNCHANGED callerVars

Drain(c) ==
  /\ pc[c] = "drain"
  /\ stdout[cmd] # <<>> \/ status[cmd] = "exited"
  /\ stdout' = [stdout EXCEPT ![cmd] = IF @ = <<>> THEN @ ELSE Tail(@)]
  /\ AfterDrain(c)
  /\ UNCHANGED <<cmd, launched, status, killed, stdinOpen, stdin>>

(* The response: a result or the runtime's own error keeps the child, any   *)
(* other line discards it.                                                  *)
Accepted(c) == Head(line[c]).kind \in {"result", "error"}

Decode(c) ==
  /\ pc[c] = "decode"
  /\ IF Accepted(c) THEN Return(c) ELSE Goto(c, "stop") /\ UNCHANGED callerVars
  /\ UNCHANGED <<cmd, processVars>>

(* stopLocked: close stdin, kill, and wait for the end of the process. *)
Stop(c) ==
  /\ pc[c] = "stop"
  /\ stdinOpen' = [stdinOpen EXCEPT ![cmd] = FALSE]
  /\ killed' = [killed EXCEPT ![cmd] = TRUE]
  /\ Goto(c, "reap")
  /\ UNCHANGED <<cmd, callerVars, launched, status, stdin, stdout>>

Reaped_Early == TRUE
Reaped == status[cmd] = "exited"

Reap(c) ==
  /\ pc[c] = "reap" /\ Reaped
  /\ cmd' = None
  /\ Return(c)
  /\ UNCHANGED processVars

(* ------------------------------- the child ------------------------------ *)

(* serve: the model is loaded before the readiness line is written. *)
Handshake(p) ==
  /\ status[p] = "loading"
  /\ status' = [status EXCEPT ![p] = "serving"]
  /\ \E k \in {"ready"} \cup (Replies \cap {"garbage"}) :
       stdout' = [stdout EXCEPT ![p] = Append(@, [req |-> NoToken, kind |-> k])]
  /\ UNCHANGED <<cmd, pc, callerVars, launched, killed, stdinOpen, stdin>>

Serve(p) ==
  /\ status[p] = "serving" /\ stdin[p] # <<>>
  /\ stdin' = [stdin EXCEPT ![p] = Tail(@)]
  /\ \E k \in Replies :
       stdout' = [stdout EXCEPT ![p] = Append(@, [req |-> Head(stdin[p]), kind |-> k])]
  /\ UNCHANGED <<cmd, pc, callerVars, launched, status, killed, stdinOpen>>

Exit(p) ==
  /\ status' = [status EXCEPT ![p] = "exited"]
  /\ stdin' = [stdin EXCEPT ![p] = <<>>]
  /\ UNCHANGED <<cmd, pc, callerVars, launched, killed, stdinOpen, stdout>>

ExitAtEOF(p) == status[p] = "serving" /\ ~stdinOpen[p] /\ stdin[p] = <<>> /\ Exit(p)

Die(p) == Running(p) /\ killed[p] /\ Exit(p)

Crash(p) == Running(p) /\ ~killed[p] /\ Exit(p)

(* ------------------------------------------------------------------------ *)

Holder(c) ==
  \/ Launch(c) \/ LaunchFails(c) \/ CheckReady(c)
  \/ Write(c) \/ Flush(c) \/ WriteFails(c)
  \/ ReadLine(c) \/ ReadEOF(c) \/ ReadCancelled(c) \/ Drain(c) \/ Decode(c)
  \/ Stop(c) \/ Reap(c)
Child(p) == Handshake(p) \/ Serve(p) \/ ExitAtEOF(p)

Next ==
  \/ \E c \in Callers : Begin(c) \/ Cancel(c) \/ Lock(c) \/ Holder(c)
  \/ \E p \in Procs : Child(p) \/ Die(p) \/ Crash(p)

Spec == Init /\ [][Next]_vars

(* Fairness: the scheduler runs every goroutine that can run, p.mu is not   *)
(* withheld for ever from a caller that waits, and a kill is carried out.   *)
CallerFairness ==
  /\ \A c \in Callers : WF_vars(Holder(c)) /\ SF_vars(Lock(c))
  /\ \A p \in Procs : WF_vars(Die(p))

(* A child that loads its model, answers and stops at the end of its input. *)
ChildFairness == \A p \in Procs : WF_vars(Child(p))

FairSpec == Spec /\ CallerFairness
-----------------------------------------------------------------------------

(* Type correctness of the variables; a caller that uses the child has one. *)
TypeOK ==
  /\ \A c \in Callers : pc[c] \in Inside \ {"launch"} => cmd # None
  /\ cmd \in Procs \cup {None}
  /\ pc \in [Callers -> Points]
  /\ op \in [Callers -> {"generate", "close"}]
  /\ left \in [Callers -> Nat]
  /\ cancelled \in [Callers -> BOOLEAN]
  /\ line \in [Callers -> Seq(Lines)]
  /\ launched \in 0..MaxProcs
  /\ status \in [Procs -> {"none", "loading", "serving", "exited"}]
  /\ killed \in [Procs -> BOOLEAN]
  /\ stdinOpen \in [Procs -> BOOLEAN]
  /\ stdin \in [Procs -> Seq(Requests)]
  /\ stdout \in [Procs -> Seq(Lines)]

(* The line a request is answered with is its own, though nothing in the    *)
(* protocol says so: every path that leaves an answer unread discards the   *)
(* child with it (persistent_process.go:53).                                *)
OwnLine ==
  \A c \in Callers : pc[c] = "decode" => Head(line[c]).req = Token(c)

(* A child that waits for its next request is in step: it has announced     *)
(* itself, its pipes are empty, and nobody asked it to go.                  *)
InStep ==
  LockFree /\ cmd # None
  => /\ stdin[cmd] = <<>> /\ stdout[cmd] = <<>>
     /\ status[cmd] # "loading" /\ ~killed[cmd] /\ stdinOpen[cmd]

(* At most one model is loaded, and none once the generator has let it go:  *)
(* stopLocked waits for the old child before a new one may start.           *)
OneRuntime == \A p \in Procs : Running(p) => p = cmd

(* The requests as calls of AtMostOnce. *)
Phase(k) ==
  LET c == k[1] IN
  IF k[2] > left[c] THEN "done"
  ELSE IF k[2] = left[c] /\ pc[c] = "decode" THEN "answered"
  ELSE IF k[2] = left[c] /\ pc[c] \in {"flush", "read"} THEN "sent"
  ELSE IF k[2] = left[c] /\ pc[c] \in {"drain", "stop", "reap"} /\ op[c] = "generate"
       THEN "done" ELSE "new"
Tokens  == UNION {{c} \X (1..MaxCalls[c]) : c \in Callers}
Answers(p) == {stdout[p][i].req : i \in DOMAIN stdout[p]} \ {NoToken}
Queue(p)   == {stdin[p][i] : i \in DOMAIN stdin[p]}
Once == INSTANCE AtMostOnce WITH
          Calls <- Tokens,
          phase <- [k \in Tokens |-> Phase(k)],
          queue <- UNION {Queue(p) : p \in Procs},
          answers <- UNION {Answers(p) : p \in Procs}

(* A request is written once, and never again after the child failed. *)
NeverReplayed == Once!Spec

(* A request is written only to a child that runs when the request is made: *)
(* the generator does not take a child that has ended for a clean runtime.  *)
StartsClean ==
  [][\A c \in Callers : pc[c] = "lock" /\ pc'[c] = "write" => status[cmd] # "exited"]_vars

(* With a child that answers, every Generate and Close comes to an end. *)
EveryOpReturns == ChildFairness => \A c \in Callers : pc[c] # "idle" ~> pc[c] = "idle"

(* Whatever the child does, a Generate that waits for its answer comes to   *)
(* an end when it is cancelled, and so does the wait for the handshake; a   *)
(* write to a full pipe need not (persistent_process.go:49).                *)
CancelReturns ==
  \A c \in Callers :
    /\ cancelled[c] /\ pc[c] = "handshake" ~> pc[c] # "handshake"
    /\ cancelled[c] /\ pc[c] = "read" ~> pc[c] = "idle"
=============================================================================
