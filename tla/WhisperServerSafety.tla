-------------------------- MODULE WhisperServerSafety --------------------------
(* Theorems about WhisperServer for every set of callers and every bound: no *)
(* server is left behind, none runs on after Close, and who starts or drops  *)
(* a server works on the current one.                                        *)
EXTENDS WhisperServer, TLAPS

(* The callers' part and the servers' part of TypeOK.                        *)
CallerOK ==
  /\ pc \in [Callers -> Points]
  /\ op \in [Callers -> {"transcribe", "start", "close"}]
  /\ left \in [Callers -> Nat]
  /\ target \in [Callers -> Procs \cup {None}]
  /\ attempts \in [Callers -> 0..Attempts]
  /\ cancelled \in [Callers -> BOOLEAN]
  /\ exchange \in [Callers -> {"none", "request", "headers", "response", "reset"}]
  /\ \A c \in Callers : pc[c] \in Working => target[c] # None
ServerOK ==
  /\ process \in Procs \cup {None}
  /\ closed \in BOOLEAN
  /\ launched \in 0..MaxProcs
  /\ status \in [Procs -> {"none", "loading", "ready", "exited"}]
  /\ killed \in [Procs -> BOOLEAN]
  /\ done \in [Procs -> BOOLEAN]
  /\ failed \in [Procs -> Nat]

(* Why no server is left behind.  t.mu admits one caller, and none once the  *)
(* transcriber is closed; the next server is fresh, and one that was waited  *)
(* for has ended; a start-up begins where there is no server, and t.process  *)
(* is cleared only after its server was killed or had ended.                 *)
Mutex == \A c, d \in Callers : pc[c] \in MuPoints /\ pc[d] \in MuPoints => c = d
Quiet == closed => process = None /\ MuFree
Fresh == \A p \in Procs : /\ p > launched => status[p] = "none"
                          /\ done[p] => status[p] = "exited"
Counted == \A c \in Callers : /\ pc[c] \in {"idle", "token", "lock"} => attempts[c] = 0
                              /\ pc[c] = "launch" => attempts[c] < Attempts
Holder == \A c \in Callers :
            /\ pc[c] = "launch" => process = None
            /\ pc[c] \in {"reap", "discardReap"} => killed[target[c]] \/ done[target[c]]

Inv == /\ CallerOK /\ ServerOK
       /\ Mutex /\ Quiet /\ Fresh /\ Counted /\ Holder /\ WorksOnCurrent /\ NoOrphan

LEMMA TypeParts == TypeOK <=> CallerOK /\ ServerOK
BY DEF TypeOK, CallerOK, ServerOK

LEMMA InvInit == Init => Inv
<1> SUFFICES ASSUME Init PROVE Inv
  OBVIOUS
<1>1. CallerOK
  BY BoundsAssumption
  DEF Init, CallerOK, Points, TokenPoints, MuPoints, Working, Attempts, None
<1>2. ServerOK
  <2>1. launched \in 0..MaxProcs
    BY BoundsAssumption DEF Init
  <2> QED
    BY <2>1 DEF Init, ServerOK
<1>3. \A c \in Callers : pc[c] = "idle" /\ attempts[c] = 0
  BY DEF Init
<1>4. Mutex /\ Counted /\ Holder /\ WorksOnCurrent
  BY <1>3 DEF Mutex, Counted, Holder, WorksOnCurrent, MuPoints
<1>5. Quiet /\ Fresh /\ NoOrphan
  BY DEF Init, Quiet, Fresh, NoOrphan, Alive
<1> QED
  BY <1>1, <1>2, <1>4, <1>5 DEF Inv

(* What a caller outside t.mu works with is its own: no lock changes hands.  *)
LEMMA StillKeeps ==
  ASSUME Inv, CallerOK', ServerOK',
         UNCHANGED <<process, closed, pc, target, attempts, launched, status, killed, done>>
  PROVE  Inv'
<1> USE DEF Inv
<1>1. Mutex' /\ Quiet' /\ Fresh'
  BY DEF Mutex, Quiet, Fresh, MuFree
<1>2. Counted' /\ Holder' /\ WorksOnCurrent' /\ NoOrphan'
  BY DEF Counted, Holder, WorksOnCurrent, NoOrphan, Alive
<1> QED
  BY <1>1, <1>2

(* A caller goes to a point outside t.mu and leaves the servers as they are. *)
LEMMA LeaveKeeps ==
  ASSUME Inv, CallerOK', ServerOK', NEW c \in Callers, NEW point \in Points \ MuPoints,
         Goto(c, point),
         UNCHANGED <<process, closed, launched, status, killed, done>>,
         \A d \in Callers : d # c => target'[d] = target[d] /\ attempts'[d] = attempts[d],
         point \in {"idle", "token", "lock"} => attempts'[c] = 0
  PROVE  Inv'
<1>0. /\ CallerOK /\ ServerOK /\ pc' = [pc EXCEPT ![c] = point]
      /\ pc'[c] = point /\ point \notin MuPoints
      /\ \A d \in Callers : d # c => pc'[d] = pc[d]
  BY DEF Inv, Goto, CallerOK
<1>1. Mutex'
  BY <1>0 DEF Inv, Mutex
<1>2. Quiet'
  BY <1>0 DEF Inv, Quiet, MuFree
<1>3. Fresh' /\ NoOrphan'
  BY DEF Inv, Fresh, NoOrphan, Alive
<1>4. Counted'
  BY <1>0 DEF Inv, Counted, MuPoints
<1>5. Holder'
  BY <1>0 DEF Inv, Holder, MuPoints
<1>6. WorksOnCurrent'
  BY <1>0 DEF Inv, WorksOnCurrent
<1> QED
  BY <1>0, <1>1, <1>2, <1>3, <1>4, <1>5, <1>6 DEF Inv

(* The return of an operation that leaves the servers as they are.           *)
LEMMA ReturnOK ==
  ASSUME CallerOK, NEW c \in Callers, Return(c), UNCHANGED left
  PROVE  CallerOK'
BY DEF CallerOK, Return, Goto, Points, TokenPoints, MuPoints, Working, Attempts, None

LEMMA ReturnKeeps ==
  ASSUME Inv, ServerOK', NEW c \in Callers, Return(c), UNCHANGED left,
         UNCHANGED <<process, closed, launched, status, killed, done>>
  PROVE  Inv'
<1>1. CallerOK'
  BY ReturnOK DEF Inv
<1>2. "idle" \in Points \ MuPoints
  BY DEF Points, TokenPoints, MuPoints
<1>3. \A d \in Callers : d # c => target'[d] = target[d] /\ attempts'[d] = attempts[d]
  BY DEF Inv, CallerOK, Return
<1>4. attempts'[c] = 0 /\ Goto(c, "idle")
  BY DEF Inv, CallerOK, Return
<1> QED
  BY <1>1, <1>2, <1>3, <1>4, LeaveKeeps

(* Who takes t.mu, or holds it, is alone: no other caller is at a point      *)
(* under it, before the step or after.                                       *)
LEMMA HolderIsAlone ==
  ASSUME CallerOK, Mutex, NEW c \in Callers, NEW point \in Points, Goto(c, point),
         pc[c] \in MuPoints \/ MuFree
  PROVE  /\ Mutex'
         /\ pc'[c] = point
         /\ \A d \in Callers : d # c => pc[d] \notin MuPoints /\ pc'[d] \notin MuPoints
BY DEF CallerOK, Mutex, MuFree, Goto

(* The holder of t.mu goes on with the current server.                       *)
LEMMA HolderMoves ==
  ASSUME Inv, CallerOK', ServerOK', NEW c \in Callers, NEW point \in MuPoints \ {"launch"},
         Goto(c, point), pc[c] \in MuPoints \/ (MuFree /\ ~closed), process = target[c],
         UNCHANGED <<process, closed, target, attempts, launched, status, done>>,
         killed' = killed \/ killed' = [killed EXCEPT ![process] = TRUE],
         point \in {"reap", "discardReap"} => killed'[process] \/ done[process]
  PROVE  Inv'
<1>0. CallerOK /\ ServerOK /\ Mutex /\ Quiet /\ Fresh /\ Counted /\ Holder /\ NoOrphan
  BY DEF Inv
<1>1. point \in Points
  BY DEF Points, TokenPoints
<1>2. /\ Mutex' /\ pc'[c] = point
      /\ \A d \in Callers : d # c => pc[d] \notin MuPoints /\ pc'[d] \notin MuPoints
  BY <1>0, <1>1, HolderIsAlone
<1>3. Quiet'
  BY <1>0, <1>2 DEF Quiet, MuFree
<1>4. Fresh'
  BY <1>0 DEF Fresh
<1>5. \A d \in Callers : d # c => pc'[d] = pc[d]
  BY <1>0 DEF CallerOK, Goto
<1>6. Counted'
  BY <1>0, <1>2, <1>5 DEF Counted, MuPoints
<1>7. Holder'
  BY <1>2 DEF Holder, MuPoints
<1>8. WorksOnCurrent'
  BY <1>2 DEF WorksOnCurrent
<1>9. NoOrphan'
  BY <1>0 DEF NoOrphan, Alive, ServerOK
<1> QED
  BY <1>2, <1>3, <1>4, <1>6, <1>7, <1>8, <1>9 DEF Inv

(* Under t.mu, t.process is cleared of a server that was killed or ended.    *)
LEMMA ClearKeeps ==
  ASSUME Inv, CallerOK', NEW c \in Callers, NEW point \in {"idle", "launch"}, Goto(c, point),
         pc[c] \in MuPoints \/ (MuFree /\ ~closed), process' = None,
         process = None \/ killed[process] \/ done[process],
         UNCHANGED <<closed, serverVars>>,
         \A d \in Callers : d # c => target'[d] = target[d] /\ attempts'[d] = attempts[d],
         point = "idle" => attempts'[c] = 0,
         point = "launch" => attempts'[c] < Attempts
  PROVE  Inv'
<1>0. CallerOK /\ ServerOK /\ Mutex /\ Quiet /\ Fresh /\ Counted /\ Holder /\ NoOrphan
  BY DEF Inv
<1>1. point \in Points
  BY DEF Points, TokenPoints, MuPoints
<1>2. /\ Mutex' /\ pc'[c] = point
      /\ \A d \in Callers : d # c => pc[d] \notin MuPoints /\ pc'[d] \notin MuPoints
  BY <1>0, <1>1, HolderIsAlone
<1>3. ServerOK'
  BY <1>0 DEF ServerOK, serverVars
<1>4. Quiet'
  BY <1>0, <1>2 DEF Quiet, MuFree
<1>5. Fresh'
  BY <1>0 DEF Fresh, serverVars
<1>6. \A d \in Callers : d # c => pc'[d] = pc[d]
  BY <1>0 DEF CallerOK, Goto
<1>7. Counted'
  BY <1>0, <1>2, <1>6 DEF Counted, MuPoints
<1>8. Holder' /\ WorksOnCurrent'
  BY <1>2 DEF Holder, WorksOnCurrent, MuPoints
<1>9. NoOrphan'
  BY <1>0 DEF NoOrphan, Alive, Fresh, serverVars
<1> QED
  BY <1>2, <1>3, <1>4, <1>5, <1>7, <1>8, <1>9 DEF Inv

(* A server loads, ends, or is waited for.                                   *)
LEMMA ServerKeeps ==
  ASSUME Inv, NEW p \in Procs, Load(p) \/ (End(p) /\ Alive(p)) \/ WaitReturns(p)
  PROVE  Inv'
<1>0. /\ CallerOK /\ ServerOK /\ Mutex /\ Quiet /\ Fresh /\ Counted /\ Holder /\ NoOrphan
      /\ WorksOnCurrent
  BY DEF Inv
<1>1. UNCHANGED <<process, closed, pc, callerVars, launched, killed, failed>>
  BY DEF Load, End, WaitReturns
<1>2. CallerOK'
  BY <1>0, <1>1 DEF CallerOK, callerVars
<1>3. ServerOK'
  BY <1>0, <1>1 DEF ServerOK, Load, End, WaitReturns
<1>4. Mutex' /\ Quiet' /\ Counted' /\ WorksOnCurrent'
  BY <1>0, <1>1 DEF Mutex, Quiet, Counted, WorksOnCurrent, MuFree, callerVars
<1>5. \A q \in Procs : done[q] => done'[q]
  BY <1>0 DEF ServerOK, Load, End, WaitReturns
<1>6. Holder'
  <2> SUFFICES ASSUME NEW c \in Callers, pc[c] \in {"reap", "discardReap"}
               PROVE  killed[target[c]] \/ done'[target[c]]
    BY <1>0, <1>1 DEF Holder, callerVars
  <2>1. target[c] \in Procs
    BY <1>0 DEF CallerOK, Working, TokenPoints, MuPoints
  <2> QED
    BY <1>0, <1>5, <2>1 DEF Holder
<1>7. Fresh'
  BY <1>0, <1>1 DEF Fresh, ServerOK, Load, End, WaitReturns, Alive
<1>8. NoOrphan'
  BY <1>0, <1>1 DEF NoOrphan, ServerOK, Load, End, WaitReturns, Alive
<1> QED
  BY <1>2, <1>3, <1>4, <1>6, <1>7, <1>8 DEF Inv

(* A server is launched where there is none.                                 *)
LEMMA LaunchKeeps ==
  ASSUME Inv, NEW c \in Callers, Launch(c)
  PROVE  Inv'
<1>0. /\ CallerOK /\ ServerOK /\ Mutex /\ Quiet /\ Fresh /\ Counted /\ Holder /\ NoOrphan
  BY DEF Inv
<1>1. /\ pc[c] = "launch" /\ launched' = launched + 1 /\ process' = launched'
      /\ launched < MaxProcs
      /\ target' = [target EXCEPT ![c] = launched']
      /\ attempts' = [attempts EXCEPT ![c] = @ + 1]
      /\ status' = [status EXCEPT ![launched'] = "loading"]
      /\ Goto(c, "probe")
      /\ UNCHANGED <<closed, op, left, cancelled, exchange, killed, done, failed>>
  BY DEF Launch
<1>2. launched' \in Procs /\ launched' \in 0..MaxProcs /\ launched' > launched /\ launched' # None
  BY <1>0, <1>1, BoundsAssumption DEF ServerOK, Procs, None
<1>3. process = None /\ attempts[c] < Attempts /\ pc[c] \in MuPoints
  BY <1>0, <1>1 DEF Holder, Counted, MuPoints
<1>4. "probe" \in Points
  BY DEF Points, TokenPoints, MuPoints
<1>5. /\ Mutex' /\ pc'[c] = "probe"
      /\ \A d \in Callers : d # c => pc[d] \notin MuPoints /\ pc'[d] \notin MuPoints
  BY <1>0, <1>1, <1>3, <1>4, HolderIsAlone
<1>6. \A d \in Callers : d # c => pc'[d] = pc[d] /\ target'[d] = target[d]
  BY <1>0, <1>1 DEF CallerOK, Goto
<1>7. target'[c] = launched' /\ attempts'[c] \in 0..Attempts
  BY <1>0, <1>1, <1>3 DEF CallerOK, Attempts
<1>8. CallerOK'
  BY <1>0, <1>1, <1>2, <1>4, <1>6, <1>7 DEF CallerOK, Goto
<1>9. ServerOK'
  BY <1>0, <1>1, <1>2 DEF ServerOK
<1>10. ~closed
  BY <1>0, <1>3 DEF Quiet, MuFree
<1>11. Fresh'
  <2>1. ~done[launched']
    BY <1>0, <1>2 DEF Fresh
  <2>2. \A p \in Procs : p > launched' => p > launched /\ p # launched'
    BY <1>0, <1>1 DEF ServerOK, Procs
  <2> QED
    BY <1>0, <1>1, <2>1, <2>2 DEF Fresh, ServerOK
<1>12. Counted'
  BY <1>0, <1>1, <1>5, <1>6 DEF Counted, CallerOK
<1>13. Holder' /\ WorksOnCurrent'
  BY <1>1, <1>5, <1>7 DEF Holder, WorksOnCurrent, MuPoints
<1>14. NoOrphan'
  BY <1>0, <1>1, <1>2, <1>3 DEF NoOrphan, Alive, ServerOK, Procs, None
<1> QED
  BY <1>1, <1>5, <1>8, <1>9, <1>10, <1>11, <1>12, <1>13, <1>14 DEF Inv, Quiet

(* Close kills what runs and clears t.process, under t.mu.                   *)
LEMMA CloseKeeps ==
  ASSUME Inv, NEW c \in Callers, Close(c)
  PROVE  Inv'
<1>0. /\ CallerOK /\ ServerOK /\ Mutex /\ Quiet /\ Fresh /\ Counted /\ Holder /\ NoOrphan
      /\ WorksOnCurrent
  BY DEF Inv
<1>1. /\ pc[c] = "closing" /\ MuFree /\ closed' = TRUE
      /\ UNCHANGED <<launched, status, done, failed>>
  BY DEF Close
<1>2. CASE closed
  <2>1. Return(c) /\ UNCHANGED <<left, process, killed, closed>>
    BY <1>0, <1>1, <1>2 DEF Close, ServerOK
  <2>2. ServerOK'
    BY <1>0, <1>1, <2>1 DEF ServerOK
  <2> QED
    BY <1>1, <2>1, <2>2, ReturnKeeps
<1>3. CASE ~closed
  <2>1. killed' = LifetimeCancel /\ process' = None
    BY <1>3 DEF Close
  <2>2. ServerOK'
    BY <1>0, <1>1, <2>1 DEF ServerOK, LifetimeCancel
  <2>3. PICK point \in {"idle", "closeWait"} : Goto(c, point)
    BY <1>3 DEF Close, Return
  <2>4. point \in Points /\ point \notin MuPoints
    BY DEF Points, TokenPoints, MuPoints
  <2>5. CallerOK'
    <3>1. CASE Return(c) /\ UNCHANGED left
      BY <1>0, <3>1, ReturnOK
    <3>2. CASE /\ process # None
               /\ target' = [target EXCEPT ![c] = process]
               /\ Goto(c, "closeWait")
               /\ UNCHANGED <<op, left, attempts, cancelled, exchange>>
      BY <1>0, <3>2 DEF CallerOK, ServerOK, Goto, Points
    <3> QED
      BY <1>3, <3>1, <3>2 DEF Close
  <2>6. \A d \in Callers : pc'[d] \notin MuPoints
    BY <1>0, <1>1, <2>3, <2>4 DEF CallerOK, Goto, MuFree
  <2>7. \A d \in Callers : d # c => pc'[d] = pc[d] /\ attempts'[d] = attempts[d]
    BY <1>0, <1>3 DEF CallerOK, Goto, Close, Return
  <2>8. pc'[c] = point /\ (point = "idle" => attempts'[c] = 0)
    BY <1>0, <1>3, <2>3 DEF CallerOK, Goto, Close, Return
  <2>9. Mutex' /\ Quiet' /\ Holder' /\ WorksOnCurrent'
    BY <2>1, <2>6 DEF Mutex, Quiet, Holder, WorksOnCurrent, MuFree, MuPoints
  <2>10. Counted'
    BY <1>0, <2>6, <2>7, <2>8 DEF Counted, MuPoints
  <2>11. Fresh' /\ NoOrphan'
    BY <1>0, <1>1, <2>1 DEF Fresh, NoOrphan, Alive, LifetimeCancel, ServerOK
  <2> QED
    BY <2>2, <2>5, <2>9, <2>10, <2>11 DEF Inv
<1> QED
  BY <1>2, <1>3

LEMMA InvNext == Inv /\ [Next]_vars => Inv'
<1> SUFFICES ASSUME Inv, [Next]_vars PROVE Inv'
  OBVIOUS
<1>0. /\ CallerOK /\ ServerOK /\ Mutex /\ Quiet /\ Fresh /\ Counted /\ Holder /\ NoOrphan
      /\ WorksOnCurrent
  BY DEF Inv
<1>p. /\ {"idle", "token", "closing", "closeWait", "lock", "send", "await", "body", "discard"}
           \subseteq Points \ MuPoints
      /\ MuPoints \subseteq Points
  BY DEF Points, TokenPoints, MuPoints
<1>w. /\ {"send", "await", "body", "discard", "probe", "kill", "reap", "discardKill",
          "discardReap"} \subseteq Working
      /\ {"idle", "token", "closing", "lock", "launch"} \cap Working = {}
  BY DEF Working, TokenPoints, MuPoints
<1>1. ASSUME NEW c \in Callers, Begin(c) PROVE Inv'
  <2>1. PICK point \in {"token", "lock"} : Goto(c, point)
    BY <1>1 DEF Begin
  <2>2. left' \in [Callers -> Nat]
    BY <1>0, <1>1 DEF Begin, CallerOK
  <2>3. CallerOK'
    BY <1>0, <1>1, <1>p, <1>w, <2>1, <2>2 DEF Begin, CallerOK, Goto
  <2>4. ServerOK'
    BY <1>0, <1>1 DEF Begin, ServerOK, serverVars
  <2>5. attempts'[c] = 0
    BY <1>0, <1>1 DEF Begin, Counted
  <2> QED
    BY <1>1, <1>p, <2>1, <2>3, <2>4, <2>5, LeaveKeeps DEF Begin, serverVars
<1>2. ASSUME NEW c \in Callers, BeginClose(c) PROVE Inv'
  <2>1. CallerOK'
    BY <1>0, <1>2, <1>p, <1>w DEF BeginClose, CallerOK, Goto
  <2>2. ServerOK'
    BY <1>0, <1>2 DEF BeginClose, ServerOK, serverVars
  <2> QED
    BY <1>2, <1>p, <2>1, <2>2, LeaveKeeps DEF BeginClose, serverVars
<1>3. ASSUME NEW c \in Callers, Cancel(c) PROVE Inv'
  BY <1>0, <1>3, StillKeeps DEF Cancel, CallerOK, ServerOK, serverVars
<1>4. ASSUME NEW c \in Callers, TakeToken(c) PROVE Inv'
  <2>1. CallerOK' /\ attempts'[c] = 0
    BY <1>0, <1>4, <1>p, <1>w DEF TakeToken, CallerOK, Goto, callerVars, Counted
  <2>2. ServerOK'
    BY <1>0, <1>4 DEF TakeToken, ServerOK, serverVars
  <2> QED
    BY <1>4, <1>p, <2>1, <2>2, LeaveKeeps DEF TakeToken, callerVars, serverVars
<1>5. ASSUME NEW c \in Callers, TokenCancelled(c) \/ LaunchFails(c) \/ InferCancelled(c)
                                \/ Body(c) \/ CloseDone(c)
      PROVE  Inv'
  <2>1. Return(c) /\ UNCHANGED <<process, closed, left, serverVars>>
    BY <1>5 DEF TokenCancelled, LaunchFails, InferCancelled, Body, CloseDone
  <2>2. ServerOK'
    BY <1>0, <2>1 DEF ServerOK, serverVars
  <2> QED
    BY <2>1, <2>2, ReturnKeeps DEF serverVars
<1>6. ASSUME NEW c \in Callers, Lock(c) PROVE Inv'
  <2>0. pc[c] = "lock" /\ MuFree /\ UNCHANGED <<closed, serverVars>>
    BY <1>6 DEF Lock
  <2>s. ServerOK'
    BY <1>0, <1>6 DEF Lock, ServerOK, serverVars, None
  <2>1. CASE closed \/ (RunningLocked /\ op[c] = "start")
    <3>1. Return(c) /\ UNCHANGED <<left, process>>
      BY <1>6, <2>1 DEF Lock
    <3> QED
      BY <2>0, <2>s, <3>1, ReturnKeeps DEF serverVars
  <2>2. CASE ~closed /\ RunningLocked /\ op[c] = "transcribe"
    <3>1. /\ target' = [target EXCEPT ![c] = process] /\ Goto(c, "send")
          /\ UNCHANGED <<process, op, left, attempts, cancelled, exchange>>
      BY <1>6, <2>2 DEF Lock
    <3>2. process # None
      BY <2>2 DEF RunningLocked
    <3>3. CallerOK'
      BY <1>0, <1>p, <1>w, <3>1, <3>2 DEF CallerOK, ServerOK, Goto
    <3>4. \A d \in Callers : d # c => target'[d] = target[d]
      BY <1>0, <3>1 DEF CallerOK
    <3> QED
      BY <1>p, <2>0, <2>s, <3>1, <3>3, <3>4, LeaveKeeps DEF serverVars
  <2>3. CASE ~closed /\ ~RunningLocked
    <3>1. Goto(c, "launch") /\ UNCHANGED callerVars /\ process' = None
      BY <1>6, <2>3 DEF Lock
    <3>2. CallerOK'
      BY <1>0, <1>p, <1>w, <3>1 DEF CallerOK, Goto, callerVars, MuPoints
    <3>3. process = None \/ done[process]
      BY <2>3 DEF RunningLocked
    <3>4. attempts'[c] < Attempts
      BY <1>0, <2>0, <3>1 DEF Counted, callerVars, Attempts
    <3> QED
      BY <2>0, <2>3, <3>1, <3>2, <3>3, <3>4, ClearKeeps DEF callerVars
  <2> QED
    BY <1>6, <2>1, <2>2, <2>3 DEF Lock
<1>7. ASSUME NEW c \in Callers, ProbeReady(c) PROVE Inv'
  <2>1. ServerOK'
    BY <1>0, <1>7 DEF ProbeReady, ServerOK, serverVars
  <2>2. CASE op[c] = "transcribe"
    <3>1. CallerOK'
      BY <1>0, <1>7, <1>p, <1>w, <2>2 DEF ProbeReady, CallerOK, Goto, callerVars
    <3> QED
      BY <1>7, <1>p, <2>1, <2>2, <3>1, LeaveKeeps DEF ProbeReady, callerVars, serverVars
  <2>3. CASE op[c] # "transcribe"
    BY <1>7, <2>1, <2>3, ReturnKeeps DEF ProbeReady, serverVars
  <2> QED
    BY <2>2, <2>3
<1>8. ASSUME NEW c \in Callers, ProbeFails(c) PROVE Inv'
  <2>1. CallerOK' /\ pc[c] \in MuPoints /\ "kill" \in MuPoints \ {"launch"}
    BY <1>0, <1>8, <1>p, <1>w DEF ProbeFails, CallerOK, Goto, callerVars, MuPoints
  <2>2. ServerOK'
    BY <1>0, <1>8 DEF ProbeFails, ServerOK, serverVars
  <2>3. process = target[c]
    BY <1>0, <1>8 DEF ProbeFails, WorksOnCurrent, MuPoints
  <2> QED
    BY <1>8, <2>1, <2>2, <2>3, HolderMoves DEF ProbeFails, callerVars, serverVars
<1>9. ASSUME NEW c \in Callers, KillLocked(c) PROVE Inv'
  <2>1. pc[c] \in {"kill", "discardKill"}
    BY <1>9 DEF KillLocked, AfterKill
  <2>2. PICK point \in {"reap", "discardReap"} : Goto(c, point)
    BY <1>9, <2>1 DEF KillLocked, AfterKill
  <2>3. pc[c] \in MuPoints \ {"launch"} /\ point \in MuPoints \ {"launch"} /\ pc[c] \in Working
        /\ point \in Working
    BY <1>w, <2>1 DEF MuPoints
  <2>4. process = target[c] /\ target[c] \in Procs
    BY <1>0, <2>3 DEF WorksOnCurrent, CallerOK
  <2>5. /\ killed' = IF done[target[c]] THEN killed ELSE [killed EXCEPT ![target[c]] = TRUE]
        /\ UNCHANGED <<process, closed, callerVars, launched, status, done, failed>>
    BY <1>9 DEF KillLocked
  <2>6. CallerOK'
    BY <1>0, <1>p, <2>2, <2>3, <2>5 DEF CallerOK, Goto, callerVars
  <2>7. ServerOK'
    BY <1>0, <2>5 DEF ServerOK
  <2>8. /\ killed' = killed \/ killed' = [killed EXCEPT ![process] = TRUE]
        /\ killed'[process] \/ done[process]
    BY <1>0, <2>4, <2>5 DEF ServerOK
  <2> QED
    BY <2>2, <2>3, <2>4, <2>5, <2>6, <2>7, <2>8, HolderMoves DEF callerVars
<1>10. ASSUME NEW c \in Callers, Reap(c) PROVE Inv'
  <2>0. pc[c] \in MuPoints /\ process = target[c] /\ (killed[process] \/ done[process])
    BY <1>0, <1>10 DEF Reap, Holder, WorksOnCurrent, MuPoints
  <2>1. CASE MayRetry(c) /\ Goto(c, "launch") /\ UNCHANGED callerVars
    <3>1. CallerOK'
      BY <1>0, <1>p, <1>w, <2>1 DEF CallerOK, Goto, callerVars, MuPoints
    <3>2. attempts'[c] < Attempts
      BY <2>1 DEF MayRetry, callerVars
    <3> QED
      BY <1>10, <2>0, <2>1, <3>1, <3>2, ClearKeeps DEF Reap, callerVars
  <2>2. CASE ~MayRetry(c) /\ Return(c) /\ UNCHANGED left
    <3>1. CallerOK'
      BY <1>0, <2>2, ReturnOK
    <3>2. /\ \A d \in Callers : d # c => target'[d] = target[d] /\ attempts'[d] = attempts[d]
          /\ attempts'[c] = 0 /\ Goto(c, "idle")
      BY <1>0, <2>2 DEF Return, CallerOK
    <3> QED
      BY <1>10, <2>0, <3>1, <3>2, ClearKeeps DEF Reap
  <2> QED
    BY <1>10, <2>1, <2>2 DEF Reap
<1>11. ASSUME NEW c \in Callers, Send(c) PROVE Inv'
  <2>1. CallerOK'
    BY <1>0, <1>11, <1>p, <1>w DEF Send, CallerOK, Goto
  <2>2. ServerOK'
    BY <1>0, <1>11 DEF Send, ServerOK, serverVars
  <2> QED
    BY <1>11, <1>p, <2>1, <2>2, LeaveKeeps DEF Send, serverVars
<1>12. ASSUME NEW c \in Callers, TransportError(c) \/ BodyFails(c) PROVE Inv'
  <2>1. CountFailure(c) /\ UNCHANGED <<process, closed, launched, status, killed, done>>
    BY <1>12 DEF TransportError, BodyFails
  <2>a. target[c] \in Procs
    BY <1>0, <1>12, <1>w DEF TransportError, BodyFails, Refused, CallerOK
  <2>b. failed' \in [Procs -> Nat]
    BY <1>0, <2>1, <2>a DEF ServerOK, CountFailure
  <2>2. ServerOK'
    BY <1>0, <2>1, <2>b DEF ServerOK
  <2>3. CASE Return(c) /\ UNCHANGED left
    BY <2>1, <2>2, <2>3, ReturnKeeps
  <2>4. CASE Goto(c, "discard") /\ UNCHANGED callerVars /\ TransportError(c)
    <3>1. pc[c] \in Working
      BY <1>w, <2>4 DEF TransportError, Refused
    <3>2. CallerOK'
      BY <1>0, <1>p, <2>4, <3>1 DEF CallerOK, Goto, callerVars
    <3> QED
      BY <1>p, <2>1, <2>2, <2>4, <3>2, LeaveKeeps DEF callerVars
  <2> QED
    BY <1>12, <2>3, <2>4 DEF TransportError, BodyFails
<1>13. ASSUME NEW c \in Callers, Headers(c) PROVE Inv'
  <2>1. CallerOK'
    BY <1>0, <1>13, <1>p, <1>w DEF Headers, CallerOK, Goto, callerVars
  <2>2. ServerOK'
    BY <1>0, <1>13 DEF Headers, ServerOK, serverVars
  <2> QED
    BY <1>13, <1>p, <2>1, <2>2, LeaveKeeps DEF Headers, callerVars, serverVars
<1>14. ASSUME NEW c \in Callers, Discard(c) PROVE Inv'
  <2>0. pc[c] = "discard" /\ MuFree /\ UNCHANGED <<process, closed, serverVars>>
    BY <1>14 DEF Discard
  <2>1. ServerOK'
    BY <1>0, <2>0 DEF ServerOK, serverVars
  <2>2. CASE Return(c) /\ UNCHANGED left
    BY <2>0, <2>1, <2>2, ReturnKeeps DEF serverVars
  <2>3. CASE ~Superseded(c) /\ Goto(c, "discardKill") /\ UNCHANGED callerVars
    <3>1. CallerOK' /\ "discardKill" \in MuPoints \ {"launch"}
      BY <1>0, <1>p, <1>w, <2>0, <2>3 DEF CallerOK, Goto, callerVars, MuPoints
    <3>2. process = target[c] /\ process # None
      BY <1>0, <1>w, <2>0, <2>3 DEF Superseded, CallerOK
    <3>3. ~closed
      BY <1>0, <3>2 DEF Quiet
    <3> QED
      BY <2>0, <2>1, <2>3, <3>1, <3>2, <3>3, HolderMoves DEF callerVars, serverVars
  <2> QED
    BY <1>14, <2>2, <2>3 DEF Discard
<1>15. ASSUME NEW c \in Callers, DiscardReap(c) PROVE Inv'
  <2>0. pc[c] \in MuPoints /\ process = target[c] /\ (killed[process] \/ done[process])
    BY <1>0, <1>15 DEF DiscardReap, Holder, WorksOnCurrent, MuPoints
  <2>1. CallerOK'
    BY <1>0, <1>15, ReturnOK DEF DiscardReap
  <2>2. /\ \A d \in Callers : d # c => target'[d] = target[d] /\ attempts'[d] = attempts[d]
        /\ attempts'[c] = 0 /\ Goto(c, "idle")
    BY <1>0, <1>15 DEF DiscardReap, Return, CallerOK
  <2> QED
    BY <1>15, <2>0, <2>1, <2>2, ClearKeeps DEF DiscardReap
<1>16. ASSUME NEW c \in Callers, Respond(c) \/ Reset(c) PROVE Inv'
  <2>1. CallerOK'
    BY <1>0, <1>16 DEF Respond, Reset, CallerOK
  <2>2. ServerOK'
    BY <1>0, <1>16 DEF Respond, Reset, ServerOK, serverVars
  <2> QED
    BY <1>16, <2>1, <2>2, StillKeeps DEF Respond, Reset, serverVars
<1>17. ASSUME NEW p \in Procs, Load(p) \/ WaitReturns(p) \/ Die(p) \/ Crash(p) PROVE Inv'
  <2>1. Load(p) \/ (End(p) /\ Alive(p)) \/ WaitReturns(p)
    BY <1>17 DEF Die, Crash
  <2> QED
    BY <2>1, ServerKeeps
<1>18. CASE UNCHANGED vars
  BY <1>0, <1>18, StillKeeps DEF vars, callerVars, serverVars, CallerOK, ServerOK
<1> QED
  BY <1>1, <1>2, <1>3, <1>4, <1>5, <1>6, <1>7, <1>8, <1>9, <1>10, <1>11, <1>12, <1>13,
     <1>14, <1>15, <1>16, <1>17, <1>18, LaunchKeeps, CloseKeeps
  DEF Next, Acquire, Step, Startup, Infer, Server, Rest

LEMMA Invariance == Spec => []Inv
BY InvInit, InvNext, PTL DEF Spec

(* Every variable of the transcriber keeps its type, and a caller that works *)
(* on a server has one (persistent.go:102-195).                              *)
THEOREM TypesKept == Spec => []TypeOK
<1>1. Inv => TypeOK
  BY TypeParts DEF Inv
<1> QED
  BY <1>1, Invariance, PTL

(* A server that runs and was not told to end is t.process, whatever start-  *)
(* ups, discards and Close do at the same time (persistent.go:124-136,       *)
(* 150-176, 427-478).                                                        *)
THEOREM NoServerLeftBehind == Spec => []NoOrphan
<1>1. Inv => NoOrphan
  BY DEF Inv
<1> QED
  BY <1>1, Invariance, PTL

(* After Close no server runs that was not told to end, and none is started  *)
(* (persistent.go:125-128, 427-451).                                         *)
THEOREM CloseIsFinal == Spec => []ClosedIsFinal
<1>1. Inv => ClosedIsFinal
  BY DEF Inv, ClosedIsFinal, Quiet, NoOrphan, None, Procs
<1> QED
  BY <1>1, Invariance, PTL

(* A start-up and a discard work on t.process: nobody replaces the server    *)
(* under them (persistent.go:150-176, 468-478).                              *)
THEOREM CurrentIsKept == Spec => []WorksOnCurrent
<1>1. Inv => WorksOnCurrent
  BY DEF Inv
<1> QED
  BY <1>1, Invariance, PTL
-----------------------------------------------------------------------------
(* A transcription is sent at most once: the transcriber implements          *)
(* AtMostOnce.  Stage is the phase of the operation a caller is in, and the  *)
(* call that stands for it is the caller's next one counted from the end.    *)
Stage(c) == IF pc[c] = "idle" \/ op[c] = "close" THEN "done"
            ELSE IF pc[c] = "await" THEN "sent"
            ELSE IF pc[c] = "body" THEN "answered"
            ELSE IF pc[c] \in {"discard", "discardKill", "discardReap"} THEN "done" ELSE "new"
Current(c) == <<c, left[c] + 1>>
Phases == [k \in Tokens |-> Phase(k)]

(* An operation under way other than Close has been counted.                 *)
Underway == {"idle", "closing", "closeWait"}
Budgeted ==
  /\ pc \in [Callers -> Points]
  /\ op \in [Callers -> {"transcribe", "start", "close"}]
  /\ left \in [Callers -> Nat]
  /\ \A c \in Callers :
       /\ left[c] <= MaxCalls[c]
       /\ pc[c] \in {"closing", "closeWait"} => op[c] = "close"
       /\ pc[c] \notin Underway => op[c] # "close" /\ left[c] < MaxCalls[c]

LEMMA TokenParts ==
  /\ \A k \in Tokens : /\ k = <<k[1], k[2]>> /\ k[1] \in Callers
                       /\ k[2] \in Nat /\ 1 <= k[2] /\ k[2] <= MaxCalls[k[1]]
  /\ \A c \in Callers : \A n \in 1..MaxCalls[c] : <<c, n>> \in Tokens
<1>1. ASSUME NEW k \in Tokens
      PROVE  /\ k = <<k[1], k[2]>> /\ k[1] \in Callers
             /\ k[2] \in Nat /\ 1 <= k[2] /\ k[2] <= MaxCalls[k[1]]
  <2>1. PICK c \in Callers : k \in {c} \X (1..MaxCalls[c])
    BY DEF Tokens
  <2>2. k = <<k[1], k[2]>> /\ k[1] = c /\ k[2] \in 1..MaxCalls[c]
    BY <2>1
  <2>3. MaxCalls[c] \in Nat
    BY BoundsAssumption
  <2> QED
    BY <2>2, <2>3
<1>2. ASSUME NEW c \in Callers, NEW n \in 1..MaxCalls[c] PROVE <<c, n>> \in Tokens
  <2>1. <<c, n>> \in {c} \X (1..MaxCalls[c])
    OBVIOUS
  <2> QED
    BY <2>1 DEF Tokens
<1> QED
  BY <1>1, <1>2

(* The phase of a call by the operations that were counted.                  *)
ByStage ==
  \A k \in Tokens : Phase(k) = IF k[2] <= left[k[1]] THEN "new"
                               ELSE IF k[2] = left[k[1]] + 1 THEN Stage(k[1]) ELSE "done"

LEMMA PhaseByStage == Budgeted => ByStage
<1> SUFFICES ASSUME Budgeted, NEW k \in Tokens
             PROVE  Phase(k) = IF k[2] <= left[k[1]] THEN "new"
                               ELSE IF k[2] = left[k[1]] + 1 THEN Stage(k[1]) ELSE "done"
  BY DEF ByStage
<1>1. k[1] \in Callers /\ k[2] \in Nat /\ left[k[1]] \in Nat
  BY TokenParts DEF Budgeted
<1>2. CASE k[2] <= left[k[1]]
  BY <1>2 DEF Phase
<1>3. CASE k[2] = left[k[1]] + 1
  <2>1. ~(k[2] <= left[k[1]]) /\ ~(k[2] > left[k[1]] + 1)
    BY <1>1, <1>3
  <2> QED
    BY <1>3, <2>1 DEF Phase, Stage
<1>4. CASE k[2] > left[k[1]] + 1
  <2>1. ~(k[2] <= left[k[1]]) /\ k[2] # left[k[1]] + 1
    BY <1>1, <1>4
  <2> QED
    BY <1>4, <2>1 DEF Phase
<1> QED
  BY <1>1, <1>2, <1>3, <1>4

LEMMA PhaseByStagePrime == Budgeted' => ByStage'
BY PhaseByStage, PTL

(* What a step of one caller changes of the abstract state.                  *)
LEMMA OneCallerMoves ==
  ASSUME Budgeted, Budgeted', NEW c \in Callers, UNCHANGED left,
         \A d \in Callers : d # c => pc'[d] = pc[d] /\ op'[d] = op[d] /\ exchange'[d] = exchange[d]
  PROVE  /\ Stage(c)' = Stage(c) => Phases' = Phases
         /\ left[c] < MaxCalls[c] => /\ Current(c) \in Tokens
                                     /\ Phases[Current(c)] = Stage(c)
                                     /\ Phases' = [Phases EXCEPT ![Current(c)] = Stage(c)']
         /\ \A kinds : /\ Awaiting(kinds)' \ {Current(c)} = Awaiting(kinds) \ {Current(c)}
                       /\ Current(c) \in Awaiting(kinds)
                            <=> pc[c] = "await" /\ exchange[c] \in kinds
                       /\ Current(c) \in Awaiting(kinds)'
                            <=> pc'[c] = "await" /\ exchange'[c] \in kinds
<1>1. left[c] \in Nat /\ MaxCalls[c] \in Nat
  BY BoundsAssumption DEF Budgeted
<1>2. ASSUME NEW k \in Tokens, k # Current(c) \/ Stage(c)' = Stage(c)
      PROVE  Phase(k)' = Phase(k)
  <2>1. k = <<k[1], k[2]>> /\ k[1] \in Callers /\ k[2] \in Nat
    BY TokenParts
  <2>2. ByStage /\ ByStage'
    BY PhaseByStage, PhaseByStagePrime
  <2>3. k[2] = left[k[1]] + 1 => Stage(k[1])' = Stage(k[1])
    <3>1. CASE k[1] # c
      BY <2>1, <3>1 DEF Stage
    <3>2. CASE k[1] = c
      BY <1>2, <2>1, <3>2 DEF Current
    <3> QED
      BY <3>1, <3>2
  <2> QED
    BY <2>2, <2>3 DEF ByStage
<1>3. Stage(c)' = Stage(c) => Phases' = Phases
  BY <1>2 DEF Phases
<1>4. ASSUME left[c] < MaxCalls[c]
      PROVE  /\ Current(c) \in Tokens
             /\ Phases[Current(c)] = Stage(c)
             /\ Phases' = [Phases EXCEPT ![Current(c)] = Stage(c)']
  <2>1. left[c] + 1 \in 1..MaxCalls[c]
    BY <1>1, <1>4
  <2>2. Current(c) \in Tokens /\ Current(c)[1] = c /\ Current(c)[2] = left[c] + 1
    BY <2>1, TokenParts DEF Current
  <2>3. ~(left[c] + 1 <= left[c])
    BY <1>1
  <2>4. ByStage /\ ByStage'
    BY PhaseByStage, PhaseByStagePrime
  <2>5. Phase(Current(c)) = Stage(c)
    BY <2>2, <2>3, <2>4 DEF ByStage
  <2>6. \A k \in Tokens : k = Current(c) => Phase(k)' = Stage(c)'
    BY <2>2, <2>3, <2>4 DEF ByStage
  <2>7. \A k \in Tokens : Phase(k)' = IF k = Current(c) THEN Stage(c)' ELSE Phase(k)
    BY <1>2, <2>6
  <2> QED
    BY <2>2, <2>5, <2>7 DEF Phases
<1>5. ASSUME NEW kinds
      PROVE  /\ Awaiting(kinds)' \ {Current(c)} = Awaiting(kinds) \ {Current(c)}
             /\ Current(c) \in Awaiting(kinds) <=> pc[c] = "await" /\ exchange[c] \in kinds
             /\ Current(c) \in Awaiting(kinds)' <=> pc'[c] = "await" /\ exchange'[c] \in kinds
  <2>1. \A d \in Callers : d # c => <<d, left[d] + 1>> # Current(c)
    BY DEF Current
  <2> QED
    BY <2>1 DEF Awaiting, Current
<1> QED
  BY <1>3, <1>4, <1>5

(* The operations of the callers but c are where they were.                  *)
OthersStay(c) ==
  \A d \in Callers : d # c => pc'[d] = pc[d] /\ op'[d] = op[d] /\ exchange'[d] = exchange[d]

LEMMA BudgetedInit == Init => Budgeted
<1> SUFFICES ASSUME Init PROVE Budgeted
  OBVIOUS
<1>1. \A c \in Callers : pc[c] = "idle" /\ left[c] = MaxCalls[c] /\ MaxCalls[c] \in Nat
  BY BoundsAssumption DEF Init
<1>2. pc \in [Callers -> Points] /\ op \in [Callers -> {"transcribe", "start", "close"}]
  BY DEF Init, Points
<1> QED
  BY <1>1, <1>2, BoundsAssumption DEF Budgeted, Underway, Init

(* The return of an operation, and its way from one statement to the next.   *)
LEMMA BudgetKept ==
  ASSUME Budgeted, UNCHANGED left, NEW c \in Callers,
         \/ Return(c)
         \/ UNCHANGED op /\ pc[c] \notin Underway /\ \E point \in Points \ Underway : Goto(c, point)
         \/ UNCHANGED op /\ pc[c] = "closing" /\ Goto(c, "closeWait")
  PROVE  Budgeted'
<1>1. CASE Return(c)
  BY <1>1 DEF Budgeted, Return, Goto, Underway, Points
<1>2. CASE UNCHANGED op /\ pc[c] \notin Underway /\ \E point \in Points \ Underway : Goto(c, point)
  <2>1. PICK point \in Points \ Underway : Goto(c, point)
    BY <1>2
  <2> QED
    BY <1>2, <2>1 DEF Budgeted, Goto, Underway
<1>3. CASE UNCHANGED op /\ pc[c] = "closing" /\ Goto(c, "closeWait")
  BY <1>3 DEF Budgeted, Goto, Underway, Points
<1> QED
  BY <1>1, <1>2, <1>3

LEMMA BudgetedNext == Budgeted /\ [Next]_vars => Budgeted'
<1> SUFFICES ASSUME Budgeted, [Next]_vars PROVE Budgeted'
  OBVIOUS
<1>p. {"token", "lock", "launch", "probe", "kill", "reap", "discardKill", "discardReap", "send",
       "await", "body", "discard"} \subseteq Points \ Underway
  BY DEF Points, TokenPoints, MuPoints, Underway
<1>1. ASSUME NEW c \in Callers, Begin(c) PROVE Budgeted'
  <2>1. /\ pc[c] = "idle" /\ left[c] > 0 /\ left' = [left EXCEPT ![c] = @ - 1]
        /\ \E what \in {"transcribe", "start"} : op' = [op EXCEPT ![c] = what]
        /\ \E point \in {"token", "lock"} : Goto(c, point)
    BY <1>1 DEF Begin
  <2>2. PICK what \in {"transcribe", "start"}, point \in {"token", "lock"} :
          op' = [op EXCEPT ![c] = what] /\ Goto(c, point)
    BY <2>1
  <2>3. left' \in [Callers -> Nat] /\ left'[c] < left[c] /\ \A d \in Callers : left'[d] <= left[d]
    BY <2>1 DEF Budgeted
  <2>4. MaxCalls \in [Callers -> Nat]
    BY BoundsAssumption
  <2>5. \A d \in Callers : left'[d] <= MaxCalls[d] /\ left'[c] < MaxCalls[c]
    BY <2>3, <2>4 DEF Budgeted
  <2> QED
    BY <1>p, <2>1, <2>2, <2>3, <2>5 DEF Budgeted, Goto, Underway
<1>2. ASSUME NEW c \in Callers, BeginClose(c) PROVE Budgeted'
  BY <1>2 DEF BeginClose, Budgeted, Goto, Underway, Points
<1>3. ASSUME NEW c \in Callers, Cancel(c) \/ Respond(c) \/ Reset(c) PROVE Budgeted'
  BY <1>3 DEF Cancel, Respond, Reset, Budgeted
<1>4. ASSUME NEW c \in Callers, TokenCancelled(c) \/ LaunchFails(c) \/ InferCancelled(c)
                                \/ Body(c) \/ CloseDone(c) \/ BodyFails(c) \/ DiscardReap(c)
      PROVE  Budgeted'
  <2>1. Return(c) /\ UNCHANGED left
    BY <1>4 DEF TokenCancelled, LaunchFails, InferCancelled, Body, CloseDone, BodyFails, DiscardReap
  <2> QED
    BY <2>1, BudgetKept
<1>5. ASSUME NEW c \in Callers, TakeToken(c) \/ Launch(c) \/ ProbeFails(c) \/ Send(c) \/ Headers(c)
      PROVE  Budgeted'
  <2>1. /\ pc[c] \in {"token", "launch", "probe", "send", "await"} /\ UNCHANGED <<op, left>>
        /\ \E point \in {"lock", "probe", "kill", "await", "body"} : Goto(c, point)
    BY <1>5 DEF TakeToken, Launch, ProbeFails, Send, Headers, callerVars
  <2> QED
    BY <1>p, <2>1, BudgetKept
<1>6. ASSUME NEW c \in Callers, Lock(c) \/ ProbeReady(c) \/ Reap(c) \/ Discard(c)
                                \/ TransportError(c)
      PROVE  Budgeted'
  <2>1. /\ pc[c] \in {"lock", "probe", "reap", "discard", "send", "await"} /\ UNCHANGED left
        /\ \/ Return(c)
           \/ UNCHANGED op /\ \E point \in {"send", "launch", "discardKill", "discard"} :
                                Goto(c, point)
    BY <1>6 DEF Lock, ProbeReady, Reap, Discard, TransportError, Refused, callerVars
  <2> QED
    BY <1>p, <2>1, BudgetKept
<1>7. ASSUME NEW c \in Callers, KillLocked(c) PROVE Budgeted'
  <2>1. pc[c] \in {"kill", "discardKill"}
    BY <1>7 DEF KillLocked, AfterKill
  <2>2. UNCHANGED <<op, left>> /\ \E point \in {"reap", "discardReap"} : Goto(c, point)
    BY <1>7, <2>1 DEF KillLocked, AfterKill, callerVars
  <2> QED
    BY <1>p, <2>1, <2>2, BudgetKept
<1>8. ASSUME NEW c \in Callers, Close(c) PROVE Budgeted'
  <2>1. pc[c] = "closing" /\ UNCHANGED left
        /\ (Return(c) \/ (UNCHANGED op /\ Goto(c, "closeWait")))
    BY <1>8 DEF Close
  <2> QED
    BY <2>1, BudgetKept
<1>9. CASE UNCHANGED <<pc, op, left>>
  BY <1>9 DEF Budgeted
<1>10. ASSUME NEW p \in Procs, Load(p) \/ WaitReturns(p) \/ Die(p) \/ Crash(p)
       PROVE  UNCHANGED <<pc, op, left>>
  BY <1>10 DEF Load, WaitReturns, Die, Crash, End, callerVars
<1>11. UNCHANGED vars => UNCHANGED <<pc, op, left>>
  BY DEF vars, callerVars
<1> QED
  BY <1>1, <1>2, <1>3, <1>4, <1>5, <1>6, <1>7, <1>8, <1>9, <1>10, <1>11
  DEF Next, Acquire, Step, Startup, Infer, Server, Rest

Queue   == Awaiting({"request"})
Answers == Awaiting({"headers", "response"})
Simulated == [Once!Next]_(Once!vars)

LEMMA OnceParts ==
  /\ (\E k \in Tokens : /\ Phases[k] # "done"
                        /\ Phases' = [Phases EXCEPT ![k] = "done"]
                        /\ Queue' \subseteq Queue /\ Answers' \subseteq Answers) => Simulated
  /\ Phases' = Phases /\ Queue' \subseteq Queue /\ Answers' \subseteq Answers => Simulated
  /\ (\E k \in Tokens : /\ Phases[k] = "new"
                        /\ Phases' = [Phases EXCEPT ![k] = "sent"]
                        /\ Queue' = Queue \cup {k} /\ Answers' = Answers) => Simulated
  /\ (\E k \in Queue \cap Tokens : /\ Queue' = Queue \ {k} /\ Answers' = Answers \cup {k}
                                   /\ Phases' = Phases) => Simulated
  /\ (\E k \in Answers \cap Tokens : /\ Phases[k] = "sent"
                                     /\ Phases' = [Phases EXCEPT ![k] = "answered"]
                                     /\ Answers' = Answers \ {k} /\ Queue' = Queue) => Simulated
BY DEF Simulated, Once!Next, Once!Send, Once!Execute, Once!Deliver, Once!Return, Once!Lose,
       Phases, Queue, Answers

(* An operation goes on, or ends with whatever was left of it.               *)
LEMMA EndsOrGoesOn ==
  ASSUME Budgeted, Budgeted', NEW c \in Callers, UNCHANGED left, OthersStay(c),
         pc'[c] # "await", pc[c] # "idle",
         Stage(c)' = Stage(c) \/ (Stage(c)' = "done" /\ left[c] < MaxCalls[c])
  PROVE  Simulated
<1>1. Queue' \subseteq Queue /\ Answers' \subseteq Answers
  BY OneCallerMoves DEF OthersStay, Queue, Answers
<1>2. CASE Stage(c)' = Stage(c)
  <2>1. Phases' = Phases
    BY <1>2, OneCallerMoves DEF OthersStay
  <2> QED
    BY <1>1, <2>1, OnceParts
<1>3. CASE Stage(c)' # Stage(c)
  <2>1. /\ Current(c) \in Tokens /\ Phases[Current(c)] = Stage(c)
        /\ Phases' = [Phases EXCEPT ![Current(c)] = "done"] /\ Stage(c) # "done"
    BY <1>3, OneCallerMoves DEF OthersStay
  <2> QED
    BY <1>1, <2>1, OnceParts
<1> QED
  BY <1>2, <1>3

(* A step that leaves every operation where it is.                           *)
LEMMA StillSimulated ==
  ASSUME UNCHANGED <<pc, op, left, exchange>>
  PROVE  Simulated
<1>1. Phases' = Phases
  BY DEF Phases, Phase
<1>2. Queue' = Queue /\ Answers' = Answers
  BY DEF Queue, Answers, Awaiting
<1> QED
  BY <1>1, <1>2, OnceParts

(* The return of an operation ends its call.                                 *)
LEMMA ReturnSimulated ==
  ASSUME Budgeted, Budgeted', NEW c \in Callers, UNCHANGED left, Return(c), pc[c] # "idle"
  PROVE  Simulated
<1>1. pc'[c] = "idle" /\ OthersStay(c)
  BY DEF Budgeted, Return, Goto, OthersStay
<1>2. Stage(c)' = "done"
  BY <1>1 DEF Stage
<1>3. Stage(c) = "done" \/ left[c] < MaxCalls[c]
  BY DEF Budgeted, Stage, Underway
<1> QED
  BY <1>1, <1>2, <1>3, EndsOrGoesOn

(* An operation goes from a statement before its request to another, or from *)
(* a discard to the next statement of it.                                    *)
Before == {"token", "lock", "launch", "probe", "kill", "reap", "send"}
After  == {"discard", "discardKill", "discardReap"}

LEMMA MovesSimulated ==
  ASSUME Budgeted, Budgeted', NEW c \in Callers, UNCHANGED <<left, op, exchange>>,
         NEW S \in {Before, After, {"closing", "closeWait"}},
         pc[c] \in S, NEW point \in S, Goto(c, point)
  PROVE  Simulated
<1>1. pc'[c] = point /\ OthersStay(c)
  BY DEF Budgeted, Goto, OthersStay
<1>2. Stage(c)' = Stage(c) /\ pc'[c] # "await" /\ pc[c] # "idle"
  BY <1>1 DEF Budgeted, Stage, Before, After, Underway
<1> QED
  BY <1>1, <1>2, EndsOrGoesOn

LEMMA SendSimulated ==
  ASSUME Budgeted, Budgeted', NEW c \in Callers, Send(c),
         exchange \in [Callers -> {"none", "request", "headers", "response", "reset"}]
  PROVE  Simulated
<1>1. /\ pc[c] = "send" /\ pc'[c] = "await" /\ exchange'[c] = "request" /\ OthersStay(c)
      /\ UNCHANGED <<left, op>>
  BY DEF Send, Goto, OthersStay, Budgeted
<1>2. op[c] # "close" /\ left[c] < MaxCalls[c]
  BY <1>1 DEF Budgeted, Underway
<1>3. Stage(c) = "new" /\ Stage(c)' = "sent"
  BY <1>1, <1>2 DEF Stage
<1>4. /\ Current(c) \in Tokens /\ Phases[Current(c)] = "new"
      /\ Phases' = [Phases EXCEPT ![Current(c)] = "sent"]
  BY <1>1, <1>2, <1>3, OneCallerMoves DEF OthersStay
<1>5. Queue' = Queue \cup {Current(c)} /\ Answers' = Answers
  <2>1. /\ Queue' \ {Current(c)} = Queue \ {Current(c)} /\ Current(c) \in Queue'
        /\ Answers' \ {Current(c)} = Answers \ {Current(c)}
        /\ Current(c) \notin Answers /\ Current(c) \notin Answers'
    BY <1>1, OneCallerMoves DEF OthersStay, Queue, Answers
  <2> QED
    BY <2>1
<1> QED
  BY <1>4, <1>5, OnceParts

LEMMA HeadersSimulated ==
  ASSUME Budgeted, Budgeted', NEW c \in Callers, Headers(c)
  PROVE  Simulated
<1>1. /\ pc[c] = "await" /\ exchange[c] \in {"headers", "response"} /\ pc'[c] = "body"
      /\ OthersStay(c) /\ UNCHANGED <<left, op, exchange>>
  BY DEF Headers, Goto, OthersStay, Budgeted, callerVars
<1>2. op[c] # "close" /\ left[c] < MaxCalls[c]
  BY <1>1 DEF Budgeted, Underway
<1>3. Stage(c) = "sent" /\ Stage(c)' = "answered"
  BY <1>1, <1>2 DEF Stage
<1>4. /\ Current(c) \in Tokens /\ Phases[Current(c)] = "sent"
      /\ Phases' = [Phases EXCEPT ![Current(c)] = "answered"]
  BY <1>1, <1>2, <1>3, OneCallerMoves DEF OthersStay
<1>5. Current(c) \in Answers /\ Answers' = Answers \ {Current(c)} /\ Queue' = Queue
  <2>1. /\ Queue' \ {Current(c)} = Queue \ {Current(c)}
        /\ Current(c) \notin Queue /\ Current(c) \notin Queue'
        /\ Answers' \ {Current(c)} = Answers \ {Current(c)}
        /\ Current(c) \in Answers /\ Current(c) \notin Answers'
    BY <1>1, OneCallerMoves DEF OthersStay, Queue, Answers
  <2> QED
    BY <2>1
<1> QED
  BY <1>4, <1>5, OnceParts

LEMMA RespondSimulated ==
  ASSUME Budgeted, Budgeted', NEW c \in Callers, Respond(c) \/ Reset(c),
         exchange \in [Callers -> {"none", "request", "headers", "response", "reset"}]
  PROVE  Simulated
<1>1. /\ UNCHANGED <<pc, left, op>> /\ OthersStay(c)
      /\ \/ exchange[c] = "request" /\ exchange'[c] \in {"headers", "reset"}
         \/ exchange[c] = "headers" /\ exchange'[c] = "response"
  BY DEF Respond, Reset, OthersStay
<1>2. Stage(c)' = Stage(c)
  BY <1>1 DEF Stage
<1>3. Phases' = Phases
  BY <1>1, <1>2, OneCallerMoves DEF OthersStay
<1>4. /\ Queue' \ {Current(c)} = Queue \ {Current(c)}
      /\ Answers' \ {Current(c)} = Answers \ {Current(c)}
      /\ Current(c) \in Queue <=> pc[c] = "await" /\ exchange[c] = "request"
      /\ Current(c) \in Queue' <=> pc[c] = "await" /\ exchange'[c] = "request"
      /\ Current(c) \in Answers <=> pc[c] = "await" /\ exchange[c] \in {"headers", "response"}
      /\ Current(c) \in Answers' <=> pc[c] = "await" /\ exchange'[c] \in {"headers", "response"}
  BY <1>1, OneCallerMoves DEF OthersStay, Queue, Answers
<1>5. CASE pc[c] = "await" /\ exchange[c] = "request" /\ exchange'[c] = "headers"
  <2>1. Current(c) \in Tokens
    BY <1>1, <1>5, OneCallerMoves DEF OthersStay, Budgeted, Underway
  <2>2. Current(c) \in Queue /\ Queue' = Queue \ {Current(c)}
        /\ Answers' = Answers \cup {Current(c)}
    BY <1>4, <1>5
  <2> QED
    BY <1>3, <2>1, <2>2, OnceParts
<1>6. CASE ~(pc[c] = "await" /\ exchange[c] = "request" /\ exchange'[c] = "headers")
  <2>1. Queue' \subseteq Queue /\ Answers' \subseteq Answers
    BY <1>1, <1>4, <1>6
  <2> QED
    BY <1>3, <2>1, OnceParts
<1> QED
  BY <1>5, <1>6

(* The call that an operation begins is new before it and after.             *)
LEMMA BeginSimulated ==
  ASSUME Budgeted, Budgeted', NEW c \in Callers, Begin(c)
  PROVE  Simulated
<1>1. /\ pc[c] = "idle" /\ left[c] > 0 /\ left' = [left EXCEPT ![c] = @ - 1]
      /\ pc'[c] \in {"token", "lock"} /\ op'[c] \in {"transcribe", "start"} /\ UNCHANGED exchange
      /\ \A d \in Callers : d # c => pc'[d] = pc[d] /\ op'[d] = op[d]
  BY DEF Begin, Goto, Budgeted
<1>2. left[c] \in Nat /\ left'[c] = left[c] - 1 /\ \A d \in Callers : d # c => left'[d] = left[d]
  BY <1>1 DEF Budgeted
<1>3. Stage(c) = "done" /\ Stage(c)' = "new" /\ \A d \in Callers : d # c => Stage(d)' = Stage(d)
  BY <1>1 DEF Stage
<1>4. ASSUME NEW k \in Tokens PROVE Phase(k)' = Phase(k)
  <2>1. k[1] \in Callers /\ k[2] \in Nat
    BY TokenParts
  <2>2. ByStage /\ ByStage'
    BY PhaseByStage, PhaseByStagePrime
  <2>3. CASE k[1] # c
    BY <1>2, <1>3, <2>1, <2>2, <2>3 DEF ByStage
  <2>4. CASE k[1] = c
    <3>1. Phase(k) = IF k[2] <= left[c] THEN "new" ELSE "done"
      BY <1>3, <2>2, <2>4 DEF ByStage
    <3>2. Phase(k)' = IF k[2] <= left[c] - 1 THEN "new"
                      ELSE IF k[2] = (left[c] - 1) + 1 THEN "new" ELSE "done"
      BY <1>2, <1>3, <2>2, <2>4 DEF ByStage
    <3> QED
      BY <1>2, <2>1, <3>1, <3>2
  <2> QED
    BY <2>3, <2>4
<1>5. Phases' = Phases
  BY <1>4 DEF Phases
<1>6. Queue' = Queue /\ Answers' = Answers
  <2>1. ASSUME NEW kinds PROVE Awaiting(kinds)' = Awaiting(kinds)
    <3>1. {d \in Callers : pc'[d] = "await" /\ exchange'[d] \in kinds}
            = {d \in Callers : pc[d] = "await" /\ exchange[d] \in kinds}
      BY <1>1
    <3>2. \A d \in {e \in Callers : pc[e] = "await" /\ exchange[e] \in kinds} : left'[d] = left[d]
      BY <1>1, <1>2
    <3> QED
      BY <3>1, <3>2 DEF Awaiting
  <2> QED
    BY <2>1 DEF Queue, Answers
<1> QED
  BY <1>5, <1>6, OnceParts

LEMMA OnceNext == Inv /\ Budgeted /\ Budgeted' /\ [Next]_vars => [Once!Next]_(Once!vars)
<1> SUFFICES ASSUME Inv, Budgeted, Budgeted', [Next]_vars PROVE Simulated
  BY DEF Simulated
<1>0. exchange \in [Callers -> {"none", "request", "headers", "response", "reset"}]
  BY DEF Inv, CallerOK
<1>1. ASSUME NEW c \in Callers, Begin(c) PROVE Simulated
  BY <1>1, BeginSimulated
<1>2. ASSUME NEW c \in Callers, BeginClose(c) PROVE Simulated
  <2>1. /\ pc[c] = "idle" /\ pc'[c] = "closing" /\ op'[c] = "close" /\ OthersStay(c)
        /\ UNCHANGED <<left, exchange>>
    BY <1>2 DEF BeginClose, Goto, Budgeted, OthersStay
  <2>2. Stage(c)' = Stage(c)
    BY <2>1 DEF Stage
  <2>3. Phases' = Phases /\ Queue' = Queue /\ Answers' = Answers
    <3>1. /\ Phases' = Phases
          /\ Queue' \ {Current(c)} = Queue \ {Current(c)}
          /\ Current(c) \notin Queue /\ Current(c) \notin Queue'
          /\ Answers' \ {Current(c)} = Answers \ {Current(c)}
          /\ Current(c) \notin Answers /\ Current(c) \notin Answers'
      BY <2>1, <2>2, OneCallerMoves DEF OthersStay, Queue, Answers
    <3> QED
      BY <3>1
  <2> QED
    BY <2>3, OnceParts
<1>3. ASSUME NEW c \in Callers, TokenCancelled(c) \/ LaunchFails(c) \/ InferCancelled(c)
                                \/ Body(c) \/ CloseDone(c) \/ BodyFails(c) \/ DiscardReap(c)
      PROVE  Simulated
  <2>1. Return(c) /\ UNCHANGED left /\ pc[c] # "idle"
    BY <1>3 DEF TokenCancelled, LaunchFails, InferCancelled, Body, CloseDone, BodyFails, DiscardReap
  <2> QED
    BY <2>1, ReturnSimulated
<1>4. ASSUME NEW c \in Callers, TakeToken(c) \/ Launch(c) \/ ProbeFails(c) PROVE Simulated
  <2>1. /\ pc[c] \in Before /\ UNCHANGED <<left, op, exchange>>
        /\ \E point \in Before : Goto(c, point)
    BY <1>4 DEF TakeToken, Launch, ProbeFails, callerVars, Before
  <2> QED
    BY <2>1, MovesSimulated
<1>5. ASSUME NEW c \in Callers, Lock(c) \/ ProbeReady(c) \/ Reap(c) PROVE Simulated
  <2>1. pc[c] \in Before /\ UNCHANGED left
        /\ (Return(c) \/ (UNCHANGED <<op, exchange>> /\ \E point \in Before : Goto(c, point)))
    BY <1>5 DEF Lock, ProbeReady, Reap, callerVars, Before
  <2> QED
    BY <2>1, MovesSimulated, ReturnSimulated DEF Before
<1>6. ASSUME NEW c \in Callers, Discard(c) PROVE Simulated
  <2>1. pc[c] \in After /\ UNCHANGED left
        /\ (Return(c) \/ (UNCHANGED <<op, exchange>> /\ \E point \in After : Goto(c, point)))
    BY <1>6 DEF Discard, callerVars, After
  <2> QED
    BY <2>1, MovesSimulated, ReturnSimulated DEF After
<1>7. ASSUME NEW c \in Callers, KillLocked(c) PROVE Simulated
  <2>1. UNCHANGED <<op, exchange, left>>
    BY <1>7 DEF KillLocked, callerVars
  <2>2. CASE pc[c] = "kill"
    BY <1>7, <2>1, <2>2, MovesSimulated DEF KillLocked, AfterKill, Before
  <2>3. CASE pc[c] = "discardKill"
    BY <1>7, <2>1, <2>3, MovesSimulated DEF KillLocked, AfterKill, After
  <2> QED
    BY <1>7, <2>2, <2>3 DEF KillLocked, AfterKill
<1>8. ASSUME NEW c \in Callers, TransportError(c) PROVE Simulated
  <2>1. pc[c] \in {"send", "await"} /\ UNCHANGED left
    BY <1>8 DEF TransportError, Refused, callerVars
  <2>2. CASE Return(c)
    BY <2>1, <2>2, ReturnSimulated
  <2>3. CASE UNCHANGED <<op, exchange>> /\ Goto(c, "discard")
    <3>1. pc'[c] = "discard" /\ OthersStay(c) /\ left[c] < MaxCalls[c]
      BY <2>1, <2>3 DEF Goto, Budgeted, OthersStay, Underway
    <3>2. Stage(c)' = "done"
      BY <3>1 DEF Stage
    <3> QED
      BY <2>1, <3>1, <3>2, EndsOrGoesOn
  <2> QED
    BY <1>8, <2>2, <2>3 DEF TransportError, callerVars
<1>9. ASSUME NEW c \in Callers, Close(c) PROVE Simulated
  <2>1. pc[c] = "closing" /\ UNCHANGED left
        /\ (Return(c) \/ (UNCHANGED <<op, exchange>> /\ Goto(c, "closeWait")))
    BY <1>9 DEF Close
  <2> QED
    BY <2>1, MovesSimulated, ReturnSimulated
<1>10. ASSUME NEW p \in Procs, Load(p) \/ WaitReturns(p) \/ Die(p) \/ Crash(p) PROVE Simulated
  BY <1>10, StillSimulated DEF Load, WaitReturns, Die, Crash, End, callerVars
<1>11. ASSUME NEW c \in Callers, Cancel(c) PROVE Simulated
  BY <1>11, StillSimulated DEF Cancel
<1>12. CASE UNCHANGED vars
  BY <1>12, StillSimulated DEF vars, callerVars
<1> QED
  BY <1>0, <1>1, <1>2, <1>3, <1>4, <1>5, <1>6, <1>7, <1>8, <1>9, <1>10, <1>11, <1>12,
     SendSimulated, HeadersSimulated, RespondSimulated
  DEF Next, Acquire, Step, Startup, Infer, Server, Rest

LEMMA OnceInit == Init => Once!Init
<1> SUFFICES ASSUME Init PROVE Once!Init
  OBVIOUS
<1>1. \A c \in Callers : pc[c] = "idle" /\ left[c] = MaxCalls[c]
  BY DEF Init
<1>2. \A k \in Tokens : Phase(k) = "new"
  BY <1>1, TokenParts DEF Phase
<1>3. Awaiting({"request"}) = {} /\ Awaiting({"headers", "response"}) = {}
  BY <1>1 DEF Awaiting
<1> QED
  BY <1>2, <1>3 DEF Once!Init

(* A transcription that failed is never sent again, and is answered at most  *)
(* once, by the server it was sent to (persistent.go:114-148, 238-283): the  *)
(* transcriber implements AtMostOnce.                                        *)
THEOREM TranscribeOnce == Spec => NeverReplayed
<1>1. Spec => []Budgeted
  BY BudgetedInit, BudgetedNext, PTL DEF Spec
<1> QED
  BY <1>1, Invariance, OnceInit, OnceNext, PTL DEF Spec, NeverReplayed, Once!Spec
=============================================================================
