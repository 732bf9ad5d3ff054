-------------------------- MODULE SidecarClientSafety --------------------------
(* Safety of SidecarClient for every set of callers and every bound: the    *)
(* variables keep their types, result channels never fill up, a closed      *)
(* client stays quiet, no sidecar is left behind.                           *)
EXTENDS SidecarClient, TLAPS

(* A call that has not returned has a request left to account for, and      *)
(* TranscribeAndInterpret one more before its first stage returns.          *)
Budgeted ==
  \A c \in Callers : /\ pc[c] \in CallPoints \cup {"startEnsure"} => left[c] >= 1
                     /\ op[c] = "speech" => left[c] >= 2

(* From its allocation to the return of the call a request has an id, and   *)
(* the statements that use p in the code have a process to use.             *)
IdPoints == CallPoints \ {"ensure", "alloc"}
TargetPoints == IdPoints \cup {"alloc", "stopStdin", "stopWait", "stopReap"}

Equipped ==
  \A c \in Callers : /\ pc[c] \in IdPoints => id[c] # 0
                     /\ pc[c] \in TargetPoints => target[c] \in Procs

TypeInv == TypeOK /\ Budgeted /\ Equipped

(* The goroutines of a process are threads, none of them a caller. *)
LEMMA Goroutines ==
  ASSUME NEW p \in Procs
  PROVE  /\ <<"reader", p>> \in Readers /\ <<"waiter", p>> \in Waiters
         /\ <<"reader", p>> \in Threads /\ <<"waiter", p>> \in Threads
         /\ <<"reader", p>> \notin Callers /\ <<"waiter", p>> \notin Callers
         /\ <<"reader", p>> \notin Waiters /\ <<"waiter", p>> \notin Readers
BY CallersAssumption DEF Readers, Waiters, Threads

LEMMA Distinct ==
  /\ Callers \cap Readers = {} /\ Callers \cap Waiters = {} /\ Readers \cap Waiters = {}
  /\ Callers \subseteq Threads /\ Readers \subseteq Threads /\ Waiters \subseteq Threads
BY CallersAssumption DEF Readers, Waiters, Threads

LEMMA FailTarget ==
  ASSUME TypeInv, NEW t \in Threads, pc[t] \in {"fail", "failLock"}
  PROVE  Target(t) \in Procs
BY Distinct DEF TypeInv, Equipped, TargetPoints, IdPoints, CallPoints, Target, Threads, Readers, Waiters

(* The conjuncts of TypeOK by what they are about. *)
PointsOK ==
  /\ pc \in [Threads -> Points]
  /\ \A c \in Callers : pc[c] \in CallerPoints
  /\ \A r \in Readers : pc[r] \in ReaderPoints
  /\ \A w \in Waiters : pc[w] \in WaiterPoints
ClientOK ==
  /\ process \in Procs \cup {None}
  /\ closed \in BOOLEAN
  /\ nextID \in Nat
  /\ pending \subseteq Nat \ {0}
CallerOK ==
  /\ op \in [Callers -> {"call", "speech", "start", "close"}]
  /\ left \in [Callers -> Nat]
  /\ target \in [Callers -> Procs \cup {None}]
  /\ id \in [Callers -> Nat]
  /\ chan \in [Callers -> Seq(Answers \cup Failures)]
  /\ cancelled \in [Callers -> BOOLEAN]
ProcessOK ==
  /\ launched \in 0..MaxProcs
  /\ status \in [Procs -> {"none", "running", "exited"}]
  /\ killed \in [Procs -> BOOLEAN]
  /\ stdinOpen \in [Procs -> BOOLEAN]
  /\ stdin \in [Procs -> Seq(Requests)]
  /\ stdout \in [Procs -> Seq(Answers)]
  /\ hand \in [Procs -> Seq(Answers)]
  /\ once \in [Procs -> {"idle", "running", "complete"}]

LEMMA TypeParts == TypeOK <=> PointsOK /\ ClientOK /\ CallerOK /\ ProcessOK
BY DEF TypeOK, PointsOK, ClientOK, CallerOK, ProcessOK

LEMMA TypePartsPrime == PointsOK' /\ ClientOK' /\ CallerOK' /\ ProcessOK' => TypeOK'
BY DEF TypeOK, PointsOK, ClientOK, CallerOK, ProcessOK

LEMMA TypeInit == Init => TypeInv
<1> SUFFICES ASSUME Init PROVE TypeInv
  OBVIOUS
<1>1. PointsOK
  BY Distinct DEF Init, PointsOK, Threads, Points, CallerPoints, ReaderPoints, WaiterPoints
<1>2. ClientOK
  BY DEF Init, ClientOK, None
<1>3. CallerOK
  BY BoundsAssumption DEF Init, CallerOK, None
<1>4. ProcessOK
  BY BoundsAssumption DEF Init, ProcessOK
<1>5. Budgeted /\ Equipped
  BY Distinct DEF Init, Budgeted, Equipped, CallPoints, IdPoints, TargetPoints
<1> QED
  BY <1>1, <1>2, <1>3, <1>4, <1>5, TypeParts DEF TypeInv

(* A call that returns leaves its caller with nothing of it. *)
LEMMA ReturnErrorType ==
  ASSUME TypeInv, NEW c \in Callers, pc[c] \in CallPoints, ReturnError(c)
  PROVE  PointsOK' /\ CallerOK' /\ Budgeted' /\ Equipped'
<1> USE Distinct, TypeParts DEF TypeInv, ReturnError, Leave, Goto, None
<1>1. PointsOK'
  BY DEF PointsOK, Points, CallerPoints, CallPoints, StopPoints, ReaderPoints, WaiterPoints,
         IdPoints, TargetPoints
<1>2. CallerOK'
  BY DEF CallerOK, Budgeted
<1>3. Budgeted'
  BY DEF PointsOK, CallerOK, Budgeted, CallPoints
<1>4. Equipped'
  BY DEF PointsOK, CallerOK, Equipped, CallPoints, IdPoints, TargetPoints
<1> QED
  BY <1>1, <1>2, <1>3, <1>4

LEMMA ReturnResultType ==
  ASSUME TypeInv, NEW c \in Callers, pc[c] \in CallPoints, ReturnResult(c)
  PROVE  PointsOK' /\ CallerOK' /\ Budgeted' /\ Equipped'
<1> USE Distinct, TypeParts DEF TypeInv, ReturnResult, Leave, Goto, None
<1>1. PointsOK'
  BY DEF PointsOK, Points, CallerPoints, CallPoints, StopPoints, ReaderPoints, WaiterPoints,
         IdPoints, TargetPoints
<1>2. cancelled' \in [Callers -> BOOLEAN]
  <2>1. CASE op[c] = "speech"
    BY <2>1 DEF CallerOK
  <2>2. CASE op[c] # "speech"
    BY <2>2 DEF CallerOK
  <2> QED
    BY <2>1, <2>2
<1>3. CallerOK'
  <2>1. left' \in [Callers -> Nat]
    BY DEF CallerOK, Budgeted
  <2>2. op' \in [Callers -> {"call", "speech", "start", "close"}] /\ id' \in [Callers -> Nat]
    BY DEF CallerOK
  <2>3. /\ target' \in [Callers -> Procs \cup {None}]
        /\ chan' \in [Callers -> Seq(Answers \cup Failures)]
    BY DEF CallerOK
  <2> QED
    BY <1>2, <2>1, <2>2, <2>3 DEF CallerOK
<1>4. Budgeted'
  BY DEF PointsOK, CallerOK, Budgeted, CallPoints
<1>5. Equipped'
  BY DEF PointsOK, CallerOK, Equipped, CallPoints, IdPoints, TargetPoints
<1> QED
  BY <1>1, <1>3, <1>4, <1>5

(* failPendingLocked sends well-typed failures and leaves nothing pending. *)
LEMMA FailPendingType ==
  ASSUME TypeInv, NEW kind \in {"failed", "closed"}, FailPending(kind)
  PROVE  chan' \in [Callers -> Seq(Answers \cup Failures)] /\ pending' = {}
<1>1. [kind |-> kind] \in Answers \cup Failures
  BY DEF Failures
<1> QED
  BY <1>1, TypeParts DEF TypeInv, CallerOK, FailPending

LEMMA TypeStep == TypeInv /\ [Next]_vars => TypeInv'
<1> SUFFICES ASSUME TypeInv, [Next]_vars PROVE TypeInv'
  OBVIOUS
<1> USE DEF vars, clientVars, callerVars, processVars
<1>0. PointsOK /\ ClientOK /\ CallerOK /\ ProcessOK /\ Budgeted /\ Equipped
  BY TypeParts DEF TypeInv
<1> SUFFICES PointsOK' /\ ClientOK' /\ CallerOK' /\ ProcessOK' /\ Budgeted' /\ Equipped'
  BY TypePartsPrime DEF TypeInv
<1> DEFINE Kept == PointsOK' /\ ClientOK' /\ CallerOK' /\ ProcessOK' /\ Budgeted' /\ Equipped'
<1>1. ASSUME NEW c \in Callers, Begin(c) PROVE Kept
  BY <1>0, <1>1, Distinct, ConfigAssumption DEF Begin, Goto, None,
     PointsOK, ClientOK, CallerOK, ProcessOK, Budgeted, Equipped,
     Points, CallerPoints, CallPoints, StopPoints, ReaderPoints, WaiterPoints,
         IdPoints, TargetPoints
<1>2. ASSUME NEW c \in Callers, Close(c) PROVE Kept
  BY <1>0, <1>2, Distinct, FailPendingType DEF Close, AfterDrop, Goto, None,
     PointsOK, ClientOK, CallerOK, ProcessOK, Budgeted, Equipped,
     Points, CallerPoints, CallPoints, StopPoints, ReaderPoints, WaiterPoints,
         IdPoints, TargetPoints
<1>3. ASSUME NEW c \in Callers, Cancel(c) PROVE Kept
  BY <1>0, <1>3, Distinct DEF Cancel, Goto, None,
     PointsOK, ClientOK, CallerOK, ProcessOK, Budgeted, Equipped,
     Points, CallerPoints, CallPoints, StopPoints, ReaderPoints, WaiterPoints,
         IdPoints, TargetPoints
<1>4. ASSUME NEW c \in Callers, EnsureCurrent(c) PROVE Kept
  BY <1>0, <1>4, Distinct DEF EnsureCurrent, AfterEnsure, Goto, None,
     PointsOK, ClientOK, CallerOK, ProcessOK, Budgeted, Equipped,
     Points, CallerPoints, CallPoints, StopPoints, ReaderPoints, WaiterPoints,
         IdPoints, TargetPoints
<1>5. ASSUME NEW c \in Callers, EnsureLaunch(c) PROVE Kept
  <2>1. launched' \in Procs /\ launched' \in 0..MaxProcs
    BY <1>0, <1>5, BoundsAssumption DEF EnsureLaunch, ProcessOK, Procs
  <2>2. PointsOK' /\ Budgeted'
    BY <1>0, <1>5, Distinct DEF EnsureLaunch, AfterEnsure, Goto, PointsOK, Budgeted,
       Points, CallerPoints, CallPoints, StopPoints, ReaderPoints, WaiterPoints,
         IdPoints, TargetPoints
  <2>3. ClientOK' /\ CallerOK' /\ ProcessOK'
    BY <1>0, <1>5, <2>1 DEF EnsureLaunch, ClientOK, CallerOK, ProcessOK
  <2>4. Equipped'
    BY <1>0, <1>5, <2>1, Distinct DEF EnsureLaunch, AfterEnsure, Goto, PointsOK, CallerOK, Equipped,
       CallPoints, IdPoints, TargetPoints
  <2> QED
    BY <2>2, <2>3, <2>4
<1>6. ASSUME NEW c \in Callers, EnsureFails(c) PROVE Kept
  <2>1. CASE pc[c] = "startEnsure"
    <3>0. /\ Goto(c, "idle") /\ op' = [op EXCEPT ![c] = "call"]
          /\ UNCHANGED <<clientVars, left, target, id, chan, cancelled, processVars, hand, once>>
      BY <2>1, <1>6 DEF EnsureFails
    <3>1. PointsOK' /\ Budgeted'
      BY <3>0, <1>0, <1>6, Distinct DEF Goto, PointsOK, CallerOK, Budgeted,
         Points, CallerPoints, CallPoints, StopPoints, ReaderPoints, WaiterPoints,
         IdPoints, TargetPoints
    <3>3. Equipped'
      BY <3>0, <1>0 DEF Goto, PointsOK, CallerOK, Equipped,
         CallPoints, IdPoints, TargetPoints
    <3>2. ClientOK' /\ CallerOK' /\ ProcessOK'
      BY <3>0, <1>0 DEF ClientOK, CallerOK, ProcessOK
    <3> QED
      BY <3>1, <3>2, <3>3
  <2>2. CASE pc[c] # "startEnsure"
    <3>1. TypeInv /\ ReturnError(c) /\ pc[c] \in CallPoints
      BY <2>2, <1>6 DEF EnsureFails, CallPoints
    <3>2. ClientOK' /\ ProcessOK'
      BY <1>0, <1>6 DEF EnsureFails, ClientOK, ProcessOK
    <3> QED
      BY <3>1, <3>2, ReturnErrorType
  <2> QED
    BY <2>1, <2>2
<1>7. ASSUME NEW c \in Callers, AllocateID(c) PROVE Kept
  <2>1. nextID' \in Nat \ {0}
    BY <1>0, <1>7 DEF AllocateID, NewID, ClientOK
  <2>2. ClientOK' /\ CallerOK' /\ ProcessOK'
    BY <1>0, <1>7, <2>1 DEF AllocateID, ClientOK, CallerOK, ProcessOK
  <2>3. PointsOK' /\ Budgeted'
    BY <1>0, <1>7, Distinct DEF AllocateID, Goto, PointsOK, Budgeted,
       Points, CallerPoints, CallPoints, StopPoints, ReaderPoints, WaiterPoints,
         IdPoints, TargetPoints
  <2>4. Equipped'
    BY <1>0, <1>7, <2>1 DEF AllocateID, Goto, PointsOK, CallerOK, Equipped,
       CallPoints, IdPoints, TargetPoints
  <2> QED
    BY <2>2, <2>3, <2>4
<1>8. ASSUME NEW c \in Callers, Register(c) PROVE Kept
  <2>1. id[c] \in Nat \ {0}
    BY <1>0, <1>8 DEF Register, CallerOK, Equipped, IdPoints, CallPoints
  <2>2. ClientOK'
    BY <1>0, <1>8, <2>1 DEF Register, ClientOK
  <2>3. PointsOK' /\ Budgeted' /\ Equipped'
    BY <1>0, <1>8, Distinct DEF Register, Goto, PointsOK, Budgeted, Equipped,
       Points, CallerPoints, CallPoints, StopPoints, ReaderPoints, WaiterPoints,
         IdPoints, TargetPoints
  <2>4. CallerOK' /\ ProcessOK'
    BY <1>0, <1>8 DEF Register, CallerOK, ProcessOK
  <2> QED
    BY <2>2, <2>3, <2>4
<1>9. ASSUME NEW c \in Callers, RegisterFails(c) PROVE Kept
  <2>1. TypeInv /\ ReturnError(c) /\ pc[c] \in CallPoints
    BY <1>9 DEF RegisterFails, CallPoints
  <2>2. ClientOK' /\ ProcessOK'
    BY <1>0, <1>9 DEF RegisterFails, ClientOK, ProcessOK
  <2> QED
    BY <2>1, <2>2, ReturnErrorType
<1>10. ASSUME NEW c \in Callers, LockWrite(c) PROVE Kept
  BY <1>0, <1>10, Distinct DEF LockWrite, Goto, None,
     PointsOK, ClientOK, CallerOK, ProcessOK, Budgeted, Equipped,
     Points, CallerPoints, CallPoints, StopPoints, ReaderPoints, WaiterPoints,
         IdPoints, TargetPoints
<1>11. ASSUME NEW c \in Callers, Write(c) PROVE Kept
  <2> DEFINE p == target[c]
  <2>1. PICK s \in Sizes :
          stdin' = [stdin EXCEPT ![p] = Append(@, [id |-> id[c], req |-> Token(c), size |-> s])]
    BY <1>11 DEF Write
  <2>2. p \in Procs
    BY <1>0, <1>11 DEF Write, Equipped, TargetPoints, IdPoints, CallPoints
  <2>3. [id |-> id[c], req |-> Token(c), size |-> s] \in Requests
    BY <1>0, ConfigAssumption DEF CallerOK, Requests, Token
  <2>4. stdin' \in [Procs -> Seq(Requests)]
    BY <1>0, <2>1, <2>2, <2>3 DEF ProcessOK
  <2>5. ClientOK' /\ CallerOK' /\ ProcessOK'
    BY <1>0, <1>11, <2>4 DEF Write, ClientOK, CallerOK, ProcessOK
  <2>6. PointsOK' /\ Budgeted' /\ Equipped'
    BY <1>0, <1>11, Distinct DEF Write, Goto, PointsOK, Budgeted, Equipped,
       Points, CallerPoints, CallPoints, StopPoints, ReaderPoints, WaiterPoints,
         IdPoints, TargetPoints
  <2> QED
    BY <2>5, <2>6
<1>12. ASSUME NEW c \in Callers, WriteFails(c) PROVE Kept
  BY <1>0, <1>12, Distinct DEF WriteFails, Goto, None,
     PointsOK, ClientOK, CallerOK, ProcessOK, Budgeted, Equipped,
     Points, CallerPoints, CallPoints, StopPoints, ReaderPoints, WaiterPoints,
         IdPoints, TargetPoints
<1>13. ASSUME NEW c \in Callers, Unpend(c) PROVE Kept
  BY <1>0, <1>13, Distinct DEF Unpend, Unregister, Goto, None,
     PointsOK, ClientOK, CallerOK, ProcessOK, Budgeted, Equipped,
     Points, CallerPoints, CallPoints, StopPoints, ReaderPoints, WaiterPoints,
         IdPoints, TargetPoints
<1>14. ASSUME NEW c \in Callers, ReturnFailed(c) PROVE Kept
  <2>1. TypeInv /\ ReturnError(c) /\ pc[c] \in CallPoints
    BY <1>14 DEF ReturnFailed, CallPoints
  <2>2. ClientOK' /\ ProcessOK'
    BY <1>0, <1>14 DEF ReturnFailed, ClientOK, ProcessOK
  <2> QED
    BY <2>1, <2>2, ReturnErrorType
<1>15. ASSUME NEW c \in Callers, Receive(c) PROVE Kept
  <2>1. TypeInv /\ (ReturnError(c) \/ ReturnResult(c)) /\ pc[c] \in CallPoints
    BY <1>15 DEF Receive, CallPoints
  <2>2. ClientOK' /\ ProcessOK'
    BY <1>0, <1>15 DEF Receive, ClientOK, ProcessOK
  <2> QED
    BY <2>1, <2>2, ReturnErrorType, ReturnResultType
<1>16. ASSUME NEW c \in Callers, CtxDone(c) PROVE Kept
  BY <1>0, <1>16, Distinct DEF CtxDone, Goto, None,
     PointsOK, ClientOK, CallerOK, ProcessOK, Budgeted, Equipped,
     Points, CallerPoints, CallPoints, StopPoints, ReaderPoints, WaiterPoints,
         IdPoints, TargetPoints
<1>17. ASSUME NEW c \in Callers, Unwait(c) PROVE Kept
  <2>1. TypeInv /\ ReturnError(c) /\ pc[c] \in CallPoints
    BY <1>17 DEF Unwait, CallPoints
  <2>2. ClientOK' /\ ProcessOK'
    BY <1>0, <1>17 DEF Unwait, ClientOK, ProcessOK, Unregister
  <2> QED
    BY <2>1, <2>2, ReturnErrorType
<1>18. ASSUME NEW c \in Callers, StopProcess(c) PROVE Kept
  BY <1>0, <1>18, Distinct DEF StopProcess, AfterDrop, Goto, None,
     PointsOK, ClientOK, CallerOK, ProcessOK, Budgeted, Equipped,
     Points, CallerPoints, CallPoints, StopPoints, ReaderPoints, WaiterPoints,
         IdPoints, TargetPoints
<1>19. ASSUME NEW c \in Callers, StopStdin(c) PROVE Kept
  BY <1>0, <1>19, Distinct DEF StopStdin, Goto, None,
     PointsOK, ClientOK, CallerOK, ProcessOK, Budgeted, Equipped,
     Points, CallerPoints, CallPoints, StopPoints, ReaderPoints, WaiterPoints,
         IdPoints, TargetPoints
<1>20. ASSUME NEW c \in Callers, StopTimer(c) PROVE Kept
  BY <1>0, <1>20, Distinct DEF StopTimer, Goto, None,
     PointsOK, ClientOK, CallerOK, ProcessOK, Budgeted, Equipped,
     Points, CallerPoints, CallPoints, StopPoints, ReaderPoints, WaiterPoints,
         IdPoints, TargetPoints
<1>21. ASSUME NEW c \in Callers, StopDone(c) PROVE Kept
  BY <1>0, <1>21, Distinct DEF StopDone, Goto, None,
     PointsOK, ClientOK, CallerOK, ProcessOK, Budgeted, Equipped,
     Points, CallerPoints, CallPoints, StopPoints, ReaderPoints, WaiterPoints,
         IdPoints, TargetPoints
<1>22. ASSUME NEW p \in Procs, ReadResponse(p) PROVE Kept
  <2> DEFINE m == Head(stdout[p])
  <2>1. m \in Answers
    BY <1>0, <1>22 DEF ReadResponse, ProcessOK
  <2>2. hand' \in [Procs -> Seq(Answers)]
    <3>1. <<m>> \in Seq(Answers)
      BY <2>1
    <3>2. hand' = hand \/ hand' = [hand EXCEPT ![p] = <<m>>]
      BY <1>22 DEF ReadResponse
    <3> QED
      BY <1>0, <3>1, <3>2 DEF ProcessOK
  <2>3. stdout' \in [Procs -> Seq(Answers)]
    BY <1>0, <1>22 DEF ReadResponse, ProcessOK
  <2>4. ClientOK' /\ CallerOK' /\ ProcessOK'
    BY <1>0, <1>22, <2>2, <2>3 DEF ReadResponse, Unregister, ClientOK, CallerOK, ProcessOK
  <2>5. PointsOK'
    BY <1>0, <1>22, Goroutines, Distinct DEF ReadResponse, Goto, PointsOK, Points, CallerPoints, CallPoints, StopPoints, ReaderPoints, WaiterPoints,
         IdPoints, TargetPoints
  <2>6. \A c \in Callers : pc'[c] = pc[c]
    BY <1>0, <1>22, Goroutines, Distinct DEF ReadResponse, Goto, PointsOK
  <2>7. Budgeted' /\ Equipped'
    BY <1>0, <1>22, <2>6 DEF ReadResponse, Budgeted, Equipped
  <2> QED
    BY <2>4, <2>5, <2>7
<1>23. ASSUME NEW p \in Procs, Deliver(p) PROVE Kept
  BY <1>0, <1>23, Distinct, Goroutines DEF Deliver, Goto, None,
     PointsOK, ClientOK, CallerOK, ProcessOK, Budgeted, Equipped,
     Points, CallerPoints, CallPoints, StopPoints, ReaderPoints, WaiterPoints,
         IdPoints, TargetPoints
<1>24. ASSUME NEW p \in Procs, ReadError(p) PROVE Kept
  BY <1>0, <1>24, Distinct, Goroutines DEF ReadError, Goto, None,
     PointsOK, ClientOK, CallerOK, ProcessOK, Budgeted, Equipped,
     Points, CallerPoints, CallPoints, StopPoints, ReaderPoints, WaiterPoints,
         IdPoints, TargetPoints
<1>25. ASSUME NEW p \in Procs, ReadEOF(p) PROVE Kept
  BY <1>0, <1>25, Distinct, Goroutines DEF ReadEOF, Goto, None,
     PointsOK, ClientOK, CallerOK, ProcessOK, Budgeted, Equipped,
     Points, CallerPoints, CallPoints, StopPoints, ReaderPoints, WaiterPoints,
         IdPoints, TargetPoints
<1>26. ASSUME NEW p \in Procs, WaitReturns(p) PROVE Kept
  BY <1>0, <1>26, Distinct, Goroutines DEF WaitReturns, Goto, None,
     PointsOK, ClientOK, CallerOK, ProcessOK, Budgeted, Equipped,
     Points, CallerPoints, CallPoints, StopPoints, ReaderPoints, WaiterPoints,
         IdPoints, TargetPoints
<1>27. ASSUME NEW p \in Procs, Serve(p) PROVE Kept
  <2> DEFINE m == Head(stdin[p])
  <2>1. m \in Requests
    BY <1>0, <1>27 DEF Serve, ProcessOK
  <2>2. PICK k \in {"result", "error", "garbage"} :
          stdout' = [stdout EXCEPT ![p] = Append(@, [id |-> AnswerID(m), req |-> m.req, kind |-> k])]
    BY <1>27, ConfigAssumption DEF Serve
  <2>3. [id |-> AnswerID(m), req |-> m.req, kind |-> k] \in Answers
    BY <2>1 DEF AnswerID, Requests, Answers
  <2>4. stdout' \in [Procs -> Seq(Answers)]
    BY <1>0, <2>2, <2>3 DEF ProcessOK
  <2>5. stdin' \in [Procs -> Seq(Requests)]
    BY <1>0, <1>27 DEF Serve, ProcessOK
  <2>6. ClientOK' /\ CallerOK' /\ ProcessOK'
    BY <1>0, <1>27, <2>4, <2>5 DEF Serve, ClientOK, CallerOK, ProcessOK
  <2>7. PointsOK' /\ Budgeted' /\ Equipped'
    BY <1>0, <1>27 DEF Serve, PointsOK, Budgeted, Equipped
  <2> QED
    BY <2>6, <2>7
<1>28. ASSUME NEW p \in Procs, ExitAtEOF(p) PROVE Kept
  BY <1>0, <1>28, Distinct DEF ExitAtEOF, Exit, Goto, None,
     PointsOK, ClientOK, CallerOK, ProcessOK, Budgeted, Equipped,
     Points, CallerPoints, CallPoints, StopPoints, ReaderPoints, WaiterPoints,
         IdPoints, TargetPoints
<1>29. ASSUME NEW p \in Procs, Die(p) PROVE Kept
  BY <1>0, <1>29, Distinct DEF Die, Exit, Goto, None,
     PointsOK, ClientOK, CallerOK, ProcessOK, Budgeted, Equipped,
     Points, CallerPoints, CallPoints, StopPoints, ReaderPoints, WaiterPoints,
         IdPoints, TargetPoints
<1>30. ASSUME NEW p \in Procs, Crash(p) PROVE Kept
  BY <1>0, <1>30, Distinct DEF Crash, Exit, Goto, None,
     PointsOK, ClientOK, CallerOK, ProcessOK, Budgeted, Equipped,
     Points, CallerPoints, CallPoints, StopPoints, ReaderPoints, WaiterPoints,
         IdPoints, TargetPoints
<1>31. ASSUME NEW t \in Threads, FailFirst(t) PROVE Kept
  BY <1>0, <1>31, Distinct, FailTarget DEF FailFirst, Goto, None,
     PointsOK, ClientOK, CallerOK, ProcessOK, Budgeted, Equipped,
     Points, CallerPoints, CallPoints, StopPoints, ReaderPoints, WaiterPoints,
         IdPoints, TargetPoints
<1>32. ASSUME NEW t \in Threads, FailAgain(t) PROVE Kept
  BY <1>0, <1>32, Distinct, FailTarget DEF FailAgain, AfterFail, Goto, None,
     PointsOK, ClientOK, CallerOK, ProcessOK, Budgeted, Equipped,
     Points, CallerPoints, CallPoints, StopPoints, ReaderPoints, WaiterPoints,
         IdPoints, TargetPoints
<1>33. ASSUME NEW t \in Threads, FailLocked(t) PROVE Kept
  <2>1. Target(t) \in Procs
    BY <1>33, FailTarget DEF FailLocked
  <2>2. chan' \in [Callers -> Seq(Answers \cup Failures)] /\ ClientOK'
    BY <1>0, <1>33, FailPendingType DEF FailLocked, ClientOK, CallerOK, None
  <2>3. CallerOK' /\ ProcessOK'
    BY <1>0, <1>33, <2>1, <2>2 DEF FailLocked, CallerOK, ProcessOK
  <2>4. PointsOK' /\ Budgeted' /\ Equipped'
    BY <1>0, <1>33, Distinct DEF FailLocked, AfterFail, Goto, PointsOK, Budgeted, Equipped,
       Points, CallerPoints, CallPoints, StopPoints, ReaderPoints, WaiterPoints,
         IdPoints, TargetPoints
  <2> QED
    BY <2>2, <2>3, <2>4
<1>34. ASSUME UNCHANGED vars PROVE Kept
  <2>1. PointsOK' /\ ClientOK' /\ CallerOK'
    BY <1>0, <1>34 DEF PointsOK, ClientOK, CallerOK
  <2>2. ProcessOK' /\ Budgeted' /\ Equipped'
    BY <1>0, <1>34 DEF ProcessOK, Budgeted, Equipped
  <2> QED
    BY <2>1, <2>2
<1> QED
  BY <1>1, <1>2, <1>3, <1>4, <1>5, <1>6, <1>7, <1>8, <1>9, <1>10, <1>11, <1>12,
     <1>13, <1>14, <1>15, <1>16, <1>17, <1>18, <1>19, <1>20, <1>21, <1>22, <1>23, <1>24,
     <1>25, <1>26, <1>27, <1>28, <1>29, <1>30, <1>31, <1>32, <1>33, <1>34,
     Goroutines, Distinct
  DEF Next, CallerStep, CallStep, StopStep, FailStep, ReaderStep, WaiterStep, Rest

(* The variables keep their types: in every reachable state each thread is   *)
(* at a statement of its own code and every line in a pipe is well formed.   *)
THEOREM TypeCorrect == Spec => []TypeOK
<1>1. TypeInv => TypeOK
  BY DEF TypeInv
<1> QED
  BY TypeInit, TypeStep, <1>1, PTL DEF Spec
-----------------------------------------------------------------------------

(* The reader of p is about to send the response with id i. *)
Taken(p, i) == hand[p] # <<>> /\ Head(hand[p]).id = i

(* Why a result channel has room when something is sent to it.  An id        *)
(* belongs to one call; it is in pending from its registration until one     *)
(* thread takes it out, which alone sends to its channel.                    *)
IdsUnique ==
  /\ \A c \in Callers : id[c] \in 0..nextID /\ (pc[c] \notin IdPoints => id[c] = 0)
  /\ \A c, d \in Callers : id[c] = id[d] /\ id[c] # 0 => c = d
  /\ pending \subseteq 1..nextID
TakenOnce ==
  /\ \A p \in Procs : hand[p] # <<>> =>
       Head(hand[p]).id \in 1..nextID /\ Head(hand[p]).id \notin pending
  /\ \A p, q \in Procs : hand[p] # <<>> /\ Taken(q, Head(hand[p]).id) => p = q
FreshChannels ==
  \A c \in Callers :
    /\ id[c] = 0 => chan[c] = <<>>
    /\ pc[c] = "register" =>
         /\ chan[c] = <<>> /\ id[c] \notin pending
         /\ \A p \in Procs : ~Taken(p, id[c])
RoomToSend ==
  \A c \in Callers :
    id[c] \in pending \/ (\E p \in Procs : Taken(p, id[c])) => chan[c] = <<>>

ChannelInv == TypeInv /\ IdsUnique /\ TakenOnce /\ FreshChannels /\ RoomToSend

LEMMA ChannelInit == Init => ChannelInv
<1> SUFFICES ASSUME Init PROVE ChannelInv
  OBVIOUS
<1>1. TypeInv
  BY TypeInit
<1>2. IdsUnique /\ TakenOnce /\ FreshChannels /\ RoomToSend
  BY Distinct DEF Init, IdsUnique, TakenOnce, FreshChannels, RoomToSend, Taken, IdPoints, CallPoints
<1> QED
  BY <1>1, <1>2 DEF ChannelInv

(* A step that touches neither ids nor channels nor pending. *)
Quiet ==
  /\ UNCHANGED <<nextID, pending, id, chan, hand>>
  /\ \A c \in Callers : /\ pc'[c] \in IdPoints <=> pc[c] \in IdPoints
                        /\ pc'[c] = "register" => pc[c] = "register"

LEMMA QuietKeeps ==
  ASSUME ChannelInv, Quiet
  PROVE  IdsUnique' /\ TakenOnce' /\ FreshChannels' /\ RoomToSend'
BY DEF ChannelInv, Quiet, IdsUnique, TakenOnce, FreshChannels, RoomToSend, Taken

(* A call that returns: its id and its channel are gone, and pending may     *)
(* have lost an id.                                                          *)
LEMMA LeaveKeeps ==
  ASSUME ChannelInv, NEW c \in Callers, NEW point \in {"idle", "drop", "ensure"}, Leave(c, point),
         UNCHANGED <<nextID, hand>>, pending' \subseteq pending
  PROVE  IdsUnique' /\ TakenOnce' /\ FreshChannels' /\ RoomToSend'
<1> USE DEF ChannelInv, Leave, Goto, TypeInv
<1>1. /\ id' = [id EXCEPT ![c] = 0] /\ chan' = [chan EXCEPT ![c] = <<>>]
      /\ pc' = [pc EXCEPT ![c] = point]
  OBVIOUS
<1>2. id \in [Callers -> Nat] /\ DOMAIN chan = Callers /\ DOMAIN pc = Threads /\ nextID \in Nat
  BY TypeParts DEF CallerOK, PointsOK, ClientOK
<1>3. IdsUnique'
  BY <1>1, <1>2, Distinct DEF IdsUnique, IdPoints, CallPoints
<1>4. TakenOnce'
  BY DEF TakenOnce, Taken
<1>5. FreshChannels'
  BY <1>1, <1>2, Distinct DEF FreshChannels, Taken
<1>6. RoomToSend'
  BY <1>1, <1>2 DEF RoomToSend, Taken
<1> QED
  BY <1>3, <1>4, <1>5, <1>6
(* Every registered channel gets its one message and pending is empty.       *)
LEMMA FailPendingKeeps ==
  ASSUME ChannelInv, NEW kind, FailPending(kind), UNCHANGED <<nextID, id, hand>>,
         \A c \in Callers : /\ pc'[c] \in IdPoints <=> pc[c] \in IdPoints
                            /\ pc'[c] = "register" => pc[c] = "register"
  PROVE  IdsUnique' /\ TakenOnce' /\ FreshChannels' /\ RoomToSend'
<1>1. pending' = {} /\ \A c \in Callers : id[c] \notin pending => chan'[c] = chan[c]
  BY DEF FailPending
<1>2. 0 \notin pending
  BY DEF ChannelInv, IdsUnique
<1>3. \A c \in Callers, p \in Procs : Taken(p, id[c]) => id[c] \notin pending
  BY DEF ChannelInv, TakenOnce, Taken
<1>4. IdsUnique' /\ TakenOnce'
  BY <1>1 DEF ChannelInv, IdsUnique, TakenOnce, Taken
<1>5. FreshChannels' /\ RoomToSend'
  BY <1>1, <1>2, <1>3 DEF ChannelInv, FreshChannels, RoomToSend, Taken
<1> QED
  BY <1>4, <1>5

LEMMA ChannelStep == ChannelInv /\ [Next]_vars => ChannelInv'
<1> SUFFICES ASSUME ChannelInv, [Next]_vars PROVE ChannelInv'
  OBVIOUS
<1> USE DEF vars, clientVars, callerVars, processVars
<1>0. /\ PointsOK /\ ClientOK /\ CallerOK /\ ProcessOK /\ Equipped
      /\ IdsUnique /\ TakenOnce /\ FreshChannels /\ RoomToSend
  BY TypeParts DEF ChannelInv, TypeInv
<1>t. TypeInv'
  BY TypeStep DEF ChannelInv
<1> DEFINE Kept == IdsUnique' /\ TakenOnce' /\ FreshChannels' /\ RoomToSend'
<1> SUFFICES Kept
  BY <1>t DEF ChannelInv
<1>1. ASSUME NEW c \in Callers, Begin(c) PROVE Kept
  <2>1. Quiet
    BY <1>0, <1>1, Distinct DEF Begin, Goto, Quiet, PointsOK, IdPoints, CallPoints
  <2> QED
    BY <2>1, QuietKeeps
<1>2. ASSUME NEW c \in Callers, Close(c) PROVE Kept
  <2>1. /\ FailPending("closed") /\ UNCHANGED <<nextID, id, hand>>
        /\ \A d \in Callers : /\ pc'[d] \in IdPoints <=> pc[d] \in IdPoints
                              /\ pc'[d] = "register" => pc[d] = "register"
    BY <1>0, <1>2, Distinct DEF Close, AfterDrop, Goto, PointsOK, IdPoints, CallPoints
  <2> QED
    BY <2>1, FailPendingKeeps
<1>3. ASSUME NEW c \in Callers, Cancel(c) PROVE Kept
  <2>1. Quiet
    BY <1>0, <1>3, Distinct DEF Cancel, Goto, Quiet, PointsOK, IdPoints, CallPoints
  <2> QED
    BY <2>1, QuietKeeps
<1>4. ASSUME NEW c \in Callers, EnsureCurrent(c) PROVE Kept
  <2>1. Quiet
    BY <1>0, <1>4, Distinct DEF EnsureCurrent, AfterEnsure, Goto, Quiet, PointsOK, IdPoints, CallPoints
  <2> QED
    BY <2>1, QuietKeeps
<1>5. ASSUME NEW c \in Callers, EnsureLaunch(c) PROVE Kept
  <2>1. Quiet
    BY <1>0, <1>5, Distinct DEF EnsureLaunch, AfterEnsure, Goto, Quiet, PointsOK, IdPoints, CallPoints
  <2> QED
    BY <2>1, QuietKeeps
<1>6. ASSUME NEW c \in Callers, EnsureFails(c) PROVE Kept
  <2>1. CASE pc[c] = "startEnsure"
    <3>1. Quiet
      BY <2>1, <1>0, <1>6, Distinct DEF EnsureFails, Goto, Quiet, PointsOK, IdPoints, CallPoints
    <3> QED
      BY <3>1, QuietKeeps
  <2>2. CASE pc[c] # "startEnsure"
    <3>1. PICK point \in {"idle", "drop", "ensure"} : Leave(c, point)
      BY <2>2, <1>6 DEF EnsureFails, ReturnError
    <3>2. UNCHANGED <<nextID, hand>> /\ pending' \subseteq pending
      BY <1>6 DEF EnsureFails
    <3> QED
      BY <3>1, <3>2, LeaveKeeps
  <2> QED
    BY <2>1, <2>2
<1>7. ASSUME NEW c \in Callers, AllocateID(c) PROVE Kept
  <2>1. id[c] = 0
    BY <1>0, <1>7 DEF AllocateID, IdsUnique, IdPoints
  <2>2. /\ nextID' = nextID + 1 /\ nextID \in Nat
        /\ id' = [id EXCEPT ![c] = nextID + 1] /\ pc' = [pc EXCEPT ![c] = "register"]
        /\ UNCHANGED <<pending, chan, hand>>
    BY <1>0, <1>7 DEF AllocateID, NewID, Goto, ClientOK
  <2>3. IdsUnique'
    BY <1>0, <2>2, Distinct DEF IdsUnique, PointsOK, CallerOK, IdPoints, CallPoints
  <2>4. TakenOnce'
    BY <1>0, <2>2 DEF TakenOnce, Taken
  <2>5. chan[c] = <<>> /\ nextID + 1 \notin pending /\ \A p \in Procs : ~Taken(p, nextID + 1)
    BY <1>0, <2>1, <2>2 DEF FreshChannels, IdsUnique, TakenOnce, Taken
  <2>6. FreshChannels'
    BY <1>0, <2>2, <2>5, Distinct DEF FreshChannels, Taken, PointsOK, CallerOK
  <2>7. RoomToSend'
    BY <1>0, <2>2, <2>5 DEF RoomToSend, Taken, CallerOK
  <2> QED
    BY <2>3, <2>4, <2>6, <2>7
<1>8. ASSUME NEW c \in Callers, Register(c) PROVE Kept
  <2>1. /\ pending' = pending \cup {id[c]} /\ pc[c] = "register"
        /\ pc' = [pc EXCEPT ![c] = "lockWrite"] /\ UNCHANGED <<nextID, id, chan, hand>>
    BY <1>8 DEF Register, Goto
  <2>2. id[c] # 0 /\ id[c] \in 1..nextID /\ nextID \in Nat
    <3>1. id[c] # 0
      BY <1>0, <2>1 DEF Equipped, IdPoints, CallPoints
    <3>2. id[c] \in 0..nextID /\ nextID \in Nat
      BY <1>0 DEF IdsUnique, ClientOK
    <3> QED
      BY <3>1, <3>2
  <2>3. IdsUnique'
    BY <1>0, <2>1, <2>2, Distinct DEF IdsUnique, PointsOK, IdPoints, CallPoints
  <2>4. TakenOnce'
    BY <1>0, <2>1 DEF TakenOnce, FreshChannels, Taken
  <2>5. FreshChannels' /\ RoomToSend'
    BY <1>0, <2>1, <2>2, Distinct DEF FreshChannels, RoomToSend, IdsUnique, Taken, PointsOK
  <2> QED
    BY <2>3, <2>4, <2>5
<1>9. ASSUME NEW c \in Callers, RegisterFails(c) PROVE Kept
  <2>1. PICK point \in {"idle", "drop", "ensure"} : Leave(c, point)
    BY <1>9 DEF RegisterFails, ReturnError
  <2>2. UNCHANGED <<nextID, hand>> /\ pending' \subseteq pending
    BY <1>9 DEF RegisterFails
  <2> QED
    BY <2>1, <2>2, LeaveKeeps
<1>10. ASSUME NEW c \in Callers, LockWrite(c) PROVE Kept
  <2>1. Quiet
    BY <1>0, <1>10, Distinct DEF LockWrite, Goto, Quiet, PointsOK, IdPoints, CallPoints
  <2> QED
    BY <2>1, QuietKeeps
<1>11. ASSUME NEW c \in Callers, Write(c) PROVE Kept
  <2>1. Quiet
    BY <1>0, <1>11, Distinct DEF Write, Goto, Quiet, PointsOK, IdPoints, CallPoints
  <2> QED
    BY <2>1, QuietKeeps
<1>12. ASSUME NEW c \in Callers, WriteFails(c) PROVE Kept
  <2>1. Quiet
    BY <1>0, <1>12, Distinct DEF WriteFails, Goto, Quiet, PointsOK, IdPoints, CallPoints
  <2> QED
    BY <2>1, QuietKeeps
<1>13. ASSUME NEW c \in Callers, Unpend(c) PROVE Kept
  <2>1. /\ pending' \subseteq pending /\ UNCHANGED <<nextID, id, chan, hand>>
        /\ pc[c] = "unpend" /\ pc' = [pc EXCEPT ![c] = "fail"]
    BY <1>13 DEF Unpend, Unregister, Goto
  <2>2. IdsUnique' /\ TakenOnce'
    BY <1>0, <2>1, Distinct DEF IdsUnique, TakenOnce, Taken, PointsOK, IdPoints, CallPoints
  <2>3. FreshChannels' /\ RoomToSend'
    BY <1>0, <2>1, Distinct DEF FreshChannels, RoomToSend, Taken, PointsOK
  <2> QED
    BY <2>2, <2>3
<1>14. ASSUME NEW c \in Callers, ReturnFailed(c) PROVE Kept
  <2>1. PICK point \in {"idle", "drop", "ensure"} : Leave(c, point)
    BY <1>14 DEF ReturnFailed, ReturnError
  <2>2. UNCHANGED <<nextID, hand>> /\ pending' \subseteq pending
    BY <1>14 DEF ReturnFailed
  <2> QED
    BY <2>1, <2>2, LeaveKeeps
<1>15. ASSUME NEW c \in Callers, Receive(c) PROVE Kept
  <2>1. PICK point \in {"idle", "drop", "ensure"} : Leave(c, point)
    BY <1>15 DEF Receive, ReturnError, ReturnResult
  <2>2. UNCHANGED <<nextID, hand>> /\ pending' \subseteq pending
    BY <1>15 DEF Receive
  <2> QED
    BY <2>1, <2>2, LeaveKeeps
<1>16. ASSUME NEW c \in Callers, CtxDone(c) PROVE Kept
  <2>1. Quiet
    BY <1>0, <1>16, Distinct DEF CtxDone, Goto, Quiet, PointsOK, IdPoints, CallPoints
  <2> QED
    BY <2>1, QuietKeeps
<1>17. ASSUME NEW c \in Callers, Unwait(c) PROVE Kept
  <2>1. PICK point \in {"idle", "drop", "ensure"} : Leave(c, point)
    BY <1>17 DEF Unwait, ReturnError
  <2>2. UNCHANGED <<nextID, hand>> /\ pending' \subseteq pending
    BY <1>17 DEF Unwait, Unregister
  <2> QED
    BY <2>1, <2>2, LeaveKeeps
<1>18. ASSUME NEW c \in Callers, StopProcess(c) PROVE Kept
  <2>1. Quiet
    BY <1>0, <1>18, Distinct DEF StopProcess, AfterDrop, Goto, Quiet, PointsOK, IdPoints, CallPoints
  <2> QED
    BY <2>1, QuietKeeps
<1>19. ASSUME NEW c \in Callers, StopStdin(c) PROVE Kept
  <2>1. Quiet
    BY <1>0, <1>19, Distinct DEF StopStdin, Goto, Quiet, PointsOK, IdPoints, CallPoints
  <2> QED
    BY <2>1, QuietKeeps
<1>20. ASSUME NEW c \in Callers, StopTimer(c) PROVE Kept
  <2>1. Quiet
    BY <1>0, <1>20, Distinct DEF StopTimer, Goto, Quiet, PointsOK, IdPoints, CallPoints
  <2> QED
    BY <2>1, QuietKeeps
<1>21. ASSUME NEW c \in Callers, StopDone(c) PROVE Kept
  <2>1. Quiet
    BY <1>0, <1>21, Distinct DEF StopDone, Goto, Quiet, PointsOK, IdPoints, CallPoints
  <2> QED
    BY <2>1, QuietKeeps
<1>22. ASSUME NEW p \in Procs, ReadResponse(p) PROVE Kept
  <2> DEFINE m == Head(stdout[p])
  <2>1. /\ UNCHANGED <<nextID, id, chan>> /\ hand[p] = <<>>
        /\ \A d \in Callers : pc'[d] = pc[d]
    BY <1>0, <1>22, Goroutines, Distinct DEF ReadResponse, Goto, PointsOK
  <2>2. CASE UNCHANGED <<pending, hand>>
    BY <2>1, <2>2, QuietKeeps DEF Quiet
  <2>3. CASE m.id \in pending /\ pending' = pending \ {m.id} /\ hand' = [hand EXCEPT ![p] = <<m>>]
    <3>1. /\ \A q \in Procs : q # p => hand'[q] = hand[q]
          /\ hand'[p] # <<>> /\ Head(hand'[p]) = m
      BY <1>0, <2>3 DEF ProcessOK
    <3>2. IdsUnique'
      BY <1>0, <2>1, <2>3 DEF IdsUnique
    <3>3. TakenOnce'
      <4>1. m.id \in 1..nextID /\ m.id \notin pending'
        BY <1>0, <2>3 DEF IdsUnique
      <4>2. \A q \in Procs : q # p /\ hand[q] # <<>> => Head(hand[q]).id # m.id
        BY <1>0, <2>3 DEF TakenOnce
      <4>3. \A q \in Procs : hand'[q] # <<>> =>
               Head(hand'[q]).id \in 1..nextID /\ Head(hand'[q]).id \notin pending'
        BY <1>0, <2>3, <3>1, <4>1 DEF TakenOnce
      <4>4. \A q, r \in Procs : hand'[q] # <<>> /\ hand'[r] # <<>>
                              /\ Head(hand'[r]).id = Head(hand'[q]).id => q = r
        BY <1>0, <3>1, <4>2 DEF TakenOnce, Taken
      <4> QED
        BY <2>1, <4>3, <4>4 DEF TakenOnce, Taken
    <3>4. FreshChannels'
      BY <1>0, <2>1, <2>3, <3>1 DEF FreshChannels, Taken
    <3>5. RoomToSend'
      BY <1>0, <2>1, <2>3, <3>1 DEF RoomToSend, Taken
    <3> QED
      BY <3>2, <3>3, <3>4, <3>5
  <2>4. m.id \in pending \/ pending \ {m.id} = pending
    OBVIOUS
  <2> QED
    BY <1>22, <2>2, <2>3, <2>4 DEF ReadResponse, Unregister
<1>23. ASSUME NEW p \in Procs, Deliver(p) PROVE Kept
  <2> DEFINE m == Head(hand[p])
  <2>1. /\ UNCHANGED <<nextID, pending, id, pc>> /\ hand[p] # <<>>
        /\ hand' = [hand EXCEPT ![p] = <<>>]
        /\ \A c \in Callers : id[c] # m.id => chan'[c] = chan[c]
    BY <1>23 DEF Deliver
  <2>2. m.id \in 1..nextID /\ m.id \notin pending /\ m.id # 0
    BY <1>0, <2>1 DEF TakenOnce, ClientOK
  <2>3. \A q \in Procs : hand'[q] = (IF q = p THEN <<>> ELSE hand[q])
    BY <1>0, <2>1 DEF ProcessOK
  <2>4. IdsUnique' /\ TakenOnce'
    BY <1>0, <2>1, <2>3 DEF IdsUnique, TakenOnce, Taken
  <2>5. FreshChannels'
    BY <1>0, <2>1, <2>2, <2>3 DEF FreshChannels, Taken
  <2>6. \A c \in Callers, q \in Procs : Taken(q, id[c])' => id[c] # m.id
    BY <1>0, <2>1, <2>3 DEF TakenOnce, Taken
  <2>7. RoomToSend'
    BY <1>0, <2>1, <2>2, <2>3, <2>6 DEF RoomToSend, Taken
  <2> QED
    BY <2>4, <2>5, <2>7
<1>24. ASSUME NEW p \in Procs, ReadError(p) PROVE Kept
  <2>1. Quiet
    BY <1>0, <1>24, Goroutines, Distinct DEF ReadError, Goto, Quiet, PointsOK, IdPoints, CallPoints
  <2> QED
    BY <2>1, QuietKeeps
<1>25. ASSUME NEW p \in Procs, ReadEOF(p) PROVE Kept
  <2>1. Quiet
    BY <1>0, <1>25, Goroutines, Distinct DEF ReadEOF, Goto, Quiet, PointsOK, IdPoints, CallPoints
  <2> QED
    BY <2>1, QuietKeeps
<1>26. ASSUME NEW p \in Procs, WaitReturns(p) PROVE Kept
  <2>1. Quiet
    BY <1>0, <1>26, Goroutines, Distinct DEF WaitReturns, Goto, Quiet, PointsOK, IdPoints, CallPoints
  <2> QED
    BY <2>1, QuietKeeps
<1>27. ASSUME NEW p \in Procs, Serve(p) PROVE Kept
  <2>1. Quiet
    BY <1>0, <1>27, Goroutines, Distinct DEF Serve, Goto, Quiet, PointsOK, IdPoints, CallPoints
  <2> QED
    BY <2>1, QuietKeeps
<1>28. ASSUME NEW p \in Procs, ExitAtEOF(p) PROVE Kept
  <2>1. Quiet
    BY <1>0, <1>28, Goroutines, Distinct DEF ExitAtEOF, Exit, Goto, Quiet, PointsOK, IdPoints, CallPoints
  <2> QED
    BY <2>1, QuietKeeps
<1>29. ASSUME NEW p \in Procs, Die(p) PROVE Kept
  <2>1. Quiet
    BY <1>0, <1>29, Goroutines, Distinct DEF Die, Exit, Goto, Quiet, PointsOK, IdPoints, CallPoints
  <2> QED
    BY <2>1, QuietKeeps
<1>30. ASSUME NEW p \in Procs, Crash(p) PROVE Kept
  <2>1. Quiet
    BY <1>0, <1>30, Goroutines, Distinct DEF Crash, Exit, Goto, Quiet, PointsOK, IdPoints, CallPoints
  <2> QED
    BY <2>1, QuietKeeps
<1>31. ASSUME NEW t \in Threads, FailFirst(t) PROVE Kept
  <2>1. Quiet
    BY <1>0, <1>31, Distinct DEF FailFirst, Goto, Quiet, PointsOK, IdPoints, CallPoints
  <2> QED
    BY <2>1, QuietKeeps
<1>32. ASSUME NEW t \in Threads, FailAgain(t) PROVE Kept
  <2>1. Quiet
    BY <1>0, <1>32, Distinct DEF FailAgain, AfterFail, Goto, Quiet, PointsOK, IdPoints, CallPoints
  <2> QED
    BY <2>1, QuietKeeps
<1>33. ASSUME NEW t \in Threads, FailLocked(t) PROVE Kept
  <2>1. /\ UNCHANGED <<nextID, id, hand>>
        /\ \A d \in Callers : /\ pc'[d] \in IdPoints <=> pc[d] \in IdPoints
                              /\ pc'[d] = "register" => pc[d] = "register"
    BY <1>0, <1>33, Distinct DEF FailLocked, AfterFail, Goto, PointsOK, IdPoints, CallPoints
  <2>2. CASE Current(Target(t))
    BY <1>33, <2>1, <2>2, FailPendingKeeps DEF FailLocked
  <2>3. CASE ~Current(Target(t))
    <3>1. Quiet
      BY <1>33, <2>1, <2>3 DEF FailLocked, Quiet
    <3> QED
      BY <3>1, QuietKeeps
  <2> QED
    BY <2>2, <2>3
<1>34. ASSUME UNCHANGED vars PROVE Kept
  BY <1>34, QuietKeeps DEF Quiet
<1> QED
  BY <1>1, <1>2, <1>3, <1>4, <1>5, <1>6, <1>7, <1>8, <1>9, <1>10, <1>11, <1>12,
     <1>13, <1>14, <1>15, <1>16, <1>17, <1>18, <1>19, <1>20, <1>21, <1>22, <1>23, <1>24,
     <1>25, <1>26, <1>27, <1>28, <1>29, <1>30, <1>31, <1>32, <1>33, <1>34,
     Goroutines, Distinct
  DEF Next, CallerStep, CallStep, StopStep, FailStep, ReaderStep, WaiterStep, Rest

(* A send to a result channel never blocks, neither the reader's nor the one *)
(* failPendingLocked makes while it holds mu.                                *)
THEOREM SendsNeverBlock == Spec => []NoBlockedSend
<1>1. ChannelInv => NoBlockedSend
  BY DEF ChannelInv, RoomToSend, Taken, NoBlockedSend
<1> QED
  BY ChannelInit, ChannelStep, <1>1, PTL DEF Spec
(* Why no sidecar is left behind: whoever takes a process out of             *)
(* Client.process has killed it or goes on to stop it, and a closed done     *)
(* means that it was killed.                                                 *)
DoneMeansKilled ==
  /\ \A p \in Procs : DoneClosed(p) => killed[p]
  /\ \A t \in Threads : pc[t] = "failLock" => killed[Target(t)]
  /\ \A c \in Callers : pc[c] = "stopReap" => killed[target[c]]

OwnerInv == TypeInv /\ ClosedIsQuiet /\ DoneMeansKilled /\ NoLeakedProcess

LEMMA OwnerInit == Init => OwnerInv
<1> SUFFICES ASSUME Init PROVE OwnerInv
  OBVIOUS
<1>1. TypeInv
  BY TypeInit
<1>2. ClosedIsQuiet /\ NoLeakedProcess
  BY DEF Init, ClosedIsQuiet, NoLeakedProcess
<1>3. DoneMeansKilled
  BY Distinct DEF Init, DoneMeansKilled, DoneClosed
<1> QED
  BY <1>1, <1>2, <1>3 DEF OwnerInv

(* What keeps NoLeakedProcess: no process starts, a process that is no       *)
(* longer current was killed, and who stops a process goes on to do so       *)
(* unless it was killed.                                                     *)
Stopping(c) == pc[c] \in {"stopStdin", "stopWait"}

LEMMA StillOwned ==
  ASSUME OwnerInv,
         \A p \in Procs : status'[p] = "running" => status[p] = "running",
         \A p \in Procs : killed[p] => killed'[p],
         process' = process \/ (process \in Procs => killed'[process]),
         \A c \in Callers : Stopping(c) =>
           \/ target[c] \in Procs => killed'[target[c]]
           \/ Stopping(c)' /\ target'[c] = target[c]
  PROVE  NoLeakedProcess'
<1> SUFFICES ASSUME NEW p \in Procs, status'[p] = "running", ~killed'[p], process' # p
             PROVE  \E c \in Callers : target'[c] = p /\ Stopping(c)'
  BY DEF NoLeakedProcess, Stopping
<1>1. status[p] = "running" /\ ~killed[p] /\ process # p
  OBVIOUS
<1>2. PICK c \in Callers : target[c] = p /\ Stopping(c)
  BY <1>1 DEF OwnerInv, NoLeakedProcess, Stopping
<1> QED
  BY <1>2

(* The same for a call that returns: it stops nothing and holds no lock. *)
LEMMA LeaveOwner ==
  ASSUME OwnerInv, NEW c \in Callers, pc[c] \in CallPoints,
         NEW point \in {"idle", "drop", "ensure"}, Leave(c, point),
         UNCHANGED <<process, closed, status, killed, once>>, pending' \subseteq pending
  PROVE  ClosedIsQuiet' /\ DoneMeansKilled' /\ NoLeakedProcess'
<1>1. /\ pc' = [pc EXCEPT ![c] = point] /\ target' = [target EXCEPT ![c] = None]
      /\ pc \in [Threads -> Points] /\ target \in [Callers -> Procs \cup {None}]
  BY TypeParts DEF Leave, Goto, OwnerInv, TypeInv, PointsOK, CallerOK
<1>2. ClosedIsQuiet'
  BY DEF OwnerInv, ClosedIsQuiet
<1>3. DoneMeansKilled'
  <2>1. \A t \in Threads : pc'[t] = "failLock" => pc[t] = "failLock" /\ t # c
    BY <1>1, Distinct
  <2>2. \A t \in Threads : t # c => Target(t)' = Target(t)
    BY <1>1 DEF Target
  <2>3. \A d \in Callers : pc'[d] = "stopReap" => pc[d] = "stopReap" /\ target'[d] = target[d]
    BY <1>1, Distinct
  <2> QED
    BY <2>1, <2>2, <2>3 DEF OwnerInv, DoneMeansKilled, DoneClosed
<1>4. NoLeakedProcess'
  BY <1>1, Distinct, StillOwned DEF Stopping, CallPoints
<1> QED
  BY <1>2, <1>3, <1>4

LEMMA OwnerStep == OwnerInv /\ [Next]_vars => OwnerInv'
<1> SUFFICES ASSUME OwnerInv, [Next]_vars PROVE OwnerInv'
  OBVIOUS
<1> USE DEF vars, clientVars, callerVars, processVars
<1>0. /\ PointsOK /\ ClientOK /\ CallerOK /\ ProcessOK /\ Equipped
      /\ ClosedIsQuiet /\ DoneMeansKilled /\ NoLeakedProcess
  BY TypeParts DEF OwnerInv, TypeInv
<1>t. TypeInv'
  BY TypeStep DEF OwnerInv
<1> DEFINE Kept == ClosedIsQuiet' /\ DoneMeansKilled' /\ NoLeakedProcess'
<1> SUFFICES Kept
  BY <1>t DEF OwnerInv
<1>1. ASSUME NEW c \in Callers, Begin(c) PROVE Kept
  <2>1. ClosedIsQuiet'
    BY <1>0, <1>1, Distinct DEF Begin, Goto, ClosedIsQuiet, None
  <2>2. DoneMeansKilled'
    BY <1>0, <1>1, Distinct DEF Begin, Goto, DoneMeansKilled, DoneClosed, Target, PointsOK, CallerOK, ProcessOK,
       Equipped, TargetPoints, IdPoints, CallPoints
  <2>3. NoLeakedProcess'
    BY <1>0, <1>1, Distinct, StillOwned DEF Begin, Goto, Stopping, PointsOK, CallerOK, ProcessOK
  <2> QED
    BY <2>1, <2>2, <2>3
<1>2. ASSUME NEW c \in Callers, Close(c) PROVE Kept
  <2>1. ClosedIsQuiet'
    BY <1>0, <1>2, Distinct DEF Close, AfterDrop, FailPending, Goto, ClosedIsQuiet, None
  <2>2. DoneMeansKilled'
    BY <1>0, <1>2, Distinct DEF Close, AfterDrop, FailPending, Goto, DoneMeansKilled, DoneClosed, Target, PointsOK, CallerOK, ProcessOK,
       Equipped, TargetPoints, IdPoints, CallPoints
  <2>3. NoLeakedProcess'
    <3>1. /\ UNCHANGED <<status, killed>> /\ process' = None
          /\ target' = [target EXCEPT ![c] = process] /\ pc' = [pc EXCEPT ![c] = AfterDrop]
          /\ ~Stopping(c)
      BY <1>2 DEF Close, Goto, Stopping
    <3>2. SUFFICES ASSUME NEW p \in Procs, status[p] = "running", ~killed[p]
                   PROVE  \E d \in Callers : target'[d] = p /\ Stopping(d)'
      BY <3>1 DEF NoLeakedProcess, Stopping
    <3>3. CASE process = p
      <4>1. target'[c] = p /\ Stopping(c)'
        BY <1>0, <3>1, <3>3, Distinct DEF AfterDrop, Stopping, PointsOK, CallerOK, Procs, None
      <4> QED
        BY <4>1
    <3>4. CASE process # p
      <4>1. PICK d \in Callers : target[d] = p /\ Stopping(d)
        BY <1>0, <3>2, <3>4 DEF NoLeakedProcess, Stopping
      <4>2. target'[d] = p /\ Stopping(d)'
        BY <1>0, <3>1, <4>1, Distinct DEF Stopping, PointsOK, CallerOK
      <4> QED
        BY <4>2
    <3> QED
      BY <3>3, <3>4
  <2> QED
    BY <2>1, <2>2, <2>3
<1>3. ASSUME NEW c \in Callers, Cancel(c) PROVE Kept
  <2>1. ClosedIsQuiet'
    BY <1>0, <1>3, Distinct DEF Cancel, Goto, ClosedIsQuiet, None
  <2>2. DoneMeansKilled'
    BY <1>0, <1>3, Distinct DEF Cancel, Goto, DoneMeansKilled, DoneClosed, Target, PointsOK, CallerOK, ProcessOK,
       Equipped, TargetPoints, IdPoints, CallPoints
  <2>3. NoLeakedProcess'
    BY <1>0, <1>3, Distinct, StillOwned DEF Cancel, Goto, Stopping, PointsOK, CallerOK, ProcessOK
  <2> QED
    BY <2>1, <2>2, <2>3
<1>4. ASSUME NEW c \in Callers, EnsureCurrent(c) PROVE Kept
  <2>1. ClosedIsQuiet'
    BY <1>0, <1>4, Distinct DEF EnsureCurrent, AfterEnsure, Goto, ClosedIsQuiet, None
  <2>2. DoneMeansKilled'
    BY <1>0, <1>4, Distinct DEF EnsureCurrent, AfterEnsure, Goto, DoneMeansKilled, DoneClosed, Target, PointsOK, CallerOK, ProcessOK,
       Equipped, TargetPoints, IdPoints, CallPoints
  <2>3. NoLeakedProcess'
    BY <1>0, <1>4, Distinct, StillOwned DEF EnsureCurrent, AfterEnsure, Goto, Stopping, PointsOK, CallerOK, ProcessOK
  <2> QED
    BY <2>1, <2>2, <2>3
<1>5. ASSUME NEW c \in Callers, EnsureLaunch(c) PROVE Kept
  <2>1. ClosedIsQuiet'
    BY <1>0, <1>5, BoundsAssumption, Distinct DEF EnsureLaunch, AfterEnsure, MayLaunch, Goto, ClosedIsQuiet, None
  <2>2. DoneMeansKilled'
    BY <1>0, <1>5, BoundsAssumption, Distinct DEF EnsureLaunch, AfterEnsure, MayLaunch, Goto, DoneMeansKilled, DoneClosed, Target, PointsOK, CallerOK, ProcessOK,
       Equipped, TargetPoints, IdPoints, CallPoints
  <2>3. NoLeakedProcess'
    <3>1. /\ UNCHANGED killed /\ process = None /\ process' = launched'
          /\ status' = [status EXCEPT ![launched'] = "running"]
          /\ \A d \in Callers : Stopping(d) => Stopping(d)' /\ target'[d] = target[d]
      BY <1>0, <1>5, Distinct DEF EnsureLaunch, MayLaunch, Goto, Stopping, PointsOK, CallerOK
    <3>2. SUFFICES ASSUME NEW p \in Procs, status'[p] = "running", ~killed[p], process' # p
                   PROVE  \E d \in Callers : target'[d] = p /\ Stopping(d)'
      BY <3>1 DEF NoLeakedProcess, Stopping
    <3>3. status[p] = "running" /\ process # p
      BY <1>0, <3>1, <3>2 DEF ProcessOK, Procs, None
    <3>4. PICK d \in Callers : target[d] = p /\ Stopping(d)
      BY <1>0, <3>2, <3>3 DEF NoLeakedProcess, Stopping
    <3> QED
      BY <3>1, <3>4
  <2> QED
    BY <2>1, <2>2, <2>3
<1>6. ASSUME NEW c \in Callers, EnsureFails(c) PROVE Kept
  <2>0. /\ UNCHANGED <<process, closed, status, killed, once>> /\ pending' \subseteq pending
        /\ pc[c] \in {"startEnsure", "ensure"}
    BY <1>6 DEF EnsureFails
  <2>1. CASE pc[c] = "startEnsure"
    <3>1. pc' = [pc EXCEPT ![c] = "idle"] /\ UNCHANGED target
      BY <2>1, <1>6 DEF EnsureFails, Goto
    <3>2. ClosedIsQuiet'
      BY <1>0, <2>0 DEF ClosedIsQuiet
    <3>3. DoneMeansKilled'
      BY <1>0, <2>0, <3>1, Distinct DEF DoneMeansKilled, DoneClosed, Target, PointsOK
    <3>4. NoLeakedProcess'
      BY <1>0, <2>0, <2>1, <3>1, Distinct, StillOwned DEF Stopping, PointsOK
    <3> QED
      BY <3>2, <3>3, <3>4
  <2>2. CASE pc[c] # "startEnsure"
    <3>1. PICK point \in {"idle", "drop", "ensure"} : Leave(c, point)
      BY <2>2, <1>6 DEF EnsureFails, ReturnError
    <3>2. pc[c] \in CallPoints
      BY <2>0, <2>2 DEF CallPoints
    <3> QED
      BY <2>0, <3>1, <3>2, LeaveOwner
  <2> QED
    BY <2>1, <2>2
<1>7. ASSUME NEW c \in Callers, AllocateID(c) PROVE Kept
  <2>1. ClosedIsQuiet'
    BY <1>0, <1>7, Distinct DEF AllocateID, Goto, ClosedIsQuiet, None
  <2>2. DoneMeansKilled'
    BY <1>0, <1>7, Distinct DEF AllocateID, Goto, DoneMeansKilled, DoneClosed, Target, PointsOK, CallerOK, ProcessOK,
       Equipped, TargetPoints, IdPoints, CallPoints
  <2>3. NoLeakedProcess'
    BY <1>0, <1>7, Distinct, StillOwned DEF AllocateID, Goto, Stopping, PointsOK, CallerOK, ProcessOK
  <2> QED
    BY <2>1, <2>2, <2>3
<1>8. ASSUME NEW c \in Callers, Register(c) PROVE Kept
  <2>1. ClosedIsQuiet'
    BY <1>0, <1>8, Distinct DEF Register, MayRegister, Goto, ClosedIsQuiet, None
  <2>2. DoneMeansKilled'
    BY <1>0, <1>8, Distinct DEF Register, MayRegister, Goto, DoneMeansKilled, DoneClosed, Target, PointsOK, CallerOK, ProcessOK,
       Equipped, TargetPoints, IdPoints, CallPoints
  <2>3. NoLeakedProcess'
    BY <1>0, <1>8, Distinct, StillOwned DEF Register, MayRegister, Goto, Stopping, PointsOK, CallerOK, ProcessOK
  <2> QED
    BY <2>1, <2>2, <2>3
<1>9. ASSUME NEW c \in Callers, RegisterFails(c) PROVE Kept
  <2>1. PICK point \in {"idle", "drop", "ensure"} : Leave(c, point)
    BY <1>9 DEF RegisterFails, ReturnError
  <2>2. UNCHANGED <<process, closed, status, killed, once>> /\ pending' \subseteq pending
    BY <1>9 DEF RegisterFails
  <2>3. pc[c] \in CallPoints
    BY <1>9 DEF RegisterFails, CallPoints
  <2> QED
    BY <2>1, <2>2, <2>3, LeaveOwner
<1>10. ASSUME NEW c \in Callers, LockWrite(c) PROVE Kept
  <2>1. ClosedIsQuiet'
    BY <1>0, <1>10, Distinct DEF LockWrite, Goto, ClosedIsQuiet, None
  <2>2. DoneMeansKilled'
    BY <1>0, <1>10, Distinct DEF LockWrite, Goto, DoneMeansKilled, DoneClosed, Target, PointsOK, CallerOK, ProcessOK,
       Equipped, TargetPoints, IdPoints, CallPoints
  <2>3. NoLeakedProcess'
    BY <1>0, <1>10, Distinct, StillOwned DEF LockWrite, Goto, Stopping, PointsOK, CallerOK, ProcessOK
  <2> QED
    BY <2>1, <2>2, <2>3
<1>11. ASSUME NEW c \in Callers, Write(c) PROVE Kept
  <2>1. ClosedIsQuiet'
    BY <1>0, <1>11, Distinct DEF Write, Goto, ClosedIsQuiet, None
  <2>2. DoneMeansKilled'
    BY <1>0, <1>11, Distinct DEF Write, Goto, DoneMeansKilled, DoneClosed, Target, PointsOK, CallerOK, ProcessOK,
       Equipped, TargetPoints, IdPoints, CallPoints
  <2>3. NoLeakedProcess'
    BY <1>0, <1>11, Distinct, StillOwned DEF Write, Goto, Stopping, PointsOK, CallerOK, ProcessOK
  <2> QED
    BY <2>1, <2>2, <2>3
<1>12. ASSUME NEW c \in Callers, WriteFails(c) PROVE Kept
  <2>1. ClosedIsQuiet'
    BY <1>0, <1>12, Distinct DEF WriteFails, Goto, ClosedIsQuiet, None
  <2>2. DoneMeansKilled'
    BY <1>0, <1>12, Distinct DEF WriteFails, Goto, DoneMeansKilled, DoneClosed, Target, PointsOK, CallerOK, ProcessOK,
       Equipped, TargetPoints, IdPoints, CallPoints
  <2>3. NoLeakedProcess'
    BY <1>0, <1>12, Distinct, StillOwned DEF WriteFails, Goto, Stopping, PointsOK, CallerOK, ProcessOK
  <2> QED
    BY <2>1, <2>2, <2>3
<1>13. ASSUME NEW c \in Callers, Unpend(c) PROVE Kept
  <2>1. ClosedIsQuiet'
    BY <1>0, <1>13, Distinct DEF Unpend, Unregister, Goto, ClosedIsQuiet, None
  <2>2. DoneMeansKilled'
    BY <1>0, <1>13, Distinct DEF Unpend, Unregister, Goto, DoneMeansKilled, DoneClosed, Target, PointsOK, CallerOK, ProcessOK,
       Equipped, TargetPoints, IdPoints, CallPoints
  <2>3. NoLeakedProcess'
    BY <1>0, <1>13, Distinct, StillOwned DEF Unpend, Unregister, Goto, Stopping, PointsOK, CallerOK, ProcessOK
  <2> QED
    BY <2>1, <2>2, <2>3
<1>14. ASSUME NEW c \in Callers, ReturnFailed(c) PROVE Kept
  <2>1. PICK point \in {"idle", "drop", "ensure"} : Leave(c, point)
    BY <1>14 DEF ReturnFailed, ReturnError
  <2>2. UNCHANGED <<process, closed, status, killed, once>> /\ pending' \subseteq pending
    BY <1>14 DEF ReturnFailed
  <2>3. pc[c] \in CallPoints
    BY <1>14 DEF ReturnFailed, CallPoints
  <2> QED
    BY <2>1, <2>2, <2>3, LeaveOwner
<1>15. ASSUME NEW c \in Callers, Receive(c) PROVE Kept
  <2>1. PICK point \in {"idle", "drop", "ensure"} : Leave(c, point)
    BY <1>15 DEF Receive, ReturnError, ReturnResult
  <2>2. UNCHANGED <<process, closed, status, killed, once>> /\ pending' \subseteq pending
    BY <1>15 DEF Receive
  <2>3. pc[c] \in CallPoints
    BY <1>15 DEF Receive, CallPoints
  <2> QED
    BY <2>1, <2>2, <2>3, LeaveOwner
<1>16. ASSUME NEW c \in Callers, CtxDone(c) PROVE Kept
  <2>1. ClosedIsQuiet'
    BY <1>0, <1>16, Distinct DEF CtxDone, Goto, ClosedIsQuiet, None
  <2>2. DoneMeansKilled'
    BY <1>0, <1>16, Distinct DEF CtxDone, Goto, DoneMeansKilled, DoneClosed, Target, PointsOK, CallerOK, ProcessOK,
       Equipped, TargetPoints, IdPoints, CallPoints
  <2>3. NoLeakedProcess'
    BY <1>0, <1>16, Distinct, StillOwned DEF CtxDone, Goto, Stopping, PointsOK, CallerOK, ProcessOK
  <2> QED
    BY <2>1, <2>2, <2>3
<1>17. ASSUME NEW c \in Callers, Unwait(c) PROVE Kept
  <2>1. PICK point \in {"idle", "drop", "ensure"} : Leave(c, point)
    BY <1>17 DEF Unwait, ReturnError
  <2>2. UNCHANGED <<process, closed, status, killed, once>> /\ pending' \subseteq pending
    BY <1>17 DEF Unwait, Unregister
  <2>3. pc[c] \in CallPoints
    BY <1>17 DEF Unwait, CallPoints
  <2> QED
    BY <2>1, <2>2, <2>3, LeaveOwner
<1>18. ASSUME NEW c \in Callers, StopProcess(c) PROVE Kept
  <2>1. ClosedIsQuiet'
    BY <1>0, <1>18, Distinct DEF StopProcess, AfterDrop, Goto, ClosedIsQuiet, None
  <2>2. DoneMeansKilled'
    BY <1>0, <1>18, Distinct DEF StopProcess, AfterDrop, Goto, DoneMeansKilled, DoneClosed, Target, PointsOK, CallerOK, ProcessOK,
       Equipped, TargetPoints, IdPoints, CallPoints
  <2>3. NoLeakedProcess'
    <3>1. /\ UNCHANGED <<status, killed>> /\ process' = None
          /\ target' = [target EXCEPT ![c] = process] /\ pc' = [pc EXCEPT ![c] = AfterDrop]
          /\ ~Stopping(c)
      BY <1>18 DEF StopProcess, Goto, Stopping
    <3>2. SUFFICES ASSUME NEW p \in Procs, status[p] = "running", ~killed[p]
                   PROVE  \E d \in Callers : target'[d] = p /\ Stopping(d)'
      BY <3>1 DEF NoLeakedProcess, Stopping
    <3>3. CASE process = p
      <4>1. target'[c] = p /\ Stopping(c)'
        BY <1>0, <3>1, <3>3, Distinct DEF AfterDrop, Stopping, PointsOK, CallerOK, Procs, None
      <4> QED
        BY <4>1
    <3>4. CASE process # p
      <4>1. PICK d \in Callers : target[d] = p /\ Stopping(d)
        BY <1>0, <3>2, <3>4 DEF NoLeakedProcess, Stopping
      <4>2. target'[d] = p /\ Stopping(d)'
        BY <1>0, <3>1, <4>1, Distinct DEF Stopping, PointsOK, CallerOK
      <4> QED
        BY <4>2
    <3> QED
      BY <3>3, <3>4
  <2> QED
    BY <2>1, <2>2, <2>3
<1>19. ASSUME NEW c \in Callers, StopStdin(c) PROVE Kept
  <2>1. ClosedIsQuiet'
    BY <1>0, <1>19, Distinct DEF StopStdin, Goto, ClosedIsQuiet, None
  <2>2. DoneMeansKilled'
    BY <1>0, <1>19, Distinct DEF StopStdin, Goto, DoneMeansKilled, DoneClosed, Target, PointsOK, CallerOK, ProcessOK,
       Equipped, TargetPoints, IdPoints, CallPoints
  <2>3. NoLeakedProcess'
    BY <1>0, <1>19, Distinct, StillOwned DEF StopStdin, Goto, Stopping, PointsOK, CallerOK, ProcessOK
  <2> QED
    BY <2>1, <2>2, <2>3
<1>20. ASSUME NEW c \in Callers, StopTimer(c) PROVE Kept
  <2>1. ClosedIsQuiet'
    BY <1>0, <1>20, Distinct DEF StopTimer, Goto, ClosedIsQuiet, None
  <2>2. DoneMeansKilled'
    BY <1>0, <1>20, Distinct DEF StopTimer, Goto, DoneMeansKilled, DoneClosed, Target, PointsOK, CallerOK, ProcessOK,
       Equipped, TargetPoints, IdPoints, CallPoints
  <2>3. NoLeakedProcess'
    BY <1>0, <1>20, Distinct, StillOwned DEF StopTimer, Goto, Stopping, PointsOK, CallerOK, ProcessOK,
       Equipped, TargetPoints
  <2> QED
    BY <2>1, <2>2, <2>3
<1>21. ASSUME NEW c \in Callers, StopDone(c) PROVE Kept
  <2>1. ClosedIsQuiet'
    BY <1>0, <1>21, Distinct DEF StopDone, DoneClosed, Goto, ClosedIsQuiet, None
  <2>2. DoneMeansKilled'
    BY <1>0, <1>21, Distinct DEF StopDone, DoneClosed, Goto, DoneMeansKilled, DoneClosed, Target, PointsOK, CallerOK, ProcessOK,
       Equipped, TargetPoints, IdPoints, CallPoints
  <2>3. NoLeakedProcess'
    BY <1>0, <1>21, Distinct, StillOwned DEF StopDone, DoneClosed, Goto, Stopping, PointsOK, CallerOK, ProcessOK, DoneMeansKilled,
       Equipped, TargetPoints
  <2> QED
    BY <2>1, <2>2, <2>3
<1>22. ASSUME NEW p \in Procs, ReadResponse(p) PROVE Kept
  <2>1. ClosedIsQuiet'
    BY <1>0, <1>22, Goroutines, Distinct DEF ReadResponse, Unregister, Goto, ClosedIsQuiet, None
  <2>2. DoneMeansKilled'
    <3>1. \A t \in Threads : pc'[t] = pc[t] \/ pc'[t] = "fail"
      BY <1>0, <1>22 DEF ReadResponse, Goto, PointsOK
    <3>2. UNCHANGED <<killed, once, target>>
      BY <1>22 DEF ReadResponse
    <3> QED
      BY <1>0, <3>1, <3>2, Distinct DEF DoneMeansKilled, DoneClosed, Target
  <2>3. NoLeakedProcess'
    BY <1>0, <1>22, Goroutines, Distinct, StillOwned DEF ReadResponse, Unregister, Goto, Stopping, PointsOK, CallerOK, ProcessOK
  <2> QED
    BY <2>1, <2>2, <2>3
<1>23. ASSUME NEW p \in Procs, Deliver(p) PROVE Kept
  <2>1. ClosedIsQuiet'
    BY <1>0, <1>23, Goroutines, Distinct DEF Deliver, Goto, ClosedIsQuiet, None
  <2>2. DoneMeansKilled'
    BY <1>0, <1>23, Goroutines, Distinct DEF Deliver, Goto, DoneMeansKilled, DoneClosed, Target, PointsOK, CallerOK, ProcessOK,
       Equipped, TargetPoints, IdPoints, CallPoints
  <2>3. NoLeakedProcess'
    BY <1>0, <1>23, Goroutines, Distinct, StillOwned DEF Deliver, Goto, Stopping, PointsOK, CallerOK, ProcessOK
  <2> QED
    BY <2>1, <2>2, <2>3
<1>24. ASSUME NEW p \in Procs, ReadError(p) PROVE Kept
  <2>1. ClosedIsQuiet'
    BY <1>0, <1>24, Goroutines, Distinct DEF ReadError, Goto, ClosedIsQuiet, None
  <2>2. DoneMeansKilled'
    BY <1>0, <1>24, Goroutines, Distinct DEF ReadError, Goto, DoneMeansKilled, DoneClosed, Target, PointsOK, CallerOK, ProcessOK,
       Equipped, TargetPoints, IdPoints, CallPoints
  <2>3. NoLeakedProcess'
    BY <1>0, <1>24, Goroutines, Distinct, StillOwned DEF ReadError, Goto, Stopping, PointsOK, CallerOK, ProcessOK
  <2> QED
    BY <2>1, <2>2, <2>3
<1>25. ASSUME NEW p \in Procs, ReadEOF(p) PROVE Kept
  <2>1. ClosedIsQuiet'
    BY <1>0, <1>25, Goroutines, Distinct DEF ReadEOF, Goto, ClosedIsQuiet, None
  <2>2. DoneMeansKilled'
    BY <1>0, <1>25, Goroutines, Distinct DEF ReadEOF, Goto, DoneMeansKilled, DoneClosed, Target, PointsOK, CallerOK, ProcessOK,
       Equipped, TargetPoints, IdPoints, CallPoints
  <2>3. NoLeakedProcess'
    BY <1>0, <1>25, Goroutines, Distinct, StillOwned DEF ReadEOF, Goto, Stopping, PointsOK, CallerOK, ProcessOK
  <2> QED
    BY <2>1, <2>2, <2>3
<1>26. ASSUME NEW p \in Procs, WaitReturns(p) PROVE Kept
  <2>1. ClosedIsQuiet'
    BY <1>0, <1>26, Goroutines, Distinct DEF WaitReturns, Goto, ClosedIsQuiet, None
  <2>2. DoneMeansKilled'
    BY <1>0, <1>26, Goroutines, Distinct DEF WaitReturns, Goto, DoneMeansKilled, DoneClosed, Target, PointsOK, CallerOK, ProcessOK,
       Equipped, TargetPoints, IdPoints, CallPoints
  <2>3. NoLeakedProcess'
    BY <1>0, <1>26, Goroutines, Distinct, StillOwned DEF WaitReturns, Goto, Stopping, PointsOK, CallerOK, ProcessOK
  <2> QED
    BY <2>1, <2>2, <2>3
<1>27. ASSUME NEW p \in Procs, Serve(p) PROVE Kept
  <2>1. ClosedIsQuiet'
    BY <1>0, <1>27, Goroutines, Distinct DEF Serve, Goto, ClosedIsQuiet, None
  <2>2. DoneMeansKilled'
    BY <1>0, <1>27, Goroutines, Distinct DEF Serve, Goto, DoneMeansKilled, DoneClosed, Target, PointsOK, CallerOK, ProcessOK,
       Equipped, TargetPoints, IdPoints, CallPoints
  <2>3. NoLeakedProcess'
    BY <1>0, <1>27, Goroutines, Distinct, StillOwned DEF Serve, Goto, Stopping, PointsOK, CallerOK, ProcessOK
  <2> QED
    BY <2>1, <2>2, <2>3
<1>28. ASSUME NEW p \in Procs, ExitAtEOF(p) PROVE Kept
  <2>1. ClosedIsQuiet'
    BY <1>0, <1>28, Goroutines, Distinct DEF ExitAtEOF, Exit, Goto, ClosedIsQuiet, None
  <2>2. DoneMeansKilled'
    BY <1>0, <1>28, Goroutines, Distinct DEF ExitAtEOF, Exit, Goto, DoneMeansKilled, DoneClosed, Target, PointsOK, CallerOK, ProcessOK,
       Equipped, TargetPoints, IdPoints, CallPoints
  <2>3. NoLeakedProcess'
    BY <1>0, <1>28, Goroutines, Distinct, StillOwned DEF ExitAtEOF, Exit, Goto, Stopping, PointsOK, CallerOK, ProcessOK
  <2> QED
    BY <2>1, <2>2, <2>3
<1>29. ASSUME NEW p \in Procs, Die(p) PROVE Kept
  <2>1. ClosedIsQuiet'
    BY <1>0, <1>29, Goroutines, Distinct DEF Die, Exit, Goto, ClosedIsQuiet, None
  <2>2. DoneMeansKilled'
    BY <1>0, <1>29, Goroutines, Distinct DEF Die, Exit, Goto, DoneMeansKilled, DoneClosed, Target, PointsOK, CallerOK, ProcessOK,
       Equipped, TargetPoints, IdPoints, CallPoints
  <2>3. NoLeakedProcess'
    BY <1>0, <1>29, Goroutines, Distinct, StillOwned DEF Die, Exit, Goto, Stopping, PointsOK, CallerOK, ProcessOK
  <2> QED
    BY <2>1, <2>2, <2>3
<1>30. ASSUME NEW p \in Procs, Crash(p) PROVE Kept
  <2>1. ClosedIsQuiet'
    BY <1>0, <1>30, Goroutines, Distinct DEF Crash, Exit, Goto, ClosedIsQuiet, None
  <2>2. DoneMeansKilled'
    BY <1>0, <1>30, Goroutines, Distinct DEF Crash, Exit, Goto, DoneMeansKilled, DoneClosed, Target, PointsOK, CallerOK, ProcessOK,
       Equipped, TargetPoints, IdPoints, CallPoints
  <2>3. NoLeakedProcess'
    BY <1>0, <1>30, Goroutines, Distinct, StillOwned DEF Crash, Exit, Goto, Stopping, PointsOK, CallerOK, ProcessOK
  <2> QED
    BY <2>1, <2>2, <2>3
<1>31. ASSUME NEW t \in Threads, FailFirst(t) PROVE Kept
  <2>1. ClosedIsQuiet'
    BY <1>0, <1>31, FailTarget, Distinct DEF FailFirst, Goto, ClosedIsQuiet, None
  <2>2. DoneMeansKilled'
    <3>1. /\ once' = [once EXCEPT ![Target(t)] = "running"]
          /\ killed' = [killed EXCEPT ![Target(t)] = TRUE]
          /\ pc' = [pc EXCEPT ![t] = "failLock"] /\ UNCHANGED target
      BY <1>31 DEF FailFirst, Goto
    <3>2. /\ \A q \in Procs : q # Target(t) => once'[q] = once[q] /\ killed'[q] = killed[q]
          /\ killed'[Target(t)] /\ \A u \in Threads : Target(u)' = Target(u)
          /\ \A u \in Threads : u # t => pc'[u] = pc[u]
      BY <1>0, <1>31, <3>1, FailTarget DEF FailFirst, OwnerInv, ProcessOK, PointsOK, Target
    <3>4. \A u \in Threads : pc'[u] = "failLock" => killed'[Target(u)]
      BY <1>0, <3>1, <3>2 DEF DoneMeansKilled
    <3>5. \A d \in Callers : pc'[d] = "stopReap" => killed'[target'[d]]
      BY <1>0, <3>1, <3>2, Distinct DEF DoneMeansKilled, PointsOK, Equipped, TargetPoints
    <3>6. \A q \in Procs : DoneClosed(q)' => killed'[q]
      BY <1>0, <3>2 DEF DoneMeansKilled, DoneClosed
    <3> QED
      BY <3>2, <3>4, <3>5, <3>6 DEF DoneMeansKilled
  <2>3. NoLeakedProcess'
    BY <1>0, <1>31, FailTarget, Distinct, StillOwned DEF FailFirst, Goto, Stopping, PointsOK, CallerOK, ProcessOK, DoneMeansKilled, Target
  <2> QED
    BY <2>1, <2>2, <2>3
<1>32. ASSUME NEW t \in Threads, FailAgain(t) PROVE Kept
  <2>1. ClosedIsQuiet'
    BY <1>0, <1>32, FailTarget, Distinct DEF FailAgain, AfterFail, Goto, ClosedIsQuiet, None
  <2>2. DoneMeansKilled'
    BY <1>0, <1>32, FailTarget, Distinct DEF FailAgain, AfterFail, Goto, DoneMeansKilled, DoneClosed, Target, PointsOK, CallerOK, ProcessOK,
       Equipped, TargetPoints, IdPoints, CallPoints
  <2>3. NoLeakedProcess'
    BY <1>0, <1>32, FailTarget, Distinct, StillOwned DEF FailAgain, AfterFail, Goto, Stopping, PointsOK, CallerOK, ProcessOK
  <2> QED
    BY <2>1, <2>2, <2>3
<1>33. ASSUME NEW t \in Threads, FailLocked(t) PROVE Kept
  <2>1. ClosedIsQuiet'
    BY <1>0, <1>33, FailTarget, Distinct DEF FailLocked, AfterFail, Current, FailPending, Goto, ClosedIsQuiet, None
  <2>2. DoneMeansKilled'
    BY <1>0, <1>33, FailTarget, Distinct DEF FailLocked, AfterFail, Current, FailPending, Goto, DoneMeansKilled, DoneClosed, Target, PointsOK, CallerOK, ProcessOK,
       Equipped, TargetPoints, IdPoints, CallPoints
  <2>3. NoLeakedProcess'
    BY <1>0, <1>33, FailTarget, Distinct, StillOwned DEF FailLocked, AfterFail, Current, FailPending, Goto, Stopping, PointsOK, CallerOK, ProcessOK, DoneMeansKilled
  <2> QED
    BY <2>1, <2>2, <2>3
<1>34. ASSUME UNCHANGED vars PROVE Kept
  BY <1>0, <1>34 DEF ClosedIsQuiet, DoneMeansKilled, DoneClosed, Target, NoLeakedProcess
<1> QED
  BY <1>1, <1>2, <1>3, <1>4, <1>5, <1>6, <1>7, <1>8, <1>9, <1>10, <1>11, <1>12,
     <1>13, <1>14, <1>15, <1>16, <1>17, <1>18, <1>19, <1>20, <1>21, <1>22, <1>23, <1>24,
     <1>25, <1>26, <1>27, <1>28, <1>29, <1>30, <1>31, <1>32, <1>33, <1>34,
     Goroutines, Distinct
  DEF Next, CallerStep, CallStep, StopStep, FailStep, ReaderStep, WaiterStep, Rest

(* After Close nothing is registered and no process becomes current, for     *)
(* callers that were on their way through call as well.                      *)
THEOREM CloseIsFinal == Spec => []ClosedIsQuiet
<1>1. OwnerInv => ClosedIsQuiet
  BY DEF OwnerInv
<1> QED
  BY OwnerInit, OwnerStep, <1>1, PTL DEF Spec

(* A sidecar that is no longer current was killed or is being stopped.       *)
THEOREM NoSidecarLeaks == Spec => []NoLeakedProcess
<1>1. OwnerInv => NoLeakedProcess
  BY DEF OwnerInv
<1> QED
  BY OwnerInit, OwnerStep, <1>1, PTL DEF Spec
=============================================================================
