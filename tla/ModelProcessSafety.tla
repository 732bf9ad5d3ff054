--------------------------- MODULE ModelProcessSafety ---------------------------
(* Theorems about ModelProcess for every set of callers and every bound: the *)
(* variables keep their types, one model runs at a time, the child and its   *)
(* callers stay in step, a request is decoded from its own line, and none is *)
(* written twice.                                                            *)
EXTENDS ModelProcess, TLAPS

(* A caller of Generate that is under way has a request to account for.      *)
Budgeted == \A c \in Callers : op[c] = "generate" /\ pc[c] # "idle" => left[c] >= 1

TypeInv == TypeOK /\ Budgeted

(* The callers' part and the processes' part of TypeOK.                      *)
CallerOK ==
  /\ pc \in [Callers -> Points]
  /\ op \in [Callers -> {"generate", "close"}]
  /\ left \in [Callers -> Nat]
  /\ cancelled \in [Callers -> BOOLEAN]
  /\ line \in [Callers -> Seq(Lines)]
ProcessOK ==
  /\ cmd \in Procs \cup {None}
  /\ launched \in 0..MaxProcs
  /\ status \in [Procs -> {"none", "loading", "serving", "exited"}]
  /\ killed \in [Procs -> BOOLEAN]
  /\ stdinOpen \in [Procs -> BOOLEAN]
  /\ stdin \in [Procs -> Seq(Requests)]
  /\ stdout \in [Procs -> Seq(Lines)]

(* Why one model runs at a time.  p.mu admits one caller; a child is         *)
(* launched only where there is none; children are numbered in order, and    *)
(* the next one is fresh.                                                    *)
Mutex == \A c, d \in Callers : pc[c] \in Inside /\ pc[d] \in Inside => c = d
Equipped == \A c \in Callers : /\ pc[c] \in Inside \ {"launch"} => cmd \in Procs
                               /\ pc[c] = "launch" => cmd = None
Fresh == \A p \in Procs : p > launched => /\ status[p] = "none" /\ p # cmd
                                          /\ ~killed[p] /\ stdinOpen[p]
                                          /\ stdin[p] = <<>> /\ stdout[p] = <<>>

RuntimeInv == TypeInv /\ Mutex /\ Equipped /\ Fresh /\ OneRuntime

LEMMA TypeParts == TypeOK <=> CallerOK /\ ProcessOK /\ \A c \in Callers : pc[c] \in Inside \ {"launch"} => cmd # None
BY DEF TypeOK, CallerOK, ProcessOK

LEMMA TypePartsPrime ==
  CallerOK' /\ ProcessOK' /\ Equipped' => TypeOK'
BY DEF TypeOK, CallerOK, ProcessOK, Equipped, Procs, None

LEMMA RuntimeInit == Init => RuntimeInv
<1> SUFFICES ASSUME Init PROVE RuntimeInv
  OBVIOUS
<1>1. CallerOK
  BY BoundsAssumption DEF Init, CallerOK, Points, Inside, Reading
<1>2. ProcessOK
  BY BoundsAssumption DEF Init, ProcessOK, None
<1>3. \A c \in Callers : pc[c] = "idle"
  BY DEF Init
<1>4. Mutex /\ Equipped /\ Budgeted /\ \A c \in Callers : pc[c] \in Inside \ {"launch"} => cmd # None
  BY <1>3 DEF Mutex, Equipped, Budgeted, Inside, Reading
<1>5. Fresh /\ OneRuntime
  BY DEF Init, Fresh, OneRuntime, Running, Procs, None
<1> QED
  BY <1>1, <1>2, <1>4, <1>5, TypeParts DEF RuntimeInv, TypeInv

(* A step of a child or its end: what the generator sees of it is data.      *)
Passive == UNCHANGED <<cmd, pc, callerVars, launched, killed, stdinOpen>>

LEMMA PassiveKeeps ==
  ASSUME RuntimeInv, Passive, NEW p \in Procs, Running(p),
         status' = [status EXCEPT ![p] = "serving"] \/ status' = [status EXCEPT ![p] = "exited"]
                   \/ status' = status,
         stdin' \in [Procs -> Seq(Requests)], stdout' \in [Procs -> Seq(Lines)],
         \A q \in Procs : q # p => stdin'[q] = stdin[q] /\ stdout'[q] = stdout[q]
  PROVE  RuntimeInv'
<1> USE DEF RuntimeInv, TypeInv, Passive, callerVars
<1>0. CallerOK /\ ProcessOK
  BY TypeParts
<1>1. CallerOK'
  BY <1>0 DEF CallerOK
<1>2. ProcessOK'
  BY <1>0 DEF ProcessOK
<1>3. Mutex' /\ Equipped' /\ Budgeted'
  BY DEF Mutex, Equipped, Budgeted
<1>4. p <= launched
  BY <1>0 DEF Fresh, Running, ProcessOK, Procs
<1>5. ASSUME NEW q \in Procs, q > launched'
      PROVE  /\ status'[q] = "none" /\ q # cmd' /\ ~killed'[q] /\ stdinOpen'[q]
             /\ stdin'[q] = <<>> /\ stdout'[q] = <<>>
  <2>1. q > launched /\ q # p
    BY <1>0, <1>4, <1>5 DEF ProcessOK, Procs
  <2>2. /\ status[q] = "none" /\ q # cmd /\ ~killed[q] /\ stdinOpen[q]
        /\ stdin[q] = <<>> /\ stdout[q] = <<>>
    BY <2>1 DEF Fresh
  <2>3. status'[q] = status[q] /\ stdin'[q] = stdin[q] /\ stdout'[q] = stdout[q]
    BY <1>0, <2>1 DEF ProcessOK
  <2> QED
    BY <2>2, <2>3
<1>6. OneRuntime'
  BY <1>0 DEF OneRuntime, Running, ProcessOK
<1> QED
  BY <1>1, <1>2, <1>3, <1>5, <1>6, TypePartsPrime DEF Fresh

(* The return of an operation.                                               *)
LEMMA ReturnKeeps ==
  ASSUME CallerOK, Budgeted, NEW c \in Callers, pc[c] # "idle", Return(c)
  PROVE  CallerOK' /\ Budgeted'
<1> USE DEF CallerOK, Return, Goto
<1>1. left' \in [Callers -> Nat]
  BY DEF Budgeted
<1>2. CallerOK'
  BY <1>1 DEF Points
<1>3. Budgeted'
  BY DEF Budgeted
<1> QED
  BY <1>2, <1>3

(* The holder of p.mu moves on, or returns.                                  *)
LEMMA HolderPoints ==
  ASSUME CallerOK, Mutex, NEW c \in Callers, pc[c] \in Inside, NEW point \in Inside \cup {"idle"},
         Goto(c, point)
  PROVE  /\ Mutex'
         /\ pc'[c] = point
         /\ \A d \in Callers : d # c => pc'[d] \notin Inside
BY DEF CallerOK, Mutex, Goto

(* The holder of p.mu goes on with the child it has.                         *)
LEMMA HolderMoves ==
  ASSUME RuntimeInv, NEW c \in Callers, pc[c] \in Inside \ {"launch"},
         NEW point \in Inside \ {"launch"}, Goto(c, point),
         UNCHANGED <<cmd, op, left, cancelled, launched, status>>,
         line' \in [Callers -> Seq(Lines)],
         killed' = killed \/ killed' = [killed EXCEPT ![cmd] = TRUE],
         stdinOpen' = stdinOpen \/ stdinOpen' = [stdinOpen EXCEPT ![cmd] = FALSE],
         stdin' \in [Procs -> Seq(Requests)], stdout' \in [Procs -> Seq(Lines)],
         \A q \in Procs : q # cmd => stdin'[q] = stdin[q] /\ stdout'[q] = stdout[q]
  PROVE  RuntimeInv'
<1>0. /\ CallerOK /\ ProcessOK /\ Budgeted /\ Mutex /\ Equipped /\ Fresh /\ OneRuntime
      /\ cmd \in Procs /\ pc' = [pc EXCEPT ![c] = point]
  BY TypeParts DEF RuntimeInv, TypeInv, Equipped, Goto
<1>1. CallerOK'
  BY <1>0 DEF CallerOK, Points
<1>2. ProcessOK'
  BY <1>0 DEF ProcessOK
<1>3. Budgeted'
  BY <1>0 DEF Budgeted, CallerOK, Inside, Reading
<1>4. Mutex' /\ \A d \in Callers : d # c => pc'[d] \notin Inside
  BY <1>0, HolderPoints
<1>5. Equipped'
  BY <1>0, <1>4 DEF Equipped, CallerOK, Inside
<1>6. Fresh'
  BY <1>0 DEF Fresh, ProcessOK, Procs
<1>7. OneRuntime'
  BY <1>0 DEF OneRuntime, Running
<1> QED
  BY <1>1, <1>2, <1>3, <1>4, <1>5, <1>6, <1>7, TypePartsPrime DEF RuntimeInv, TypeInv

LEMMA RuntimeStep == RuntimeInv /\ [Next]_vars => RuntimeInv'
<1> SUFFICES ASSUME RuntimeInv, [Next]_vars PROVE RuntimeInv'
  OBVIOUS
<1> USE DEF vars, callerVars, processVars
<1>0. /\ CallerOK /\ ProcessOK /\ Budgeted
      /\ Mutex /\ Equipped /\ Fresh /\ OneRuntime
  BY TypeParts DEF RuntimeInv, TypeInv
<1> SUFFICES CallerOK' /\ ProcessOK' /\ Budgeted' /\ Mutex' /\ Equipped' /\ Fresh' /\ OneRuntime'
  BY TypePartsPrime DEF RuntimeInv, TypeInv
<1>1. ASSUME NEW c \in Callers, Begin(c)
      PROVE  CallerOK' /\ ProcessOK' /\ Budgeted' /\ Mutex' /\ Equipped' /\ Fresh' /\ OneRuntime'
  <2>1. pc' = [pc EXCEPT ![c] = "lock"]
    BY <1>1 DEF Begin, Goto
  <2>2. op' \in [Callers -> {"generate", "close"}]
    BY <1>0, <1>1 DEF Begin, CallerOK
  <2>3. CallerOK' /\ ProcessOK'
    BY <1>0, <1>1, <2>1, <2>2 DEF Begin, CallerOK, ProcessOK, Points
  <2>4. Budgeted'
    BY <1>0, <1>1, <2>1 DEF Begin, Budgeted, CallerOK
  <2>5. Mutex' /\ Equipped'
    BY <1>0, <1>1, <2>1 DEF Begin, Mutex, Equipped, Inside, Reading, CallerOK
  <2>6. Fresh' /\ OneRuntime'
    BY <1>0, <1>1 DEF Begin, Fresh, OneRuntime, Running
  <2> QED
    BY <2>3, <2>4, <2>5, <2>6
<1>2. ASSUME NEW c \in Callers, Cancel(c)
      PROVE  CallerOK' /\ ProcessOK' /\ Budgeted' /\ Mutex' /\ Equipped' /\ Fresh' /\ OneRuntime'
  BY <1>0, <1>2 DEF Cancel, CallerOK, ProcessOK, Budgeted, Mutex, Equipped, Fresh, OneRuntime, Running
<1>3. ASSUME NEW c \in Callers, Lock(c)
      PROVE  CallerOK' /\ ProcessOK' /\ Budgeted' /\ Mutex' /\ Equipped' /\ Fresh' /\ OneRuntime'
  <2>1. ProcessOK' /\ Fresh' /\ OneRuntime'
    BY <1>0, <1>3 DEF Lock, ProcessOK, Fresh, OneRuntime, Running
  <2>2. CASE Return(c)
    <3>1. CallerOK' /\ Budgeted'
      BY <1>0, <1>3, <2>2, ReturnKeeps DEF Lock
    <3>2. pc' = [pc EXCEPT ![c] = "idle"]
      BY <2>2 DEF Return, Goto
    <3>3. Mutex' /\ Equipped'
      BY <1>0, <1>3, <3>2 DEF Lock, LockFree, CallerOK, Mutex, Equipped, Inside, Reading
    <3> QED
      BY <2>1, <3>1, <3>3
  <2>3. CASE ~Return(c)
    <3>1. /\ UNCHANGED callerVars
          /\ \/ cmd # None /\ pc' = [pc EXCEPT ![c] = "stop"]
             \/ cmd # None /\ pc' = [pc EXCEPT ![c] = "write"]
             \/ cmd = None /\ pc' = [pc EXCEPT ![c] = "launch"]
      BY <1>3, <2>3 DEF Lock, Goto, Started
    <3>2. CallerOK'
      BY <1>0, <3>1 DEF CallerOK, Points, Inside, Reading
    <3>3. Budgeted'
      BY <1>0, <1>3, <3>1 DEF Lock, Budgeted, CallerOK
    <3>4. Mutex'
      BY <1>0, <1>3, <3>1 DEF Lock, LockFree, CallerOK, Mutex
    <3>5. Equipped'
      BY <1>0, <1>3, <3>1 DEF Lock, LockFree, CallerOK, ProcessOK, Equipped, Inside, Reading
    <3> QED
      BY <2>1, <3>2, <3>3, <3>4, <3>5
  <2> QED
    BY <2>2, <2>3
<1>4. ASSUME NEW c \in Callers, Launch(c)
      PROVE  CallerOK' /\ ProcessOK' /\ Budgeted' /\ Mutex' /\ Equipped' /\ Fresh' /\ OneRuntime'
  <2>1. /\ pc[c] = "launch" /\ cmd = None /\ launched \in Nat /\ launched + 1 \in Procs
        /\ launched' = launched + 1 /\ cmd' = launched + 1
        /\ status' = [status EXCEPT ![launched + 1] = "loading"]
        /\ pc' = [pc EXCEPT ![c] = "handshake"]
    BY <1>0, <1>4, BoundsAssumption DEF Launch, Goto, ProcessOK, Equipped, Procs
  <2>2. CallerOK'
    BY <1>0, <1>4, <2>1 DEF Launch, CallerOK, Points, Inside, Reading
  <2>3. ProcessOK'
    BY <1>0, <1>4, <2>1, BoundsAssumption DEF Launch, ProcessOK, Procs
  <2>4. Budgeted'
    BY <1>0, <1>4, <2>1 DEF Launch, Budgeted, CallerOK
  <2>5. Mutex' /\ \A d \in Callers : d # c => pc'[d] \notin Inside
    BY <1>0, <2>1, HolderPoints DEF Goto, Inside, Reading
  <2>6. Equipped'
    BY <1>0, <2>1, <2>5 DEF Equipped, CallerOK, Inside
  <2>7. Fresh'
    BY <1>0, <1>4, <2>1 DEF Launch, Fresh, Procs, ProcessOK
  <2>8. OneRuntime'
    BY <1>0, <2>1 DEF OneRuntime, Running, Procs, ProcessOK, None
  <2> QED
    BY <2>2, <2>3, <2>4, <2>5, <2>6, <2>7, <2>8
<1>5. ASSUME NEW c \in Callers, LaunchFails(c) \/ Reap(c) \/ (Decode(c) /\ Return(c))
      PROVE  CallerOK' /\ ProcessOK' /\ Budgeted' /\ Mutex' /\ Equipped' /\ Fresh' /\ OneRuntime'
  <2>1. /\ pc[c] \in Inside /\ Return(c) /\ UNCHANGED processVars
        /\ cmd' = cmd \/ (cmd' = None /\ cmd \in Procs /\ status[cmd] = "exited")
    BY <1>0, <1>5 DEF LaunchFails, Reap, Decode, Reaped, Inside, Reading, Equipped
  <2>2. CallerOK' /\ Budgeted'
    BY <1>0, <2>1, ReturnKeeps DEF Inside, Reading
  <2>3. ProcessOK' /\ Fresh'
    BY <1>0, <2>1 DEF ProcessOK, Fresh, Procs, None
  <2>4. pc' = [pc EXCEPT ![c] = "idle"]
    BY <2>1 DEF Return, Goto
  <2>5. Mutex' /\ pc'[c] = "idle" /\ \A d \in Callers : d # c => pc'[d] \notin Inside
    BY <1>0, <2>1, <2>4, HolderPoints DEF Goto
  <2>6. Equipped'
    BY <2>5 DEF Equipped, Inside, Reading
  <2>7. OneRuntime'
    BY <1>0, <2>1 DEF OneRuntime, Running
  <2> QED
    BY <2>2, <2>3, <2>5, <2>6, <2>7
<1>6. ASSUME NEW c \in Callers,
             \/ CheckReady(c) \/ Write(c) \/ Flush(c) \/ WriteFails(c) \/ ReadLine(c)
             \/ ReadEOF(c) \/ ReadCancelled(c) \/ Drain(c) \/ (Decode(c) /\ ~Return(c)) \/ Stop(c)
      PROVE  RuntimeInv'
  <2>0. Token(c) \in Requests /\ \A point \in {"write", "stop", "flush", "read", "checkReady", "decode", "drain", "reap"} :
          point \in Inside \ {"launch"}
    BY <1>0 DEF Token, Requests, CallerOK, Inside, Reading
  <2>1. CASE CheckReady(c)
    <3>1. line' \in [Callers -> Seq(Lines)]
      BY <1>0, <2>1 DEF CheckReady, CallerOK
    <3>2. PICK point \in {"write", "stop"} : Goto(c, point)
      BY <2>1 DEF CheckReady
    <3> QED
      BY <1>0, <2>0, <2>1, <3>1, <3>2, HolderMoves DEF CheckReady, ProcessOK, Inside
  <2>2. CASE Write(c)
    <3>0. pc[c] \in Inside \ {"launch"} /\ cmd \in Procs
      BY <1>0, <2>2 DEF Write, Inside, Equipped
    <3>1. stdin' \in [Procs -> Seq(Requests)] /\ \A q \in Procs : q # cmd => stdin'[q] = stdin[q]
      BY <1>0, <2>0, <2>2, <3>0 DEF Write, ProcessOK
    <3>2. PICK point \in {"flush", "read"} : Goto(c, point)
      BY <2>2 DEF Write
    <3> QED
      BY <1>0, <2>0, <2>2, <3>0, <3>1, <3>2, HolderMoves DEF Write, ProcessOK, CallerOK
  <2>3. CASE Flush(c) \/ WriteFails(c) \/ ReadEOF(c) \/ ReadCancelled(c) \/ Stop(c)
    <3>0. pc[c] \in Inside \ {"launch"}
      BY <2>3 DEF Flush, WriteFails, ReadEOF, ReadCancelled, Stop, Inside, Reading
    <3>1. PICK point \in {"read", "stop", "drain", "reap"} : Goto(c, point)
      BY <2>3 DEF Flush, WriteFails, ReadEOF, ReadCancelled, Stop
    <3>2. UNCHANGED <<cmd, op, left, cancelled, line, launched, status, stdin, stdout>>
      BY <2>3 DEF Flush, WriteFails, ReadEOF, ReadCancelled, Stop
    <3>3. /\ killed' = killed \/ killed' = [killed EXCEPT ![cmd] = TRUE]
          /\ stdinOpen' = stdinOpen \/ stdinOpen' = [stdinOpen EXCEPT ![cmd] = FALSE]
      BY <2>3 DEF Flush, WriteFails, ReadEOF, ReadCancelled, Stop
    <3> QED
      BY <1>0, <2>0, <3>0, <3>1, <3>2, <3>3, HolderMoves DEF ProcessOK, CallerOK
  <2>4. CASE ReadLine(c)
    <3>0. pc[c] \in Inside \ {"launch"} /\ cmd \in Procs /\ stdout[cmd] \in Seq(Lines)
          /\ stdout[cmd] # <<>>
      BY <1>0, <2>4 DEF ReadLine, Inside, Reading, Equipped, ProcessOK
    <3>1. Head(stdout[cmd]) \in Lines /\ Tail(stdout[cmd]) \in Seq(Lines)
      BY <3>0
    <3>2. stdout' \in [Procs -> Seq(Lines)] /\ \A q \in Procs : q # cmd => stdout'[q] = stdout[q]
      BY <1>0, <2>4, <3>0, <3>1 DEF ReadLine, ProcessOK
    <3>3. <<Head(stdout[cmd])>> \in Seq(Lines)
      BY <3>1
    <3>4. line' \in [Callers -> Seq(Lines)]
      BY <1>0, <2>4, <3>3 DEF ReadLine, CallerOK
    <3>5. PICK point \in {"checkReady", "decode"} : Goto(c, point)
      BY <2>4 DEF ReadLine
    <3> QED
      BY <1>0, <2>0, <2>4, <3>0, <3>2, <3>4, <3>5, HolderMoves DEF ReadLine, ProcessOK
  <2>5. CASE Drain(c)
    <3>0. pc[c] \in Inside \ {"launch"} /\ cmd \in Procs /\ stdout[cmd] \in Seq(Lines)
      BY <1>0, <2>5 DEF Drain, Inside, Equipped, ProcessOK
    <3>1. stdout[cmd] # <<>> => Tail(stdout[cmd]) \in Seq(Lines)
      BY <3>0
    <3>2. stdout' \in [Procs -> Seq(Lines)] /\ \A q \in Procs : q # cmd => stdout'[q] = stdout[q]
      BY <1>0, <2>5, <3>0, <3>1 DEF Drain, ProcessOK
    <3> QED
      BY <1>0, <2>0, <2>5, <3>0, <3>2, HolderMoves DEF Drain, AfterDrain, ProcessOK, CallerOK
  <2>6. CASE Decode(c) /\ ~Return(c)
    <3>0. pc[c] \in Inside \ {"launch"} /\ Goto(c, "stop") /\ UNCHANGED callerVars
      BY <2>6 DEF Decode, Inside
    <3> QED
      BY <1>0, <2>0, <2>6, <3>0, HolderMoves DEF Decode, ProcessOK, CallerOK
  <2> QED
    BY <1>6, <2>1, <2>2, <2>3, <2>4, <2>5, <2>6
<1>7. ASSUME NEW p \in Procs, Child(p) \/ Die(p) \/ Crash(p)
      PROVE  RuntimeInv'
  <2>0. Running(p) /\ Passive /\ stdin[p] \in Seq(Requests) /\ stdout[p] \in Seq(Lines)
    BY <1>0, <1>7 DEF Child, Handshake, Serve, ExitAtEOF, Die, Crash, Exit, Running, Passive, ProcessOK
  <2>1. CASE Handshake(p)
    <3>1. PICK k \in {"ready", "garbage"} :
            stdout' = [stdout EXCEPT ![p] = Append(@, [req |-> NoToken, kind |-> k])]
      BY <2>1 DEF Handshake
    <3>2. [req |-> NoToken, kind |-> k] \in Lines
      BY DEF Lines
    <3>3. stdout' \in [Procs -> Seq(Lines)] /\ \A q \in Procs : q # p => stdout'[q] = stdout[q]
      BY <1>0, <2>0, <3>1, <3>2 DEF ProcessOK
    <3> QED
      BY <1>0, <2>0, <2>1, <3>3, PassiveKeeps DEF Handshake, ProcessOK
  <2>2. CASE Serve(p)
    <3>1. Head(stdin[p]) \in Requests /\ Tail(stdin[p]) \in Seq(Requests)
      BY <2>0, <2>2 DEF Serve
    <3>2. PICK k \in Replies :
            stdout' = [stdout EXCEPT ![p] = Append(@, [req |-> Head(stdin[p]), kind |-> k])]
      BY <2>2 DEF Serve
    <3>3. [req |-> Head(stdin[p]), kind |-> k] \in Lines
      BY <3>1, InputsAssumption DEF Lines
    <3>4. stdout' \in [Procs -> Seq(Lines)] /\ \A q \in Procs : q # p => stdout'[q] = stdout[q]
      BY <1>0, <2>0, <3>2, <3>3 DEF ProcessOK
    <3>5. stdin' \in [Procs -> Seq(Requests)] /\ \A q \in Procs : q # p => stdin'[q] = stdin[q]
      BY <1>0, <2>2, <3>1 DEF Serve, ProcessOK
    <3> QED
      BY <1>0, <2>0, <2>2, <3>4, <3>5, PassiveKeeps DEF Serve, ProcessOK
  <2>3. CASE ExitAtEOF(p) \/ Die(p) \/ Crash(p)
    <3>1. Exit(p)
      BY <2>3 DEF ExitAtEOF, Die, Crash
    <3>2. stdin' \in [Procs -> Seq(Requests)] /\ \A q \in Procs : q # p => stdin'[q] = stdin[q]
      BY <1>0, <3>1 DEF Exit, ProcessOK
    <3> QED
      BY <1>0, <2>0, <3>1, <3>2, PassiveKeeps DEF Exit, ProcessOK
  <2> QED
    BY <1>7, <2>1, <2>2, <2>3 DEF Child
<1>8. CASE UNCHANGED vars
  BY <1>0, <1>8 DEF CallerOK, ProcessOK, Budgeted, Mutex, Equipped, Fresh, OneRuntime, Running
<1>9. ASSUME RuntimeInv'
      PROVE  CallerOK' /\ ProcessOK' /\ Budgeted' /\ Mutex' /\ Equipped' /\ Fresh' /\ OneRuntime'
  BY <1>9 DEF RuntimeInv, TypeInv, TypeOK, CallerOK, ProcessOK
<1> QED
  BY <1>1, <1>2, <1>3, <1>4, <1>5, <1>6, <1>7, <1>8, <1>9 DEF Next, Holder

(* Every variable of the model keeps its type, and whoever uses the child    *)
(* has one (persistent_process.go:36).                                       *)
THEOREM TypeCorrect == Spec => []TypeOK
<1>1. RuntimeInv => TypeOK
  BY DEF RuntimeInv, TypeInv
<1> QED
  BY RuntimeInit, RuntimeStep, <1>1, PTL DEF Spec

(* At most one model is loaded at any time: a new child is started only      *)
(* after the one before it has ended (persistent_process.go:157).            *)
THEOREM OneModelAtATime == Spec => []OneRuntime
<1>1. RuntimeInv => OneRuntime
  BY DEF RuntimeInv
<1> QED
  BY RuntimeInit, RuntimeStep, <1>1, PTL DEF Spec
-----------------------------------------------------------------------------

(* What the holder of p.mu may rely on at each statement.  A child that can  *)
(* be used was not told to go; its pipes are quiet, or hold the one request  *)
(* that was written or the one line that answers it.  Nothing is relied on   *)
(* from the moment an answer is given up (drain, stop, reap).                *)
Usable == status[cmd] # "loading" /\ ~killed[cmd] /\ stdinOpen[cmd]
Quiet  == Usable /\ stdin[cmd] = <<>> /\ stdout[cmd] = <<>>

Announcing == /\ ~killed[cmd] /\ stdinOpen[cmd] /\ stdin[cmd] = <<>>
              /\ \/ stdout[cmd] = <<>>
                 \/ status[cmd] # "loading" /\ Len(stdout[cmd]) = 1

Asked(c) == /\ Usable
            /\ \/ stdin[cmd] = <<Token(c)>> /\ stdout[cmd] = <<>>
               \/ /\ stdin[cmd] = <<>> /\ Len(stdout[cmd]) = 1
                  /\ Head(stdout[cmd]).req = Token(c)
               \/ stdin[cmd] = <<>> /\ stdout[cmd] = <<>>

At(c) == /\ pc[c] = "handshake" => Announcing
         /\ pc[c] \in {"checkReady", "write", "decode"} => Quiet
         /\ pc[c] \in {"flush", "read"} => Asked(c)
         /\ pc[c] = "decode" => Head(line[c]).req = Token(c)

AnswerInv == RuntimeInv /\ InStep /\ \A c \in Callers : At(c)

LEMMA AnswerInit == Init => AnswerInv
<1> SUFFICES ASSUME Init PROVE AnswerInv
  OBVIOUS
<1>1. cmd = None /\ \A c \in Callers : pc[c] = "idle"
  BY DEF Init
<1> QED
  BY <1>1, RuntimeInit DEF AnswerInv, InStep, At

(* The child that steps is the one in use; its step is one that every        *)
(* holder of p.mu allows for.                                                *)
LEMMA ChildKeeps ==
  ASSUME AnswerInv, NEW p \in Procs, Child(p) \/ Die(p) \/ Crash(p)
  PROVE  InStep' /\ \A c \in Callers : At(c)'
<1>1. /\ ProcessOK /\ CallerOK /\ Running(p) /\ p = cmd
      /\ UNCHANGED <<cmd, pc, op, left, cancelled, line, killed, stdinOpen>>
  BY TypeParts DEF AnswerInv, RuntimeInv, TypeInv, OneRuntime, Child, Handshake, Serve,
                   ExitAtEOF, Die, Crash, Exit, Running, callerVars
<1>2. /\ status[cmd] \in {"loading", "serving"}
      /\ stdin[cmd] \in Seq(Requests) /\ stdout[cmd] \in Seq(Lines)
  BY <1>1 DEF ProcessOK, Running
<1>3. CASE Handshake(p)
  <2>1. PICK l \in Lines : stdout' = [stdout EXCEPT ![cmd] = Append(@, l)]
    <3>1. PICK k \in {"ready", "garbage"} :
            stdout' = [stdout EXCEPT ![cmd] = Append(@, [req |-> NoToken, kind |-> k])]
      BY <1>1, <1>3 DEF Handshake
    <3>2. [req |-> NoToken, kind |-> k] \in Lines
      BY DEF Lines
    <3> QED
      BY <3>1, <3>2
  <2>2. /\ status[cmd] = "loading" /\ status'[cmd] = "serving"
        /\ stdin' = stdin /\ stdout'[cmd] = Append(stdout[cmd], l)
    BY <1>1, <1>3, <2>1 DEF Handshake, ProcessOK
  <2>3. stdout[cmd] = <<>> => Len(stdout'[cmd]) = 1
    BY <1>2, <2>2
  <2>4. Announcing => Announcing'
    BY <1>1, <1>2, <2>2, <2>3 DEF Announcing
  <2>5. ~Usable
    BY <2>2 DEF Usable
  <2>6. \A c \in Callers : At(c)'
    BY <1>1, <2>4, <2>5 DEF AnswerInv, At, Quiet, Asked
  <2>7. InStep'
    BY <1>1, <2>2 DEF AnswerInv, InStep, LockFree
  <2> QED
    BY <2>6, <2>7
<1>4. CASE Serve(p)
  <2>1. PICK k \in Replies :
          stdout' = [stdout EXCEPT ![cmd] = Append(@, [req |-> Head(stdin[cmd]), kind |-> k])]
    BY <1>1, <1>4 DEF Serve
  <2>2. /\ stdin[cmd] # <<>> /\ status' = status /\ stdin'[cmd] = Tail(stdin[cmd])
        /\ stdout'[cmd] = Append(stdout[cmd], [req |-> Head(stdin[cmd]), kind |-> k])
    BY <1>1, <1>4, <2>1 DEF Serve, ProcessOK
  <2>3. ~Quiet /\ ~Announcing
    BY <2>2 DEF Quiet, Announcing
  <2>4. InStep'
    BY <1>1, <2>2 DEF AnswerInv, InStep, LockFree
  <2>5. ASSUME NEW c \in Callers, Asked(c)
        PROVE  Asked(c)'
    <3>1. stdin[cmd] = <<Token(c)>> /\ stdout[cmd] = <<>> /\ Token(c)' = Token(c)
      BY <1>1, <2>2, <2>5 DEF Asked, Token
    <3>2. stdin'[cmd] = <<>>
      BY <2>2, <3>1
    <3>3. stdout'[cmd] = <<[req |-> Token(c), kind |-> k]>>
      BY <2>2, <3>1
    <3> QED
      BY <1>1, <2>2, <2>5, <3>1, <3>2, <3>3 DEF Asked, Usable
  <2> QED
    BY <1>1, <2>3, <2>4, <2>5 DEF AnswerInv, At
<1>5. CASE ExitAtEOF(p) \/ Die(p) \/ Crash(p)
  <2>1. status'[cmd] = "exited" /\ stdin'[cmd] = <<>> /\ stdout' = stdout
    BY <1>1, <1>5 DEF ExitAtEOF, Die, Crash, Exit, ProcessOK
  <2>2. Announcing => Announcing'
    BY <1>1, <2>1 DEF Announcing
  <2>3. Quiet => Quiet'
    BY <1>1, <2>1 DEF Quiet, Usable
  <2>4. \A c \in Callers : Asked(c) => Asked(c)'
    BY <1>1, <2>1 DEF Asked, Usable, Token
  <2>5. InStep'
    BY <1>1, <2>1 DEF AnswerInv, InStep, LockFree
  <2> QED
    BY <1>1, <2>2, <2>3, <2>4, <2>5 DEF AnswerInv, At, Token
<1> QED
  BY <1>3, <1>4, <1>5 DEF Child

(* While one caller holds p.mu, only its own place matters.                  *)
LEMMA HolderAt ==
  ASSUME AnswerInv, NEW c \in Callers, pc[c] \in Inside, NEW point \in Inside \cup {"idle"},
         Goto(c, point), At(c)', point = "idle" => cmd' = None \/ Quiet'
  PROVE  InStep' /\ \A d \in Callers : At(d)'
<1>1. CallerOK /\ Mutex
  BY TypeParts DEF AnswerInv, RuntimeInv, TypeInv
<1>2. pc'[c] = point /\ \A d \in Callers : d # c => pc'[d] \notin Inside
  BY <1>1, HolderPoints
<1>3. \A d \in Callers : d # c => At(d)'
  BY <1>2 DEF At, Inside, Reading
<1>4. InStep'
  BY <1>2 DEF InStep, LockFree, Quiet, Usable
<1> QED
  BY <1>3, <1>4

(* Lock: the child is idle, and in step.                                     *)
LEMMA LockKeeps ==
  ASSUME AnswerInv, NEW c \in Callers, Lock(c)
  PROVE  InStep' /\ \A d \in Callers : At(d)'
<1>1. CallerOK /\ ProcessOK
  BY TypeParts DEF AnswerInv, RuntimeInv, TypeInv
<1>2. /\ LockFree /\ UNCHANGED <<cmd, processVars>>
      /\ cmd # None => Quiet
  BY DEF Lock, AnswerInv, InStep, Quiet, Usable
<1>3. PICK point \in {"idle", "stop", "write", "launch"} :
        Goto(c, point) /\ (point = "write" => cmd # None)
  BY DEF Lock, Return, Started
<1>4. pc'[c] = point /\ \A d \in Callers : d # c => pc'[d] \notin Inside
  BY <1>1, <1>2, <1>3 DEF LockFree, Goto, CallerOK
<1>5. Quiet => Quiet'
  BY <1>2 DEF Quiet, Usable, processVars
<1>6. \A d \in Callers : At(d)'
  BY <1>2, <1>3, <1>4, <1>5 DEF At, Inside, Reading
<1>7. InStep'
  BY <1>2, <1>5 DEF InStep, LockFree, Quiet, Usable
<1> QED
  BY <1>6, <1>7

(* The statements from the start of a child to the sending of a request.     *)
LEMMA SendKeeps ==
  ASSUME AnswerInv, NEW c \in Callers,
         Launch(c) \/ LaunchFails(c) \/ CheckReady(c) \/ Write(c) \/ Flush(c)
  PROVE  InStep' /\ \A d \in Callers : At(d)'
<1> USE DEF processVars, callerVars
<1>0. CallerOK /\ ProcessOK /\ Equipped /\ Fresh /\ At(c)
  BY TypeParts DEF AnswerInv, RuntimeInv, TypeInv
<1>1. CASE Launch(c)
  <2>1. /\ cmd' = launched + 1 /\ cmd' \in Procs /\ cmd' > launched
        /\ killed' = killed /\ stdinOpen' = stdinOpen /\ stdin' = stdin /\ stdout' = stdout
    BY <1>0, <1>1, BoundsAssumption DEF Launch, ProcessOK, Procs
  <2>2. Announcing'
    BY <1>0, <2>1 DEF Announcing, Fresh
  <2>3. pc'[c] = "handshake"
    BY <1>0, <1>1 DEF Launch, Goto, CallerOK
  <2> QED
    BY <1>1, <2>2, <2>3, HolderAt DEF Launch, At, Inside, Reading
<1>2. CASE LaunchFails(c)
  <2>1. cmd' = None
    BY <1>0, <1>2 DEF LaunchFails, Equipped, Inside
  <2>2. pc'[c] = "idle"
    BY <1>0, <1>2 DEF LaunchFails, Return, Goto, CallerOK
  <2> QED
    BY <1>2, <2>1, <2>2, HolderAt DEF LaunchFails, Return, At, Inside
<1>3. CASE CheckReady(c)
  <2>1. Quiet'
    BY <1>0, <1>3 DEF CheckReady, At, Quiet, Usable
  <2>2. PICK point \in {"write", "stop"} : Goto(c, point)
    BY <1>3 DEF CheckReady
  <2>3. pc'[c] = point
    BY <1>0, <2>2 DEF Goto, CallerOK
  <2> QED
    BY <1>3, <2>1, <2>2, <2>3, HolderAt DEF CheckReady, At, Inside
<1>4. CASE Write(c)
  <2>1. cmd \in Procs /\ Quiet
    BY <1>0, <1>4 DEF Write, Equipped, Inside, At
  <2>2. stdin'[cmd] = <<Token(c)>>
    <3>1. stdin'[cmd] = Append(stdin[cmd], Token(c))
      BY <1>0, <1>4, <2>1 DEF Write, ProcessOK
    <3> QED
      BY <2>1, <3>1 DEF Quiet
  <2>3. Token(c)' = Token(c)
    BY <1>4 DEF Write, Token
  <2>4. Asked(c)'
    BY <1>4, <2>1, <2>2, <2>3 DEF Write, Asked, Quiet, Usable
  <2>5. PICK point \in {"flush", "read"} : Goto(c, point)
    BY <1>4 DEF Write
  <2>6. pc'[c] = point
    BY <1>0, <2>5 DEF Goto, CallerOK
  <2> QED
    BY <1>4, <2>4, <2>5, <2>6, HolderAt DEF Write, At, Inside, Reading
<1>5. CASE Flush(c)
  <2>1. Asked(c)'
    BY <1>0, <1>5 DEF Flush, At, Asked, Usable, Token
  <2>2. pc'[c] = "read"
    BY <1>0, <1>5 DEF Flush, Goto, CallerOK
  <2> QED
    BY <1>5, <2>1, <2>2, HolderAt DEF Flush, At, Inside, Reading
<1> QED
  BY <1>1, <1>2, <1>3, <1>4, <1>5

(* The statements from the answer on; a child whose answer is given up is    *)
(* discarded.                                                                *)
LEMMA AnswerKeeps ==
  ASSUME AnswerInv, NEW c \in Callers,
         \/ WriteFails(c) \/ ReadLine(c) \/ ReadEOF(c) \/ ReadCancelled(c)
         \/ Drain(c) \/ Decode(c) \/ Stop(c) \/ Reap(c)
  PROVE  InStep' /\ \A d \in Callers : At(d)'
<1> USE DEF processVars, callerVars
<1>0. CallerOK /\ ProcessOK /\ Equipped /\ At(c)
  BY TypeParts DEF AnswerInv, RuntimeInv, TypeInv
<1>1. CASE WriteFails(c) \/ ReadEOF(c) \/ ReadCancelled(c) \/ Drain(c) \/ Stop(c)
  <2>1. pc[c] \in Inside /\ \E point \in {"stop", "drain", "reap"} : Goto(c, point)
    BY <1>1 DEF WriteFails, ReadEOF, ReadCancelled, Drain, AfterDrain, Stop, Inside, Reading
  <2>2. PICK point \in {"stop", "drain", "reap"} : Goto(c, point)
    BY <2>1
  <2>3. pc'[c] = point
    BY <1>0, <2>2 DEF Goto, CallerOK
  <2>4. At(c)' /\ point \in Inside /\ point # "idle"
    BY <2>3 DEF At, Inside
  <2> QED
    BY <2>1, <2>2, <2>4, HolderAt
<1>2. CASE ReadLine(c)
  <2>0. cmd \in Procs /\ stdout[cmd] \in Seq(Lines) /\ stdout[cmd] # <<>>
    BY <1>0, <1>2 DEF ReadLine, Equipped, Inside, Reading, ProcessOK
  <2>1. /\ stdout'[cmd] = Tail(stdout[cmd]) /\ line'[c] = <<Head(stdout[cmd])>>
        /\ Token(c)' = Token(c)
    BY <1>0, <1>2, <2>0 DEF ReadLine, ProcessOK, CallerOK, Token
  <2>2. Head(line'[c]) = Head(stdout[cmd])
    BY <2>1
  <2>3. Len(stdout[cmd]) = 1 => stdout'[cmd] = <<>>
    <3>1. Tail(stdout[cmd]) \in Seq(Lines) /\ Len(Tail(stdout[cmd])) = Len(stdout[cmd]) - 1
      BY <2>0
    <3>2. Len(stdout[cmd]) = 1 => Len(Tail(stdout[cmd])) = 0
      BY <3>1
    <3>3. \A s \in Seq(Lines) : Len(s) = 0 => s = <<>>
      OBVIOUS
    <3> QED
      BY <2>1, <3>1, <3>2, <3>3
  <2>4. CASE pc[c] = "handshake"
    <3>1. Quiet'
      BY <1>0, <1>2, <2>0, <2>3, <2>4 DEF ReadLine, At, Announcing, Quiet, Usable
    <3>2. Goto(c, "checkReady") /\ pc'[c] = "checkReady"
      BY <1>0, <1>2, <2>4 DEF ReadLine, Goto, CallerOK
    <3> QED
      BY <2>4, <3>1, <3>2, HolderAt DEF At, Inside, Reading
  <2>5. CASE pc[c] = "read"
    <3>1. Quiet' /\ Head(line'[c]).req = Token(c)'
      BY <1>0, <1>2, <2>0, <2>1, <2>2, <2>3, <2>5 DEF ReadLine, At, Asked, Quiet, Usable
    <3>2. Goto(c, "decode") /\ pc'[c] = "decode"
      BY <1>0, <1>2, <2>5 DEF ReadLine, Goto, CallerOK
    <3> QED
      BY <2>5, <3>1, <3>2, HolderAt DEF At, Inside, Reading
  <2> QED
    BY <1>2, <2>4, <2>5 DEF ReadLine, Reading
<1>3. CASE Decode(c)
  <2>1. Quiet'
    BY <1>0, <1>3 DEF Decode, At, Quiet, Usable
  <2>2. PICK point \in {"idle", "stop"} : Goto(c, point)
    BY <1>3 DEF Decode, Return
  <2>3. pc'[c] = point
    BY <1>0, <2>2 DEF Goto, CallerOK
  <2> QED
    BY <1>3, <2>1, <2>2, <2>3, HolderAt DEF Decode, At, Inside
<1>4. CASE Reap(c)
  <2>1. cmd' = None /\ Goto(c, "idle") /\ pc'[c] = "idle"
    BY <1>0, <1>4 DEF Reap, Return, Goto, CallerOK
  <2> QED
    BY <1>4, <2>1, HolderAt DEF Reap, At, Inside
<1> QED
  BY <1>1, <1>2, <1>3, <1>4

LEMMA AnswerStep == AnswerInv /\ [Next]_vars => AnswerInv'
<1> SUFFICES ASSUME AnswerInv, [Next]_vars PROVE AnswerInv'
  OBVIOUS
<1>0. RuntimeInv' /\ CallerOK
  BY RuntimeStep, TypeParts DEF AnswerInv, RuntimeInv, TypeInv
<1> SUFFICES InStep' /\ \A c \in Callers : At(c)'
  BY <1>0 DEF AnswerInv
<1>1. ASSUME NEW c \in Callers, Begin(c) \/ Cancel(c)
      PROVE  InStep' /\ \A d \in Callers : At(d)'
  <2>1. UNCHANGED <<cmd, left, line, processVars>>
    BY <1>1 DEF Begin, Cancel
  <2>2. pc' = pc \/ (pc[c] = "idle" /\ pc' = [pc EXCEPT ![c] = "lock"])
    BY <1>1 DEF Begin, Cancel, Goto
  <2>3. \A d \in Callers : pc'[d] = pc[d] \/ (pc[d] \notin Inside /\ pc'[d] \notin Inside)
    BY <1>0, <2>2 DEF CallerOK, Inside, Reading
  <2>4. InStep'
    BY <2>1, <2>3 DEF AnswerInv, InStep, LockFree, processVars
  <2>5. ASSUME NEW d \in Callers
        PROVE  At(d)'
    <3>1. At(d) /\ Token(d)' = Token(d)
      BY <2>1 DEF AnswerInv, Token
    <3> QED
      BY <2>1, <2>3, <3>1 DEF At, Announcing, Quiet, Asked, Usable, Inside, Reading, processVars
  <2> QED
    BY <2>4, <2>5
<1>2. CASE UNCHANGED vars
  BY <1>2 DEF AnswerInv, InStep, LockFree, At, Announcing, Quiet, Asked, Usable, Token,
              vars, callerVars, processVars
<1> QED
  BY <1>1, <1>2, LockKeeps, SendKeeps, AnswerKeeps, ChildKeeps DEF Next, Holder

(* A child that waits for its next request is in step: it has announced      *)
(* itself, its pipes are empty, and nobody asked it to go.                   *)
THEOREM ChildInStep == Spec => []InStep
<1>1. AnswerInv => InStep
  BY DEF AnswerInv
<1> QED
  BY AnswerInit, AnswerStep, <1>1, PTL DEF Spec

(* The line a request is decoded from is its own: an answer nobody waits for *)
(* goes with the child that would give it (persistent_process.go:53).        *)
THEOREM AnswersAreOwn == Spec => []OwnLine
<1>1. AnswerInv => OwnLine
  BY DEF AnswerInv, At, OwnLine
<1> QED
  BY AnswerInit, AnswerStep, <1>1, PTL DEF Spec
-----------------------------------------------------------------------------
(* A request is written at most once: the generator implements AtMostOnce.   *)
(* Stage is the phase of the request that a caller's Generate stands for,    *)
(* whose token is the caller's next one counted from the end.                *)
Stage(c) == IF pc[c] = "decode" THEN "answered"
            ELSE IF pc[c] \in {"flush", "read"} THEN "sent"
            ELSE IF pc[c] \in {"drain", "stop", "reap"} /\ op[c] = "generate" THEN "done" ELSE "new"
Phases  == [k \in Tokens |-> Phase(k)]
Queued  == UNION {Queue(p) : p \in Procs}
OnItsWay == UNION {Answers(p) : p \in Procs}

(* The abstract state in terms of the pipes.  A pipe holds one request at    *)
(* most, and only that of the child in use, until it ends; a request or an answer in a pipe is  *)
(* one that was given up, or the one the holder waits for, in the pipe of    *)
(* the child in use.                                                         *)
Counted    == \A c \in Callers : /\ left[c] <= MaxCalls[c]
                                 /\ op[c] = "close" => pc[c] \in {"lock", "stop", "reap"}
OneRequest == \A p \in Procs : /\ Len(stdin[p]) <= 1
                               /\ p # cmd \/ status[p] = "exited" => stdin[p] = <<>>
Posted     == \A p \in Procs : \A k \in Queue(p) \cup Answers(p) :
                k \in Tokens /\ (Phases[k] = "done" \/ (p = cmd /\ Phases[k] = "sent"))

OnceInv == AnswerInv /\ Counted /\ OneRequest /\ Posted

LEMMA TypePartsAgain == AnswerInv' => CallerOK' /\ ProcessOK' /\ Mutex' /\ Equipped'
BY TypeParts, PTL DEF AnswerInv, RuntimeInv, TypeInv

LEMMA TokenParts ==
  /\ \A k \in Tokens : /\ k = <<k[1], k[2]>> /\ k[1] \in Callers
                       /\ k[2] \in Nat /\ 1 <= k[2] /\ k[2] <= MaxCalls[k[1]]
  /\ \A c \in Callers : \A n \in 1..MaxCalls[c] : <<c, n>> \in Tokens
<1>1. ASSUME NEW k \in Tokens
      PROVE  /\ k = <<k[1], k[2]>> /\ k[1] \in Callers
             /\ k[2] \in Nat /\ 1 <= k[2] /\ k[2] <= MaxCalls[k[1]]
  <2>1. PICK c \in Callers : k \in {c} \X (1..MaxCalls[c])
    BY DEF Tokens
  <2>2. k = <<k[1], k[2]>> /\ k[1] = c /\ k[2] \in 1..MaxCalls[c]
    BY <2>1
  <2>3. MaxCalls[c] \in Nat
    BY BoundsAssumption
  <2> QED
    BY <2>2, <2>3
<1>2. ASSUME NEW c \in Callers, NEW n \in 1..MaxCalls[c] PROVE <<c, n>> \in Tokens
  <2>1. <<c, n>> \in {c} \X (1..MaxCalls[c])
    OBVIOUS
  <2> QED
    BY <2>1 DEF Tokens
<1> QED
  BY <1>1, <1>2

(* The phase of a request by the number its caller has left.                 *)
ByStage == \A k \in Tokens : Phases[k] = IF k[2] > left[k[1]] THEN "done"
                                         ELSE IF k[2] = left[k[1]] THEN Stage(k[1]) ELSE "new"

LEMMA PhaseByStage == CallerOK => ByStage
<1> SUFFICES ASSUME CallerOK, NEW k \in Tokens
             PROVE  Phase(k) = IF k[2] > left[k[1]] THEN "done"
                               ELSE IF k[2] = left[k[1]] THEN Stage(k[1]) ELSE "new"
  BY DEF ByStage, Phases
<1>1. CASE k[2] > left[k[1]]
  BY <1>1 DEF Phase
<1>2. CASE k[2] = left[k[1]]
  <2>1. k[2] \in Nat /\ ~(k[2] > left[k[1]])
    BY <1>2, TokenParts
  <2> QED
    BY <1>2, <2>1 DEF Phase, Stage
<1>3. CASE ~(k[2] > left[k[1]]) /\ k[2] # left[k[1]]
  BY <1>3 DEF Phase
<1> QED
  BY <1>1, <1>2, <1>3

LEMMA PhaseByStagePrime == CallerOK' => ByStage'
BY PhaseByStage, PTL

(* A step of one caller that leaves its count changes the phase of the       *)
(* request it stands for, if it has one.                                     *)
LEMMA OneCallerMoves ==
  ASSUME CallerOK, CallerOK', Counted, NEW c \in Callers, UNCHANGED left,
         \A d \in Callers : d # c => pc'[d] = pc[d] /\ op'[d] = op[d]
  PROVE  /\ Stage(c)' = Stage(c) => Phases' = Phases
         /\ left[c] >= 1 => /\ Token(c) \in Tokens
                            /\ Phases[Token(c)] = Stage(c)
                            /\ Phases' = [Phases EXCEPT ![Token(c)] = Stage(c)']
<1>1. left[c] \in Nat /\ MaxCalls[c] \in Nat /\ left[c] <= MaxCalls[c]
  BY BoundsAssumption DEF CallerOK, Counted
<1>2. ByStage /\ ByStage'
  BY PhaseByStage, PhaseByStagePrime
<1>3. ASSUME NEW k \in Tokens, k # Token(c) \/ Stage(c)' = Stage(c)
      PROVE  Phases'[k] = Phases[k]
  <2>1. k = <<k[1], k[2]>> /\ k[1] \in Callers
    BY TokenParts
  <2>2. k[2] = left[k[1]] => Stage(k[1])' = Stage(k[1])
    <3>1. CASE k[1] # c
      BY <2>1, <3>1 DEF Stage
    <3>2. CASE k[1] = c
      BY <1>3, <2>1, <3>2 DEF Token
    <3> QED
      BY <3>1, <3>2
  <2> QED
    BY <1>2, <2>2 DEF ByStage
<1>4. Stage(c)' = Stage(c) => Phases' = Phases
  BY <1>3 DEF Phases
<1>5. ASSUME left[c] >= 1
      PROVE  /\ Token(c) \in Tokens
             /\ Phases[Token(c)] = Stage(c)
             /\ Phases' = [Phases EXCEPT ![Token(c)] = Stage(c)']
  <2>1. left[c] \in 1..MaxCalls[c]
    BY <1>1, <1>5
  <2>2. Token(c) \in Tokens /\ Token(c)[1] = c /\ Token(c)[2] = left[c]
    BY <2>1, TokenParts DEF Token
  <2>3. Phases[Token(c)] = Stage(c) /\ Phases'[Token(c)] = Stage(c)'
    BY <1>1, <1>2, <2>2 DEF ByStage
  <2>4. \A k \in Tokens : Phases'[k] = IF k = Token(c) THEN Stage(c)' ELSE Phases[k]
    BY <1>3, <2>3
  <2> QED
    BY <2>2, <2>3, <2>4 DEF Phases
<1> QED
  BY <1>4, <1>5

(* Some request is done, and was before or not; or nothing changes.          *)
Progress == Phases' = Phases \/ \E k \in Tokens : Phases' = [Phases EXCEPT ![k] = "done"]

LEMMA ReturnProgress ==
  ASSUME CallerOK, CallerOK', Budgeted, Counted, NEW c \in Callers, pc[c] # "idle", Return(c)
  PROVE  Progress /\ Counted'
<1>1. /\ pc'[c] = "idle" /\ op'[c] = "generate" /\ left[c] \in Nat /\ MaxCalls[c] \in Nat
      /\ \A d \in Callers : d # c => pc'[d] = pc[d] /\ op'[d] = op[d] /\ left'[d] = left[d]
  BY BoundsAssumption DEF CallerOK, Return, Goto
<1>2. CASE op[c] = "close"
  <2>1. UNCHANGED left /\ Stage(c) = "new" /\ Stage(c)' = "new"
    BY <1>1, <1>2 DEF CallerOK, Counted, Stage, Return
  <2> QED
    BY <1>1, <2>1, OneCallerMoves DEF Progress, Counted
<1>3. CASE op[c] = "generate"
  <2>1. left'[c] = left[c] - 1 /\ left[c] >= 1
    BY <1>3 DEF CallerOK, Budgeted, Return
  <2>2. Counted'
    BY <1>1, <2>1 DEF Counted
  <2>3. ByStage /\ ByStage'
    BY PhaseByStage, PhaseByStagePrime
  <2>4. left[c] \in 1..MaxCalls[c] /\ Stage(c)' = "new"
    BY <1>1, <2>1 DEF Counted, Stage
  <2>5. Token(c) \in Tokens
    BY <2>4, TokenParts DEF Token
  <2>6. ASSUME NEW k \in Tokens
        PROVE  Phases'[k] = IF k = Token(c) THEN "done" ELSE Phases[k]
    <3>1. k = <<k[1], k[2]>> /\ k[1] \in Callers /\ k[2] \in Nat
      BY TokenParts
    <3>2. CASE k[1] # c
      <4>1. Stage(k[1])' = Stage(k[1]) /\ left'[k[1]] = left[k[1]] /\ k # Token(c)
        BY <1>1, <3>1, <3>2 DEF Stage, Token
      <4> QED
        BY <2>3, <4>1 DEF ByStage
    <3>3. CASE k[1] = c
      <4>1. Phases'[k] = IF k[2] > left[c] - 1 THEN "done" ELSE "new"
        BY <2>1, <2>3, <2>4, <3>3 DEF ByStage
      <4>2. Phases[k] = IF k[2] > left[c] THEN "done" ELSE IF k[2] = left[c] THEN Stage(c) ELSE "new"
        BY <2>3, <3>3 DEF ByStage
      <4>3. k = Token(c) <=> k[2] = left[c]
        BY <3>1, <3>3 DEF Token
      <4> QED
        BY <1>1, <3>1, <4>1, <4>2, <4>3
    <3> QED
      BY <3>2, <3>3
  <2>7. Phases' = [Phases EXCEPT ![Token(c)] = "done"]
    BY <2>5, <2>6 DEF Phases
  <2> QED
    BY <2>2, <2>5, <2>7 DEF Progress
<1> QED
  BY <1>2, <1>3 DEF CallerOK

LEMMA MoveProgress ==
  ASSUME CallerOK, CallerOK', Budgeted, Counted, NEW c \in Callers, pc[c] # "idle",
         NEW point \in Points, Goto(c, point), UNCHANGED <<op, left>>,
         op[c] = "close" => point \in {"stop", "reap"},
         Stage(c)' = Stage(c) \/ Stage(c)' = "done"
  PROVE  Progress /\ Counted'
<1>1. pc'[c] = point /\ \A d \in Callers : d # c => pc'[d] = pc[d] /\ op'[d] = op[d]
  BY DEF CallerOK, Goto
<1>2. Counted'
  BY <1>1 DEF Counted
<1>3. CASE Stage(c)' = Stage(c)
  BY <1>1, <1>2, <1>3, OneCallerMoves DEF Progress
<1>4. CASE Stage(c)' # Stage(c)
  <2>1. Stage(c)' = "done" /\ op[c] = "generate" /\ left[c] >= 1
    BY <1>4 DEF Stage, Budgeted
  <2>2. Token(c) \in Tokens /\ Phases' = [Phases EXCEPT ![Token(c)] = "done"]
    BY <1>1, <2>1, OneCallerMoves
  <2> QED
    BY <1>2, <2>2 DEF Progress
<1> QED
  BY <1>2, <1>3, <1>4

(* Nobody waits for an answer while p.mu is held for anything else.          *)
LEMMA NothingSent ==
  ASSUME CallerOK, Mutex, NEW c \in Callers, pc[c] \in Inside \ {"flush", "read"}
  PROVE  \A k \in Tokens : Phases[k] # "sent"
<1>1. ASSUME NEW k \in Tokens, Phases[k] = "sent" PROVE FALSE
  <2>1. k[1] \in Callers /\ Stage(k[1]) = "sent"
    BY <1>1, PhaseByStage, TokenParts DEF ByStage
  <2>2. pc[k[1]] \in {"flush", "read"}
    BY <2>1 DEF Stage
  <2> QED
    BY <2>1, <2>2 DEF Mutex, Inside, Reading
<1> QED
  BY <1>1

Simulated == [Once!Next]_(Once!vars)

LEMMA OnceParts ==
  /\ (\E k \in Tokens : /\ Phases[k] # "done"
                        /\ Phases' = [Phases EXCEPT ![k] = "done"]
                        /\ Queued' \subseteq Queued /\ OnItsWay' \subseteq OnItsWay) => Simulated
  /\ Phases' = Phases /\ Queued' \subseteq Queued /\ OnItsWay' \subseteq OnItsWay => Simulated
  /\ (\E k \in Tokens : /\ Phases[k] = "new"
                        /\ Phases' = [Phases EXCEPT ![k] = "sent"]
                        /\ Queued' = Queued \cup {k} /\ OnItsWay' = OnItsWay) => Simulated
  /\ (\E k \in Queued \cap Tokens : /\ Queued' = Queued \ {k} /\ OnItsWay' = OnItsWay \cup {k}
                                    /\ Phases' = Phases) => Simulated
  /\ (\E k \in OnItsWay \cap Tokens : /\ Phases[k] = "sent"
                                      /\ Phases' = [Phases EXCEPT ![k] = "answered"]
                                      /\ OnItsWay' = OnItsWay \ {k} /\ Queued' = Queued)
       => Simulated
BY DEF Simulated, Once!Next, Once!Send, Once!Execute, Once!Deliver, Once!Return, Once!Lose,
       Phases, Queued, OnItsWay

(* Nothing is put into a pipe, and at most one request ends.                 *)
LEMMA QuietStep ==
  ASSUME OnceInv, AnswerInv', Counted', OneRequest', Progress,
         \A p \in Procs : Queue(p)' \subseteq Queue(p) /\ Answers(p)' \subseteq Answers(p),
         cmd' = cmd \/ \A k \in Tokens : Phases[k] # "sent"
  PROVE  OnceInv' /\ Simulated
<1>1. Queued' \subseteq Queued /\ OnItsWay' \subseteq OnItsWay
  BY DEF Queued, OnItsWay
<1>2. Phases \in [Tokens -> {Phases[k] : k \in Tokens}]
  BY DEF Phases
<1>3. \A k \in Tokens : Phases'[k] = Phases[k] \/ Phases'[k] = "done"
  BY <1>2 DEF Progress
<1>4. Posted'
  BY <1>3 DEF OnceInv, Posted
<1>5. Simulated
  <2>1. CASE Phases' = Phases
    BY <1>1, <2>1, OnceParts
  <2>2. ASSUME NEW k \in Tokens, Phases' = [Phases EXCEPT ![k] = "done"]
        PROVE  Simulated
    <3>1. CASE Phases[k] = "done"
      <4>1. Phases' = Phases
        BY <1>2, <2>2, <3>1
      <4> QED
        BY <1>1, <4>1, OnceParts
    <3>2. CASE Phases[k] # "done"
      BY <1>1, <2>2, <3>2, OnceParts
    <3> QED
      BY <3>1, <3>2
  <2> QED
    BY <2>1, <2>2 DEF Progress
<1> QED
  BY <1>4, <1>5 DEF OnceInv

(* A step that leaves the pipes of every child alone.                        *)
LEMMA PipesRest ==
  ASSUME OnceInv, AnswerInv', Counted', Progress, UNCHANGED <<stdin, stdout>>,
         status' = status \/ (cmd' \in Procs /\ status' = [status EXCEPT ![cmd'] = "loading"]),
         \/ cmd' = cmd
         \/ (cmd = None \/ status[cmd] = "exited") /\ \A k \in Tokens : Phases[k] # "sent"
  PROVE  OnceInv' /\ Simulated
<1>1. ProcessOK
  BY TypeParts DEF OnceInv, AnswerInv, RuntimeInv, TypeInv
<1>2. \A p \in Procs : status'[p] = "exited" => status[p] = "exited"
  BY <1>1 DEF ProcessOK
<1>3. OneRequest'
  <2>1. \A p \in Procs : p # None
    BY DEF Procs, None
  <2>2. \A p \in Procs : Len(stdin[p]) <= 1
    BY DEF OnceInv, OneRequest
  <2>3. ASSUME NEW p \in Procs, p # cmd' \/ status'[p] = "exited" PROVE stdin[p] = <<>>
    BY <1>2, <2>1, <2>3 DEF OnceInv, OneRequest
  <2> QED
    BY <2>2, <2>3 DEF OneRequest
<1>4. \A p \in Procs : Queue(p)' \subseteq Queue(p) /\ Answers(p)' \subseteq Answers(p)
  BY DEF Queue, Answers
<1> QED
  BY <1>3, <1>4, QuietStep

LEMMA CallerRests ==
  ASSUME OnceInv, AnswerInv', NEW c \in Callers,
         \/ Begin(c) \/ Cancel(c) \/ Lock(c) \/ Launch(c) \/ LaunchFails(c) \/ CheckReady(c)
         \/ Flush(c) \/ WriteFails(c) \/ ReadEOF(c) \/ ReadCancelled(c) \/ Decode(c)
         \/ Stop(c) \/ Reap(c)
  PROVE  OnceInv' /\ Simulated
<1> USE DEF processVars, callerVars
<1>0. CallerOK /\ CallerOK' /\ ProcessOK' /\ Budgeted /\ Mutex /\ Counted /\ Equipped /\ Equipped'
  BY TypeParts, TypePartsAgain DEF OnceInv, AnswerInv, RuntimeInv, TypeInv
<1>1. ASSUME Return(c), pc[c] # "idle", UNCHANGED <<status, stdin, stdout>>,
             cmd' = cmd \/ (pc[c] = "reap" /\ status[cmd] = "exited")
      PROVE  OnceInv' /\ Simulated
  <2>1. Progress /\ Counted'
    BY <1>0, <1>1, ReturnProgress
  <2>2. cmd' = cmd \/ (status[cmd] = "exited" /\ \A k \in Tokens : Phases[k] # "sent")
    BY <1>0, <1>1, NothingSent DEF Inside
  <2> QED
    BY <1>1, <2>1, <2>2, PipesRest
<1>2. ASSUME pc[c] # "idle", UNCHANGED <<cmd, op, left, status, stdin, stdout>>,
             NEW point \in Points, Goto(c, point),
             op[c] = "close" => point \in {"stop", "reap"},
             Stage(c)' = Stage(c) \/ Stage(c)' = "done"
      PROVE  OnceInv' /\ Simulated
  <2>1. Progress /\ Counted'
    BY <1>0, <1>2, MoveProgress
  <2> QED
    BY <1>2, <2>1, PipesRest
<1>p. Inside \subseteq Points
  BY DEF Points
<1>3. CASE Begin(c)
  <2>1. /\ pc[c] = "idle" /\ op[c] = "generate" /\ pc'[c] = "lock"
        /\ \A d \in Callers : d # c => pc'[d] = pc[d] /\ op'[d] = op[d]
        /\ UNCHANGED <<left, cmd, status, stdin, stdout>>
    BY <1>0, <1>3 DEF Begin, Goto, CallerOK, Counted
  <2>2. Stage(c)' = Stage(c) /\ Counted'
    BY <1>0, <2>1 DEF Stage, Counted
  <2>3. Progress
    BY <1>0, <2>1, <2>2, OneCallerMoves DEF Progress
  <2> QED
    BY <2>1, <2>2, <2>3, PipesRest
<1>4. CASE Cancel(c)
  <2>1. UNCHANGED <<pc, op, left, cmd, status, stdin, stdout>>
    BY <1>4 DEF Cancel
  <2>2. Progress /\ Counted'
    BY <1>0, <2>1 DEF Progress, Phases, Phase, Counted
  <2> QED
    BY <2>1, <2>2, PipesRest
<1>5. CASE Lock(c)
  <2>1. pc[c] = "lock" /\ UNCHANGED <<cmd, status, stdin, stdout>>
    BY <1>5 DEF Lock
  <2>2. CASE Return(c)
    BY <1>1, <2>1, <2>2
  <2>3. ASSUME ~Return(c) PROVE OnceInv' /\ Simulated
    <3>1. PICK point \in {"stop", "write", "launch"} :
            /\ Goto(c, point) /\ UNCHANGED <<op, left>>
            /\ op[c] = IF point = "stop" THEN "close" ELSE "generate"
      BY <1>5, <2>3 DEF Lock
    <3>2. pc'[c] = point
      BY <1>0, <3>1 DEF Goto, CallerOK
    <3>3. Stage(c)' = Stage(c) /\ point \in Points /\ (op[c] = "close" => point = "stop")
      BY <1>p, <2>1, <3>1, <3>2 DEF Stage, Inside
    <3> QED
      BY <1>2, <2>1, <3>1, <3>3
  <2> QED
    BY <2>2, <2>3
<1>6. CASE Launch(c)
  <2>1. /\ pc[c] = "launch" /\ Goto(c, "handshake") /\ UNCHANGED <<op, left, stdin, stdout>>
        /\ cmd' \in Procs /\ status' = [status EXCEPT ![cmd'] = "loading"]
    <3>1. pc'[c] = "handshake"
      BY <1>0, <1>6 DEF Launch, Goto, CallerOK
    <3>2. cmd' \in Procs
      BY <1>0, <3>1 DEF Equipped, Inside, Reading
    <3> QED
      BY <1>6, <3>2 DEF Launch
  <2>2. op[c] = "generate" /\ Stage(c)' = Stage(c)
    BY <1>0, <2>1 DEF Counted, CallerOK, Goto, Stage
  <2>3. Progress /\ Counted'
    BY <1>0, <1>p, <2>1, <2>2, MoveProgress DEF Inside, Reading
  <2>4. cmd = None /\ \A k \in Tokens : Phases[k] # "sent"
    BY <1>0, <2>1, NothingSent DEF Equipped, Inside
  <2> QED
    BY <2>1, <2>3, <2>4, PipesRest
<1>7. CASE CheckReady(c) \/ Flush(c) \/ WriteFails(c) \/ ReadEOF(c) \/ ReadCancelled(c)
           \/ (Decode(c) /\ ~Return(c)) \/ Stop(c)
  <2>1. /\ UNCHANGED <<cmd, op, left, status, stdin, stdout>>
        /\ \/ /\ pc[c] \in {"checkReady", "write", "flush", "handshake", "read", "decode"}
              /\ Goto(c, "stop") \/ Goto(c, "drain")
           \/ pc[c] = "checkReady" /\ Goto(c, "write")
           \/ pc[c] = "flush" /\ Goto(c, "read")
           \/ pc[c] = "stop" /\ Goto(c, "reap")
    BY <1>7 DEF CheckReady, Flush, WriteFails, ReadEOF, ReadCancelled, Decode, Stop, Reading
  <2>2. PICK point \in {"stop", "drain", "write", "read", "reap"} :
          /\ Goto(c, point)
          /\ \/ /\ pc[c] \in {"checkReady", "write", "flush", "handshake", "read", "decode"}
                /\ point \in {"stop", "drain"}
             \/ pc[c] = "checkReady" /\ point = "write"
             \/ pc[c] = "flush" /\ point = "read"
             \/ pc[c] = "stop" /\ point = "reap"
    BY <2>1
  <2>3. pc'[c] = point /\ op'[c] = op[c] /\ op[c] \in {"generate", "close"}
    BY <1>0, <2>1, <2>2 DEF Goto, CallerOK
  <2>4. op[c] = "close" => pc[c] = "stop" /\ point = "reap"
    BY <1>0, <2>2 DEF Counted
  <2>5. Stage(c)' = Stage(c) \/ Stage(c)' = "done"
    BY <2>2, <2>3, <2>4 DEF Stage
  <2> QED
    BY <1>2, <1>p, <2>1, <2>2, <2>4, <2>5 DEF Inside, Reading
<1>8. CASE LaunchFails(c) \/ (Decode(c) /\ Return(c)) \/ Reap(c)
  BY <1>1, <1>8 DEF LaunchFails, Decode, Reap, Reaped
<1> QED
  BY <1>3, <1>4, <1>5, <1>6, <1>7, <1>8

LEMMA HeadItem ==
  ASSUME NEW S, NEW s \in Seq(S), s # <<>>
  PROVE  1 \in DOMAIN s /\ Head(s) = s[1] /\ Head(s) \in S
OBVIOUS

LEMMA TailItem ==
  ASSUME NEW S, NEW s \in Seq(S), s # <<>>, NEW i \in DOMAIN Tail(s)
  PROVE  \E j \in DOMAIN s : Tail(s)[i] = s[j]
<1>1. i + 1 \in DOMAIN s /\ Tail(s)[i] = s[i + 1]
  OBVIOUS
<1> QED
  BY <1>1

LEMMA AppendItems ==
  ASSUME NEW S, NEW s \in Seq(S), NEW e
  PROVE  /\ \A i \in DOMAIN s : i \in DOMAIN Append(s, e) /\ Append(s, e)[i] = s[i]
         /\ \E i \in DOMAIN Append(s, e) : Append(s, e)[i] = e
         /\ \A i \in DOMAIN Append(s, e) : (i \in DOMAIN s /\ Append(s, e)[i] = s[i])
                                           \/ Append(s, e)[i] = e
<1>1. Len(s) + 1 \in DOMAIN Append(s, e) /\ Append(s, e)[Len(s) + 1] = e
  OBVIOUS
<1>2. \A i \in DOMAIN s : i \in DOMAIN Append(s, e) /\ Append(s, e)[i] = s[i]
  OBVIOUS
<1>3. \A i \in DOMAIN Append(s, e) : (i \in DOMAIN s /\ Append(s, e)[i] = s[i])
                                     \/ Append(s, e)[i] = e
  OBVIOUS
<1> QED
  BY <1>1, <1>2, <1>3

(* A sequence of one item, or of none.                                       *)
LEMMA OneItem ==
  ASSUME NEW S, NEW s \in Seq(S), Len(s) <= 1, s # <<>>
  PROVE  {s[i] : i \in DOMAIN s} = {Head(s)} /\ Tail(s) = <<>>
<1>1. Len(s) = 1 /\ Head(s) = s[1]
  <2>1. Len(s) \in Nat /\ Len(s) # 0
    OBVIOUS
  <2> QED
    BY <2>1
<1>2. {s[i] : i \in DOMAIN s} = {Head(s)}
  <2>1. DOMAIN s = 1..1
    BY <1>1
  <2>2. 1..1 = {1}
    OBVIOUS
  <2> QED
    BY <1>1, <2>1, <2>2
<1>3. Tail(s) \in Seq(S) /\ Len(Tail(s)) = 0
  BY <1>1
<1> QED
  BY <1>2, <1>3

LEMMA NoItem ==
  /\ \A p \in Procs : stdin[p] = <<>> => Queue(p) = {}
  /\ \A p \in Procs : stdout[p] = <<>> => Answers(p) = {}
BY DEF Queue, Answers

LEMMA NotAToken == \A k \in Tokens : k # NoToken
<1>1. \A x, y : <<x, y>> # <<>>
  OBVIOUS
<1> QED
  BY <1>1, TokenParts DEF NoToken

(* A request is put into the pipe of a child that has none.                  *)
LEMMA WriteStep ==
  ASSUME OnceInv, AnswerInv', NEW c \in Callers, Write(c)
  PROVE  OnceInv' /\ Simulated
<1>0. /\ CallerOK /\ CallerOK' /\ ProcessOK /\ Budgeted /\ Mutex /\ Counted /\ Equipped
      /\ OneRequest /\ Posted /\ At(c)
  BY TypeParts, TypePartsAgain DEF OnceInv, AnswerInv, RuntimeInv, TypeInv
<1>1. /\ pc[c] = "write" /\ status[cmd] # "exited" /\ UNCHANGED <<cmd, op, left, status, stdout>>
      /\ stdin' = [stdin EXCEPT ![cmd] = Append(@, Token(c))]
  BY DEF Write, callerVars
<1>2. /\ cmd \in Procs /\ stdin[cmd] = <<>> /\ stdin'[cmd] = <<Token(c)>>
      /\ \A q \in Procs : q # cmd => stdin'[q] = stdin[q]
  <2>1. cmd \in Procs /\ stdin[cmd] = <<>>
    BY <1>0, <1>1 DEF Equipped, Inside, At, Quiet
  <2>2. stdin'[cmd] = Append(stdin[cmd], Token(c)) /\ \A q \in Procs : q # cmd => stdin'[q] = stdin[q]
    BY <1>0, <1>1, <2>1 DEF ProcessOK
  <2>3. Append(<<>>, Token(c)) = <<Token(c)>>
    OBVIOUS
  <2> QED
    BY <2>1, <2>2, <2>3
<1>3. PICK point \in {"flush", "read"} : Goto(c, point)
  BY DEF Write
<1>4. pc'[c] = point /\ \A d \in Callers : d # c => pc'[d] = pc[d] /\ op'[d] = op[d]
  BY <1>0, <1>1, <1>3 DEF CallerOK, Goto
<1>5. op[c] = "generate" /\ left[c] >= 1 /\ Stage(c) = "new" /\ Stage(c)' = "sent"
  BY <1>0, <1>1, <1>4 DEF Counted, CallerOK, Budgeted, Stage
<1>6. /\ Token(c) \in Tokens /\ Phases[Token(c)] = "new"
      /\ Phases' = [Phases EXCEPT ![Token(c)] = "sent"]
  BY <1>0, <1>1, <1>4, <1>5, OneCallerMoves
<1>7. \A q \in Procs : /\ q = cmd => Queue(q) = {} /\ Queue(q)' = {Token(c)}
                       /\ q # cmd => Queue(q)' = Queue(q)
                       /\ Answers(q)' = Answers(q)
  <2>1. \A q \in Procs : q = cmd => {stdin'[q][i] : i \in DOMAIN stdin'[q]} = {Token(c)}
    BY <1>2
  <2> QED
    BY <1>1, <1>2, <2>1, NoItem DEF Queue, Answers
<1>8. Queued' = Queued \cup {Token(c)} /\ OnItsWay' = OnItsWay
  <2>1. \A k : k \in Queued' <=> k \in Queued \/ k = Token(c)
    BY <1>2, <1>7 DEF Queued
  <2>2. OnItsWay' = OnItsWay
    BY <1>7 DEF OnItsWay
  <2> QED
    BY <2>1, <2>2
<1>9. Simulated
  BY <1>6, <1>8, OnceParts
<1>10. Counted' /\ OneRequest'
  <2>1. Len(<<Token(c)>>) <= 1
    OBVIOUS
  <2> QED
    BY <1>0, <1>1, <1>2, <1>4, <1>5, <2>1 DEF Counted, OneRequest
<1>11. Posted'
  <2>1. \A k \in Tokens : Phases'[k] = IF k = Token(c) THEN "sent" ELSE Phases[k]
    BY <1>6 DEF Phases
  <2>2. \A q \in Procs : \A k \in Queue(q)' \cup Answers(q)' :
          k \in Queue(q) \cup Answers(q) \/ (q = cmd /\ k = Token(c))
    BY <1>7
  <2>3. \A q \in Procs : Token(c) \notin Queue(q) \cup Answers(q)
    BY <1>0, <1>6 DEF Posted
  <2> QED
    BY <1>0, <1>1, <1>6, <2>1, <2>2, <2>3 DEF Posted
<1> QED
  BY <1>9, <1>10, <1>11 DEF OnceInv

(* An answer is taken from the pipe: by the request it answers, or for       *)
(* nobody.                                                                   *)
LEMMA ReadStep ==
  ASSUME OnceInv, AnswerInv', NEW c \in Callers, ReadLine(c) \/ Drain(c)
  PROVE  OnceInv' /\ Simulated
<1>0. /\ CallerOK /\ CallerOK' /\ ProcessOK /\ Budgeted /\ Mutex /\ Counted /\ Equipped
      /\ OneRequest /\ Posted /\ At(c)
  BY TypeParts, TypePartsAgain DEF OnceInv, AnswerInv, RuntimeInv, TypeInv
<1>1. /\ pc[c] \in {"handshake", "read", "drain"}
      /\ pc[c] # "drain" => stdout[cmd] # <<>>
      /\ Goto(c, IF pc[c] = "handshake" THEN "checkReady"
                 ELSE IF pc[c] = "read" THEN "decode" ELSE "stop")
      /\ UNCHANGED <<cmd, op, left, status, stdin>>
      /\ stdout' = [stdout EXCEPT ![cmd] = IF @ = <<>> THEN @ ELSE Tail(@)]
  <2>1. CASE ReadLine(c)
    <3>1. cmd \in Procs
      BY <1>0, <2>1 DEF ReadLine, Equipped, Inside, Reading
    <3>2. stdout[cmd] # <<>> => [stdout EXCEPT ![cmd] = Tail(@)]
                                  = [stdout EXCEPT ![cmd] = IF @ = <<>> THEN @ ELSE Tail(@)]
      BY <1>0, <3>1 DEF ProcessOK
    <3> QED
      BY <2>1, <3>2 DEF ReadLine, Reading
  <2>2. CASE Drain(c)
    BY <2>2 DEF Drain, AfterDrain, callerVars
  <2> QED
    BY <2>1, <2>2
<1>2. /\ cmd \in Procs /\ stdout[cmd] \in Seq(Lines)
      /\ stdout[cmd] # <<>> => stdout'[cmd] = Tail(stdout[cmd])
      /\ stdout[cmd] = <<>> => stdout'[cmd] = stdout[cmd]
      /\ \A q \in Procs : q # cmd => stdout'[q] = stdout[q]
  BY <1>0, <1>1 DEF Equipped, Inside, Reading, ProcessOK
<1>3. /\ \A d \in Callers : d # c => pc'[d] = pc[d] /\ op'[d] = op[d]
      /\ pc'[c] = IF pc[c] = "handshake" THEN "checkReady"
                  ELSE IF pc[c] = "read" THEN "decode" ELSE "stop"
  BY <1>0, <1>1 DEF CallerOK, Goto
<1>4. op[c] = "generate" /\ left[c] >= 1 /\ Counted' /\ OneRequest'
  BY <1>0, <1>1, <1>3 DEF Counted, CallerOK, Budgeted, OneRequest
<1>5. \A q \in Procs : Queue(q)' = Queue(q) /\ Answers(q)' \subseteq Answers(q)
  <2>1. ASSUME NEW i \in DOMAIN stdout'[cmd]
        PROVE  \E j \in DOMAIN stdout[cmd] : stdout'[cmd][i] = stdout[cmd][j]
    <3>1. CASE stdout[cmd] = <<>>
      BY <1>2, <2>1, <3>1
    <3>2. CASE stdout[cmd] # <<>>
      <4>1. i \in DOMAIN Tail(stdout[cmd]) /\ stdout'[cmd][i] = Tail(stdout[cmd])[i]
        BY <1>2, <2>1, <3>2
      <4> QED
        BY <1>2, <3>2, <4>1, TailItem
    <3> QED
      BY <3>1, <3>2
  <2>2. ASSUME NEW q \in Procs
        PROVE  {stdout'[q][i].req : i \in DOMAIN stdout'[q]}
                 \subseteq {stdout[q][i].req : i \in DOMAIN stdout[q]}
    <3>1. CASE q = cmd
      BY <2>1, <3>1
    <3>2. CASE q # cmd
      BY <1>2, <3>2
    <3> QED
      BY <3>1, <3>2
  <2> QED
    BY <1>1, <2>2 DEF Queue, Answers
<1>6. CASE pc[c] # "read"
  <2>1. Stage(c)' = Stage(c)
    BY <1>1, <1>3, <1>4, <1>6 DEF Stage
  <2>2. Progress
    BY <1>0, <1>1, <1>3, <2>1, OneCallerMoves DEF Progress
  <2> QED
    BY <1>1, <1>4, <1>5, <2>2, QuietStep
<1>7. CASE pc[c] = "read"
  <2>1. Stage(c) = "sent" /\ Stage(c)' = "answered"
    BY <1>3, <1>7 DEF Stage
  <2>2. /\ Token(c) \in Tokens /\ Phases[Token(c)] = "sent"
        /\ Phases' = [Phases EXCEPT ![Token(c)] = "answered"]
    BY <1>0, <1>1, <1>3, <1>4, <2>1, OneCallerMoves
  <2>3. stdin[cmd] = <<>> /\ Len(stdout[cmd]) = 1 /\ Head(stdout[cmd]).req = Token(c)
    BY <1>0, <1>1, <1>7 DEF At, Asked
  <2>4. \A q \in Procs : /\ q = cmd => Queue(q) = {} /\ Token(c) \in Answers(q) /\ Answers(q)' = {}
                         /\ q # cmd => Token(c) \notin Answers(q) \cup Queue(q)
                                       /\ Answers(q)' = Answers(q)
    <3>1. \A q \in Procs : q = cmd => Queue(q) = {}
      BY <2>3, NoItem
    <3>2. \A q \in Procs : q = cmd => Token(c) \in Answers(q)
      <4>1. 1 \in DOMAIN stdout[cmd] /\ Head(stdout[cmd]) = stdout[cmd][1]
        BY <1>1, <1>2, <1>7, HeadItem
      <4> QED
        BY <2>2, <2>3, <4>1, NotAToken DEF Answers
    <3>3. \A q \in Procs : q = cmd => Answers(q)' = {}
      <4>1. stdout'[cmd] = <<>>
        <5>1. Len(stdout[cmd]) <= 1 /\ stdout[cmd] # <<>>
          BY <1>1, <1>7, <2>3
        <5> QED
          BY <1>2, <5>1, OneItem
      <4> QED
        BY <4>1 DEF Answers
    <3>4. \A q \in Procs : q # cmd => Token(c) \notin Answers(q) \cup Queue(q)
      BY <1>0, <2>2 DEF Posted
    <3>5. \A q \in Procs : q # cmd => Answers(q)' = Answers(q)
      BY <1>2 DEF Answers
    <3> QED
      BY <3>1, <3>2, <3>3, <3>4, <3>5
  <2>5. Token(c) \in OnItsWay /\ OnItsWay' = OnItsWay \ {Token(c)} /\ Queued' = Queued
    <3>1. Token(c) \in OnItsWay
      BY <1>2, <2>4 DEF OnItsWay
    <3>2. ASSUME NEW k, k \in OnItsWay' PROVE k \in OnItsWay \ {Token(c)}
      <4>1. PICK q \in Procs : k \in Answers(q)'
        BY <3>2 DEF OnItsWay
      <4>2. k \in Answers(q) /\ k # Token(c)
        BY <1>5, <2>4, <4>1
      <4> QED
        BY <4>2 DEF OnItsWay
    <3>3. ASSUME NEW k \in OnItsWay, k # Token(c) PROVE k \in OnItsWay'
      <4>1. PICK q \in Procs : k \in Answers(q)
        BY DEF OnItsWay
      <4>2. q # cmd
        <5>1. ASSUME q = cmd PROVE FALSE
          <6>1. k \in {Token(c)}
            <7>1. {stdout[cmd][i] : i \in DOMAIN stdout[cmd]} = {Head(stdout[cmd])}
              BY <1>1, <1>2, <1>7, <2>3, OneItem
            <7> QED
              BY <2>3, <4>1, <5>1, <7>1 DEF Answers
          <6> QED
            BY <3>3, <6>1
        <5> QED
          BY <5>1
      <4>3. k \in Answers(q)'
        BY <2>4, <4>1, <4>2
      <4> QED
        BY <4>3 DEF OnItsWay
    <3>4. Queued' = Queued
      BY <1>5 DEF Queued
    <3> QED
      BY <3>1, <3>2, <3>3, <3>4
  <2>6. Simulated
    BY <2>2, <2>5, OnceParts
  <2>7. Posted'
    <3>1. \A k \in Tokens : k # Token(c) => Phases'[k] = Phases[k]
      BY <2>2 DEF Phases
    <3>2. ASSUME NEW q \in Procs, NEW k \in Queue(q)' \cup Answers(q)'
          PROVE  k # Token(c) /\ k \in Queue(q) \cup Answers(q)
      <4>1. k \in Queue(q) \cup Answers(q)
        BY <1>5
      <4> QED
        BY <1>5, <2>4, <4>1
    <3> QED
      BY <1>0, <1>1, <3>1, <3>2 DEF Posted
  <2> QED
    BY <1>4, <2>6, <2>7 DEF OnceInv
<1> QED
  BY <1>6, <1>7

(* A child carries out the one request in its pipe; any other step of a      *)
(* child puts no answer to a request into one.                               *)
LEMMA ServeStep ==
  ASSUME OnceInv, AnswerInv', NEW p \in Procs, Serve(p)
  PROVE  OnceInv' /\ Simulated
<1>0. CallerOK /\ ProcessOK /\ Counted /\ OneRequest /\ Posted /\ OneRuntime
  BY TypeParts DEF OnceInv, AnswerInv, RuntimeInv, TypeInv
<1>1. /\ p = cmd /\ stdin[p] # <<>> /\ UNCHANGED <<cmd, pc, op, left, status>>
      /\ stdin' = [stdin EXCEPT ![p] = Tail(@)]
      /\ \E n \in Replies :
           stdout' = [stdout EXCEPT ![p] = Append(@, [req |-> Head(stdin[p]), kind |-> n])]
  BY <1>0 DEF Serve, OneRuntime, Running, callerVars
<1> DEFINE k == Head(stdin[p])
<1>2. PICK n \in Replies : stdout' = [stdout EXCEPT ![p] = Append(@, [req |-> k, kind |-> n])]
  BY <1>1
<1>3. /\ stdin[p] \in Seq(Requests) /\ stdout[p] \in Seq(Lines) /\ Len(stdin[p]) <= 1
      /\ stdout'[p] = Append(stdout[p], [req |-> k, kind |-> n])
      /\ stdin'[p] = Tail(stdin[p])
      /\ \A q \in Procs : q # p => stdin'[q] = stdin[q] /\ stdout'[q] = stdout[q]
  BY <1>0, <1>1, <1>2 DEF ProcessOK, OneRequest
<1>4. stdin'[p] = <<>> /\ Queue(p) = {k}
  BY <1>1, <1>3, OneItem DEF Queue
<1>5. \A q \in Procs : Queue(q)' = {} /\ (q # p => Queue(q) = {})
  <2>1. \A q \in Procs : q # p => stdin[q] = <<>>
    BY <1>0, <1>1 DEF OneRequest
  <2>2. \A q \in Procs : stdin'[q] = <<>>
    BY <1>3, <1>4, <2>1
  <2> QED
    BY <2>1, <2>2, NoItem DEF Queue
<1>6. k \in Tokens
  BY <1>0, <1>4 DEF Posted
<1>7. Answers(p)' = Answers(p) \cup {k} /\ \A q \in Procs : q # p => Answers(q)' = Answers(q)
  <2> DEFINE e == [req |-> k, kind |-> n]
  <2>1. k # NoToken /\ e.req = k
    BY <1>6, NotAToken
  <2>2. /\ \A i \in DOMAIN stdout[p] : i \in DOMAIN stdout'[p] /\ stdout'[p][i] = stdout[p][i]
        /\ \E i \in DOMAIN stdout'[p] : stdout'[p][i] = e
        /\ \A i \in DOMAIN stdout'[p] : (i \in DOMAIN stdout[p] /\ stdout'[p][i] = stdout[p][i])
                                        \/ stdout'[p][i] = e
    <3> HIDE DEF e
    <3>1. stdout'[p] = Append(stdout[p], e)
      BY <1>3 DEF e
    <3>2. \A i \in DOMAIN stdout[p] : i \in DOMAIN stdout'[p] /\ stdout'[p][i] = stdout[p][i]
      BY <1>3, <3>1, AppendItems
    <3>3. \E i \in DOMAIN stdout'[p] : stdout'[p][i] = e
      BY <1>3, <3>1, AppendItems
    <3>4. \A i \in DOMAIN stdout'[p] : (i \in DOMAIN stdout[p] /\ stdout'[p][i] = stdout[p][i])
                                       \/ stdout'[p][i] = e
      BY <1>3, <3>1, AppendItems
    <3> QED
      BY <3>2, <3>3, <3>4
  <2> HIDE DEF e, k
  <2>3. {stdout'[p][i].req : i \in DOMAIN stdout'[p]}
          = {stdout[p][i].req : i \in DOMAIN stdout[p]} \cup {k}
    <3>1. ASSUME NEW i \in DOMAIN stdout'[p]
          PROVE  stdout'[p][i].req \in {stdout[p][j].req : j \in DOMAIN stdout[p]} \cup {k}
      BY <2>1, <2>2
    <3>2. ASSUME NEW i \in DOMAIN stdout[p]
          PROVE  stdout[p][i].req \in {stdout'[p][j].req : j \in DOMAIN stdout'[p]}
      BY <2>2
    <3>3. k \in {stdout'[p][j].req : j \in DOMAIN stdout'[p]}
      BY <2>1, <2>2
    <3> QED
      BY <3>1, <3>2, <3>3
  <2>4. Answers(p)' = Answers(p) \cup {k}
    BY <2>1, <2>3 DEF Answers
  <2> QED
    BY <1>3, <2>4 DEF Answers
<1> HIDE DEF k
<1>8. k \in Queued /\ Queued' = Queued \ {k} /\ OnItsWay' = OnItsWay \cup {k}
  <2>1. Queued = {k} /\ Queued' = {}
    BY <1>4, <1>5 DEF Queued
  <2>2. \A j : j \in OnItsWay' <=> j \in OnItsWay \/ j = k
    BY <1>7 DEF OnItsWay
  <2> QED
    BY <2>1, <2>2
<1>9. Phases' = Phases
  BY <1>1 DEF Phases, Phase
<1>10. Simulated
  BY <1>6, <1>8, <1>9, OnceParts
<1>11. Counted' /\ OneRequest'
  <2>1. Len(<<>>) <= 1
    OBVIOUS
  <2> QED
    BY <1>0, <1>1, <1>3, <1>4, <2>1 DEF Counted, OneRequest
<1>12. Posted'
  <2>1. \A q \in Procs : Queue(q)' \cup Answers(q)' \subseteq Queue(q) \cup Answers(q)
    BY <1>4, <1>5, <1>7
  <2> QED
    BY <1>0, <1>1, <1>9, <2>1 DEF Posted
<1> QED
  BY <1>10, <1>11, <1>12 DEF OnceInv

LEMMA ChildStep ==
  ASSUME OnceInv, AnswerInv', NEW p \in Procs, Child(p) \/ Die(p) \/ Crash(p)
  PROVE  OnceInv' /\ Simulated
<1>0. CallerOK /\ ProcessOK /\ Counted /\ OneRequest /\ Posted
  BY TypeParts DEF OnceInv, AnswerInv, RuntimeInv, TypeInv
<1>1. UNCHANGED <<cmd, pc, op, left>>
  BY DEF Child, Handshake, Serve, ExitAtEOF, Die, Crash, Exit, callerVars
<1>2. Progress /\ Counted'
  BY <1>0, <1>1 DEF Progress, Phases, Phase, Counted
<1>3. CASE Handshake(p)
  <2>1. stdin' = stdin /\ status' = [status EXCEPT ![p] = "serving"]
    BY <1>3 DEF Handshake
  <2>2. OneRequest'
    <3>1. \A q \in Procs : status'[q] = "exited" => status[q] = "exited"
      BY <1>0, <2>1 DEF ProcessOK
    <3> QED
      BY <1>0, <1>1, <2>1, <3>1 DEF OneRequest
  <2>3. \A q \in Procs : Queue(q)' \subseteq Queue(q)
    BY <2>1 DEF Queue
  <2>4. PICK n \in {"ready", "garbage"} :
          stdout' = [stdout EXCEPT ![p] = Append(@, [req |-> NoToken, kind |-> n])]
    BY <1>3 DEF Handshake
  <2>5. \A q \in Procs : Answers(q)' \subseteq Answers(q)
    <3> DEFINE e == [req |-> NoToken, kind |-> n]
    <3>1. /\ stdout[p] \in Seq(Lines) /\ stdout'[p] = Append(stdout[p], e) /\ e.req = NoToken
          /\ \A q \in Procs : q # p => stdout'[q] = stdout[q]
      BY <1>0, <2>4 DEF ProcessOK
    <3> HIDE DEF e
    <3>2. \A i \in DOMAIN stdout'[p] : (i \in DOMAIN stdout[p] /\ stdout'[p][i] = stdout[p][i])
                                       \/ stdout'[p][i] = e
      BY <3>1, AppendItems
    <3>3. Answers(p)' \subseteq Answers(p)
      BY <3>1, <3>2 DEF Answers
    <3> QED
      BY <3>1, <3>3 DEF Answers
  <2> QED
    BY <1>1, <1>2, <2>2, <2>3, <2>5, QuietStep
<1>4. CASE ExitAtEOF(p) \/ Die(p) \/ Crash(p)
  <2>1. stdin' = [stdin EXCEPT ![p] = <<>>] /\ stdout' = stdout
        /\ status' = [status EXCEPT ![p] = "exited"]
    BY <1>4 DEF ExitAtEOF, Die, Crash, Exit
  <2>2. /\ stdin'[p] = <<>>
        /\ \A q \in Procs : q # p => stdin'[q] = stdin[q] /\ status'[q] = status[q]
    BY <1>0, <2>1 DEF ProcessOK
  <2>3. OneRequest'
    <3>1. Len(<<>>) <= 1
      OBVIOUS
    <3> QED
      BY <1>0, <1>1, <2>2, <3>1 DEF OneRequest
  <2>4. \A q \in Procs : Queue(q)' \subseteq Queue(q)
    BY <2>2 DEF Queue
  <2>5. \A q \in Procs : Answers(q)' \subseteq Answers(q)
    BY <2>1 DEF Answers
  <2> QED
    BY <1>1, <1>2, <2>3, <2>4, <2>5, QuietStep
<1> QED
  BY <1>3, <1>4, ServeStep DEF Child

LEMMA OnceStep == OnceInv /\ [Next]_vars => OnceInv' /\ Simulated
<1> SUFFICES ASSUME OnceInv, [Next]_vars PROVE OnceInv' /\ Simulated
  OBVIOUS
<1>1. AnswerInv'
  BY AnswerStep DEF OnceInv
<1>2. CASE UNCHANGED vars
  <2>1. /\ UNCHANGED <<cmd, pc, op, left, status, stdin, stdout>>
    BY <1>2 DEF vars, callerVars, processVars
  <2>2. Progress /\ Counted'
    BY <2>1 DEF Progress, Phases, Phase, Counted, OnceInv
  <2> QED
    BY <1>1, <2>1, <2>2, PipesRest
<1> QED
  BY <1>1, <1>2, CallerRests, WriteStep, ReadStep, ChildStep DEF Next, Holder

LEMMA OnceInit == Init => OnceInv /\ Once!Init
<1> SUFFICES ASSUME Init PROVE OnceInv /\ Once!Init
  OBVIOUS
<1>1. /\ \A c \in Callers : /\ pc[c] = "idle" /\ op[c] = "generate" /\ left[c] = MaxCalls[c]
                            /\ left[c] \in Nat
      /\ \A p \in Procs : stdin[p] = <<>> /\ stdout[p] = <<>>
  BY BoundsAssumption DEF Init
<1>2. \A k \in Tokens : Phase(k) = "new"
  BY <1>1, TokenParts DEF Phase
<1>3. \A p \in Procs : Queue(p) = {} /\ Answers(p) = {}
  BY <1>1, NoItem
<1>4. Counted /\ OneRequest /\ Posted
  <2>1. Len(<<>>) <= 1
    OBVIOUS
  <2> QED
    BY <1>1, <1>3, <2>1 DEF Counted, OneRequest, Posted
<1>5. Once!Init
  BY <1>2, <1>3 DEF Once!Init
<1> QED
  BY <1>4, <1>5, AnswerInit DEF OnceInv

(* A request is written once and never again after the child failed, and     *)
(* only its own answer reaches it, while it waits (persistent_process.go:49- *)
(* 89): the generator implements AtMostOnce.                                 *)
THEOREM GenerateOnce == Spec => NeverReplayed
<1>1. OnceInv /\ [Next]_vars => OnceInv' /\ [Once!Next]_(Once!vars)
  BY OnceStep DEF Simulated
<1> QED
  BY <1>1, OnceInit, PTL DEF Spec, NeverReplayed, Once!Spec
=============================================================================
