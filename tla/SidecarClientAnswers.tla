-------------------------- MODULE SidecarClientAnswers -------------------------
(* What the callers of SidecarClient get, for every set of callers and every *)
(* bound: their own answer, the failure of a process of their own, word of   *)
(* one or the other, and each request written once; and what a sidecar gets: *)
(* the time to end before it is killed.                                      *)
EXTENDS SidecarClientSafety

(* The next-state relation by the threads that take the step. *)
LEMMA NextCases ==
  [Next]_vars =>
    \/ \E c \in Callers : Begin(c) \/ Close(c) \/ Cancel(c) \/ CallStep(c) \/ StopStep(c)
    \/ \E t \in Threads : FailFirst(t) \/ FailAgain(t) \/ FailLocked(t)
    \/ \E p \in Procs : ReadResponse(p) \/ Deliver(p) \/ ReadError(p) \/ ReadEOF(p)
                        \/ WaitReturns(p)
    \/ \E p \in Procs : Serve(p) \/ ExitAtEOF(p) \/ Die(p) \/ Crash(p)
    \/ UNCHANGED vars
BY Goroutines, Distinct DEF Next, CallerStep, FailStep, ReaderStep, WaiterStep, Rest

(* What a queue holds after one line came or went. *)
LEMMA HeadItem ==
  ASSUME NEW S, NEW s \in Seq(S), s # <<>>
  PROVE  1 \in DOMAIN s /\ Head(s) = s[1] /\ Head(s) \in S
OBVIOUS

LEMMA AppendItem ==
  ASSUME NEW S, NEW s \in Seq(S), NEW e, NEW i \in DOMAIN Append(s, e)
  PROVE  (i \in DOMAIN s /\ Append(s, e)[i] = s[i]) \/ Append(s, e)[i] = e
OBVIOUS

LEMMA TailItem ==
  ASSUME NEW S, NEW s \in Seq(S), s # <<>>, NEW i \in DOMAIN Tail(s)
  PROVE  \E j \in DOMAIN s : Tail(s)[i] = s[j]
<1>1. i + 1 \in DOMAIN s /\ Tail(s)[i] = s[i + 1]
  OBVIOUS
<1> QED
  BY <1>1

LEMMA ItemInTail ==
  ASSUME NEW S, NEW s \in Seq(S), NEW j \in DOMAIN s, j # 1
  PROVE  j - 1 \in DOMAIN Tail(s) /\ Tail(s)[j - 1] = s[j]
<1>1. j \in 1..Len(s) /\ Len(s) \in Nat
  OBVIOUS
<1>2. s # <<>> /\ j - 1 \in 1..(Len(s) - 1)
  BY <1>1
<1> QED
  BY <1>1, <1>2

(* A call ends through Leave, wherever it goes on. *)
Returns(c) ==
  /\ pc[c] \in CallPoints
  /\ \E point \in {"idle", "drop", "ensure"} : Leave(c, point)
  /\ op' = [op EXCEPT ![c] = op'[c]]
  /\ pending' \in {pending, pending \ {id[c]}}
  /\ UNCHANGED <<process, closed, nextID, processVars, hand, once>>

LEMMA CallsReturn ==
  ASSUME TypeInv, NEW c \in Callers,
         \/ (EnsureFails(c) /\ pc[c] # "startEnsure")
         \/ RegisterFails(c) \/ ReturnFailed(c) \/ Receive(c) \/ Unwait(c)
  PROVE  Returns(c)
<1>1. pc[c] \in CallPoints
  BY DEF EnsureFails, RegisterFails, ReturnFailed, Receive, Unwait, CallPoints
<1>2. ReturnError(c) \/ ReturnResult(c)
  BY DEF EnsureFails, RegisterFails, ReturnFailed, Receive, Unwait
<1>3. \E point \in {"idle", "drop", "ensure"} : Leave(c, point)
  BY <1>2 DEF ReturnError, ReturnResult
<1>4. op' = [op EXCEPT ![c] = op'[c]]
  BY <1>2, TypeParts DEF ReturnError, ReturnResult, TypeInv, CallerOK
<1>5. /\ pending' \in {pending, pending \ {id[c]}}
      /\ UNCHANGED <<process, closed, nextID, processVars, hand, once>>
  BY DEF EnsureFails, RegisterFails, ReturnFailed, Receive, Unwait, clientVars, Unregister
<1> QED
  BY <1>1, <1>3, <1>4, <1>5 DEF Returns

-----------------------------------------------------------------------------
(* Own answers.  A line in a pipe or in a hand carries an id that was given  *)
(* out; as long as the call it was given to is under way, the line is of     *)
(* that call.                                                                *)
Fits(m) ==
  /\ m.id \in 0..nextID
  /\ \A c \in Callers : id[c] = m.id /\ m.id # 0 => m.req = Token(c)
AllFit(s) == \A i \in DOMAIN s : Fits(s[i])
LinesFit == \A p \in Procs : AllFit(stdin[p]) /\ AllFit(stdout[p]) /\ AllFit(hand[p])

AnswerInv == ChannelInv /\ LinesFit /\ OwnAnswer

LEMMA AnswerInit == Init => AnswerInv
BY ChannelInit DEF Init, AnswerInv, LinesFit, AllFit, OwnAnswer

(* A call that returns or takes an id: no line is about it. *)
LEMMA FitsStays ==
  ASSUME AnswerInv, nextID' \in Nat, nextID' >= nextID, NEW m, Fits(m),
         \A c \in Callers : \/ id'[c] = id[c] /\ left'[c] = left[c]
                            \/ id'[c] = 0
                            \/ id'[c] = nextID + 1
  PROVE  Fits(m)'
<1>1. nextID \in Nat
  BY TypeParts DEF AnswerInv, ChannelInv, TypeInv, ClientOK
<1>2. m.id \in 0..nextID'
  BY <1>1 DEF Fits
<1>3. ASSUME NEW c \in Callers, id'[c] = m.id, m.id # 0 PROVE m.req = <<c, left'[c]>>
  BY <1>1, <1>3 DEF Fits, Token
<1> QED
  BY <1>2, <1>3 DEF Fits, Token

LEMMA AnswerStep == AnswerInv /\ [Next]_vars => AnswerInv'
<1> SUFFICES ASSUME AnswerInv, [Next]_vars PROVE AnswerInv'
  OBVIOUS
<1> USE DEF clientVars, callerVars, processVars
<1>0. /\ ChannelInv /\ TypeInv /\ PointsOK /\ ClientOK /\ CallerOK /\ ProcessOK /\ Equipped
      /\ IdsUnique /\ TakenOnce /\ FreshChannels /\ RoomToSend /\ LinesFit /\ OwnAnswer
  BY TypeParts DEF AnswerInv, ChannelInv, TypeInv
<1>c. ChannelInv'
  BY ChannelStep DEF AnswerInv
<1> DEFINE Kept == LinesFit' /\ OwnAnswer'
<1> SUFFICES Kept
  BY <1>c DEF AnswerInv
<1>same. ASSUME UNCHANGED <<nextID, id, left>> PROVE \A m : Fits(m) => Fits(m)'
  BY <1>same DEF Fits, Token
<1>calm. ASSUME UNCHANGED <<nextID, id, left, stdin, stdout, hand, chan>> PROVE Kept
  BY <1>0, <1>calm, <1>same DEF LinesFit, AllFit, OwnAnswer, Token
<1>fail. ASSUME UNCHANGED <<nextID, id, left, stdin, stdout, hand>>,
                NEW kind \in {"failed", "closed"}, FailPending(kind)
         PROVE  Kept
  <2>1. LinesFit'
    BY <1>0, <1>fail, <1>same DEF LinesFit, AllFit
  <2>2. [kind |-> kind] \in Failures
    BY DEF Failures
  <2>3. ASSUME NEW c \in Callers, NEW i \in DOMAIN chan'[c]
        PROVE  chan'[c][i] \in Failures \/ chan'[c][i].req = Token(c)
    <3>1. chan[c] \in Seq(Answers \cup Failures)
      BY <1>0 DEF CallerOK
    <3>2. chan'[c] = chan[c] \/ chan'[c] = Append(chan[c], [kind |-> kind])
      BY <1>fail DEF FailPending
    <3>3. (i \in DOMAIN chan[c] /\ chan'[c][i] = chan[c][i]) \/ chan'[c][i] = [kind |-> kind]
      BY <2>3, <3>1, <3>2, AppendItem
    <3> QED
      BY <1>0, <2>2, <3>3 DEF OwnAnswer
  <2> QED
    BY <2>1, <2>3, <1>fail DEF OwnAnswer, Token
<1>leave. ASSUME NEW c \in Callers, Returns(c) PROVE Kept
  <2>1. /\ id' = [id EXCEPT ![c] = 0] /\ chan' = [chan EXCEPT ![c] = <<>>]
        /\ left' = [left EXCEPT ![c] = @ - 1] /\ UNCHANGED <<nextID, stdin, stdout, hand>>
    BY <1>leave DEF Returns, Leave
  <2>2. \A d \in Callers : (id'[d] = id[d] /\ left'[d] = left[d]) \/ id'[d] = 0
    BY <1>0, <2>1 DEF CallerOK
  <2>3. \A m : Fits(m) => Fits(m)'
    BY <2>1, <2>2, <1>0, FitsStays DEF ClientOK
  <2>4. LinesFit'
    BY <1>0, <2>1, <2>3 DEF LinesFit, AllFit
  <2>5. OwnAnswer'
    BY <1>0, <2>1 DEF OwnAnswer, Token, CallerOK
  <2> QED
    BY <2>4, <2>5
<1>1. ASSUME NEW c \in Callers, Begin(c) \/ Cancel(c) \/ StopStep(c) PROVE Kept
  BY <1>1, <1>calm DEF Begin, Cancel, StopStep, StopProcess, StopStdin, StopTimer, StopDone
<1>2. ASSUME NEW c \in Callers, Close(c) PROVE Kept
  BY <1>2, <1>fail DEF Close
<1>3. ASSUME NEW c \in Callers,
             \/ EnsureCurrent(c) \/ EnsureLaunch(c) \/ (EnsureFails(c) /\ pc[c] = "startEnsure")
             \/ Register(c) \/ LockWrite(c) \/ WriteFails(c) \/ Unpend(c) \/ CtxDone(c)
      PROVE  Kept
  BY <1>3, <1>calm DEF EnsureCurrent, EnsureLaunch, EnsureFails, Register, LockWrite, WriteFails,
                       Unpend, CtxDone
<1>4. ASSUME NEW c \in Callers, \/ (EnsureFails(c) /\ pc[c] # "startEnsure")
                                \/ RegisterFails(c) \/ ReturnFailed(c) \/ Receive(c) \/ Unwait(c)
      PROVE  Kept
  BY <1>0, <1>4, <1>leave, CallsReturn
<1>5. ASSUME NEW c \in Callers, AllocateID(c) PROVE Kept
  <2>1. /\ nextID \in Nat /\ nextID' = nextID + 1 /\ id' = [id EXCEPT ![c] = nextID + 1]
        /\ UNCHANGED <<left, stdin, stdout, hand, chan>>
    BY <1>0, <1>5 DEF AllocateID, NewID, ClientOK
  <2>2. \A d \in Callers : (id'[d] = id[d] /\ left'[d] = left[d]) \/ id'[d] = nextID + 1
    BY <1>0, <2>1 DEF CallerOK
  <2>3. \A m : Fits(m) => Fits(m)'
    BY <2>1, <2>2, FitsStays
  <2> QED
    BY <1>0, <2>1, <2>3 DEF LinesFit, AllFit, OwnAnswer, Token
<1>6. ASSUME NEW c \in Callers, Write(c) PROVE Kept
  <2> DEFINE p == target[c]
  <2>1. PICK s \in Sizes :
          stdin' = [stdin EXCEPT ![p] = Append(@, [id |-> id[c], req |-> Token(c), size |-> s])]
    BY <1>6 DEF Write
  <2> DEFINE m == [id |-> id[c], req |-> Token(c), size |-> s]
  <2>2. /\ UNCHANGED <<nextID, id, left, stdout, hand, chan>> /\ p \in Procs
        /\ id[c] \in 0..nextID
    BY <1>0, <1>6 DEF Write, Equipped, TargetPoints, IdPoints, CallPoints, IdsUnique
  <2>3. ASSUME NEW x, x = m PROVE Fits(x)'
    <3>1. m.id = id[c] /\ m.req = Token(c)
      OBVIOUS
    <3>2. Fits(m)
      BY <1>0, <2>2, <3>1 DEF Fits, IdsUnique
    <3> QED
      BY <2>2, <2>3, <3>2, <1>same
  <2>4. \A q \in Procs : AllFit(stdin[q])'
    <3> HIDE DEF m
    <3>1. ASSUME NEW q \in Procs, NEW i \in DOMAIN stdin'[q], NEW x, x = stdin'[q][i]
          PROVE  Fits(x)'
      <4>1. stdin[q] \in Seq(Requests)
        BY <1>0 DEF ProcessOK
      <4>2. stdin'[q] = stdin[q] \/ stdin'[q] = Append(stdin[q], m)
        BY <1>0, <2>1, <2>2 DEF ProcessOK, m
      <4>3. (i \in DOMAIN stdin[q] /\ stdin'[q][i] = stdin[q][i]) \/ stdin'[q][i] = m
        BY <3>1, <4>1, <4>2, AppendItem
      <4> QED
        BY <1>0, <2>2, <2>3, <3>1, <4>3, <1>same DEF LinesFit, AllFit
    <3> QED
      BY <3>1 DEF AllFit
  <2>5. \A q \in Procs : AllFit(stdout[q])' /\ AllFit(hand[q])'
    BY <1>0, <2>2, <1>same DEF LinesFit, AllFit
  <2> QED
    BY <1>0, <2>2, <2>4, <2>5 DEF LinesFit, OwnAnswer, Token
<1>7. ASSUME NEW t \in Threads, FailFirst(t) \/ FailAgain(t) PROVE Kept
  BY <1>7, <1>calm DEF FailFirst, FailAgain
<1>8. ASSUME NEW t \in Threads, FailLocked(t) PROVE Kept
  <2>1. UNCHANGED <<nextID, id, left, stdin, stdout, hand>> /\ (FailPending("failed") \/ chan' = chan)
    BY <1>8 DEF FailLocked
  <2> QED
    BY <2>1, <1>fail, <1>calm
<1>9. ASSUME NEW p \in Procs, ReadError(p) \/ ReadEOF(p) \/ WaitReturns(p) PROVE Kept
  BY <1>9, <1>calm DEF ReadError, ReadEOF, WaitReturns
<1>10. ASSUME NEW p \in Procs, ReadResponse(p) PROVE Kept
  <2> DEFINE m == Head(stdout[p])
  <2>1. /\ UNCHANGED <<nextID, id, left, stdin, chan>>
        /\ stdout' = [stdout EXCEPT ![p] = Tail(@)] /\ stdout[p] # <<>>
        /\ hand' = hand \/ hand' = [hand EXCEPT ![p] = <<m>>]
    BY <1>10 DEF ReadResponse
  <2>2. \A q \in Procs : stdout[q] \in Seq(Answers)
    BY <1>0 DEF ProcessOK
  <2>3. Fits(m)
    <3>1. 1 \in DOMAIN stdout[p] /\ m = stdout[p][1]
      BY <2>1, <2>2, HeadItem
    <3> QED
      BY <1>0, <3>1 DEF LinesFit, AllFit
  <2>4. \A q \in Procs : AllFit(stdout[q])'
    <3>1. ASSUME NEW q \in Procs, NEW i \in DOMAIN stdout'[q], NEW x, x = stdout'[q][i]
          PROVE  Fits(x)'
      <4>1. \E j \in DOMAIN stdout[q] : stdout'[q][i] = stdout[q][j]
        <5>1. CASE q = p
          <6>1. stdout'[q] = Tail(stdout[p])
            BY <1>0, <2>1, <5>1 DEF ProcessOK
          <6> QED
            BY <3>1, <5>1, <6>1, <2>1, <2>2, TailItem
        <5>2. CASE q # p
          BY <1>0, <2>1, <3>1, <5>2 DEF ProcessOK
        <5> QED
          BY <5>1, <5>2
      <4> QED
        BY <1>0, <2>1, <3>1, <4>1, <1>same DEF LinesFit, AllFit
    <3> QED
      BY <3>1 DEF AllFit
  <2>5. \A q \in Procs : AllFit(hand[q])'
    <3>1. \A q \in Procs : hand'[q] = hand[q] \/ hand'[q] = <<m>>
      BY <1>0, <2>1 DEF ProcessOK
    <3>2. \A q \in Procs : AllFit(hand[q])
      BY <1>0 DEF LinesFit
    <3> HIDE DEF m
    <3>3. AllFit(<<m>>)
      BY <2>3 DEF AllFit
    <3> QED
      BY <2>1, <3>1, <3>2, <3>3, <1>same DEF AllFit
  <2>6. \A q \in Procs : AllFit(stdin[q])'
    BY <1>0, <2>1, <1>same DEF LinesFit, AllFit
  <2> QED
    BY <1>0, <2>1, <2>4, <2>5, <2>6 DEF LinesFit, OwnAnswer, Token
<1>11. ASSUME NEW p \in Procs, Deliver(p) PROVE Kept
  <2> DEFINE m == Head(hand[p])
  <2>1. /\ UNCHANGED <<nextID, id, left, stdin, stdout>> /\ hand[p] # <<>>
        /\ hand' = [hand EXCEPT ![p] = <<>>]
        /\ chan' = [c \in Callers |-> IF id[c] = m.id THEN Append(chan[c], m) ELSE chan[c]]
    BY <1>11 DEF Deliver
  <2>2. LinesFit'
    <3>1. \A q \in Procs : hand'[q] = hand[q] \/ hand'[q] = <<>>
      BY <1>0, <2>1 DEF ProcessOK
    <3> QED
      BY <1>0, <2>1, <3>1, <1>same DEF LinesFit, AllFit
  <2>3. Fits(m) /\ m.id # 0
    <3>1. hand[p] \in Seq(Answers)
      BY <1>0 DEF ProcessOK
    <3>2. 1 \in DOMAIN hand[p] /\ m = hand[p][1]
      BY <2>1, <3>1, HeadItem
    <3>3. m.id \in 1..nextID
      BY <1>0, <2>1 DEF TakenOnce
    <3>4. Fits(m)
      BY <1>0, <3>2 DEF LinesFit, AllFit
    <3> QED
      BY <1>0, <3>3, <3>4 DEF ClientOK
  <2>4. ASSUME NEW c \in Callers, NEW i \in DOMAIN chan'[c]
        PROVE  chan'[c][i] \in Failures \/ chan'[c][i].req = Token(c)
    <3>1. chan[c] \in Seq(Answers \cup Failures)
      BY <1>0 DEF CallerOK
    <3>2. chan'[c] = chan[c] \/ (id[c] = m.id /\ chan'[c] = Append(chan[c], m))
      BY <2>1
    <3>3. \/ i \in DOMAIN chan[c] /\ chan'[c][i] = chan[c][i]
          \/ id[c] = m.id /\ chan'[c][i] = m
      BY <2>4, <3>1, <3>2, AppendItem
    <3> QED
      BY <1>0, <2>3, <3>3 DEF OwnAnswer, Fits
  <2> QED
    BY <2>1, <2>2, <2>4 DEF OwnAnswer, Token
<1>12. ASSUME NEW p \in Procs, Serve(p) PROVE Kept
  <2> DEFINE m == Head(stdin[p])
  <2>1. PICK k : stdout' = [stdout EXCEPT ![p] =
                              Append(@, [id |-> AnswerID(m), req |-> m.req, kind |-> k])]
    BY <1>12 DEF Serve
  <2> DEFINE r == [id |-> AnswerID(m), req |-> m.req, kind |-> k]
  <2>2. /\ UNCHANGED <<nextID, id, left, hand, chan>> /\ stdin[p] # <<>>
        /\ stdin' = [stdin EXCEPT ![p] = Tail(@)]
    BY <1>12 DEF Serve
  <2>3. \A q \in Procs : stdin[q] \in Seq(Requests) /\ stdout[q] \in Seq(Answers)
    BY <1>0 DEF ProcessOK
  <2>4. Fits(r)
    <3>1. 1 \in DOMAIN stdin[p] /\ m = stdin[p][1]
      BY <2>2, <2>3, HeadItem
    <3>2. Fits(m)
      BY <1>0, <3>1 DEF LinesFit, AllFit
    <3>3. r.id \in {0, m.id} /\ r.req = m.req
      BY DEF AnswerID
    <3>4. 0 \in 0..nextID
      BY <1>0 DEF ClientOK
    <3> HIDE DEF m, r
    <3> QED
      BY <3>2, <3>3, <3>4 DEF Fits
  <2>5. \A q \in Procs : AllFit(stdin[q])'
    <3>1. ASSUME NEW q \in Procs, NEW i \in DOMAIN stdin'[q], NEW x, x = stdin'[q][i]
          PROVE  Fits(x)'
      <4>1. \E j \in DOMAIN stdin[q] : stdin'[q][i] = stdin[q][j]
        <5>1. CASE q = p
          <6>1. stdin'[q] = Tail(stdin[p])
            BY <1>0, <2>2, <5>1 DEF ProcessOK
          <6> QED
            BY <3>1, <5>1, <6>1, <2>2, <2>3, TailItem
        <5>2. CASE q # p
          BY <1>0, <2>2, <3>1, <5>2 DEF ProcessOK
        <5> QED
          BY <5>1, <5>2
      <4> QED
        BY <1>0, <2>2, <3>1, <4>1, <1>same DEF LinesFit, AllFit
    <3> QED
      BY <3>1 DEF AllFit
  <2>6. \A q \in Procs : AllFit(stdout[q])'
    <3> HIDE DEF r
    <3>1. ASSUME NEW q \in Procs, NEW i \in DOMAIN stdout'[q], NEW x, x = stdout'[q][i]
          PROVE  Fits(x)'
      <4>1. stdout'[q] = stdout[q] \/ stdout'[q] = Append(stdout[q], r)
        BY <1>0, <2>1 DEF ProcessOK, r
      <4>2. (i \in DOMAIN stdout[q] /\ stdout'[q][i] = stdout[q][i]) \/ stdout'[q][i] = r
        BY <2>3, <3>1, <4>1, AppendItem
      <4>3. Fits(x)
        BY <1>0, <2>4, <3>1, <4>2 DEF LinesFit, AllFit
      <4> QED
        BY <2>2, <4>3, <1>same
    <3> QED
      BY <3>1 DEF AllFit
  <2>7. \A q \in Procs : AllFit(hand[q])'
    BY <1>0, <2>2, <1>same DEF LinesFit, AllFit
  <2> QED
    BY <1>0, <2>2, <2>5, <2>6, <2>7 DEF LinesFit, OwnAnswer, Token
<1>13. ASSUME NEW p \in Procs, ExitAtEOF(p) \/ Die(p) \/ Crash(p) PROVE Kept
  <2>1. UNCHANGED <<nextID, id, left, stdout, hand, chan>> /\ stdin' = [stdin EXCEPT ![p] = <<>>]
    BY <1>13 DEF ExitAtEOF, Die, Crash, Exit
  <2>2. \A q \in Procs : stdin'[q] = stdin[q] \/ stdin'[q] = <<>>
    BY <1>0, <2>1 DEF ProcessOK
  <2> QED
    BY <1>0, <2>1, <2>2, <1>same DEF LinesFit, AllFit, OwnAnswer, Token
<1>14. ASSUME UNCHANGED vars PROVE Kept
  BY <1>14, <1>calm DEF vars
<1> HIDE DEF Kept
<1>15. ASSUME NEW c \in Callers, CallStep(c) PROVE Kept
  BY <1>3, <1>4, <1>5, <1>6, <1>15 DEF CallStep
<1> QED
  BY <1>1, <1>2, <1>7, <1>8, <1>9, <1>10, <1>11, <1>12, <1>13, <1>14, <1>15, NextCases

(* A response reaches only the call it was made for (client.go:270): ids are *)
(* never reused, a large request is answered without one, and a call that    *)
(* returned gives its id up for good.                                        *)
THEOREM AnswersAreOwn == Spec => []OwnAnswer
<1>1. AnswerInv => OwnAnswer
  BY DEF AnswerInv
<1> QED
  BY AnswerInit, AnswerStep, <1>1, PTL DEF Spec

-----------------------------------------------------------------------------
(* Own failures.  A registered call belongs to the current process, or to    *)
(* one that failed or is being stopped, and stays abandoned.                 *)
Stops == StopPoints \ {"drop"}
StopsFor(d, p) == target[d] = p /\ op[d] = "start" /\ pc[d] \in Stops

PendingOwned ==
  \A c \in Callers : id[c] \in pending => target[c] = process \/ Abandoned(target[c])

FailureInv == ChannelInv /\ PendingOwned /\ FailureIsOwn

LEMMA FailureInit == Init => FailureInv
BY ChannelInit DEF Init, FailureInv, PendingOwned, FailureIsOwn

(* Stopping ends with the failure of the process, and once.Do is for ever. *)
LEMMA AbandonedStays ==
  ASSUME TypeInv, [Next]_vars, NEW p \in Procs, Abandoned(p)
  PROVE  Abandoned(p)'
<1> USE DEF clientVars, callerVars, processVars
<1>0. PointsOK /\ CallerOK /\ ProcessOK /\ Equipped
  BY TypeParts DEF TypeInv
<1> DEFINE DoneStays == \A q \in Procs : DoneClosed(q) => DoneClosed(q)'
           StopStays == \A d \in Callers : StopsFor(d, p) => StopsFor(d, p)' \/ DoneClosed(p)'
           Kept == DoneStays /\ StopStays
<1> SUFFICES Kept
  BY DEF Abandoned, StopsFor, Stops
<1>same. ASSUME once' = once PROVE DoneStays
  BY <1>same DEF DoneClosed
<1>own. ASSUME NEW c \in Callers, pc[c] \notin Stops, NEW q, pc' = [pc EXCEPT ![c] = q],
               \A d \in Callers : d # c => target'[d] = target[d] /\ op'[d] = op[d]
        PROVE  StopStays
  BY <1>0, <1>own, Distinct DEF PointsOK, StopsFor
<1>stay. ASSUME UNCHANGED <<target, op>>, \A d \in Callers : pc'[d] = pc[d] PROVE StopStays
  BY <1>stay DEF StopsFor
<1>leave. ASSUME NEW c \in Callers, Returns(c) PROVE Kept
  <2>1. pc[c] \notin Stops
    BY <1>leave DEF Returns, CallPoints, Stops, StopPoints
  <2>2. \A d \in Callers : d # c => target'[d] = target[d] /\ op'[d] = op[d]
    BY <1>0, <1>leave DEF Returns, Leave, CallerOK
  <2>3. once' = once /\ \E q : pc' = [pc EXCEPT ![c] = q]
    BY <1>leave DEF Returns, Leave, Goto
  <2> QED
    BY <2>1, <2>2, <2>3, <1>own, <1>same
<1>1. ASSUME NEW c \in Callers,
             \/ Begin(c) \/ Close(c) \/ EnsureCurrent(c) \/ EnsureLaunch(c)
             \/ (EnsureFails(c) /\ pc[c] = "startEnsure")
             \/ AllocateID(c) \/ Register(c) \/ LockWrite(c) \/ Write(c) \/ WriteFails(c)
             \/ Unpend(c) \/ CtxDone(c) \/ StopProcess(c)
      PROVE  Kept
  <2>1. pc[c] \notin Stops
    BY <1>1 DEF Begin, Close, EnsureCurrent, EnsureLaunch, EnsureFails, AllocateID, Register,
       LockWrite, Write, WriteFails, Unpend, CtxDone, StopProcess, Stops, StopPoints
  <2>2. once' = once /\ \E q : pc' = [pc EXCEPT ![c] = q]
    BY <1>1 DEF Begin, Close, EnsureCurrent, EnsureLaunch, EnsureFails, AllocateID, Register,
       LockWrite, Write, WriteFails, Unpend, CtxDone, StopProcess, Goto
  <2>3. \A d \in Callers : d # c => target'[d] = target[d] /\ op'[d] = op[d]
    BY <1>0, <1>1 DEF Begin, Close, EnsureCurrent, EnsureLaunch, EnsureFails, AllocateID, Register,
       LockWrite, Write, WriteFails, Unpend, CtxDone, StopProcess, CallerOK
  <2> QED
    BY <2>1, <2>2, <2>3, <1>own, <1>same
<1>2. ASSUME NEW c \in Callers, \/ (EnsureFails(c) /\ pc[c] # "startEnsure")
                                \/ RegisterFails(c) \/ ReturnFailed(c) \/ Receive(c) \/ Unwait(c)
      PROVE  Kept
  BY <1>2, <1>leave, CallsReturn
<1>3. ASSUME NEW c \in Callers, Cancel(c) PROVE Kept
  BY <1>3, <1>stay, <1>same DEF Cancel
<1>4. ASSUME NEW c \in Callers, StopStdin(c) \/ StopTimer(c) PROVE Kept
  <2>1. UNCHANGED <<target, op, once>>
    BY <1>4 DEF StopStdin, StopTimer
  <2>2. \A d \in Callers : pc[d] \in Stops => pc'[d] \in Stops
    BY <1>0, <1>4, Distinct DEF StopStdin, StopTimer, Goto, Stops, StopPoints, PointsOK
  <2> QED
    BY <2>1, <2>2, <1>same DEF StopsFor
<1>5. ASSUME NEW c \in Callers, StopDone(c) PROVE Kept
  <2>1. DoneClosed(target[c]) /\ once' = once
    BY <1>5 DEF StopDone
  <2>2. \A d \in Callers : d # c => target'[d] = target[d] /\ op'[d] = op[d] /\ pc'[d] = pc[d]
    BY <1>0, <1>5, Distinct DEF StopDone, Goto, CallerOK, PointsOK
  <2> QED
    BY <2>1, <2>2, <1>same DEF StopsFor, DoneClosed
<1>6. ASSUME NEW t \in Threads, FailFirst(t) \/ FailAgain(t) \/ FailLocked(t) PROVE Kept
  <2>1. Target(t) \in Procs
    BY <1>6, FailTarget DEF FailFirst, FailAgain, FailLocked
  <2>2. DoneStays
    BY <1>0, <1>6, <2>1 DEF FailFirst, FailAgain, FailLocked, DoneClosed, ProcessOK
  <2>3. UNCHANGED <<target, op>>
    BY <1>6 DEF FailFirst, FailAgain, FailLocked
  <2>4. pc[t] \notin Stops /\ \E q : pc' = [pc EXCEPT ![t] = q]
    BY <1>6 DEF FailFirst, FailAgain, FailLocked, Goto, Stops, StopPoints
  <2>5. StopStays
    BY <1>0, <2>3, <2>4, Distinct DEF StopsFor, PointsOK
  <2> QED
    BY <2>2, <2>5
<1>7. ASSUME NEW q \in Procs, \/ ReadResponse(q) \/ Deliver(q) \/ ReadError(q) \/ ReadEOF(q)
                              \/ WaitReturns(q)
      PROVE  Kept
  <2>1. UNCHANGED <<target, op, once>>
    BY <1>7 DEF ReadResponse, Deliver, ReadError, ReadEOF, WaitReturns
  <2>2. \A d \in Callers : pc'[d] = pc[d]
    BY <1>0, <1>7, Goroutines, Distinct
    DEF ReadResponse, Deliver, ReadError, ReadEOF, WaitReturns, Goto, PointsOK
  <2> QED
    BY <2>1, <2>2, <1>stay, <1>same
<1>8. ASSUME NEW q \in Procs, Serve(q) \/ ExitAtEOF(q) \/ Die(q) \/ Crash(q) PROVE Kept
  BY <1>8, <1>stay, <1>same DEF Serve, ExitAtEOF, Die, Crash, Exit
<1>9. ASSUME UNCHANGED vars PROVE Kept
  BY <1>9, <1>stay, <1>same DEF vars
<1> HIDE DEF Kept
<1>10. ASSUME NEW c \in Callers, CallStep(c) \/ StopStep(c) PROVE Kept
  BY <1>1, <1>2, <1>4, <1>5, <1>10 DEF CallStep, StopStep
<1> QED
  BY <1>1, <1>3, <1>6, <1>7, <1>8, <1>9, <1>10, NextCases

LEMMA FailureStep == FailureInv /\ [Next]_vars => FailureInv'
<1> SUFFICES ASSUME FailureInv, [Next]_vars PROVE FailureInv'
  OBVIOUS
<1> USE DEF clientVars, callerVars, processVars
<1>0. /\ ChannelInv /\ TypeInv /\ PointsOK /\ ClientOK /\ CallerOK /\ ProcessOK /\ Equipped
      /\ IdsUnique /\ TakenOnce /\ FreshChannels /\ RoomToSend /\ PendingOwned /\ FailureIsOwn
  BY TypeParts DEF FailureInv, ChannelInv, TypeInv
<1>c. ChannelInv'
  BY ChannelStep DEF FailureInv
<1>a. \A p \in Procs : Abandoned(p) => Abandoned(p)'
  BY <1>0, AbandonedStays
<1> DEFINE Kept == PendingOwned' /\ FailureIsOwn'
<1> SUFFICES Kept
  BY <1>c DEF FailureInv
<1>own. \A c \in Callers : id[c] # 0 => pc[c] \in IdPoints /\ target[c] \in Procs
  BY <1>0 DEF IdsUnique, Equipped, TargetPoints
<1>chan. \A c \in Callers : \A i \in DOMAIN chan[c] : id[c] # 0
  BY <1>0 DEF FreshChannels
<1>some. 0 \notin pending
  BY <1>0 DEF ClientOK
<1>calm. ASSUME UNCHANGED <<process, chan, id>>, pending' \subseteq pending,
                \A d \in Callers : id[d] # 0 => target'[d] = target[d]
         PROVE  Kept
  <2>1. ASSUME NEW d \in Callers, id[d] \in pending, NEW q, q = target[d]
        PROVE  target'[d] = q /\ (q = process \/ Abandoned(q)')
    BY <1>0, <1>a, <1>own, <1>some, <1>calm, <2>1 DEF PendingOwned
  <2>2. ASSUME NEW d \in Callers, NEW i \in DOMAIN chan[d], chan[d][i] = [kind |-> "failed"],
               NEW q, q = target[d]
        PROVE  target'[d] = q /\ Abandoned(q)'
    BY <1>0, <1>a, <1>own, <1>chan, <1>calm, <2>2 DEF FailureIsOwn
  <2> QED
    BY <1>calm, <2>1, <2>2 DEF PendingOwned, FailureIsOwn
<1>leave. ASSUME NEW c \in Callers, Returns(c) PROVE Kept
  <2>1. /\ target' = [target EXCEPT ![c] = None] /\ id' = [id EXCEPT ![c] = 0]
        /\ chan' = [chan EXCEPT ![c] = <<>>]
        /\ process' = process /\ pending' \subseteq pending
    BY <1>leave DEF Returns, Leave
  <2>2. /\ id'[c] = 0 /\ chan'[c] = <<>>
        /\ \A d \in Callers : d # c => id'[d] = id[d] /\ chan'[d] = chan[d] /\ target'[d] = target[d]
    BY <1>0, <2>1 DEF CallerOK
  <2>3. ASSUME NEW d \in Callers, id'[d] \in pending', NEW q, q = target[d]
        PROVE  target'[d] = q /\ (q = process \/ Abandoned(q)')
    BY <1>0, <1>a, <1>own, <1>some, <2>1, <2>2, <2>3 DEF PendingOwned
  <2>4. ASSUME NEW d \in Callers, NEW i \in DOMAIN chan'[d], chan'[d][i] = [kind |-> "failed"],
               NEW q, q = target[d]
        PROVE  target'[d] = q /\ Abandoned(q)'
    BY <1>0, <1>a, <1>own, <1>chan, <2>2, <2>4 DEF FailureIsOwn
  <2> QED
    BY <2>1, <2>3, <2>4 DEF PendingOwned, FailureIsOwn
<1>1. ASSUME NEW c \in Callers,
             \/ Begin(c) \/ Cancel(c) \/ EnsureCurrent(c)
             \/ (EnsureFails(c) /\ pc[c] = "startEnsure")
             \/ LockWrite(c) \/ Write(c) \/ WriteFails(c) \/ Unpend(c) \/ CtxDone(c)
             \/ StopStdin(c) \/ StopTimer(c) \/ StopDone(c)
      PROVE  Kept
  <2>1. UNCHANGED <<process, chan, id>> /\ pending' \subseteq pending
    BY <1>1 DEF Begin, Cancel, EnsureCurrent, EnsureFails, LockWrite, Write, WriteFails, Unpend,
       Unregister, CtxDone, StopStdin, StopTimer, StopDone
  <2>2. target' = target \/ (id[c] = 0 /\ \A d \in Callers : d # c => target'[d] = target[d])
    BY <1>0, <1>1, <1>own DEF Begin, Cancel, EnsureCurrent, EnsureFails, LockWrite, Write,
       WriteFails, Unpend, CtxDone, StopStdin, StopTimer, StopDone, IdPoints, CallPoints, CallerOK
  <2> QED
    BY <2>1, <2>2, <1>calm
<1>2. ASSUME NEW c \in Callers, \/ (EnsureFails(c) /\ pc[c] # "startEnsure")
                                \/ RegisterFails(c) \/ ReturnFailed(c) \/ Receive(c) \/ Unwait(c)
      PROVE  Kept
  BY <1>0, <1>2, <1>leave, CallsReturn
<1>3. ASSUME NEW c \in Callers, EnsureLaunch(c) \/ StopProcess(c) PROVE Kept
  <2>1. UNCHANGED <<pending, chan, id>> /\ id[c] = 0
    BY <1>0, <1>3, <1>own DEF EnsureLaunch, StopProcess, IdPoints, CallPoints
  <2>2. \A d \in Callers : id[d] # 0 => target'[d] = target[d]
    BY <1>0, <1>3, <2>1 DEF EnsureLaunch, StopProcess, CallerOK
  <2>3. ASSUME NEW q, q = process, q # None PROVE StopsFor(c, q)'
    BY <1>0, <1>3, <2>3, Distinct
    DEF EnsureLaunch, MayLaunch, StopProcess, AfterDrop, Goto, StopsFor, Stops, StopPoints,
        PointsOK, CallerOK
  <2>4. ASSUME NEW q, q = process, q # None PROVE Abandoned(q)'
    BY <2>3, <2>4 DEF Abandoned, StopsFor, Stops
  <2>5. ASSUME NEW d \in Callers, id[d] \in pending, NEW q, q = target[d]
        PROVE  target'[d] = q /\ Abandoned(q)'
    BY <1>0, <1>a, <1>own, <1>some, <2>2, <2>4, <2>5 DEF PendingOwned, Procs, None
  <2>6. ASSUME NEW d \in Callers, NEW i \in DOMAIN chan[d], chan[d][i] = [kind |-> "failed"],
               NEW q, q = target[d]
        PROVE  target'[d] = q /\ Abandoned(q)'
    BY <1>0, <1>a, <1>own, <1>chan, <2>2, <2>6 DEF FailureIsOwn
  <2> QED
    BY <2>1, <2>5, <2>6 DEF PendingOwned, FailureIsOwn
<1>4. ASSUME NEW c \in Callers, AllocateID(c) PROVE Kept
  <2>1. UNCHANGED <<process, pending, chan, target>> /\ nextID \in Nat
        /\ id' = [id EXCEPT ![c] = nextID + 1]
    BY <1>0, <1>4 DEF AllocateID, NewID, ClientOK
  <2>2. \A d \in Callers : id'[d] \in pending => id'[d] = id[d]
    BY <1>0, <2>1 DEF IdsUnique, CallerOK
  <2>3. ASSUME NEW d \in Callers, id'[d] \in pending, NEW q, q = target[d]
        PROVE  q = process \/ Abandoned(q)'
    BY <1>0, <1>a, <1>own, <1>some, <2>2, <2>3 DEF PendingOwned
  <2>4. ASSUME NEW d \in Callers, NEW i \in DOMAIN chan[d], chan[d][i] = [kind |-> "failed"],
               NEW q, q = target[d]
        PROVE  Abandoned(q)'
    BY <1>0, <1>a, <1>own, <1>chan, <2>4 DEF FailureIsOwn
  <2> QED
    BY <2>1, <2>3, <2>4 DEF PendingOwned, FailureIsOwn
<1>5. ASSUME NEW c \in Callers, Register(c) PROVE Kept
  <2>1. /\ UNCHANGED <<process, id, chan, target>> /\ pending' = pending \cup {id[c]}
        /\ target[c] = process /\ id[c] # 0
    BY <1>0, <1>5 DEF Register, MayRegister, Equipped, IdPoints, CallPoints
  <2>2. ASSUME NEW d \in Callers, id[d] \in pending', NEW q, q = target[d]
        PROVE  q = process \/ Abandoned(q)'
    BY <1>0, <1>a, <1>own, <1>some, <2>1, <2>2 DEF PendingOwned, IdsUnique
  <2>3. ASSUME NEW d \in Callers, NEW i \in DOMAIN chan[d], chan[d][i] = [kind |-> "failed"],
               NEW q, q = target[d]
        PROVE  Abandoned(q)'
    BY <1>0, <1>a, <1>own, <1>chan, <2>3 DEF FailureIsOwn
  <2> QED
    BY <2>1, <2>2, <2>3 DEF PendingOwned, FailureIsOwn
<1>fail. ASSUME NEW kind \in {"failed", "closed"}, FailPending(kind), UNCHANGED id,
                \A d \in Callers : id[d] # 0 => target'[d] = target[d],
                \A d \in Callers : \A q : id[d] \in pending /\ q = target[d] /\ kind = "failed"
                                       => Abandoned(q)'
         PROVE  Kept
  <2>1. ASSUME NEW d \in Callers, NEW i \in DOMAIN chan'[d], chan'[d][i] = [kind |-> "failed"],
               NEW q, q = target[d]
        PROVE  target'[d] = q /\ Abandoned(q)'
    <3>1. CASE i \in DOMAIN chan[d] /\ chan[d][i] = [kind |-> "failed"]
      BY <1>0, <1>a, <1>own, <1>chan, <1>fail, <2>1, <3>1 DEF FailureIsOwn
    <3>2. CASE id[d] \in pending /\ kind = "failed"
      BY <1>some, <1>fail, <2>1, <3>2
    <3>3. chan[d] \in Seq(Answers \cup Failures)
      BY <1>0 DEF CallerOK
    <3>4. chan'[d] = chan[d] \/ (id[d] \in pending /\ chan'[d] = Append(chan[d], [kind |-> kind]))
      BY <1>fail DEF FailPending
    <3>5. chan'[d][i] = [kind |-> kind] => kind = "failed"
      <4>1. [kind |-> kind].kind = kind /\ [kind |-> "failed"].kind = "failed"
        OBVIOUS
      <4> QED
        BY <2>1, <4>1
    <3> QED
      BY <2>1, <3>1, <3>2, <3>3, <3>4, <3>5, AppendItem
  <2>2. pending' = {}
    BY <1>fail DEF FailPending
  <2> QED
    BY <2>1, <2>2 DEF PendingOwned, FailureIsOwn
<1>6. ASSUME NEW c \in Callers, Close(c) PROVE Kept
  <2>1. FailPending("closed") /\ UNCHANGED id /\ id[c] = 0
    BY <1>0, <1>6, <1>own DEF Close, IdPoints, CallPoints
  <2>2. \A d \in Callers : id[d] # 0 => target'[d] = target[d]
    BY <1>0, <1>6, <2>1 DEF Close, CallerOK
  <2> QED
    BY <2>1, <2>2, <1>fail
<1>7. ASSUME NEW t \in Threads, FailLocked(t) PROVE Kept
  <2>1. Target(t) \in Procs /\ UNCHANGED <<id, target>>
    BY <1>0, <1>7, FailTarget DEF FailLocked
  <2>2. CASE process = Target(t)
    <3>1. FailPending("failed")
      BY <1>7, <2>2 DEF FailLocked, Current
    <3>2. once' = [once EXCEPT ![Target(t)] = "complete"]
      BY <1>7 DEF FailLocked
    <3>3. ASSUME NEW q, q = process PROVE Abandoned(q)'
      BY <1>0, <2>1, <2>2, <3>2, <3>3 DEF Abandoned, DoneClosed, ProcessOK
    <3>4. ASSUME NEW d \in Callers, NEW q, id[d] \in pending, q = target[d] PROVE Abandoned(q)'
      BY <1>0, <1>a, <1>own, <1>some, <3>3, <3>4 DEF PendingOwned
    <3> QED
      BY <2>1, <3>1, <3>4, <1>fail
  <2>3. CASE process # Target(t)
    BY <1>7, <2>1, <2>3, <1>calm DEF FailLocked, Current
  <2> QED
    BY <2>2, <2>3
<1>8. ASSUME NEW t \in Threads, FailFirst(t) \/ FailAgain(t) PROVE Kept
  BY <1>8, <1>calm DEF FailFirst, FailAgain
<1>9. ASSUME NEW p \in Procs, ReadResponse(p) \/ ReadError(p) \/ ReadEOF(p) \/ WaitReturns(p)
      PROVE  Kept
  <2>1. UNCHANGED <<process, chan, id, target>> /\ pending' \subseteq pending
    BY <1>9 DEF ReadResponse, Unregister, ReadError, ReadEOF, WaitReturns
  <2> QED
    BY <2>1, <1>calm
<1>10. ASSUME NEW p \in Procs, Deliver(p) PROVE Kept
  <2> DEFINE m == Head(hand[p])
  <2>1. /\ UNCHANGED <<process, pending, id, target>> /\ hand[p] # <<>>
        /\ chan' = [c \in Callers |-> IF id[c] = m.id THEN Append(chan[c], m) ELSE chan[c]]
    BY <1>10 DEF Deliver
  <2>2. m # [kind |-> "failed"]
    <3>1. hand[p] \in Seq(Answers)
      BY <1>0 DEF ProcessOK
    <3>2. m \in Answers
      BY <2>1, <3>1, HeadItem
    <3>3. m.kind # "failed"
      BY <3>2 DEF Answers
    <3>4. [kind |-> "failed"].kind = "failed"
      OBVIOUS
    <3> QED
      BY <3>3, <3>4
  <2>3. ASSUME NEW d \in Callers, NEW i \in DOMAIN chan'[d], chan'[d][i] = [kind |-> "failed"],
               NEW q, q = target[d]
        PROVE  Abandoned(q)'
    <3>1. chan[d] \in Seq(Answers \cup Failures)
      BY <1>0 DEF CallerOK
    <3>2. chan'[d] = chan[d] \/ chan'[d] = Append(chan[d], m)
      BY <2>1
    <3>3. i \in DOMAIN chan[d] /\ chan[d][i] = [kind |-> "failed"]
      BY <2>2, <2>3, <3>1, <3>2, AppendItem
    <3> QED
      BY <1>0, <1>a, <1>own, <1>chan, <2>3, <3>3 DEF FailureIsOwn
  <2>4. ASSUME NEW d \in Callers, id[d] \in pending, NEW q, q = target[d]
        PROVE  q = process \/ Abandoned(q)'
    BY <1>0, <1>a, <1>own, <1>some, <2>4 DEF PendingOwned
  <2> QED
    BY <2>1, <2>3, <2>4 DEF PendingOwned, FailureIsOwn
<1>11. ASSUME NEW p \in Procs, Serve(p) \/ ExitAtEOF(p) \/ Die(p) \/ Crash(p) PROVE Kept
  BY <1>11, <1>calm DEF Serve, ExitAtEOF, Die, Crash, Exit
<1>12. ASSUME UNCHANGED vars PROVE Kept
  BY <1>12, <1>calm DEF vars
<1> HIDE DEF Kept
<1>13. ASSUME NEW c \in Callers, CallStep(c) \/ StopStep(c) PROVE Kept
  BY <1>1, <1>2, <1>3, <1>4, <1>5, <1>13 DEF CallStep, StopStep
<1> QED
  BY <1>1, <1>6, <1>7, <1>8, <1>9, <1>10, <1>11, <1>12, <1>13, NextCases

(* A call is failed only when its process failed or is being stopped by the  *)
(* Start that dropped it: a waiter of an old process that comes late fails   *)
(* no call of the current one (client.go:293).                               *)
THEOREM FailuresAreOwn == Spec => []FailureIsOwn
<1>1. FailureInv => FailureIsOwn
  BY DEF FailureInv
<1> QED
  BY FailureInit, FailureStep, <1>1, PTL DEF Spec

-----------------------------------------------------------------------------
(* Calls that hear.  Without a failing Start and without a request over      *)
(* 1 MiB a registered call stays with the current process until somebody     *)
(* takes its id, who then sends to its channel.                              *)
Waiting == {"lockWrite", "write", "wait"}

NobodyStarts == \A c \in Callers : "start" \notin Ops[c]

NoStart == \A c \in Callers : pc[c] \notin {"startEnsure", "drop"} /\ op[c] # "start"
SmallOnly == \A p \in Procs : \A i \in DOMAIN stdin[p] : stdin[p][i].size = "small"
FreshProcs == \A p \in Procs : p > launched => status[p] = "none"

Registered ==
  \A c \in Callers : pc[c] \in Waiting /\ chan[c] = <<>> =>
    \/ \E p \in Procs : Taken(p, id[c])
    \/ id[c] \in pending /\ process = target[c]
UnderWay ==
  \A c \in Callers : pc[c] = "wait" /\ chan[c] = <<>> =>
    (\E p \in Procs : Taken(p, id[c])) \/ OnTheWay(c, target[c])

PlainInv == ChannelInv /\ NoStart /\ SmallOnly /\ FreshProcs
HeardInv == PlainInv /\ Registered /\ UnderWay

LEMMA HeardInit == Init => HeardInv
<1> SUFFICES ASSUME Init PROVE HeardInv
  OBVIOUS
<1>1. ChannelInv
  BY ChannelInit
<1>2. NoStart
  BY Distinct DEF Init, NoStart
<1>5. SmallOnly
  <2>1. \A p \in Procs : stdin[p] = <<>>
    BY DEF Init
  <2> QED
    BY <2>1 DEF SmallOnly
<1>4. FreshProcs
  BY DEF Init, FreshProcs
<1>3. Registered /\ UnderWay
  BY Distinct DEF Init, Registered, UnderWay, Waiting
<1> QED
  BY <1>1, <1>2, <1>3, <1>4, <1>5 DEF HeardInv, PlainInv

LEMMA NoStartStep ==
  ASSUME NobodyStarts, TypeInv, NoStart, [Next]_vars
  PROVE  NoStart'
<1> USE DEF clientVars, callerVars, processVars
<1>0. PointsOK /\ CallerOK /\ ProcessOK /\ Equipped /\ NoStart
  BY TypeParts DEF TypeInv
<1>1. ASSUME NEW c \in Callers, Begin(c) \/ Close(c) \/ Cancel(c) \/ CallStep(c) \/ StopStep(c)
      PROVE  NoStart'
  <2>1. CASE Begin(c) \/ Close(c) \/ Cancel(c)
    BY <1>0, <2>1, Distinct, ConfigAssumption
    DEF NobodyStarts, Begin, Close, Cancel, AfterDrop, Goto, NoStart, PointsOK, CallerOK
  <2>2. CASE \/ EnsureCurrent(c) \/ EnsureLaunch(c) \/ AllocateID(c) \/ Register(c)
             \/ LockWrite(c) \/ Write(c) \/ WriteFails(c) \/ Unpend(c) \/ CtxDone(c)
    BY <1>0, <2>2, Distinct
    DEF EnsureCurrent, AfterEnsure, EnsureLaunch, AllocateID, Register, LockWrite, Write,
        WriteFails, Unpend, CtxDone, Goto, NoStart, PointsOK, CallerOK
  <2>3. CASE \/ EnsureFails(c) \/ RegisterFails(c) \/ ReturnFailed(c) \/ Receive(c)
             \/ Unwait(c)
    <3>1. ReturnError(c) \/ ReturnResult(c)
      BY <1>0, <2>3 DEF EnsureFails, RegisterFails, ReturnFailed, Receive, Unwait, NoStart
    <3> QED
      BY <1>0, <3>1, Distinct
      DEF ReturnError, ReturnResult, Leave, Goto, NoStart, PointsOK, CallerOK
  <2>4. CASE StopStep(c)
    BY <1>0, <2>4, Distinct
    DEF StopStep, StopProcess, StopStdin, StopTimer, StopDone, Goto, NoStart, PointsOK, CallerOK
  <2> QED
    BY <1>1, <2>1, <2>2, <2>3, <2>4 DEF CallStep
<1>2. ASSUME NEW t \in Threads, FailFirst(t) \/ FailAgain(t) \/ FailLocked(t) PROVE NoStart'
  BY <1>0, <1>2, Distinct
  DEF NoStart, PointsOK, Goto, FailFirst, FailAgain, FailLocked, AfterFail
<1>3. ASSUME NEW p \in Procs, \/ ReadResponse(p) \/ Deliver(p) \/ ReadError(p) \/ ReadEOF(p)
                              \/ WaitReturns(p)
      PROVE  NoStart'
  BY <1>0, <1>3, Distinct, Goroutines
  DEF NoStart, PointsOK, Goto, ReadResponse, Deliver, ReadError, ReadEOF, WaitReturns
<1>4. ASSUME NEW p \in Procs, Serve(p) \/ ExitAtEOF(p) \/ Die(p) \/ Crash(p) PROVE NoStart'
  BY <1>0, <1>4 DEF NoStart, Serve, ExitAtEOF, Die, Crash, Exit
<1>5. UNCHANGED vars => NoStart'
  BY <1>0 DEF NoStart, vars
<1> QED
  BY <1>1, <1>2, <1>3, <1>4, <1>5, NextCases

LEMMA FreshStep == TypeInv /\ FreshProcs /\ [Next]_vars => FreshProcs'
<1> SUFFICES ASSUME TypeInv, FreshProcs, [Next]_vars PROVE FreshProcs'
  OBVIOUS
<1> USE DEF clientVars, callerVars, processVars
<1>0. ProcessOK /\ FreshProcs
  BY TypeParts DEF TypeInv
<1>1. ASSUME NEW c \in Callers, Begin(c) \/ Close(c) \/ Cancel(c) \/ CallStep(c) \/ StopStep(c)
      PROVE  UNCHANGED <<launched, status>> \/ EnsureLaunch(c)
  BY <1>1
  DEF Begin, Close, Cancel, CallStep, StopStep, EnsureCurrent, EnsureFails, AllocateID, Register,
      RegisterFails, LockWrite, Write, WriteFails, Unpend, ReturnFailed, Receive, CtxDone, Unwait,
      StopProcess, StopStdin, StopTimer, StopDone
<1>2. ASSUME NEW c \in Callers, EnsureLaunch(c) PROVE FreshProcs'
  BY <1>0, <1>2 DEF EnsureLaunch, FreshProcs, ProcessOK, Procs
<1>3. ASSUME NEW p \in Procs, Serve(p) \/ ExitAtEOF(p) \/ Die(p) \/ Crash(p) PROVE FreshProcs'
  BY <1>0, <1>3 DEF Serve, ExitAtEOF, Die, Crash, Exit, FreshProcs, ProcessOK
<1>4. ASSUME NEW t \in Threads, FailFirst(t) \/ FailAgain(t) \/ FailLocked(t)
      PROVE  UNCHANGED <<launched, status>>
  BY <1>4 DEF FailFirst, FailAgain, FailLocked
<1>5. ASSUME NEW p \in Procs, \/ ReadResponse(p) \/ Deliver(p) \/ ReadError(p) \/ ReadEOF(p)
                              \/ WaitReturns(p)
      PROVE  UNCHANGED <<launched, status>>
  BY <1>5 DEF ReadResponse, Deliver, ReadError, ReadEOF, WaitReturns
<1>6. UNCHANGED <<launched, status>> => FreshProcs'
  BY <1>0 DEF FreshProcs
<1>7. UNCHANGED vars => UNCHANGED <<launched, status>>
  BY DEF vars
<1> QED
  BY <1>1, <1>2, <1>3, <1>4, <1>5, <1>6, <1>7, NextCases

LEMMA PlainStep ==
  ASSUME NobodyStarts, "large" \notin Sizes, PlainInv, [Next]_vars
  PROVE  PlainInv'
<1> USE DEF clientVars, callerVars, processVars
<1>0. /\ ChannelInv /\ TypeInv /\ PointsOK /\ CallerOK /\ ProcessOK /\ Equipped
      /\ NoStart /\ SmallOnly /\ FreshProcs
  BY TypeParts DEF PlainInv, ChannelInv, TypeInv
<1>1. NoStart'
  BY <1>0, NoStartStep
<1>2. SmallOnly'
  <2>1. ASSUME UNCHANGED stdin PROVE SmallOnly'
    BY <1>0, <2>1 DEF SmallOnly
  <2>2. ASSUME NEW c \in Callers, Write(c) PROVE SmallOnly'
    <3>1. PICK s \in Sizes : stdin' = [stdin EXCEPT ![target[c]] =
                                         Append(@, [id |-> id[c], req |-> Token(c), size |-> s])]
      BY <2>2 DEF Write
    <3> DEFINE m == [id |-> id[c], req |-> Token(c), size |-> s]
    <3>2. m.size = "small"
      BY ConfigAssumption
    <3> HIDE DEF m
    <3>3. ASSUME NEW p \in Procs, NEW i \in DOMAIN stdin'[p] PROVE stdin'[p][i].size = "small"
      <4>1. stdin'[p] = stdin[p] \/ stdin'[p] = Append(stdin[p], m)
        BY <1>0, <3>1 DEF ProcessOK, m
      <4>2. stdin[p] \in Seq(Requests)
        BY <1>0 DEF ProcessOK
      <4> QED
        BY <1>0, <3>2, <3>3, <4>1, <4>2, AppendItem DEF SmallOnly
    <3> QED
      BY <3>3 DEF SmallOnly
  <2>3. ASSUME NEW q \in Procs, Serve(q) \/ ExitAtEOF(q) \/ Die(q) \/ Crash(q) PROVE SmallOnly'
    <3>1. ASSUME NEW p \in Procs, NEW i \in DOMAIN stdin'[p] PROVE stdin'[p][i].size = "small"
      <4>1. \/ stdin'[p] = stdin[p] \/ stdin'[p] = <<>>
            \/ stdin'[p] = Tail(stdin[p]) /\ stdin[p] # <<>>
        BY <1>0, <2>3 DEF Serve, ExitAtEOF, Die, Crash, Exit, ProcessOK
      <4>2. stdin[p] \in Seq(Requests)
        BY <1>0 DEF ProcessOK
      <4>3. stdin'[p] = Tail(stdin[p]) /\ stdin[p] # <<>> =>
              \E j \in DOMAIN stdin[p] : stdin'[p][i] = stdin[p][j]
        BY <3>1, <4>2, TailItem
      <4>4. \E j \in DOMAIN stdin[p] : stdin'[p][i] = stdin[p][j]
        BY <3>1, <4>1, <4>3
      <4> QED
        BY <1>0, <4>4 DEF SmallOnly
    <3> QED
      BY <3>1 DEF SmallOnly
  <2>4. ASSUME NEW c \in Callers, Begin(c) \/ Close(c) \/ Cancel(c) \/ CallStep(c) \/ StopStep(c)
        PROVE  UNCHANGED stdin \/ Write(c)
    BY <2>4
    DEF Begin, Close, Cancel, CallStep, StopStep, EnsureCurrent, EnsureLaunch, EnsureFails,
        AllocateID, Register, RegisterFails, LockWrite, WriteFails, Unpend, ReturnFailed, Receive,
        CtxDone, Unwait, StopProcess, StopStdin, StopTimer, StopDone
  <2>5. ASSUME NEW t \in Threads, FailFirst(t) \/ FailAgain(t) \/ FailLocked(t)
        PROVE  UNCHANGED stdin
    BY <2>5 DEF FailFirst, FailAgain, FailLocked
  <2>6. ASSUME NEW p \in Procs, \/ ReadResponse(p) \/ Deliver(p) \/ ReadError(p) \/ ReadEOF(p)
                                \/ WaitReturns(p)
        PROVE  UNCHANGED stdin
    BY <2>6 DEF ReadResponse, Deliver, ReadError, ReadEOF, WaitReturns
  <2>7. UNCHANGED vars => UNCHANGED stdin
    BY DEF vars
  <2> QED
    BY <2>1, <2>2, <2>3, <2>4, <2>5, <2>6, <2>7, NextCases
<1>3. FreshProcs'
  BY <1>0, FreshStep
<1> QED
  BY <1>0, <1>1, <1>2, <1>3, ChannelStep DEF PlainInv

(* A call that waits was waiting before, or has just got so far. *)
LEMMA WaitingStays ==
  ASSUME ChannelInv, [Next]_vars, NEW c \in Callers, pc'[c] \in Waiting
  PROVE  /\ pc'[c] = pc[c] \/ Register(c) \/ LockWrite(c) \/ Write(c)
         /\ id[c] # 0 /\ id'[c] = id[c]
         /\ target[c] \in Procs /\ target'[c] = target[c]
         /\ chan'[c] = <<>> => chan[c] = <<>>
<1> USE DEF clientVars, callerVars, processVars
<1>0. PointsOK /\ ClientOK /\ CallerOK /\ ProcessOK /\ Equipped /\ IdsUnique
  BY TypeParts DEF ChannelInv, TypeInv
<1> DEFINE From == pc'[c] = pc[c] \/ Register(c) \/ LockWrite(c) \/ Write(c)
           Same == id'[c] = id[c] /\ target'[c] = target[c]
           Grows == \E m : chan'[c] = chan[c] \/ chan'[c] = Append(chan[c], m)
<1> SUFFICES From /\ Same /\ Grows
  <2>1. ASSUME From, Same, Grows
        PROVE  id[c] # 0 /\ target[c] \in Procs /\ (chan'[c] = <<>> => chan[c] = <<>>)
    <3>1. pc[c] \in IdPoints
      BY <2>1 DEF Register, LockWrite, Write, Waiting, IdPoints, CallPoints
    <3>2. chan[c] \in Seq(Answers \cup Failures)
      BY <1>0 DEF CallerOK
    <3>3. \A m : Append(chan[c], m) # <<>>
      BY <3>2
    <3> QED
      BY <1>0, <2>1, <3>1, <3>3 DEF Equipped, TargetPoints
  <2> QED
    BY <2>1
<1>leave. ASSUME NEW d \in Callers, Returns(d) PROVE From /\ Same /\ Grows
  <2>1. c # d
    BY <1>0, <1>leave, Distinct DEF Returns, Leave, Goto, PointsOK, Waiting
  <2>2. /\ \E q : pc' = [pc EXCEPT ![d] = q]
        /\ id' = [id EXCEPT ![d] = 0] /\ target' = [target EXCEPT ![d] = None]
        /\ chan' = [chan EXCEPT ![d] = <<>>]
    BY <1>leave DEF Returns, Leave, Goto
  <2>3. pc'[c] = pc[c]
    BY <1>0, <2>1, <2>2, Distinct DEF PointsOK
  <2>4. id'[c] = id[c] /\ target'[c] = target[c] /\ chan'[c] = chan[c]
    BY <1>0, <2>1, <2>2 DEF CallerOK
  <2> QED
    BY <2>3, <2>4
<1>1. ASSUME NEW d \in Callers, Begin(d) \/ Close(d) \/ StopProcess(d) PROVE From /\ Same /\ Grows
  <2>1. c # d
    BY <1>0, <1>1, Distinct DEF Begin, Close, StopProcess, AfterDrop, Goto, PointsOK, Waiting
  <2>2. id' = id /\ (target' = target \/ \E q : target' = [target EXCEPT ![d] = q])
    BY <1>1 DEF Begin, Close, StopProcess
  <2>3. \E q : pc' = [pc EXCEPT ![d] = q]
    BY <1>1 DEF Begin, Close, StopProcess, Goto
  <2>4. Grows
    BY <1>1 DEF Begin, Close, StopProcess, FailPending
  <2>5. pc'[c] = pc[c] /\ target'[c] = target[c]
    BY <1>0, <2>1, <2>2, <2>3, Distinct DEF PointsOK, CallerOK
  <2> QED
    BY <2>2, <2>4, <2>5
<1>2. ASSUME NEW d \in Callers, \/ EnsureCurrent(d) \/ EnsureLaunch(d) \/ AllocateID(d)
                                \/ WriteFails(d) \/ Unpend(d) \/ CtxDone(d)
                                \/ (EnsureFails(d) /\ pc[d] = "startEnsure")
                                \/ StopStdin(d) \/ StopTimer(d) \/ StopDone(d)
      PROVE  From /\ Same /\ Grows
  <2>1. c # d
    BY <1>0, <1>2, Distinct
    DEF EnsureCurrent, AfterEnsure, EnsureLaunch, AllocateID, WriteFails, Unpend, CtxDone,
        EnsureFails, StopStdin, StopTimer, StopDone, Goto, PointsOK, Waiting
  <2>2. chan' = chan /\ \E q : pc' = [pc EXCEPT ![d] = q]
    BY <1>2 DEF EnsureCurrent, EnsureLaunch, AllocateID, WriteFails, Unpend, CtxDone,
                EnsureFails, StopStdin, StopTimer, StopDone, Goto
  <2>3. (id' = id \/ \E i : id' = [id EXCEPT ![d] = i])
        /\ (target' = target \/ \E q : target' = [target EXCEPT ![d] = q])
    BY <1>2 DEF EnsureCurrent, EnsureLaunch, AllocateID, WriteFails, Unpend, CtxDone,
                EnsureFails, StopStdin, StopTimer, StopDone
  <2> QED
    BY <1>0, <2>1, <2>2, <2>3, Distinct DEF PointsOK, CallerOK
<1>3. ASSUME NEW d \in Callers, Cancel(d) \/ Register(d) \/ LockWrite(d) \/ Write(d)
      PROVE  From /\ Same /\ Grows
  <2>1. UNCHANGED <<id, target, chan>>
    BY <1>3 DEF Cancel, Register, LockWrite, Write
  <2>2. pc' = pc \/ \E q : pc' = [pc EXCEPT ![d] = q]
    BY <1>3 DEF Cancel, Register, LockWrite, Write, Goto
  <2>3. CASE c = d
    BY <1>3, <2>1, <2>3 DEF Cancel
  <2>4. CASE c # d
    BY <1>0, <2>1, <2>2, <2>4, Distinct DEF PointsOK
  <2> QED
    BY <2>3, <2>4
<1>4. ASSUME NEW d \in Callers, \/ (EnsureFails(d) /\ pc[d] # "startEnsure")
                                \/ RegisterFails(d) \/ ReturnFailed(d) \/ Receive(d) \/ Unwait(d)
      PROVE  From /\ Same /\ Grows
  BY <1>4, <1>leave, CallsReturn DEF ChannelInv
<1>5. ASSUME NEW t \in Threads, FailFirst(t) \/ FailAgain(t) \/ FailLocked(t)
      PROVE  From /\ Same /\ Grows
  <2>1. UNCHANGED <<id, target>> /\ Grows
    BY <1>5 DEF FailFirst, FailAgain, FailLocked, FailPending
  <2>2. pc'[c] = pc[c]
    BY <1>0, <1>5, Distinct
    DEF FailFirst, FailAgain, FailLocked, AfterFail, Goto, PointsOK, Waiting
  <2> QED
    BY <2>1, <2>2
<1>6. ASSUME NEW p \in Procs, ReadResponse(p) \/ Deliver(p) \/ ReadError(p) \/ ReadEOF(p)
                              \/ WaitReturns(p)
      PROVE  From /\ Same /\ Grows
  <2>1. UNCHANGED <<id, target>> /\ Grows
    BY <1>6 DEF ReadResponse, Deliver, ReadError, ReadEOF, WaitReturns
  <2>2. pc'[c] = pc[c]
    BY <1>0, <1>6, Distinct, Goroutines
    DEF ReadResponse, Deliver, ReadError, ReadEOF, WaitReturns, Goto, PointsOK
  <2> QED
    BY <2>1, <2>2
<1>7. ASSUME NEW p \in Procs, Serve(p) \/ ExitAtEOF(p) \/ Die(p) \/ Crash(p)
      PROVE  From /\ Same /\ Grows
  BY <1>7 DEF Serve, ExitAtEOF, Die, Crash, Exit
<1>8. UNCHANGED vars => From /\ Same /\ Grows
  BY DEF vars
<1> HIDE DEF From, Same, Grows
<1>9. ASSUME NEW d \in Callers, CallStep(d) \/ StopStep(d) PROVE From /\ Same /\ Grows
  BY <1>1, <1>2, <1>3, <1>4, <1>9 DEF CallStep, StopStep
<1> QED
  BY <1>1, <1>3, <1>5, <1>6, <1>7, <1>8, <1>9, NextCases

LEMMA HeardStep ==
  ASSUME NobodyStarts, "large" \notin Sizes, HeardInv, [Next]_vars
  PROVE  HeardInv'
<1> USE DEF clientVars, callerVars, processVars
<1>0. /\ ChannelInv /\ TypeInv /\ PointsOK /\ ClientOK /\ CallerOK /\ ProcessOK /\ Equipped
      /\ IdsUnique /\ TakenOnce /\ FreshChannels /\ RoomToSend
      /\ NoStart /\ SmallOnly /\ FreshProcs /\ Registered /\ UnderWay
  BY TypeParts DEF HeardInv, PlainInv, ChannelInv, TypeInv
<1>p. PlainInv'
  BY PlainStep DEF HeardInv
<1> SUFFICES ASSUME NEW c \in Callers, pc'[c] \in Waiting, chan'[c] = <<>>,
                    NEW i, i = id[c], NEW g, g = target[c]
             PROVE  /\ (\E p \in Procs : Taken(p, i)') \/ (i \in pending' /\ process' = g)
                    /\ pc'[c] = "wait" =>
                         \/ \E p \in Procs : Taken(p, i)'
                         \/ \E j \in DOMAIN stdin'[g] : stdin'[g][j].id = i
                         \/ \E j \in DOMAIN stdout'[g] : stdout'[g][j].id = i
                         \/ status'[g] = "exited" \/ pc'[<<"reader", g>>] # "scan"
  <2>1. \A d \in Callers : pc'[d] \in Waiting => id'[d] = id[d] /\ target'[d] = target[d]
    BY <1>0, WaitingStays
  <2>2. Registered'
    BY <2>1 DEF Registered, Waiting
  <2>3. UnderWay'
    BY <2>1 DEF UnderWay, OnTheWay, Waiting
  <2> QED
    BY <1>p, <2>2, <2>3 DEF HeardInv
<1> DEFINE TakenNow == \E p \in Procs : Taken(p, i)
           Mine == i \in pending /\ process = g
           Sent == \/ \E j \in DOMAIN stdin[g] : stdin[g][j].id = i
                   \/ \E j \in DOMAIN stdout[g] : stdout[g][j].id = i
                   \/ status[g] = "exited" \/ pc[<<"reader", g>>] # "scan"
           TakenNext == \E p \in Procs : Taken(p, i)'
           MineNext == i \in pending' /\ process' = g
           SentNext == \/ \E j \in DOMAIN stdin'[g] : stdin'[g][j].id = i
                       \/ \E j \in DOMAIN stdout'[g] : stdout'[g][j].id = i
                       \/ status'[g] = "exited" \/ pc'[<<"reader", g>>] # "scan"
           Kept == (TakenNext \/ MineNext) /\ (pc'[c] = "wait" => TakenNext \/ SentNext)
<1> SUFFICES Kept
  OBVIOUS
<1>w. /\ pc'[c] = pc[c] \/ Register(c) \/ LockWrite(c) \/ Write(c)
      /\ i # 0 /\ id'[c] = i /\ g \in Procs /\ target'[c] = g /\ chan[c] = <<>>
  BY <1>0, WaitingStays
<1>q. pc[c] \in Waiting => (TakenNow \/ Mine) /\ (pc[c] = "wait" => TakenNow \/ Sent)
  BY <1>0, <1>w DEF Registered, UnderWay, OnTheWay
<1>calm. ASSUME UNCHANGED <<process, hand>>, i \in pending => i \in pending',
                pc'[c] = pc[c], Sent => SentNext
         PROVE  Kept
  BY <1>w, <1>q, <1>calm DEF Taken
<1>same. ASSUME UNCHANGED <<stdin, stdout>>, status'[g] = status[g] \/ status'[g] = "exited",
                pc'[<<"reader", g>>] = "scan" => pc[<<"reader", g>>] = "scan"
         PROVE  Sent => SentNext
  BY <1>same
<1>r. \A d \in Callers : \A q : pc' = [pc EXCEPT ![d] = q] =>
        pc'[<<"reader", g>>] = pc[<<"reader", g>>]
  BY <1>0, <1>w, Distinct, Goroutines DEF PointsOK
<1>fail. ASSUME NEW kind, FailPending(kind) PROVE i \notin pending
  <2>1. chan[c] \in Seq(Answers \cup Failures)
    BY <1>0 DEF CallerOK
  <2>2. Append(chan[c], [kind |-> kind]) # <<>>
    BY <2>1
  <2> QED
    BY <1>fail, <2>2 DEF FailPending
<1> HIDE DEF Sent, SentNext
<1>1. ASSUME Register(c) PROVE Kept
  <2>1. i \in pending' /\ process' = g
    BY <1>1 DEF Register, MayRegister
  <2>2. pc'[c] # "wait"
    BY <1>0, <1>1, Distinct DEF Register, Goto, PointsOK
  <2> QED
    BY <2>1, <2>2
<1>2. ASSUME LockWrite(c) PROVE Kept
  <2>1. pc'[c] # "wait" /\ pc[c] \in Waiting /\ UNCHANGED <<process, pending, hand>>
    BY <1>0, <1>2, Distinct DEF LockWrite, Goto, PointsOK, Waiting
  <2> QED
    BY <1>q, <2>1 DEF Taken
<1>3. ASSUME Write(c) PROVE Kept
  <2>1. PICK s \in Sizes :
          stdin' = [stdin EXCEPT ![g] = Append(@, [id |-> i, req |-> Token(c), size |-> s])]
    BY <1>3 DEF Write
  <2>2. pc[c] \in Waiting /\ UNCHANGED <<process, pending, hand>>
    BY <1>3 DEF Write, Waiting
  <2> DEFINE m == [id |-> i, req |-> Token(c), size |-> s]
  <2>3. m.id = i
    OBVIOUS
  <2> HIDE DEF m
  <2>4. stdin[g] \in Seq(Requests) /\ stdin'[g] = Append(stdin[g], m)
    BY <1>0, <1>w, <2>1 DEF ProcessOK, m
  <2>5. Len(stdin[g]) + 1 \in DOMAIN stdin'[g] /\ stdin'[g][Len(stdin[g]) + 1] = m
    BY <2>4
  <2> QED
    BY <1>q, <2>2, <2>3, <2>5 DEF Taken, SentNext
<1>4. ASSUME NEW d \in Callers, pc'[c] = pc[c], Returns(d) PROVE Kept
  <2>1. d # c
    BY <1>0, <1>4, <1>w DEF Returns, Leave, CallerOK
  <2>2. UNCHANGED <<process, hand, stdin, stdout, status>> /\ \E q : pc' = [pc EXCEPT ![d] = q]
    BY <1>4 DEF Returns, Leave, Goto
  <2>3. i \in pending => i \in pending'
    BY <1>0, <1>4, <1>w, <2>1 DEF Returns, IdsUnique
  <2> QED
    BY <1>4, <1>calm, <1>same, <1>r, <2>2, <2>3
<1>5. ASSUME NEW d \in Callers, pc'[c] = pc[c],
             \/ Begin(d) \/ EnsureCurrent(d) \/ (EnsureFails(d) /\ pc[d] = "startEnsure")
             \/ AllocateID(d) \/ Register(d) \/ LockWrite(d) \/ WriteFails(d) \/ CtxDone(d)
             \/ StopStdin(d) \/ StopTimer(d) \/ StopDone(d)
      PROVE  Kept
  <2>1. UNCHANGED <<process, hand, stdin, stdout, status>> /\ pending \subseteq pending'
    BY <1>5 DEF Begin, EnsureCurrent, EnsureFails, AllocateID, Register, LockWrite, WriteFails,
       CtxDone, StopStdin, StopTimer, StopDone
  <2>2. \E q : pc' = [pc EXCEPT ![d] = q]
    BY <1>5 DEF Begin, EnsureCurrent, EnsureFails, AllocateID, Register, LockWrite, WriteFails,
       CtxDone, StopStdin, StopTimer, StopDone, Goto
  <2> QED
    BY <1>5, <1>calm, <1>same, <1>r, <2>1, <2>2
<1>6. ASSUME NEW d \in Callers, Cancel(d) PROVE Kept
  <2>1. UNCHANGED <<process, pending, hand, stdin, stdout, status, pc>>
    BY <1>6 DEF Cancel
  <2> QED
    BY <1>calm, <1>same, <2>1
<1>7. ASSUME NEW d \in Callers, pc'[c] = pc[c], EnsureLaunch(d) PROVE Kept
  <2>1. /\ process = None /\ UNCHANGED <<pending, hand, stdin, stdout>>
        /\ \E q : pc' = [pc EXCEPT ![d] = q]
    BY <1>7 DEF EnsureLaunch, MayLaunch, Goto
  <2>2. status[g] = "exited" => status'[g] = "exited"
    <3>1. launched' = launched + 1 /\ status' = [status EXCEPT ![launched'] = "running"]
      BY <1>7 DEF EnsureLaunch
    <3> QED
      BY <1>0, <1>w, <3>1 DEF FreshProcs, ProcessOK, Procs
  <2>3. Sent => SentNext
    BY <1>r, <2>1, <2>2 DEF Sent, SentNext
  <2>4. process # g
    BY <1>w, <2>1 DEF Procs, None
  <2> QED
    BY <1>q, <1>w, <1>7, <2>1, <2>3, <2>4 DEF Taken
<1>8. ASSUME NEW d \in Callers, pc'[c] = pc[c], Write(d) PROVE Kept
  <2>1. PICK m : stdin' = [stdin EXCEPT ![target[d]] = Append(@, m)]
    BY <1>8 DEF Write
  <2>2. /\ UNCHANGED <<process, pending, hand, stdout, status>>
        /\ \E q : pc' = [pc EXCEPT ![d] = q]
    BY <1>8 DEF Write, Goto
  <2>3. stdin[g] \in Seq(Requests) /\ (stdin'[g] = stdin[g] \/ stdin'[g] = Append(stdin[g], m))
    BY <1>0, <1>w, <2>1 DEF ProcessOK
  <2>4. \A j \in DOMAIN stdin[g] : j \in DOMAIN stdin'[g] /\ stdin'[g][j] = stdin[g][j]
    BY <2>3
  <2>5. Sent => SentNext
    BY <1>r, <2>2, <2>4 DEF Sent, SentNext
  <2> QED
    BY <1>8, <1>calm, <2>2, <2>5
<1>9. ASSUME NEW d \in Callers, pc'[c] = pc[c], Unpend(d) PROVE Kept
  <2>1. /\ UNCHANGED <<process, hand, stdin, stdout, status>> /\ \E q : pc' = [pc EXCEPT ![d] = q]
        /\ pending' = pending \ {id[d]} /\ pc[d] = "unpend" /\ pc'[d] = "fail"
    BY <1>0, <1>9, Distinct DEF Unpend, Unregister, Goto, PointsOK
  <2>2. i \in pending => i \in pending'
    BY <1>0, <1>w, <2>1 DEF IdsUnique, Waiting
  <2> QED
    BY <1>9, <1>calm, <1>same, <1>r, <2>1, <2>2
<1>10. ASSUME NEW d \in Callers, pc'[c] = pc[c], Close(d) PROVE Kept
  <2>1. UNCHANGED <<hand, stdin, stdout, status>> /\ \E q : pc' = [pc EXCEPT ![d] = q]
    BY <1>10 DEF Close, Goto
  <2>2. i \notin pending
    BY <1>10, <1>fail DEF Close
  <2>3. Sent => SentNext
    BY <1>same, <1>r, <2>1
  <2> QED
    BY <1>q, <1>w, <1>10, <2>1, <2>2, <2>3 DEF Taken
<1>11. ASSUME NEW d \in Callers, StopProcess(d) PROVE Kept
  BY <1>0, <1>11 DEF StopProcess, NoStart
<1>12. ASSUME NEW t \in Threads, pc'[c] = pc[c], FailFirst(t) \/ FailAgain(t) \/ FailLocked(t)
       PROVE  Kept
  <2>1. UNCHANGED <<hand, stdin, stdout, status>>
    BY <1>12 DEF FailFirst, FailAgain, FailLocked
  <2>2. \A u \in Threads : pc'[u] = "scan" => pc[u] = "scan"
    BY <1>0, <1>12 DEF FailFirst, FailAgain, FailLocked, AfterFail, Goto, PointsOK
  <2>3. Sent => SentNext
    BY <1>same, <1>w, <2>1, <2>2, Goroutines
  <2>4. UNCHANGED <<process, pending>> \/ FailPending("failed")
    BY <1>12 DEF FailFirst, FailAgain, FailLocked
  <2> QED
    BY <1>q, <1>w, <1>12, <1>calm, <1>fail, <2>1, <2>3, <2>4 DEF Taken
<1>13. ASSUME NEW p \in Procs, pc'[c] = pc[c], ReadError(p) \/ ReadEOF(p) \/ WaitReturns(p)
       PROVE  Kept
  <2>1. UNCHANGED <<process, pending, hand, stdin, stdout, status>>
    BY <1>13 DEF ReadError, ReadEOF, WaitReturns
  <2>2. \A u \in Threads : pc'[u] = "scan" => pc[u] = "scan"
    BY <1>0, <1>13 DEF ReadError, ReadEOF, WaitReturns, Goto, PointsOK
  <2>3. Sent => SentNext
    BY <1>same, <1>w, <2>1, <2>2, Goroutines
  <2> QED
    BY <1>13, <1>calm, <2>1, <2>3
<1>14. ASSUME NEW p \in Procs, pc'[c] = pc[c], Deliver(p) PROVE Kept
  <2>1. /\ UNCHANGED <<process, pending, stdin, stdout, status, pc>>
        /\ hand' = [hand EXCEPT ![p] = <<>>]
        /\ id[c] = Head(hand[p]).id => chan'[c] = Append(chan[c], Head(hand[p]))
    BY <1>14 DEF Deliver
  <2>2. Head(hand[p]).id # i
    <3>1. chan[c] \in Seq(Answers \cup Failures)
      BY <1>0 DEF CallerOK
    <3>2. \A m : Append(chan[c], m) # <<>>
      BY <3>1
    <3> QED
      BY <2>1, <3>2
  <2>3. \A q \in Procs : Taken(q, i) => Taken(q, i)'
    BY <1>0, <2>1, <2>2 DEF Taken, ProcessOK
  <2>4. Sent => SentNext
    BY <1>same, <2>1
  <2> QED
    BY <1>q, <1>w, <2>1, <2>3, <2>4
<1>15. ASSUME NEW p \in Procs, pc'[c] = pc[c], ExitAtEOF(p) \/ Die(p) \/ Crash(p) PROVE Kept
  <2>1. /\ UNCHANGED <<process, pending, hand, stdout, pc>>
        /\ status' = [status EXCEPT ![p] = "exited"] /\ stdin' = [stdin EXCEPT ![p] = <<>>]
    BY <1>15 DEF ExitAtEOF, Die, Crash, Exit
  <2>2. Sent => SentNext
    BY <1>0, <1>w, <2>1 DEF Sent, SentNext, ProcessOK
  <2> QED
    BY <1>15, <1>calm, <2>1, <2>2
<1>16. ASSUME NEW p \in Procs, pc'[c] = pc[c], Serve(p) PROVE Kept
  <2> DEFINE m == Head(stdin[p])
  <2>1. PICK k : stdout' = [stdout EXCEPT ![p] =
                              Append(@, [id |-> AnswerID(m), req |-> m.req, kind |-> k])]
    BY <1>16 DEF Serve
  <2> DEFINE r == [id |-> AnswerID(m), req |-> m.req, kind |-> k]
  <2>2. /\ UNCHANGED <<process, pending, hand, status, pc>> /\ stdin[p] # <<>>
        /\ stdin' = [stdin EXCEPT ![p] = Tail(@)]
    BY <1>16 DEF Serve
  <2>3. stdin[p] \in Seq(Requests) /\ stdin[g] \in Seq(Requests) /\ stdout[g] \in Seq(Answers)
    BY <1>0, <1>w DEF ProcessOK
  <2>4. r.id = m.id
    BY <1>0, <2>2, <2>3, HeadItem DEF AnswerID, SmallOnly
  <2> HIDE DEF r
  <2>5. CASE p = g
    <3>1. stdin'[g] = Tail(stdin[g]) /\ stdout'[g] = Append(stdout[g], r)
      BY <1>0, <1>w, <2>1, <2>2, <2>5 DEF ProcessOK, r
    <3>2. ASSUME NEW j \in DOMAIN stdin[g], stdin[g][j].id = i PROVE SentNext
      <4>1. CASE j = 1
        <5>1. Len(stdout[g]) + 1 \in DOMAIN stdout'[g] /\ stdout'[g][Len(stdout[g]) + 1] = r
          BY <2>3, <3>1
        <5>2. r.id = i
          BY <2>2, <2>3, <2>4, <2>5, <3>2, <4>1, HeadItem
        <5> QED
          BY <5>1, <5>2 DEF SentNext
      <4>2. CASE j # 1
        <5>1. j - 1 \in DOMAIN stdin'[g] /\ stdin'[g][j - 1] = stdin[g][j]
          BY <2>3, <3>1, <4>2, ItemInTail
        <5> QED
          BY <3>2, <5>1 DEF SentNext
      <4> QED
        BY <4>1, <4>2
    <3>3. ASSUME NEW j \in DOMAIN stdout[g], stdout[g][j].id = i PROVE SentNext
      <4>1. j \in DOMAIN stdout'[g] /\ stdout'[g][j] = stdout[g][j]
        BY <2>3, <3>1
      <4> QED
        BY <3>3, <4>1 DEF SentNext
    <3>4. Sent => SentNext
      BY <2>2, <3>2, <3>3 DEF Sent, SentNext
    <3> QED
      BY <1>16, <1>calm, <2>2, <3>4
  <2>6. CASE p # g
    <3>1. stdin'[g] = stdin[g] /\ stdout'[g] = stdout[g]
      BY <1>0, <1>w, <2>1, <2>2, <2>6 DEF ProcessOK
    <3>2. Sent => SentNext
      BY <2>2, <3>1 DEF Sent, SentNext
    <3> QED
      BY <1>16, <1>calm, <2>2, <3>2
  <2> QED
    BY <2>5, <2>6
<1>17. ASSUME NEW p \in Procs, pc'[c] = pc[c], ReadResponse(p) PROVE Kept
  <2> DEFINE m == Head(stdout[p])
  <2>1. /\ UNCHANGED <<process, stdin, status>> /\ hand[p] = <<>> /\ stdout[p] # <<>>
        /\ stdout' = [stdout EXCEPT ![p] = Tail(@)]
    BY <1>17 DEF ReadResponse
  <2>2. /\ \A u \in Threads : pc'[u] = "scan" => pc[u] = "scan"
        /\ m.kind = "garbage" => pc'[<<"reader", p>>] # "scan"
    BY <1>0, <1>17, Goroutines DEF ReadResponse, Goto, PointsOK
  <2>3. \/ UNCHANGED <<pending, hand>>
        \/ /\ m.id \in pending /\ pending' = pending \ {m.id}
           /\ hand' = [hand EXCEPT ![p] = <<m>>]
    BY <1>17 DEF ReadResponse, Unregister
  <2>4. m.kind # "garbage" /\ m.id \in pending => hand' = [hand EXCEPT ![p] = <<m>>]
    BY <1>17 DEF ReadResponse
  <2>5. \A q \in Procs : Taken(q, i) => Taken(q, i)'
    BY <1>0, <2>1, <2>3 DEF Taken, ProcessOK
  <2>6. m.id = i /\ hand' = [hand EXCEPT ![p] = <<m>>] => TakenNext
    <3>1. hand' = [hand EXCEPT ![p] = <<m>>] => hand'[p] = <<m>>
      BY <1>0 DEF ProcessOK
    <3>2. <<m>> # <<>> /\ Head(<<m>>) = m
      OBVIOUS
    <3> QED
      BY <3>1, <3>2 DEF Taken
  <2>7. TakenNow \/ Mine => TakenNext \/ MineNext
    BY <2>1, <2>3, <2>5, <2>6
  <2>8. CASE m.id = i /\ p = g
    <3>1. CASE m.kind = "garbage"
      BY <1>q, <1>w, <1>17, <2>2, <2>7, <2>8, <3>1 DEF SentNext
    <3>2. CASE m.kind # "garbage"
      BY <1>q, <1>w, <1>17, <2>4, <2>5, <2>6, <2>7, <2>8, <3>2
    <3> QED
      BY <3>1, <3>2
  <2>9. CASE ~(m.id = i /\ p = g)
    <3>1. stdout[g] \in Seq(Answers) /\ stdout[p] \in Seq(Answers)
      BY <1>0, <1>w DEF ProcessOK
    <3>2. ASSUME NEW j \in DOMAIN stdout[g], stdout[g][j].id = i PROVE SentNext
      <4>1. CASE p = g
        <5>1. stdout'[g] = Tail(stdout[g]) /\ j # 1
          BY <1>0, <1>w, <2>1, <2>9, <3>1, <3>2, <4>1, HeadItem DEF ProcessOK
        <5>2. j - 1 \in DOMAIN stdout'[g] /\ stdout'[g][j - 1] = stdout[g][j]
          BY <3>1, <5>1, ItemInTail
        <5> QED
          BY <3>2, <5>2 DEF SentNext
      <4>2. CASE p # g
        BY <1>0, <1>w, <2>1, <3>2, <4>2 DEF SentNext, ProcessOK
      <4> QED
        BY <4>1, <4>2
    <3>3. Sent => SentNext
      BY <1>w, <2>1, <2>2, <3>2, Goroutines DEF Sent, SentNext
    <3> QED
      BY <1>q, <1>w, <1>17, <2>5, <2>7, <3>3
  <2> QED
    BY <2>8, <2>9
<1>18. ASSUME UNCHANGED vars PROVE Kept
  <2>1. UNCHANGED <<process, pending, hand, stdin, stdout, status, pc>>
    BY <1>18 DEF vars
  <2> QED
    BY <1>calm, <1>same, <2>1
<1> HIDE DEF Kept
<1>19. ASSUME NEW d \in Callers, pc'[c] = pc[c], CallStep(d) \/ StopStep(d) PROVE Kept
  <2>1. ASSUME \/ (EnsureFails(d) /\ pc[d] # "startEnsure")
               \/ RegisterFails(d) \/ ReturnFailed(d) \/ Receive(d) \/ Unwait(d)
        PROVE  Kept
    BY <1>0, <1>4, <1>19, <2>1, CallsReturn
  <2> QED
    BY <1>5, <1>7, <1>8, <1>9, <1>11, <1>19, <2>1 DEF CallStep, StopStep
<1>20. CASE pc'[c] = pc[c]
  BY <1>5, <1>6, <1>10, <1>12, <1>13, <1>14, <1>15, <1>16, <1>17, <1>18, <1>19, <1>20, NextCases
<1> QED
  BY <1>1, <1>2, <1>3, <1>20, <1>w

(* A call that waits will hear of its response or of the failure of the      *)
(* process (client.go:197), however cancelled calls, a crash, a restart or a *)
(* Close interleave with it.  Neither hypothesis can go: a failing Start     *)
(* loses the calls of others (client.go:314), and a request over 1 MiB is    *)
(* answered without its id (server.go).                                      *)
THEOREM NoCallIsLost ==
  ASSUME NobodyStarts, "large" \notin Sizes
  PROVE  Spec => []NoLostCall
<1>1. HeardInv => NoLostCall
  BY DEF HeardInv, Registered, UnderWay, NoLostCall, Taken, Waiting, OnTheWay
<1>2. HeardInv /\ [Next]_vars => HeardInv'
  BY HeardStep
<1> QED
  BY HeardInit, <1>1, <1>2, PTL DEF Spec

(* Without a Start that gives up, a call is failed by the failure of its own *)
(* process only, however many goroutines restart it (client.go:293): a Start *)
(* is the one way in which calls outlive their process (client.go:314).      *)
THEOREM FailedByOwnProcess ==
  ASSUME NobodyStarts
  PROVE  Spec => []OnlyOwnFailure
<1> DEFINE Kept == FailureInv /\ NoStart
<1>1. Init => Kept
  <2> SUFFICES ASSUME Init PROVE Kept
    OBVIOUS
  <2>1. NoStart
    BY Distinct DEF Init, NoStart
  <2> QED
    BY <2>1, FailureInit
<1>2. Kept /\ [Next]_vars => Kept'
  <2> SUFFICES ASSUME Kept, [Next]_vars PROVE Kept'
    OBVIOUS
  <2>1. TypeInv
    BY DEF FailureInv, ChannelInv
  <2> QED
    BY <2>1, FailureStep, NoStartStep
<1>3. Kept => OnlyOwnFailure
  BY DEF FailureInv, FailureIsOwn, Abandoned, NoStart, OnlyOwnFailure
<1> QED
  BY <1>1, <1>2, <1>3, PTL DEF Spec

-----------------------------------------------------------------------------
(* Asked first.  The goroutines of a process fail it once it has exited, as  *)
(* long as its lines can be decoded, and a caller stops or fails one that    *)
(* has exited or whose stdin is closed.                                      *)
Readable == \A p \in Procs : \A i \in DOMAIN stdout[p] : stdout[p][i].kind # "garbage"

EndedBefore ==
  \A p \in Procs :
    pc[<<"reader", p>>] = "fail" \/ pc[<<"waiter", p>>] # "reap" => status[p] = "exited"

Given(p) == status[p] = "exited" \/ ~stdinOpen[p]
ClosedBefore ==
  \A c \in Callers : /\ pc[c] = "stopWait" => ~stdinOpen[target[c]]
                     /\ pc[c] \in {"unpend", "fail"} => Given(target[c])

AskedInv == TypeInv /\ FreshProcs /\ Readable /\ EndedBefore /\ ClosedBefore

(* A process does not come back, and its stdin stays closed.                 *)
LEMMA EndsStay ==
  ASSUME TypeInv, FreshProcs, [Next]_vars, NEW p \in Procs
  PROVE  /\ status[p] = "exited" => status'[p] = "exited"
         /\ ~stdinOpen[p] => ~stdinOpen'[p]
<1> DEFINE Kept == /\ status[p] = "exited" => status'[p] = "exited"
                   /\ ~stdinOpen[p] => ~stdinOpen'[p]
<1> USE DEF clientVars, callerVars, processVars
<1>0. ProcessOK /\ CallerOK /\ FreshProcs
  BY TypeParts DEF TypeInv
<1>1. ASSUME NEW c \in Callers, Begin(c) \/ Close(c) \/ Cancel(c) \/ CallStep(c) \/ StopStep(c)
      PROVE  Kept
  <2>1. UNCHANGED <<status, stdinOpen>> \/ EnsureLaunch(c) \/ StopStdin(c)
    BY <1>1
    DEF Begin, Close, Cancel, CallStep, StopStep, EnsureCurrent, EnsureFails, AllocateID, Register,
        RegisterFails, LockWrite, Write, WriteFails, Unpend, ReturnFailed, Receive, CtxDone, Unwait,
        StopProcess, StopTimer, StopDone
  <2>2. CASE EnsureLaunch(c)
    <3>1. /\ launched' = launched + 1 /\ stdinOpen' = stdinOpen
          /\ status' = [status EXCEPT ![launched'] = "running"]
      BY <2>2 DEF EnsureLaunch
    <3>2. status[p] = "exited" => ~(p > launched)
      BY <1>0 DEF FreshProcs
    <3>3. status[p] = "exited" => p # launched'
      BY <1>0, <3>1, <3>2 DEF ProcessOK, Procs
    <3> QED
      BY <1>0, <3>1, <3>3 DEF ProcessOK
  <2>3. CASE StopStdin(c)
    BY <1>0, <2>3 DEF StopStdin, ProcessOK
  <2> QED
    BY <2>1, <2>2, <2>3
<1>2. ASSUME NEW t \in Threads, FailFirst(t) \/ FailAgain(t) \/ FailLocked(t) PROVE Kept
  BY <1>2 DEF FailFirst, FailAgain, FailLocked
<1>3. ASSUME NEW q \in Procs, \/ ReadResponse(q) \/ Deliver(q) \/ ReadError(q) \/ ReadEOF(q)
                              \/ WaitReturns(q)
      PROVE  Kept
  BY <1>3 DEF ReadResponse, Deliver, ReadError, ReadEOF, WaitReturns
<1>4. ASSUME NEW q \in Procs, Serve(q) \/ ExitAtEOF(q) \/ Die(q) \/ Crash(q) PROVE Kept
  BY <1>0, <1>4 DEF Serve, ExitAtEOF, Die, Crash, Exit, ProcessOK
<1>5. UNCHANGED vars => Kept
  BY DEF vars
<1> HIDE DEF Kept
<1>6. Kept
  BY <1>1, <1>2, <1>3, <1>4, <1>5, NextCases
<1> QED
  BY <1>6 DEF Kept

LEMMA ReadableStep ==
  ASSUME "garbage" \notin Replies, TypeInv, Readable, [Next]_vars
  PROVE  Readable'
<1> USE DEF clientVars, callerVars, processVars
<1>0. ProcessOK /\ Readable
  BY TypeParts DEF TypeInv
<1>1. ASSUME NEW q \in Procs, Serve(q) PROVE Readable'
  <2>1. PICK k \in Replies \cup {"error"} :
          stdout' = [stdout EXCEPT ![q] =
                       Append(@, [id |-> AnswerID(Head(stdin[q])), req |-> Head(stdin[q]).req, kind |-> k])]
    BY <1>1 DEF Serve
  <2> DEFINE m == [id |-> AnswerID(Head(stdin[q])), req |-> Head(stdin[q]).req, kind |-> k]
  <2>2. m.kind # "garbage"
    OBVIOUS
  <2> HIDE DEF m
  <2>3. ASSUME NEW p \in Procs, NEW i \in DOMAIN stdout'[p] PROVE stdout'[p][i].kind # "garbage"
    <3>1. stdout'[p] = stdout[p] \/ stdout'[p] = Append(stdout[p], m)
      BY <1>0, <2>1 DEF ProcessOK, m
    <3>2. stdout[p] \in Seq(Answers)
      BY <1>0 DEF ProcessOK
    <3> QED
      BY <1>0, <2>2, <2>3, <3>1, <3>2, AppendItem DEF Readable
  <2> QED
    BY <2>3 DEF Readable
<1>2. ASSUME NEW q \in Procs, ReadResponse(q) PROVE Readable'
  <2>1. ASSUME NEW p \in Procs, NEW i \in DOMAIN stdout'[p] PROVE stdout'[p][i].kind # "garbage"
    <3>1. stdout'[p] = stdout[p] \/ (stdout'[p] = Tail(stdout[p]) /\ stdout[p] # <<>>)
      BY <1>0, <1>2 DEF ReadResponse, ProcessOK
    <3>2. stdout[p] \in Seq(Answers)
      BY <1>0 DEF ProcessOK
    <3>3. stdout'[p] = Tail(stdout[p]) /\ stdout[p] # <<>> =>
            \E j \in DOMAIN stdout[p] : stdout'[p][i] = stdout[p][j]
      BY <2>1, <3>2, TailItem
    <3>4. \E j \in DOMAIN stdout[p] : stdout'[p][i] = stdout[p][j]
      BY <2>1, <3>1, <3>3
    <3> QED
      BY <1>0, <3>4 DEF Readable
  <2> QED
    BY <2>1 DEF Readable
<1>3. UNCHANGED stdout => Readable'
  BY <1>0 DEF Readable
<1>4. ASSUME NEW c \in Callers, Begin(c) \/ Close(c) \/ Cancel(c) \/ CallStep(c) \/ StopStep(c)
      PROVE  UNCHANGED stdout
  BY <1>4
  DEF Begin, Close, Cancel, CallStep, StopStep, EnsureCurrent, EnsureLaunch, EnsureFails,
      AllocateID, Register, RegisterFails, LockWrite, Write, WriteFails, Unpend, ReturnFailed,
      Receive, CtxDone, Unwait, StopProcess, StopStdin, StopTimer, StopDone
<1>5. ASSUME NEW t \in Threads, FailFirst(t) \/ FailAgain(t) \/ FailLocked(t)
      PROVE  UNCHANGED stdout
  BY <1>5 DEF FailFirst, FailAgain, FailLocked
<1>6. ASSUME NEW p \in Procs, Deliver(p) \/ ReadError(p) \/ ReadEOF(p) \/ WaitReturns(p)
      PROVE  UNCHANGED stdout
  BY <1>6 DEF Deliver, ReadError, ReadEOF, WaitReturns
<1>7. ASSUME NEW p \in Procs, ExitAtEOF(p) \/ Die(p) \/ Crash(p) PROVE UNCHANGED stdout
  BY <1>7 DEF ExitAtEOF, Die, Crash, Exit
<1>8. UNCHANGED vars => UNCHANGED stdout
  BY DEF vars
<1> QED
  BY <1>1, <1>2, <1>3, <1>4, <1>5, <1>6, <1>7, <1>8, NextCases

(* The goroutines of a process get to fail when it has exited.               *)
LEMMA EndedStep ==
  ASSUME AskedInv, [Next]_vars
  PROVE  EndedBefore'
<1> USE DEF clientVars, callerVars, processVars
<1>0. PointsOK /\ ProcessOK /\ TypeInv /\ FreshProcs /\ Readable /\ EndedBefore
  BY TypeParts DEF AskedInv, TypeInv
<1> DEFINE r(p) == <<"reader", p>>
           w(p) == <<"waiter", p>>
           Late(p) == pc'[r(p)] = "fail" \/ pc'[w(p)] # "reap"
<1> SUFFICES ASSUME NEW p \in Procs, Late(p) PROVE status'[p] = "exited"
  BY DEF EndedBefore
<1>q. [Next]_vars
  OBVIOUS
<1>s. status[p] = "exited" => status'[p] = "exited"
  BY <1>0, EndsStay
<1>same. pc'[r(p)] = pc[r(p)] /\ pc'[w(p)] = pc[w(p)] => status'[p] = "exited"
  BY <1>0, <1>s DEF EndedBefore
<1>w. /\ r(p) \in Readers /\ w(p) \in Waiters /\ r(p) \in Threads /\ w(p) \in Threads
      /\ r(p) \notin Callers /\ w(p) \notin Callers /\ r(p) # w(p)
  BY Goroutines
<1>1. ASSUME NEW c \in Callers, Begin(c) \/ Close(c) \/ Cancel(c) \/ CallStep(c) \/ StopStep(c)
      PROVE  status'[p] = "exited"
  <2>1. pc' = pc \/ \E point : pc' = [pc EXCEPT ![c] = point]
    BY <1>1
    DEF Begin, Close, Cancel, CallStep, StopStep, EnsureCurrent, EnsureLaunch, EnsureFails,
        AllocateID, Register, RegisterFails, LockWrite, Write, WriteFails, Unpend, ReturnFailed,
        Receive, CtxDone, Unwait, StopProcess, StopStdin, StopTimer, StopDone, ReturnError,
        ReturnResult, Leave, Goto
  <2> QED
    BY <1>0, <1>w, <1>same, <2>1 DEF PointsOK
<1>2. ASSUME NEW t \in Threads, FailFirst(t) \/ FailAgain(t) \/ FailLocked(t)
      PROVE  status'[p] = "exited"
  <2>1. /\ pc[t] \in {"fail", "failLock"}
        /\ \E point \in {"failLock", "failed", "done"} : pc' = [pc EXCEPT ![t] = point]
    BY <1>2 DEF FailFirst, FailAgain, FailLocked, AfterFail, Goto
  <2>2. pc'[r(p)] = "fail" => pc[r(p)] = "fail"
    BY <1>0, <1>w, <2>1 DEF PointsOK
  <2>3. pc'[w(p)] # "reap" => pc[w(p)] # "reap"
    BY <1>0, <1>w, <2>1 DEF PointsOK
  <2> QED
    BY <1>0, <1>s, <2>2, <2>3 DEF EndedBefore
<1>3. ASSUME NEW q \in Procs, ReadResponse(q) PROVE status'[p] = "exited"
  <2>1. stdout[q] # <<>> /\ stdout[q] \in Seq(Answers)
    BY <1>0, <1>3 DEF ReadResponse, ProcessOK
  <2>2. 1 \in DOMAIN stdout[q] /\ Head(stdout[q]) = stdout[q][1]
    BY <2>1, HeadItem
  <2>3. Head(stdout[q]).kind # "garbage"
    BY <1>0, <2>2 DEF Readable
  <2>4. pc' = pc
    BY <1>3, <2>3 DEF ReadResponse
  <2> QED
    BY <1>same, <2>4
<1>4. ASSUME NEW q \in Procs, ReadError(q) PROVE status'[p] = "exited"
  <2>1. pc[w(q)] # "reap" /\ pc' = [pc EXCEPT ![r(q)] = "fail"]
    BY <1>4 DEF ReadError, Goto
  <2>2. CASE p = q
    BY <1>0, <1>s, <2>1, <2>2 DEF EndedBefore
  <2>3. CASE p # q
    <3>1. r(p) # r(q) /\ w(p) # r(q)
      BY <2>3
    <3> QED
      BY <1>0, <1>w, <1>same, <2>1, <3>1 DEF PointsOK
  <2> QED
    BY <2>2, <2>3
<1>5. ASSUME NEW q \in Procs, ReadEOF(q) PROVE status'[p] = "exited"
  <2>1. pc' = [pc EXCEPT ![r(q)] = "done"] /\ w(p) # r(q)
    BY <1>5 DEF ReadEOF, Goto
  <2>2. (pc'[r(p)] = "fail" => pc[r(p)] = "fail") /\ pc'[w(p)] = pc[w(p)]
    BY <1>0, <1>w, <2>1 DEF PointsOK
  <2> QED
    BY <1>0, <1>s, <2>2 DEF EndedBefore
<1>6. ASSUME NEW q \in Procs, WaitReturns(q) PROVE status'[p] = "exited"
  <2>1. status[q] = "exited" /\ pc' = [pc EXCEPT ![w(q)] = "fail"]
    BY <1>6 DEF WaitReturns, Goto
  <2>2. CASE p = q
    BY <1>s, <2>1, <2>2
  <2>3. CASE p # q
    <3>1. r(p) # w(q) /\ w(p) # w(q)
      BY <2>3
    <3> QED
      BY <1>0, <1>w, <1>same, <2>1, <3>1 DEF PointsOK
  <2> QED
    BY <2>2, <2>3
<1>7. ASSUME NEW q \in Procs, Deliver(q) PROVE status'[p] = "exited"
  BY <1>7, <1>same DEF Deliver
<1>8. ASSUME NEW q \in Procs, Serve(q) \/ ExitAtEOF(q) \/ Die(q) \/ Crash(q)
      PROVE  status'[p] = "exited"
  BY <1>8, <1>same DEF Serve, ExitAtEOF, Die, Crash, Exit
<1>9. UNCHANGED vars => status'[p] = "exited"
  BY <1>same DEF vars
<1> HIDE DEF r, w, Late
<1> QED
  BY <1>q, <1>1, <1>2, <1>3, <1>4, <1>5, <1>6, <1>7, <1>8, <1>9, NextCases

(* A caller gets to stop or to fail a process whose end it has seen, or      *)
(* whose stdin it has closed.                                                *)
LEMMA ClosedStep ==
  ASSUME AskedInv, [Next]_vars
  PROVE  ClosedBefore'
<1> USE DEF clientVars, callerVars, processVars
<1>0. PointsOK /\ CallerOK /\ ProcessOK /\ Equipped /\ TypeInv /\ FreshProcs /\ ClosedBefore
  BY TypeParts DEF AskedInv, TypeInv
<1> DEFINE Here == {"stopWait", "unpend", "fail"}
<1> SUFFICES ASSUME NEW c \in Callers, pc'[c] \in Here
             PROVE  /\ pc'[c] = "stopWait" => ~stdinOpen'[target'[c]]
                    /\ pc'[c] \in {"unpend", "fail"} => Given(target[c])'
  BY DEF ClosedBefore, Given
<1> DEFINE Good == /\ pc'[c] = "stopWait" => ~stdinOpen'[target'[c]]
                   /\ pc'[c] \in {"unpend", "fail"} => Given(target[c])'
<1>q. [Next]_vars
  OBVIOUS
<1>c. c \in Threads
  BY Distinct
<1>s. \A p \in Procs : /\ status[p] = "exited" => status'[p] = "exited"
                       /\ ~stdinOpen[p] => ~stdinOpen'[p]
  BY <1>0, EndsStay
<1>t. pc[c] \in Here => target[c] \in Procs
  BY <1>0 DEF Equipped, TargetPoints, IdPoints, CallPoints
<1>same. pc'[c] = pc[c] /\ target'[c] = target[c] => Good
  BY <1>0, <1>s, <1>t DEF ClosedBefore, Given
<1>1. ASSUME NEW d \in Callers, StopStdin(d) PROVE Good
  <2>1. CASE c = d
    BY <1>0, <1>1, <1>c, <2>1 DEF StopStdin, Goto, PointsOK, ProcessOK, Equipped, TargetPoints
  <2>2. CASE c # d
    BY <1>0, <1>1, <1>c, <1>same, <2>2 DEF StopStdin, Goto, PointsOK
  <2> QED
    BY <2>1, <2>2
<1>2. ASSUME NEW d \in Callers, WriteFails(d) PROVE Good
  <2>1. CASE c = d
    BY <1>0, <1>2, <1>c, <2>1 DEF WriteFails, Goto, PointsOK, Given
  <2>2. CASE c # d
    BY <1>0, <1>2, <1>c, <1>same, <2>2 DEF WriteFails, Goto, PointsOK
  <2> QED
    BY <2>1, <2>2
<1>3. ASSUME NEW d \in Callers, Unpend(d) PROVE Good
  <2>1. CASE c = d
    <3>1. pc[c] = "unpend" /\ pc'[c] = "fail" /\ UNCHANGED <<target, status, stdinOpen>>
      BY <1>0, <1>3, <1>c, <2>1 DEF Unpend, Goto, PointsOK
    <3> QED
      BY <1>0, <3>1 DEF ClosedBefore, Given
  <2>2. CASE c # d
    BY <1>0, <1>3, <1>c, <1>same, <2>2 DEF Unpend, Goto, PointsOK
  <2> QED
    BY <2>1, <2>2
<1>leave. ASSUME NEW d \in Callers, Returns(d) PROVE Good
  <2>1. \E point \in {"idle", "drop", "ensure"} :
          pc' = [pc EXCEPT ![d] = point] /\ target' = [target EXCEPT ![d] = None]
    BY <1>leave DEF Returns, Leave, Goto
  <2>2. c # d
    BY <1>0, <1>c, <2>1 DEF PointsOK
  <2> QED
    BY <1>0, <1>c, <1>same, <2>1, <2>2 DEF PointsOK, CallerOK
<1>4. ASSUME NEW d \in Callers, Begin(d) \/ Close(d) \/ StopProcess(d) \/ StopDone(d)
                                \/ StopTimer(d) \/ (EnsureFails(d) /\ pc[d] = "startEnsure")
      PROVE  Good
  <2>1. c # d
    BY <1>0, <1>4, <1>c
    DEF Begin, Close, StopProcess, StopDone, StopTimer, EnsureFails, AfterDrop, Goto, PointsOK
  <2>2. /\ \E point : pc' = [pc EXCEPT ![d] = point]
        /\ target' = target \/ \E q : target' = [target EXCEPT ![d] = q]
    BY <1>4 DEF Begin, Close, StopProcess, StopDone, StopTimer, EnsureFails, Goto
  <2> QED
    BY <1>0, <1>c, <1>same, <2>1, <2>2 DEF PointsOK, CallerOK
<1>5. ASSUME NEW d \in Callers, \/ EnsureCurrent(d) \/ EnsureLaunch(d) \/ AllocateID(d)
                                \/ Register(d) \/ LockWrite(d) \/ Write(d) \/ CtxDone(d)
      PROVE  Good
  <2>1. c # d
    BY <1>0, <1>5, <1>c
    DEF EnsureCurrent, EnsureLaunch, AfterEnsure, AllocateID, Register, LockWrite, Write, CtxDone,
        Goto, PointsOK
  <2>2. /\ \E point : pc' = [pc EXCEPT ![d] = point]
        /\ target' = target \/ \E q : target' = [target EXCEPT ![d] = q]
    BY <1>5 DEF EnsureCurrent, EnsureLaunch, AllocateID, Register, LockWrite, Write, CtxDone, Goto
  <2> QED
    BY <1>0, <1>c, <1>same, <2>1, <2>2 DEF PointsOK, CallerOK
<1>6. ASSUME NEW d \in Callers, Cancel(d) PROVE Good
  BY <1>6, <1>same DEF Cancel
<1>7. ASSUME NEW t \in Threads, FailFirst(t) \/ FailAgain(t) \/ FailLocked(t) PROVE Good
  <2>1. /\ \E point \in {"failLock", "failed", "done"} : pc' = [pc EXCEPT ![t] = point]
        /\ target' = target
    BY <1>7 DEF FailFirst, FailAgain, FailLocked, AfterFail, Goto
  <2>2. c # t
    BY <1>0, <1>c, <2>1 DEF PointsOK
  <2> QED
    BY <1>0, <1>c, <1>same, <2>1, <2>2 DEF PointsOK
<1>8. ASSUME NEW p \in Procs, \/ ReadResponse(p) \/ Deliver(p) \/ ReadError(p) \/ ReadEOF(p)
                              \/ WaitReturns(p)
      PROVE  Good
  <2>1. target' = target
    BY <1>8 DEF ReadResponse, Deliver, ReadError, ReadEOF, WaitReturns
  <2>2. pc' = pc \/ \E point : \/ pc' = [pc EXCEPT ![<<"reader", p>>] = point]
                              \/ pc' = [pc EXCEPT ![<<"waiter", p>>] = point]
    BY <1>8 DEF ReadResponse, Deliver, ReadError, ReadEOF, WaitReturns, Goto
  <2>3. c # <<"reader", p>> /\ c # <<"waiter", p>>
    BY Goroutines
  <2> QED
    BY <1>0, <1>c, <1>same, <2>1, <2>2, <2>3 DEF PointsOK
<1>9. ASSUME NEW p \in Procs, Serve(p) \/ ExitAtEOF(p) \/ Die(p) \/ Crash(p) PROVE Good
  BY <1>9, <1>same DEF Serve, ExitAtEOF, Die, Crash, Exit
<1>10. UNCHANGED vars => Good
  BY <1>same DEF vars
<1> HIDE DEF Good, Here
<1>11. ASSUME NEW d \in Callers, CallStep(d) \/ StopStep(d) PROVE Good
  <2>1. ASSUME \/ (EnsureFails(d) /\ pc[d] # "startEnsure")
               \/ RegisterFails(d) \/ ReturnFailed(d) \/ Receive(d) \/ Unwait(d)
        PROVE  Good
    BY <1>0, <1>leave, <2>1, CallsReturn
  <2> QED
    BY <1>1, <1>2, <1>3, <1>4, <1>5, <1>11, <2>1 DEF CallStep, StopStep
<1>12. Good
  BY <1>q, <1>4, <1>6, <1>7, <1>8, <1>9, <1>10, <1>11, NextCases
<1> QED
  BY <1>12 DEF Good

(* A sidecar that runs is killed when its stdin is closed, by the end of a   *)
(* stop's grace period or by a call whose write failed.                      *)
AskedFirst ==
  \A p \in Procs :
    status[p] = "running" /\ ~killed[p] /\ killed'[p] =>
      /\ ~stdinOpen[p]
      /\ \E c \in Callers : target[c] = p /\ pc[c] \in {"stopWait", "fail"}

(* The client kills a sidecar that runs only after a stop has asked it to    *)
(* end, and then only by the grace period of that stop (client.go:335) or by *)
(* a call that was writing and failed on the closed stdin (client.go:198):   *)
(* no late goroutine of an old process hits it.  A line that cannot be       *)
(* decoded is the other reason (client.go:266), and the hypothesis excludes  *)
(* it.                                                                       *)
THEOREM KilledWhenAsked ==
  ASSUME "garbage" \notin Replies
  PROVE  Spec => [][AskedFirst]_vars
<1>1. Init => AskedInv
  <2> SUFFICES ASSUME Init PROVE AskedInv
    OBVIOUS
  <2>1. TypeInv
    BY TypeInit
  <2>2. FreshProcs /\ Readable
    BY DEF Init, FreshProcs, Readable
  <2>3. EndedBefore
    BY Distinct, Goroutines DEF Init, EndedBefore
  <2>4. ClosedBefore
    BY Distinct DEF Init, ClosedBefore
  <2> QED
    BY <2>1, <2>2, <2>3, <2>4 DEF AskedInv
<1>2. AskedInv /\ [Next]_vars => AskedInv'
  BY TypeStep, FreshStep, ReadableStep, EndedStep, ClosedStep DEF AskedInv
<1>3. AskedInv /\ [Next]_vars => [AskedFirst]_vars
  <2> SUFFICES ASSUME AskedInv, [Next]_vars, NEW p \in Procs,
                      status[p] = "running", ~killed[p], killed'[p]
               PROVE  /\ ~stdinOpen[p]
                      /\ \E c \in Callers : target[c] = p /\ pc[c] \in {"stopWait", "fail"}
    BY DEF AskedFirst
  <2> DEFINE Goal == /\ ~stdinOpen[p]
                     /\ \E c \in Callers : target[c] = p /\ pc[c] \in {"stopWait", "fail"}
  <2>0. ProcessOK /\ EndedBefore /\ ClosedBefore
    BY TypeParts DEF AskedInv, TypeInv
  <2>q. [Next]_vars
    OBVIOUS
  <2>n. killed' = killed => Goal
    OBVIOUS
  <2> USE DEF clientVars, callerVars, processVars
  <2>1. ASSUME NEW c \in Callers, StopTimer(c) PROVE Goal
    <3>1. pc[c] = "stopWait" /\ killed' = [killed EXCEPT ![target[c]] = TRUE]
      BY <2>1 DEF StopTimer
    <3>2. target[c] = p
      BY <2>0, <3>1 DEF ProcessOK
    <3> QED
      BY <2>0, <3>1, <3>2 DEF ClosedBefore
  <2>2. ASSUME NEW t \in Threads, FailFirst(t) PROVE Goal
    <3>1. pc[t] = "fail" /\ killed' = [killed EXCEPT ![Target(t)] = TRUE]
      BY <2>2 DEF FailFirst
    <3>2. Target(t) = p
      BY <2>0, <3>1 DEF ProcessOK
    <3>3. CASE t \in Callers
      BY <2>0, <3>1, <3>2, <3>3 DEF ClosedBefore, Given, Target
    <3>4. CASE t \notin Callers
      <4>1. t = <<"reader", p>> \/ t = <<"waiter", p>>
        BY <3>2, <3>4 DEF Target, Threads, Readers, Waiters
      <4> QED
        BY <2>0, <3>1, <4>1 DEF EndedBefore
    <3> QED
      BY <3>3, <3>4
  <2>3. ASSUME NEW c \in Callers, Begin(c) \/ Close(c) \/ Cancel(c) \/ CallStep(c) \/ StopStep(c)
        PROVE  killed' = killed \/ StopTimer(c)
    BY <2>3
    DEF Begin, Close, Cancel, CallStep, StopStep, EnsureCurrent, EnsureLaunch, EnsureFails,
        AllocateID, Register, RegisterFails, LockWrite, Write, WriteFails, Unpend, ReturnFailed,
        Receive, CtxDone, Unwait, StopProcess, StopStdin, StopDone
  <2>4. ASSUME NEW t \in Threads, FailAgain(t) \/ FailLocked(t) PROVE killed' = killed
    BY <2>4 DEF FailAgain, FailLocked
  <2>5. ASSUME NEW q \in Procs, \/ ReadResponse(q) \/ Deliver(q) \/ ReadError(q) \/ ReadEOF(q)
                                \/ WaitReturns(q)
        PROVE  killed' = killed
    BY <2>5 DEF ReadResponse, Deliver, ReadError, ReadEOF, WaitReturns
  <2>6. ASSUME NEW q \in Procs, Serve(q) \/ ExitAtEOF(q) \/ Die(q) \/ Crash(q)
        PROVE  killed' = killed
    BY <2>6 DEF Serve, ExitAtEOF, Die, Crash, Exit
  <2>7. UNCHANGED vars => killed' = killed
    BY DEF vars
  <2> HIDE DEF Goal
  <2>8. Goal
    BY <2>q, <2>n, <2>1, <2>2, <2>3, <2>4, <2>5, <2>6, <2>7, NextCases
  <2> QED
    BY <2>8 DEF Goal
<1> QED
  BY <1>1, <1>2, <1>3, PTL DEF Spec

-----------------------------------------------------------------------------
(* Without RestartOnCrash one sidecar answers.  Before the first request a   *)
(* process may fail and be replaced, whatever the configuration says         *)
(* (client.go:230: ensureProcess asks whether a request was made, not        *)
(* whether a process was started); from the first request on it is final.    *)
Silent(p) == stdin[p] = <<>> /\ stdout[p] = <<>> /\ hand[p] = <<>>
OneServes == \A p \in Procs : ~Silent(p) => nextID > 0 /\ p = launched
SoleInv ==
  /\ ChannelInv
  /\ process \in {None, launched}
  /\ \A c \in Callers : pc[c] \in {"lockWrite", "write"} => target[c] = launched
  /\ OneServes

(* Who launches, registers, starts to write and writes; the others leave the *)
(* launched processes and the requests on their way alone.                   *)
Bystands ==
  /\ launched' = launched /\ process' \in {None, process}
  /\ \A c \in Callers : pc'[c] \in {"lockWrite", "write"} =>
                          pc[c] \in {"lockWrite", "write"} /\ target'[c] = target[c]

LEMMA StepBystands ==
  ASSUME TypeInv, [Next]_vars
  PROVE  Bystands \/ \E c \in Callers : EnsureLaunch(c) \/ Register(c)
<1> USE DEF clientVars, callerVars, processVars
<1>0. /\ DOMAIN pc = Threads /\ DOMAIN target = Callers
      /\ \A c \in Callers : c \in Threads
      /\ \A p \in Procs : <<"reader", p>> \notin Callers /\ <<"waiter", p>> \notin Callers
  BY TypeParts, Distinct, Goroutines DEF TypeInv, PointsOK, CallerOK
<1>1. ASSUME NEW c \in Callers, Begin(c) \/ Close(c) \/ Cancel(c) \/ StopStep(c) PROVE Bystands
  BY <1>0, <1>1
  DEF Begin, Close, Cancel, StopStep, StopProcess, StopStdin, StopTimer, StopDone, AfterDrop, Goto,
      Bystands
<1>2. ASSUME NEW c \in Callers, \/ (EnsureFails(c) /\ pc[c] # "startEnsure")
                                \/ RegisterFails(c) \/ ReturnFailed(c) \/ Receive(c) \/ Unwait(c)
      PROVE  Bystands
  <2>1. Returns(c)
    BY <1>2, CallsReturn
  <2> QED
    BY <2>1, <1>0 DEF Returns, Leave, Goto, Bystands
<1>3. ASSUME NEW c \in Callers,
             \/ EnsureCurrent(c) \/ (EnsureFails(c) /\ pc[c] = "startEnsure") \/ AllocateID(c)
             \/ LockWrite(c) \/ Write(c) \/ WriteFails(c) \/ Unpend(c) \/ CtxDone(c)
      PROVE  Bystands
  BY <1>0, <1>3
  DEF EnsureCurrent, EnsureFails, AllocateID, LockWrite, Write, WriteFails, Unpend, CtxDone,
      AfterEnsure, Goto, Bystands
<1>4. ASSUME NEW t \in Threads, FailFirst(t) \/ FailAgain(t) \/ FailLocked(t) PROVE Bystands
  BY <1>0, <1>4 DEF FailFirst, FailAgain, FailLocked, AfterFail, Goto, Bystands
<1>5. ASSUME NEW p \in Procs, \/ ReadResponse(p) \/ Deliver(p) \/ ReadError(p) \/ ReadEOF(p)
                              \/ WaitReturns(p)
      PROVE  Bystands
  BY <1>0, <1>5
  DEF ReadResponse, Deliver, ReadError, ReadEOF, WaitReturns, Goto, Bystands
<1>6. ASSUME NEW p \in Procs, Serve(p) \/ ExitAtEOF(p) \/ Die(p) \/ Crash(p) PROVE Bystands
  BY <1>6 DEF Serve, ExitAtEOF, Die, Crash, Exit, Bystands
<1>7. UNCHANGED vars => Bystands
  BY DEF vars, Bystands
<1> HIDE DEF clientVars, callerVars, processVars
<1> QED
  BY <1>1, <1>2, <1>3, <1>4, <1>5, <1>6, <1>7, NextCases DEF CallStep

(* A process that was silent stays so, unless a request is written to it.    *)
LEMMA SilenceStays ==
  ASSUME TypeInv, [Next]_vars, NEW p \in Procs, Silent(p)
  PROVE  Silent(p)' \/ \E c \in Callers : pc[c] = "write" /\ target[c] = p
<1> USE DEF clientVars, callerVars, processVars
<1>0. DOMAIN stdin = Procs /\ DOMAIN stdout = Procs /\ DOMAIN hand = Procs
  BY TypeParts DEF TypeInv, ProcessOK
<1> DEFINE Done == Silent(p)' \/ \E c \in Callers : pc[c] = "write" /\ target[c] = p
<1>calm. UNCHANGED <<stdin, stdout, hand>> => Done
  BY DEF Silent
<1>1. ASSUME NEW c \in Callers, Begin(c) \/ Close(c) \/ Cancel(c) \/ StopStep(c) PROVE Done
  BY <1>1, <1>calm DEF Begin, Close, Cancel, StopStep, StopProcess, StopStdin, StopTimer, StopDone
<1>2. ASSUME NEW c \in Callers, CallStep(c), ~Write(c) PROVE Done
  BY <1>2, <1>calm
  DEF CallStep, EnsureCurrent, EnsureLaunch, EnsureFails, AllocateID, Register, RegisterFails,
      LockWrite, WriteFails, Unpend, ReturnFailed, Receive, CtxDone, Unwait
<1>3. ASSUME NEW c \in Callers, Write(c) PROVE Done
  BY <1>0, <1>3 DEF Write, Silent
<1>4. ASSUME NEW t \in Threads, FailFirst(t) \/ FailAgain(t) \/ FailLocked(t) PROVE Done
  BY <1>4, <1>calm DEF FailFirst, FailAgain, FailLocked
<1>5. ASSUME NEW q \in Procs, \/ ReadResponse(q) \/ Deliver(q) \/ ReadError(q) \/ ReadEOF(q)
                              \/ WaitReturns(q)
      PROVE  Done
  BY <1>0, <1>5, <1>calm
  DEF ReadResponse, Deliver, ReadError, ReadEOF, WaitReturns, Silent
<1>6. ASSUME NEW q \in Procs, Serve(q) \/ ExitAtEOF(q) \/ Die(q) \/ Crash(q) PROVE Done
  BY <1>0, <1>6, <1>calm DEF Serve, ExitAtEOF, Die, Crash, Exit, Silent
<1>7. UNCHANGED vars => Done
  BY <1>calm DEF vars
<1> HIDE DEF clientVars, callerVars, processVars, Done
<1>8. Done
  BY <1>1, <1>2, <1>3, <1>4, <1>5, <1>6, <1>7, NextCases
<1> QED
  BY <1>8 DEF Done

(* Ids are given out in order. *)
LEMMA NextGrows ==
  ASSUME TypeInv, [Next]_vars
  PROVE  nextID' \in Nat /\ nextID' >= nextID
<1> USE DEF clientVars, callerVars, processVars
<1>0. nextID \in Nat
  BY TypeParts DEF TypeInv, ClientOK
<1>1. \A c \in Callers : Begin(c) \/ Close(c) \/ Cancel(c) \/ StopStep(c) => nextID' = nextID
  BY DEF Begin, Close, Cancel, StopStep, StopProcess, StopStdin, StopTimer, StopDone
<1>2. \A c \in Callers : CallStep(c) => nextID' = nextID \/ nextID' = nextID + 1
  BY DEF CallStep, EnsureCurrent, EnsureLaunch, EnsureFails, AllocateID, NewID, Register,
         RegisterFails, LockWrite, Write, WriteFails, Unpend, ReturnFailed, Receive, CtxDone, Unwait
<1>3. \A t \in Threads : FailFirst(t) \/ FailAgain(t) \/ FailLocked(t) => nextID' = nextID
  BY DEF FailFirst, FailAgain, FailLocked
<1>4. \A p \in Procs : ReadResponse(p) \/ Deliver(p) \/ ReadError(p) \/ ReadEOF(p)
                       \/ WaitReturns(p) => nextID' = nextID
  BY DEF ReadResponse, Deliver, ReadError, ReadEOF, WaitReturns
<1>5. \A p \in Procs : Serve(p) \/ ExitAtEOF(p) \/ Die(p) \/ Crash(p) => nextID' = nextID
  BY DEF Serve, ExitAtEOF, Die, Crash, Exit
<1>6. UNCHANGED vars => nextID' = nextID
  BY DEF vars
<1> HIDE DEF clientVars, callerVars, processVars
<1>7. nextID' = nextID \/ nextID' = nextID + 1
  BY <1>1, <1>2, <1>3, <1>4, <1>5, <1>6, NextCases
<1> QED
  BY <1>0, <1>7

LEMMA SoleStep ==
  ASSUME ~RestartOnCrash, SoleInv, [Next]_vars
  PROVE  SoleInv' /\ (nextID > 0 => UNCHANGED launched)
<1> USE DEF clientVars, callerVars, processVars
<1>0. /\ ChannelInv /\ TypeInv /\ ClientOK /\ CallerOK /\ ProcessOK /\ Equipped /\ IdsUnique
      /\ OneServes /\ process \in {None, launched}
      /\ \A c \in Callers : pc[c] \in {"lockWrite", "write"} => target[c] = launched
  BY TypeParts DEF SoleInv, ChannelInv, TypeInv
<1>c. ChannelInv'
  BY <1>0, ChannelStep
<1>g. nextID' >= nextID
  BY <1>0, NextGrows
<1>n. \A c \in Callers : pc[c] \in {"lockWrite", "write"} => nextID > 0
  <2>1. ASSUME NEW c \in Callers, pc[c] \in {"lockWrite", "write"} PROVE nextID > 0
    <3>1. id[c] # 0
      BY <1>0, <2>1 DEF Equipped, IdPoints, CallPoints
    <3>2. id[c] \in 0..nextID /\ nextID \in Nat
      BY <1>0 DEF IdsUnique, ClientOK
    <3> QED
      BY <3>1, <3>2
  <2> QED
    BY <2>1
<1>1. CASE Bystands
  <2>1. ASSUME NEW p \in Procs, ~Silent(p)' PROVE nextID' > 0 /\ p = launched'
    <3>1. ~Silent(p) \/ \E c \in Callers : pc[c] = "write" /\ target[c] = p
      BY <1>0, <2>1, SilenceStays
    <3>2. nextID > 0 /\ p = launched
      BY <1>0, <1>n, <3>1 DEF OneServes
    <3>3. nextID \in Nat /\ nextID' \in Nat
      BY <1>0, NextGrows DEF ClientOK
    <3> QED
      BY <1>1, <1>g, <3>2, <3>3 DEF Bystands
  <2> QED
    BY <1>0, <1>c, <1>1, <2>1 DEF Bystands, SoleInv, OneServes
<1>2. ASSUME NEW c \in Callers, EnsureLaunch(c) PROVE SoleInv' /\ nextID = 0
  <2>1. /\ nextID = 0 /\ process' = launched' /\ UNCHANGED <<stdin, stdout, hand>>
        /\ pc' = [pc EXCEPT ![c] = AfterEnsure(c)]
    BY <1>2 DEF EnsureLaunch, MayLaunch, Goto
  <2>2. \A p \in Procs : Silent(p) /\ Silent(p)'
    BY <1>0, <2>1 DEF OneServes, Silent
  <2>3. \A d \in Callers : pc'[d] \notin {"lockWrite", "write"}
    BY <1>0, <1>n, <2>1, TypeParts DEF PointsOK, AfterEnsure
  <2> QED
    BY <1>c, <2>1, <2>2, <2>3 DEF SoleInv, OneServes
<1>3. ASSUME NEW c \in Callers, Register(c) PROVE SoleInv' /\ launched' = launched
  <2>1. /\ UNCHANGED <<process, nextID, launched, target, stdin, stdout, hand>>
        /\ pc' = [pc EXCEPT ![c] = "lockWrite"] /\ process = target[c] /\ target[c] # None
    BY <1>0, <1>3
    DEF Register, MayRegister, Goto, Equipped, TargetPoints, IdPoints, CallPoints, Procs, None
  <2>2. OneServes'
    BY <1>0, <2>1 DEF OneServes, Silent
  <2>3. \A d \in Callers : pc'[d] \in {"lockWrite", "write"} => target'[d] = launched'
    BY <1>0, <2>1, TypeParts DEF PointsOK
  <2> QED
    BY <1>0, <1>c, <2>1, <2>2, <2>3 DEF SoleInv
<1> QED
  BY <1>0, <1>1, <1>2, <1>3, StepBystands DEF Bystands

(* How far the client keeps to one sidecar: without RestartOnCrash no        *)
(* process is launched once a request has its id, and every request that was *)
(* written and every response to one is with the last process launched.  A   *)
(* request is not carried over to a second sidecar (client.go:230).          *)
THEOREM OneSidecarServes ==
  ASSUME ~RestartOnCrash
  PROVE  Spec => []OneServes /\ [][nextID > 0 => UNCHANGED launched]_vars
<1>1. Init => SoleInv
  <2> SUFFICES ASSUME Init PROVE SoleInv
    OBVIOUS
  <2>1. ChannelInv
    BY ChannelInit
  <2>2. /\ process \in {None, launched} /\ OneServes
        /\ \A c \in Callers : pc[c] \notin {"lockWrite", "write"}
    BY Distinct DEF Init, OneServes, Silent, None
  <2> QED
    BY <2>1, <2>2 DEF SoleInv
<1>2. SoleInv /\ [Next]_vars => SoleInv' /\ [nextID > 0 => UNCHANGED launched]_vars
  BY SoleStep
<1>3. SoleInv => OneServes
  BY DEF SoleInv
<1> QED
  BY <1>1, <1>2, <1>3, PTL DEF Spec

-----------------------------------------------------------------------------
(* A request is sent at most once: the client implements AtMostOnce.  Stage  *)
(* is the phase of the request that a caller's call stands for, whose token  *)
(* is the caller's next one counted from the end.                            *)
Unfinished  == {"wait", "unwait"}
Answered(c) == \E i \in DOMAIN chan[c] : chan[c][i] \notin Failures
Stage(c) == IF pc[c] \notin Unfinished THEN "new" ELSE IF Answered(c) THEN "answered" ELSE "sent"
Phases   == [k \in CallSet |-> Phase(k)]

In(p)   == Items(stdin[p])
Out(p)  == Items(stdout[p])
Held(p) == Items(hand[p])
Box(p)  == In(p) \cup Out(p) \cup Held(p)
Queued   == UNION {Items(stdin[p]) : p \in Procs}
OnItsWay == UNION {Items(stdout[p]) \cup Items(hand[p]) : p \in Procs}

(* The abstract state in terms of the pipes.  A request is in one place at a *)
(* time, from when it is written to when its answer is delivered or lost; no *)
(* answer reaches a call that has not written its request.                   *)
Counted  == left \in [Callers -> Nat] /\ \A c \in Callers : left[c] <= MaxCalls[c]
Apart(s) == \A i, j \in DOMAIN s : s[i].req = s[j].req => i = j
OnePlace ==
  \A p \in Procs :
    /\ Apart(stdin[p]) /\ Apart(stdout[p]) /\ Len(hand[p]) <= 1
    /\ In(p) \cap (Out(p) \cup Held(p)) = {} /\ Out(p) \cap Held(p) = {}
    /\ \A q \in Procs : q # p => Box(p) \cap Box(q) = {}
Written == \A p \in Procs : \A k \in Box(p) : k \in CallSet /\ Phases[k] # "new"
NoEarly == \A c \in Callers : pc[c] \notin Unfinished => ~Answered(c)

OnceInv == AnswerInv /\ Counted /\ OnePlace /\ Written /\ NoEarly

LEMMA CallParts ==
  /\ \A k \in CallSet : /\ k = <<k[1], k[2]>> /\ k[1] \in Callers
                        /\ k[2] \in Nat /\ 1 <= k[2] /\ k[2] <= MaxCalls[k[1]]
  /\ \A c \in Callers : \A n \in 1..MaxCalls[c] : <<c, n>> \in CallSet
<1>1. ASSUME NEW k \in CallSet
      PROVE  /\ k = <<k[1], k[2]>> /\ k[1] \in Callers
             /\ k[2] \in Nat /\ 1 <= k[2] /\ k[2] <= MaxCalls[k[1]]
  <2>1. PICK c \in Callers : k \in {c} \X (1..MaxCalls[c])
    BY DEF CallSet
  <2>2. k = <<k[1], k[2]>> /\ k[1] = c /\ k[2] \in 1..MaxCalls[c]
    BY <2>1
  <2>3. MaxCalls[c] \in Nat
    BY BoundsAssumption
  <2> QED
    BY <2>2, <2>3
<1>2. ASSUME NEW c \in Callers, NEW n \in 1..MaxCalls[c] PROVE <<c, n>> \in CallSet
  <2>1. <<c, n>> \in {c} \X (1..MaxCalls[c])
    OBVIOUS
  <2> QED
    BY <2>1 DEF CallSet
<1> QED
  BY <1>1, <1>2

(* The requests in a queue whose requests differ, after one came or went.    *)
LEMMA TailApart ==
  ASSUME NEW S, NEW s \in Seq(S), s # <<>>, Apart(s)
  PROVE  /\ Apart(Tail(s)) /\ Head(s).req \in Items(s)
         /\ Items(Tail(s)) = Items(s) \ {Head(s).req}
<1>1. 1 \in DOMAIN s /\ Head(s) = s[1]
  BY HeadItem
<1>2. \A i \in DOMAIN Tail(s) : i + 1 \in DOMAIN s /\ i \in Nat /\ i + 1 # 1 /\ Tail(s)[i] = s[i + 1]
  OBVIOUS
<1>3. ASSUME NEW i \in DOMAIN Tail(s), NEW j \in DOMAIN Tail(s), Tail(s)[i].req = Tail(s)[j].req
      PROVE  i = j
  <2>1. i + 1 = j + 1
    BY <1>2, <1>3 DEF Apart
  <2> QED
    BY <1>2, <2>1
<1>4. ASSUME NEW k \in Items(Tail(s)) PROVE k \in Items(s) /\ k # Head(s).req
  <2>1. PICK i \in DOMAIN Tail(s) : k = Tail(s)[i].req
    BY DEF Items
  <2>2. i + 1 \in DOMAIN s /\ k = s[i + 1].req /\ i + 1 # 1
    BY <1>2, <2>1
  <2> QED
    BY <1>1, <2>2 DEF Items, Apart
<1>5. ASSUME NEW k \in Items(s), k # Head(s).req PROVE k \in Items(Tail(s))
  <2>1. PICK j \in DOMAIN s : k = s[j].req
    BY DEF Items
  <2>2. j # 1
    BY <1>1, <1>5, <2>1
  <2>3. j - 1 \in DOMAIN Tail(s) /\ Tail(s)[j - 1] = s[j]
    BY <2>2, ItemInTail
  <2> QED
    BY <2>1, <2>3 DEF Items
<1>6. Apart(Tail(s))
  BY <1>3 DEF Apart
<1>7. Head(s).req \in Items(s)
  BY <1>1 DEF Items
<1> QED
  BY <1>4, <1>5, <1>6, <1>7

LEMMA AppendApart ==
  ASSUME NEW S, NEW s \in Seq(S), NEW e, Apart(s), e.req \notin Items(s)
  PROVE  Apart(Append(s, e)) /\ Items(Append(s, e)) = Items(s) \cup {e.req}
<1>1. \A i \in DOMAIN Append(s, e) : (i \in DOMAIN s /\ Append(s, e)[i] = s[i])
                                     \/ (i = Len(s) + 1 /\ Append(s, e)[i] = e)
  OBVIOUS
<1>2. Len(s) + 1 \in DOMAIN Append(s, e) /\ Append(s, e)[Len(s) + 1] = e
  OBVIOUS
<1>3. \A i \in DOMAIN s : i \in DOMAIN Append(s, e) /\ Append(s, e)[i] = s[i]
  OBVIOUS
<1>4. Apart(Append(s, e))
  BY <1>1 DEF Apart, Items
<1>5. Items(Append(s, e)) = Items(s) \cup {e.req}
  <2>1. \A k : k \in Items(Append(s, e)) => k \in Items(s) \cup {e.req}
    BY <1>1 DEF Items
  <2>2. \A k : k \in Items(s) => k \in Items(Append(s, e))
    BY <1>3 DEF Items
  <2>3. e.req \in Items(Append(s, e))
    BY <1>2 DEF Items
  <2> QED
    BY <2>1, <2>2, <2>3
<1> QED
  BY <1>4, <1>5

LEMMA FewItems ==
  /\ Items(<<>>) = {} /\ Apart(<<>>) /\ Len(<<>>) <= 1
  /\ \A m : Items(<<m>>) = {m.req} /\ Len(<<m>>) <= 1
  /\ \A S : \A s \in Seq(S) : Len(s) <= 1 /\ s # <<>> => Items(s) = {Head(s).req}
<1>1. Items(<<>>) = {} /\ Apart(<<>>) /\ Len(<<>>) <= 1
  BY DEF Items, Apart
<1>2. ASSUME NEW m PROVE Items(<<m>>) = {m.req} /\ Len(<<m>>) <= 1
  <2>1. DOMAIN <<m>> = {1} /\ <<m>>[1] = m /\ Len(<<m>>) <= 1
    OBVIOUS
  <2> QED
    BY <2>1 DEF Items
<1>3. ASSUME NEW S, NEW s \in Seq(S), Len(s) <= 1, s # <<>> PROVE Items(s) = {Head(s).req}
  <2>1. 1 \in DOMAIN s /\ Head(s) = s[1]
    BY <1>3, HeadItem
  <2>2. \A i \in DOMAIN s : i = 1
    BY <1>3
  <2> QED
    BY <2>1, <2>2 DEF Items
<1> QED
  BY <1>1, <1>2, <1>3

(* The phase of a request by the number its caller has left.                 *)
ByStage == \A k \in CallSet : Phases[k] = IF k[2] > left[k[1]] THEN "done"
                                          ELSE IF k[2] = left[k[1]] THEN Stage(k[1]) ELSE "new"

LEMMA PhaseByStage == Counted => ByStage
<1> SUFFICES ASSUME Counted, NEW k \in CallSet
             PROVE  Phase(k) = IF k[2] > left[k[1]] THEN "done"
                               ELSE IF k[2] = left[k[1]] THEN Stage(k[1]) ELSE "new"
  BY DEF ByStage, Phases
<1>1. k[1] \in Callers /\ k[2] \in Nat /\ left[k[1]] \in Nat
  BY CallParts DEF Counted
<1>2. CASE k[2] > left[k[1]]
  BY <1>2 DEF Phase
<1>3. CASE k[2] = left[k[1]]
  <2>1. ~(k[2] > left[k[1]]) /\ ~(k[2] < left[k[1]])
    BY <1>1, <1>3
  <2> QED
    BY <1>3, <2>1 DEF Phase, Stage, Unfinished, Answered
<1>4. CASE ~(k[2] > left[k[1]]) /\ k[2] # left[k[1]]
  <2>1. k[2] < left[k[1]]
    BY <1>1, <1>4
  <2> QED
    BY <1>4, <2>1 DEF Phase
<1> QED
  BY <1>2, <1>3, <1>4

LEMMA PhaseByStagePrime == Counted' => ByStage'
BY PhaseByStage, PTL

(* A step that leaves the counts changes the phase of the request that the   *)
(* calls it concerns stand for.                                              *)
LEMMA StagesKept ==
  ASSUME Counted, Counted', UNCHANGED left, \A c \in Callers : Stage(c)' = Stage(c)
  PROVE  Phases' = Phases
<1>1. ByStage /\ ByStage'
  BY PhaseByStage, PhaseByStagePrime
<1>2. \A k \in CallSet : Phases'[k] = Phases[k]
  BY <1>1, CallParts DEF ByStage
<1> QED
  BY <1>2 DEF Phases

LEMMA StageMoves ==
  ASSUME Counted, Counted', UNCHANGED left, NEW c \in Callers, left[c] >= 1,
         \A d \in Callers : d # c => Stage(d)' = Stage(d)
  PROVE  /\ Token(c) \in CallSet /\ Phases[Token(c)] = Stage(c)
         /\ Phases' = [Phases EXCEPT ![Token(c)] = Stage(c)']
<1>1. ByStage /\ ByStage'
  BY PhaseByStage, PhaseByStagePrime
<1>2. left[c] \in Nat /\ MaxCalls[c] \in Nat /\ left[c] <= MaxCalls[c]
  BY BoundsAssumption DEF Counted
<1>3. left[c] \in 1..MaxCalls[c]
  BY <1>2
<1>4. Token(c) \in CallSet /\ Token(c)[1] = c /\ Token(c)[2] = left[c]
  BY <1>3, CallParts DEF Token
<1>5. Phases[Token(c)] = Stage(c) /\ Phases'[Token(c)] = Stage(c)'
  BY <1>1, <1>2, <1>4 DEF ByStage
<1>6. ASSUME NEW k \in CallSet, k # Token(c) PROVE Phases'[k] = Phases[k]
  <2>1. k = <<k[1], k[2]>> /\ k[1] \in Callers
    BY CallParts
  <2>2. k[2] = left[k[1]] => k[1] # c
    BY <1>6, <2>1 DEF Token
  <2> QED
    BY <1>1, <2>1, <2>2 DEF ByStage
<1>7. \A k \in CallSet : Phases'[k] = IF k = Token(c) THEN Stage(c)' ELSE Phases[k]
  BY <1>5, <1>6
<1> QED
  BY <1>4, <1>5, <1>7 DEF Phases

(* A call that returns is done, and the next one of its caller is new.       *)
LEMMA ReturnMoves ==
  ASSUME Counted, Counted', NEW c \in Callers,
         left[c] >= 1, left' = [left EXCEPT ![c] = @ - 1], pc'[c] \notin Unfinished,
         \A d \in Callers : d # c => Stage(d)' = Stage(d)
  PROVE  /\ Token(c) \in CallSet /\ Phases[Token(c)] # "done"
         /\ Phases' = [Phases EXCEPT ![Token(c)] = "done"]
<1>1. ByStage /\ ByStage'
  BY PhaseByStage, PhaseByStagePrime
<1>2. /\ left[c] \in Nat /\ MaxCalls[c] \in Nat /\ left[c] <= MaxCalls[c]
      /\ left'[c] = left[c] - 1 /\ \A d \in Callers : d # c => left'[d] = left[d]
  BY BoundsAssumption DEF Counted
<1>3. left[c] \in 1..MaxCalls[c] /\ ~(left[c] > left[c])
  BY <1>2
<1>4. Token(c) \in CallSet /\ Token(c)[1] = c /\ Token(c)[2] = left[c]
  BY <1>3, CallParts DEF Token
<1>5. Phases[Token(c)] # "done"
  BY <1>1, <1>3, <1>4 DEF ByStage, Stage
<1>6. Stage(c)' = "new"
  BY DEF Stage
<1>7. ASSUME NEW k \in CallSet
      PROVE  Phases'[k] = IF k = Token(c) THEN "done" ELSE Phases[k]
  <2>1. k = <<k[1], k[2]>> /\ k[1] \in Callers /\ k[2] \in Nat
    BY CallParts
  <2>2. CASE k[1] # c
    BY <1>1, <1>2, <2>1, <2>2 DEF ByStage, Token
  <2>3. CASE k[1] = c
    <3>1. Phases'[k] = IF k[2] > left[c] - 1 THEN "done" ELSE "new"
      BY <1>1, <1>2, <1>6, <2>3 DEF ByStage
    <3>2. Phases[k] = IF k[2] > left[c] THEN "done" ELSE IF k[2] = left[c] THEN Stage(c) ELSE "new"
      BY <1>1, <2>3 DEF ByStage
    <3>3. k = Token(c) <=> k[2] = left[c]
      BY <2>1, <2>3 DEF Token
    <3> QED
      BY <1>2, <2>1, <3>1, <3>2, <3>3
  <2> QED
    BY <2>2, <2>3
<1> QED
  BY <1>4, <1>5, <1>7 DEF Phases

Simulated == [Once!Next]_(Once!vars)

LEMMA OnceParts ==
  /\ (\E k \in CallSet : /\ Phases[k] # "done"
                         /\ Phases' = [Phases EXCEPT ![k] = "done"]
                         /\ Queued' \subseteq Queued /\ OnItsWay' \subseteq OnItsWay) => Simulated
  /\ Phases' = Phases /\ Queued' \subseteq Queued /\ OnItsWay' \subseteq OnItsWay => Simulated
  /\ (\E k \in CallSet : /\ Phases[k] = "new"
                         /\ Phases' = [Phases EXCEPT ![k] = "sent"]
                         /\ Queued' = Queued \cup {k} /\ OnItsWay' = OnItsWay) => Simulated
  /\ (\E k \in Queued \cap CallSet : /\ Queued' = Queued \ {k} /\ OnItsWay' = OnItsWay \cup {k}
                                     /\ Phases' = Phases) => Simulated
  /\ (\E k \in OnItsWay \cap CallSet : /\ Phases[k] = "sent"
                                       /\ Phases' = [Phases EXCEPT ![k] = "answered"]
                                       /\ OnItsWay' = OnItsWay \ {k} /\ Queued' = Queued)
       => Simulated
BY DEF Simulated, Once!Next, Once!Send, Once!Execute, Once!Deliver, Once!Return, Once!Lose,
       Phases, Queued, OnItsWay

LEMMA NotAFailure ==
  /\ \A m \in Answers : m \notin Failures
  /\ \A kind \in {"failed", "closed"} : [kind |-> kind] \in Failures
<1>1. ASSUME NEW m \in Answers PROVE m \notin Failures
  <2>1. "id" \in DOMAIN m
    BY DEF Answers
  <2>2. \A f \in Failures : "id" \notin DOMAIN f
    BY DEF Failures
  <2> QED
    BY <2>1, <2>2
<1> QED
  BY <1>1 DEF Failures

(* The boxes of OnceInv from the phases on: what is in a pipe was written.   *)
LEMMA WrittenStays ==
  ASSUME OnceInv, \A p \in Procs : Box(p)' \subseteq Box(p),
         \A k \in CallSet : Phases'[k] = "new" => Phases[k] = "new"
  PROVE  Written'
BY DEF OnceInv, Written

(* A step after which every call is where it was.  A failure that is sent to *)
(* a call is no answer.                                                      *)
LEMMA CallsRest ==
  ASSUME OnceInv, AnswerInv', UNCHANGED <<left, stdin, stdout, hand>>,
         \A c \in Callers : pc'[c] \in Unfinished <=> pc[c] \in Unfinished,
         chan' = chan \/ \E kind \in {"failed", "closed"} : FailPending(kind)
  PROVE  OnceInv' /\ Simulated
<1>1. chan \in [Callers -> Seq(Answers \cup Failures)] /\ Counted /\ Counted'
  BY TypeParts DEF OnceInv, AnswerInv, ChannelInv, TypeInv, CallerOK, Counted
<1>2. ASSUME NEW c \in Callers PROVE Answered(c)' <=> Answered(c)
  <2>1. CASE chan' = chan
    BY <2>1 DEF Answered
  <2>2. ASSUME NEW kind \in {"failed", "closed"}, FailPending(kind)
        PROVE  Answered(c)' <=> Answered(c)
    <3> DEFINE f == [kind |-> kind]
    <3>1. f \in Failures
      BY NotAFailure
    <3>2. chan[c] \in Seq(Answers \cup Failures) /\ chan'[c] \in {chan[c], Append(chan[c], f)}
      BY <1>1, <2>2 DEF FailPending
    <3> HIDE DEF f
    <3>3. CASE chan'[c] = chan[c]
      BY <3>3 DEF Answered
    <3>4. CASE chan'[c] = Append(chan[c], f)
      <4>1. \A i \in DOMAIN chan[c] : i \in DOMAIN chan'[c] /\ chan'[c][i] = chan[c][i]
        BY <3>2, <3>4
      <4>2. \A i \in DOMAIN chan'[c] : (i \in DOMAIN chan[c] /\ chan'[c][i] = chan[c][i])
                                       \/ chan'[c][i] = f
        BY <3>2, <3>4, AppendItem
      <4> QED
        BY <3>1, <4>1, <4>2 DEF Answered
    <3> QED
      BY <3>2, <3>3, <3>4
  <2> QED
    BY <2>1, <2>2
<1>3. \A c \in Callers : Stage(c)' = Stage(c)
  BY <1>2 DEF Stage
<1>4. Phases' = Phases
  BY <1>1, <1>3, StagesKept
<1>5. \A p \in Procs : Box(p)' = Box(p) /\ In(p)' = In(p) /\ Out(p)' = Out(p) /\ Held(p)' = Held(p)
  BY DEF Box, In, Out, Held
<1>6. Queued' = Queued /\ OnItsWay' = OnItsWay
  BY DEF Queued, OnItsWay
<1>7. Simulated
  BY <1>4, <1>6, OnceParts
<1>8. OnePlace'
  BY <1>5 DEF OnceInv, OnePlace
<1>9. Written'
  BY <1>4, <1>5, WrittenStays
<1>10. NoEarly'
  BY <1>2 DEF OnceInv, NoEarly
<1> QED
  BY <1>1, <1>7, <1>8, <1>9, <1>10 DEF OnceInv

(* The steps of the threads that send and take nothing, and end no call.     *)
LEMMA ThreadRests ==
  ASSUME OnceInv, AnswerInv', UNCHANGED <<left, stdin, stdout, hand>>,
         NEW t \in Threads, NEW point \in Points, Goto(t, point),
         t \in Callers => (point \in Unfinished <=> pc[t] \in Unfinished),
         chan' = chan \/ \E kind \in {"failed", "closed"} : FailPending(kind)
  PROVE  OnceInv' /\ Simulated
<1>1. \A c \in Callers : pc'[c] = IF c = t THEN point ELSE pc[c]
  BY Distinct, TypeParts DEF OnceInv, AnswerInv, ChannelInv, TypeInv, PointsOK, Goto
<1> QED
  BY <1>1, CallsRest

LEMMA CallerRests ==
  ASSUME OnceInv, AnswerInv', NEW c \in Callers,
         \/ Begin(c) \/ Close(c) \/ EnsureCurrent(c) \/ EnsureLaunch(c)
         \/ (EnsureFails(c) /\ pc[c] = "startEnsure")
         \/ AllocateID(c) \/ Register(c) \/ LockWrite(c) \/ WriteFails(c) \/ Unpend(c)
         \/ CtxDone(c) \/ StopStep(c)
  PROVE  OnceInv' /\ Simulated
<1>t. c \in Threads
  BY Distinct
<1>p. CallPoints \cup StopPoints \cup {"idle", "startEnsure"} \subseteq Points
  BY DEF Points, CallerPoints
<1>1. UNCHANGED <<left, stdin, stdout, hand>>
  BY DEF Begin, Close, EnsureCurrent, EnsureLaunch, EnsureFails, AllocateID, Register, LockWrite,
         WriteFails, Unpend, CtxDone, StopStep, StopProcess, StopStdin, StopTimer, StopDone,
         callerVars, processVars
<1>2. chan' = chan \/ FailPending("closed")
  BY DEF Begin, Close, EnsureCurrent, EnsureLaunch, EnsureFails, AllocateID, Register, LockWrite,
         WriteFails, Unpend, CtxDone, StopStep, StopProcess, StopStdin, StopTimer, StopDone,
         callerVars, processVars
<1>3. CASE Begin(c) \/ Close(c) \/ StopStep(c) \/ (EnsureFails(c) /\ pc[c] = "startEnsure")
  <2>1. /\ pc[c] \notin Unfinished
        /\ \E point \in StopPoints \cup {"idle", "ensure", "startEnsure"} : Goto(c, point)
    BY <1>3 DEF Begin, Close, EnsureFails, StopStep, StopProcess, StopStdin, StopTimer, StopDone,
                AfterDrop, StopPoints, Unfinished
  <2>2. PICK point \in StopPoints \cup {"idle", "ensure", "startEnsure"} : Goto(c, point)
    BY <2>1
  <2>3. point \in Points /\ point \notin Unfinished
    BY <1>p DEF CallPoints, StopPoints, Unfinished
  <2> QED
    BY <1>t, <1>1, <1>2, <2>1, <2>2, <2>3, ThreadRests
<1>4. CASE EnsureCurrent(c) \/ EnsureLaunch(c) \/ AllocateID(c) \/ Register(c) \/ LockWrite(c)
           \/ WriteFails(c) \/ Unpend(c)
  <2>1. /\ pc[c] \notin Unfinished
        /\ \E point \in {"ensure", "alloc", "register", "lockWrite", "write", "unpend", "fail"} :
             Goto(c, point)
    BY <1>4 DEF EnsureCurrent, EnsureLaunch, AllocateID, Register, LockWrite, WriteFails, Unpend,
                AfterEnsure, Unfinished
  <2>2. PICK point \in {"ensure", "alloc", "register", "lockWrite", "write", "unpend", "fail"} :
          Goto(c, point)
    BY <2>1
  <2>3. point \in Points /\ point \notin Unfinished
    BY <1>p DEF CallPoints, Unfinished
  <2> QED
    BY <1>t, <1>1, <1>2, <2>1, <2>2, <2>3, ThreadRests
<1>5. CASE CtxDone(c)
  <2>1. pc[c] = "wait" /\ Goto(c, "unwait") /\ "unwait" \in Points
    BY <1>p, <1>5 DEF CtxDone, CallPoints
  <2> QED
    BY <1>t, <1>1, <1>2, <2>1, ThreadRests DEF Unfinished
<1> QED
  BY <1>3, <1>4, <1>5

LEMMA FailureRests ==
  ASSUME OnceInv, AnswerInv',
         \/ \E t \in Threads : FailFirst(t) \/ FailAgain(t) \/ FailLocked(t)
         \/ \E p \in Procs : ReadError(p) \/ ReadEOF(p) \/ WaitReturns(p)
         \/ \E c \in Callers : Cancel(c)
         \/ UNCHANGED vars
  PROVE  OnceInv' /\ Simulated
<1>p. {"fail", "failLock", "failed", "done"} \subseteq Points \ Unfinished
  BY DEF Points, CallerPoints, CallPoints, ReaderPoints, Unfinished
<1>1. ASSUME NEW t \in Threads, FailFirst(t) \/ FailAgain(t) \/ FailLocked(t)
      PROVE  OnceInv' /\ Simulated
  <2>1. pc[t] \notin Unfinished /\ UNCHANGED <<left, stdin, stdout, hand>>
    BY <1>1 DEF FailFirst, FailAgain, FailLocked, Unfinished, callerVars, processVars
  <2>2. chan' = chan \/ FailPending("failed")
    BY <1>1 DEF FailFirst, FailAgain, FailLocked, callerVars
  <2>3. \E point \in {"failLock", "failed", "done"} : Goto(t, point)
    BY <1>1 DEF FailFirst, FailAgain, FailLocked, AfterFail
  <2> QED
    BY <1>p, <2>1, <2>2, <2>3, ThreadRests
<1>2. ASSUME NEW p \in Procs, ReadError(p) \/ ReadEOF(p) \/ WaitReturns(p)
      PROVE  OnceInv' /\ Simulated
  <2>1. /\ UNCHANGED <<left, stdin, stdout, hand, chan>>
        /\ \E t \in {<<"reader", p>>, <<"waiter", p>>}, point \in {"fail", "done"} : Goto(t, point)
    BY <1>2 DEF ReadError, ReadEOF, WaitReturns, callerVars, processVars
  <2> QED
    BY <1>p, <2>1, ThreadRests, Goroutines
<1>3. CASE (\E c \in Callers : Cancel(c)) \/ UNCHANGED vars
  <2>1. UNCHANGED <<pc, left, stdin, stdout, hand, chan>>
    BY <1>3 DEF Cancel, vars, callerVars, processVars
  <2> QED
    BY <2>1, CallsRest
<1> QED
  BY <1>1, <1>2, <1>3

(* A call returns: whatever is left of it in a pipe stays there.             *)
LEMMA ReturnStep ==
  ASSUME OnceInv, AnswerInv', NEW c \in Callers, Returns(c)
  PROVE  OnceInv' /\ Simulated
<1>0. /\ TypeInv /\ PointsOK /\ CallerOK /\ Counted /\ Counted' /\ Budgeted
  <2>1. TypeInv /\ PointsOK /\ CallerOK /\ Counted /\ Budgeted
    BY TypeParts DEF OnceInv, AnswerInv, ChannelInv, TypeInv
  <2>2. left[c] >= 1 /\ left' = [left EXCEPT ![c] = @ - 1]
    <3>1. left' = [left EXCEPT ![c] = @ - 1]
      BY DEF Returns, Leave
    <3> QED
      BY <2>1, <3>1 DEF Budgeted, Returns
  <2>3. left[c] \in Nat /\ MaxCalls[c] \in Nat /\ left[c] - 1 \in Nat /\ left[c] - 1 <= MaxCalls[c]
    <3>1. left[c] \in Nat /\ left[c] <= MaxCalls[c]
      BY <2>1 DEF Counted
    <3>2. MaxCalls[c] \in Nat
      BY BoundsAssumption
    <3> QED
      BY <2>2, <3>1, <3>2
  <2>4. left' \in [Callers -> Nat] /\ left'[c] = left[c] - 1
        /\ \A d \in Callers : d # c => left'[d] = left[d]
    BY <2>1, <2>2, <2>3 DEF CallerOK
  <2>5. Counted'
    BY <2>1, <2>3, <2>4 DEF Counted
  <2> QED
    BY <2>1, <2>5
<1>1. PICK point \in {"idle", "drop", "ensure"} : Leave(c, point)
  BY DEF Returns
<1>2. /\ pc'[c] = point /\ point \notin Unfinished /\ chan'[c] = <<>>
      /\ \A d \in Callers : d # c => pc'[d] = pc[d] /\ chan'[d] = chan[d]
      /\ UNCHANGED <<stdin, stdout, hand>>
  BY <1>0, <1>1, Distinct DEF Leave, Goto, PointsOK, CallerOK, Returns, Unfinished, processVars
<1>3. left[c] >= 1 /\ left' = [left EXCEPT ![c] = @ - 1]
  BY <1>0, <1>1 DEF Budgeted, Returns, Leave
<1>4. \A d \in Callers : d # c => Stage(d)' = Stage(d) /\ (Answered(d)' <=> Answered(d))
  BY <1>2 DEF Stage, Answered
<1>5. /\ Token(c) \in CallSet /\ Phases[Token(c)] # "done"
      /\ Phases' = [Phases EXCEPT ![Token(c)] = "done"]
  BY <1>0, <1>2, <1>3, <1>4, ReturnMoves
<1>6. \A p \in Procs : Box(p)' = Box(p) /\ In(p)' = In(p) /\ Out(p)' = Out(p) /\ Held(p)' = Held(p)
  BY <1>2 DEF Box, In, Out, Held
<1>7. Simulated
  <2>1. Queued' = Queued /\ OnItsWay' = OnItsWay
    BY <1>2 DEF Queued, OnItsWay
  <2> QED
    BY <1>5, <2>1, OnceParts
<1>8. OnePlace'
  BY <1>2, <1>6 DEF OnceInv, OnePlace
<1>9. Written'
  <2>1. \A k \in CallSet : Phases'[k] = "new" => Phases[k] = "new"
    BY <1>5 DEF Phases
  <2> QED
    BY <1>6, <2>1, WrittenStays
<1>10. NoEarly'
  BY <1>2, <1>4 DEF OnceInv, NoEarly, Answered
<1> QED
  BY <1>0, <1>7, <1>8, <1>9, <1>10 DEF OnceInv

(* A request is put into a pipe: it is in none before.                       *)
LEMMA WriteStep ==
  ASSUME OnceInv, AnswerInv', NEW c \in Callers, Write(c)
  PROVE  OnceInv' /\ Simulated
<1>0. /\ TypeInv /\ PointsOK /\ CallerOK /\ ProcessOK /\ Counted /\ Budgeted /\ Equipped
      /\ OnePlace /\ Written /\ NoEarly
  BY TypeParts DEF OnceInv, AnswerInv, ChannelInv, TypeInv
<1>1. /\ pc[c] = "write" /\ Goto(c, "wait") /\ UNCHANGED <<left, chan, stdout, hand>>
      /\ \E p \in Procs : \E e : /\ e.req = Token(c)
                                 /\ stdin' = [stdin EXCEPT ![p] = Append(@, e)]
  <2>1. pc[c] = "write" /\ target[c] \in Procs
    BY <1>0 DEF Write, Equipped, TargetPoints, IdPoints, CallPoints
  <2>2. PICK s \in Sizes :
          stdin' = [stdin EXCEPT ![target[c]]
                      = Append(@, [id |-> id[c], req |-> Token(c), size |-> s])]
    BY DEF Write
  <2>3. [id |-> id[c], req |-> Token(c), size |-> s].req = Token(c)
    OBVIOUS
  <2> QED
    BY <2>1, <2>2, <2>3 DEF Write, callerVars
<1>p. PICK p \in Procs : \E e : /\ e.req = Token(c)
                               /\ stdin' = [stdin EXCEPT ![p] = Append(@, e)]
  BY <1>1
<1>2. PICK e : e.req = Token(c) /\ stdin' = [stdin EXCEPT ![p] = Append(@, e)]
  BY <1>p
<1>3. /\ pc'[c] = "wait" /\ \A d \in Callers : d # c => pc'[d] = pc[d]
      /\ stdin[p] \in Seq(Requests) /\ stdin'[p] = Append(stdin[p], e)
      /\ \A q \in Procs : q # p => stdin'[q] = stdin[q]
  BY <1>0, <1>1, <1>2, Distinct DEF PointsOK, ProcessOK, Goto
<1>4. /\ left[c] >= 1 /\ Stage(c) = "new" /\ Stage(c)' = "sent" /\ Counted'
      /\ \A d \in Callers : d # c => Stage(d)' = Stage(d)
      /\ \A d \in Callers : Answered(d)' <=> Answered(d)
  BY <1>0, <1>1, <1>3 DEF Budgeted, CallPoints, Stage, NoEarly, Answered, Unfinished, Counted
<1>5. /\ Token(c) \in CallSet /\ Phases[Token(c)] = "new"
      /\ Phases' = [Phases EXCEPT ![Token(c)] = "sent"]
  BY <1>0, <1>1, <1>4, StageMoves
<1>6. \A q \in Procs : Token(c) \notin Box(q)
  BY <1>0, <1>5 DEF Written
<1>7. Apart(stdin'[p]) /\ Items(stdin'[p]) = Items(stdin[p]) \cup {Token(c)}
  BY <1>0, <1>2, <1>3, <1>6, AppendApart DEF OnePlace, Box, In
<1>8. \A q \in Procs : /\ In(q)' = IF q = p THEN In(q) \cup {Token(c)} ELSE In(q)
                       /\ Out(q)' = Out(q) /\ Held(q)' = Held(q)
                       /\ Box(q)' = IF q = p THEN Box(q) \cup {Token(c)} ELSE Box(q)
  BY <1>1, <1>3, <1>7 DEF In, Out, Held, Box
<1>9. Simulated
  <2>1. Queued = UNION {In(q) : q \in Procs} /\ Queued' = UNION {In(q)' : q \in Procs}
    BY DEF Queued, In
  <2>2. Queued' = Queued \cup {Token(c)}
    <3>1. \A k : k \in Queued' <=> k \in Queued \/ k = Token(c)
      BY <1>8, <2>1
    <3> QED
      BY <3>1
  <2>3. OnItsWay' = OnItsWay
    BY <1>1 DEF OnItsWay
  <2> QED
    BY <1>5, <2>2, <2>3, OnceParts
<1>10. OnePlace'
  <2>1. ASSUME NEW q \in Procs
        PROVE  /\ Apart(stdin'[q]) /\ Apart(stdout'[q]) /\ Len(hand'[q]) <= 1
               /\ In(q)' \cap (Out(q)' \cup Held(q)') = {} /\ Out(q)' \cap Held(q)' = {}
    <3>1. Apart(stdin'[q]) /\ Apart(stdout'[q]) /\ Len(hand'[q]) <= 1
      BY <1>0, <1>1, <1>3, <1>7 DEF OnePlace
    <3>2. In(q) \cap (Out(q) \cup Held(q)) = {} /\ Out(q) \cap Held(q) = {}
      BY <1>0 DEF OnePlace
    <3>3. Token(c) \notin Out(q) \cup Held(q)
      BY <1>6 DEF Box
    <3> QED
      BY <1>8, <3>1, <3>2, <3>3
  <2>2. ASSUME NEW q \in Procs, NEW r \in Procs, r # q
        PROVE  Box(q)' \cap Box(r)' = {}
    <3>1. Box(q) \cap Box(r) = {}
      BY <1>0, <2>2 DEF OnePlace
    <3> QED
      BY <1>6, <1>8, <2>2, <3>1
  <2> QED
    BY <2>1, <2>2 DEF OnePlace
<1>11. Written'
  <2>1. \A k \in CallSet : Phases'[k] = IF k = Token(c) THEN "sent" ELSE Phases[k]
    BY <1>5 DEF Phases
  <2> QED
    BY <1>0, <1>5, <1>8, <2>1 DEF Written
<1>12. NoEarly'
  BY <1>0, <1>3, <1>4 DEF NoEarly, Unfinished
<1> QED
  BY <1>4, <1>9, <1>10, <1>11, <1>12 DEF OnceInv

(* What one process does to its own pipes, as long as it puts nothing new    *)
(* into them.                                                                *)
LEMMA PlaceKept ==
  ASSUME OnceInv, NEW p \in Procs,
         \A q \in Procs : q # p => /\ stdin'[q] = stdin[q] /\ stdout'[q] = stdout[q]
                                   /\ hand'[q] = hand[q],
         Apart(stdin'[p]), Apart(stdout'[p]), Len(hand'[p]) <= 1,
         In(p)' \cap (Out(p)' \cup Held(p)') = {}, Out(p)' \cap Held(p)' = {},
         Box(p)' \subseteq Box(p)
  PROVE  /\ OnePlace'
         /\ \A q \in Procs : /\ Box(q)' \subseteq Box(q)
                             /\ q # p => In(q)' = In(q) /\ Out(q)' = Out(q) /\ Held(q)' = Held(q)
<1>1. \A q \in Procs : q # p => /\ In(q)' = In(q) /\ Out(q)' = Out(q) /\ Held(q)' = Held(q)
                                /\ Box(q)' = Box(q)
  BY DEF In, Out, Held, Box
<1>2. \A q \in Procs : Box(q)' \subseteq Box(q)
  BY <1>1
<1>3. ASSUME NEW q \in Procs
      PROVE  /\ Apart(stdin'[q]) /\ Apart(stdout'[q]) /\ Len(hand'[q]) <= 1
             /\ In(q)' \cap (Out(q)' \cup Held(q)') = {} /\ Out(q)' \cap Held(q)' = {}
  BY <1>1 DEF OnceInv, OnePlace
<1>4. ASSUME NEW q \in Procs, NEW r \in Procs, r # q
      PROVE  Box(q)' \cap Box(r)' = {}
  <2>1. Box(q) \cap Box(r) = {}
    BY <1>4 DEF OnceInv, OnePlace
  <2> QED
    BY <1>2, <2>1
<1> QED
  BY <1>1, <1>2, <1>3, <1>4 DEF OnePlace

LEMMA CallsStay ==
  ASSUME OnceInv, UNCHANGED <<left, chan>>, \A c \in Callers : pc'[c] = pc[c]
  PROVE  Counted' /\ NoEarly' /\ Phases' = Phases
<1>1. Counted /\ Counted'
  BY DEF OnceInv, Counted
<1>2. \A c \in Callers : Stage(c)' = Stage(c) /\ (Answered(c)' <=> Answered(c))
  BY DEF Stage, Answered
<1>3. NoEarly'
  BY <1>2 DEF OnceInv, NoEarly
<1> QED
  BY <1>1, <1>2, <1>3, StagesKept

LEMMA AllItems ==
  /\ Queued = UNION {In(q) : q \in Procs}
  /\ OnItsWay = UNION {Out(q) \cup Held(q) : q \in Procs}
  /\ Queued' = UNION {In(q)' : q \in Procs}
  /\ OnItsWay' = UNION {Out(q)' \cup Held(q)' : q \in Procs}
BY DEF Queued, OnItsWay, In, Out, Held

(* A sidecar carries out a request: it is in no other pipe.                  *)
LEMMA ServeStep ==
  ASSUME OnceInv, AnswerInv', NEW p \in Procs, Serve(p)
  PROVE  OnceInv' /\ Simulated
<1>0. ProcessOK /\ OnePlace /\ Written
  BY TypeParts DEF OnceInv, AnswerInv, ChannelInv, TypeInv
<1>1. /\ stdin[p] # <<>> /\ UNCHANGED <<pc, left, chan, hand>>
      /\ stdin' = [stdin EXCEPT ![p] = Tail(@)]
      /\ \E e : e.req = Head(stdin[p]).req /\ stdout' = [stdout EXCEPT ![p] = Append(@, e)]
  <2>1. PICK n : stdout' = [stdout EXCEPT ![p] =
                             Append(@, [id |-> AnswerID(Head(stdin[p])),
                                        req |-> Head(stdin[p]).req, kind |-> n])]
    BY DEF Serve
  <2>2. [id |-> AnswerID(Head(stdin[p])), req |-> Head(stdin[p]).req, kind |-> n].req
          = Head(stdin[p]).req
    OBVIOUS
  <2> QED
    BY <2>1, <2>2 DEF Serve, callerVars
<1>2. PICK e : e.req = Head(stdin[p]).req /\ stdout' = [stdout EXCEPT ![p] = Append(@, e)]
  BY <1>1
<1> DEFINE k == Head(stdin[p]).req
<1>3. /\ stdin[p] \in Seq(Requests) /\ stdout[p] \in Seq(Answers)
      /\ stdin'[p] = Tail(stdin[p]) /\ stdout'[p] = Append(stdout[p], e) /\ hand'[p] = hand[p]
      /\ \A q \in Procs : q # p => /\ stdin'[q] = stdin[q] /\ stdout'[q] = stdout[q]
                                   /\ hand'[q] = hand[q]
  BY <1>0, <1>1, <1>2 DEF ProcessOK
<1>4. Apart(stdin'[p]) /\ k \in In(p) /\ In(p)' = In(p) \ {k}
  <2>1. Apart(stdin[p])
    BY <1>0 DEF OnePlace
  <2> QED
    BY <1>1, <1>3, <2>1, TailApart DEF In
<1> HIDE DEF k
<1>5. Apart(stdout'[p]) /\ Out(p)' = Out(p) \cup {k} /\ Held(p)' = Held(p)
  <2>1. Apart(stdout[p]) /\ k \notin Out(p) /\ e.req = k
    BY <1>0, <1>2, <1>4 DEF OnePlace, k
  <2>2. e.req \notin Items(stdout[p])
    BY <2>1 DEF Out
  <2>3. Apart(Append(stdout[p], e)) /\ Items(Append(stdout[p], e)) = Items(stdout[p]) \cup {e.req}
    BY <1>3, <2>1, <2>2, AppendApart
  <2> QED
    BY <1>3, <2>1, <2>3 DEF Out, Held
<1>6. /\ In(p)' \cap (Out(p)' \cup Held(p)') = {} /\ Out(p)' \cap Held(p)' = {}
      /\ Len(hand'[p]) <= 1 /\ Box(p)' \subseteq Box(p)
  <2>1. /\ In(p) \cap (Out(p) \cup Held(p)) = {} /\ Out(p) \cap Held(p) = {}
        /\ Len(hand[p]) <= 1
    BY <1>0 DEF OnePlace
  <2>2. Box(p)' = In(p)' \cup Out(p)' \cup Held(p)'
    BY DEF Box
  <2> QED
    BY <1>3, <1>4, <1>5, <2>1, <2>2 DEF Box
<1>7. /\ OnePlace'
      /\ \A q \in Procs : /\ Box(q)' \subseteq Box(q)
                          /\ q # p => In(q)' = In(q) /\ Out(q)' = Out(q) /\ Held(q)' = Held(q)
  BY <1>3, <1>4, <1>5, <1>6, PlaceKept
<1>8. Counted' /\ NoEarly' /\ Phases' = Phases
  BY <1>1, CallsStay
<1>9. Written'
  BY <1>7, <1>8, WrittenStays
<1>10. k \in Queued /\ k \in CallSet /\ Queued' = Queued \ {k} /\ OnItsWay' = OnItsWay \cup {k}
  <2>1. \A q \in Procs : q # p => k \notin In(q)
    BY <1>0, <1>4 DEF OnePlace, Box
  <2>2. k \in CallSet
    BY <1>0, <1>4 DEF Written, Box
  <2>3. \A j : j \in Queued' <=> j \in Queued /\ j # k
    BY <1>4, <1>7, <2>1, AllItems
  <2>4. \A j : j \in OnItsWay' <=> j \in OnItsWay \/ j = k
    BY <1>5, <1>7, AllItems
  <2>5. k \in Queued
    BY <1>4, AllItems
  <2> QED
    BY <2>2, <2>3, <2>4, <2>5
<1>11. Simulated
  BY <1>8, <1>10, OnceParts
<1> QED
  BY <1>7, <1>8, <1>9, <1>11 DEF OnceInv

(* The reader takes a line from its pipe, into its hand or for nobody.       *)
LEMMA ReadStep ==
  ASSUME OnceInv, AnswerInv', NEW p \in Procs, ReadResponse(p)
  PROVE  OnceInv' /\ Simulated
<1>0. PointsOK /\ ProcessOK /\ OnePlace /\ Written
  BY TypeParts DEF OnceInv, AnswerInv, ChannelInv, TypeInv
<1>1. /\ stdout[p] # <<>> /\ hand[p] = <<>> /\ UNCHANGED <<left, chan, stdin>>
      /\ stdout' = [stdout EXCEPT ![p] = Tail(@)]
      /\ hand' = hand \/ hand' = [hand EXCEPT ![p] = <<Head(stdout[p])>>]
      /\ pc' = pc \/ Goto(<<"reader", p>>, "fail")
  BY DEF ReadResponse, callerVars
<1>2. \A c \in Callers : pc'[c] = pc[c]
  BY <1>0, <1>1, Goroutines, Distinct DEF PointsOK, Goto
<1> DEFINE k == Head(stdout[p]).req
<1>3. /\ stdout[p] \in Seq(Answers) /\ stdin'[p] = stdin[p] /\ stdout'[p] = Tail(stdout[p])
      /\ hand'[p] = <<>> \/ hand'[p] = <<Head(stdout[p])>>
      /\ \A q \in Procs : q # p => /\ stdin'[q] = stdin[q] /\ stdout'[q] = stdout[q]
                                   /\ hand'[q] = hand[q]
  BY <1>0, <1>1 DEF ProcessOK
<1>4. Apart(stdout'[p]) /\ k \in Out(p) /\ Out(p)' = Out(p) \ {k}
  <2>1. Apart(stdout[p])
    BY <1>0 DEF OnePlace
  <2> QED
    BY <1>1, <1>3, <2>1, TailApart DEF Out
<1>5. /\ In(p)' = In(p) /\ Held(p)' \subseteq {k} /\ Len(hand'[p]) <= 1
      /\ Apart(stdin'[p])
  BY <1>0, <1>3, FewItems DEF In, Held, OnePlace
<1> HIDE DEF k
<1>6. /\ In(p)' \cap (Out(p)' \cup Held(p)') = {} /\ Out(p)' \cap Held(p)' = {}
      /\ Box(p)' \subseteq Box(p)
  <2>1. In(p) \cap (Out(p) \cup Held(p)) = {}
    BY <1>0 DEF OnePlace
  <2>2. Box(p)' = In(p)' \cup Out(p)' \cup Held(p)'
    BY DEF Box
  <2> QED
    BY <1>4, <1>5, <2>1, <2>2 DEF Box
<1>7. /\ OnePlace'
      /\ \A q \in Procs : /\ Box(q)' \subseteq Box(q)
                          /\ q # p => In(q)' = In(q) /\ Out(q)' = Out(q) /\ Held(q)' = Held(q)
  BY <1>3, <1>4, <1>5, <1>6, PlaceKept
<1>8. Counted' /\ NoEarly' /\ Phases' = Phases
  BY <1>1, <1>2, CallsStay
<1>9. Written'
  BY <1>7, <1>8, WrittenStays
<1>10. Queued' \subseteq Queued /\ OnItsWay' \subseteq OnItsWay
  <2>1. \A q \in Procs : In(q)' = In(q) /\ Out(q)' \cup Held(q)' \subseteq Out(q) \cup Held(q)
    BY <1>4, <1>5, <1>7
  <2> QED
    BY <2>1, AllItems
<1>11. Simulated
  BY <1>8, <1>10, OnceParts
<1> QED
  BY <1>7, <1>8, <1>9, <1>11 DEF OnceInv

(* A sidecar ends, and the requests in its pipe with it.                     *)
LEMMA ExitStep ==
  ASSUME OnceInv, AnswerInv', NEW p \in Procs, ExitAtEOF(p) \/ Die(p) \/ Crash(p)
  PROVE  OnceInv' /\ Simulated
<1>0. ProcessOK /\ OnePlace /\ Written
  BY TypeParts DEF OnceInv, AnswerInv, ChannelInv, TypeInv
<1>1. /\ UNCHANGED <<pc, left, chan, stdout, hand>> /\ stdin' = [stdin EXCEPT ![p] = <<>>]
  BY DEF ExitAtEOF, Die, Crash, Exit, callerVars
<1>2. /\ stdin'[p] = <<>> /\ stdout'[p] = stdout[p] /\ hand'[p] = hand[p]
      /\ \A q \in Procs : q # p => /\ stdin'[q] = stdin[q] /\ stdout'[q] = stdout[q]
                                   /\ hand'[q] = hand[q]
  BY <1>0, <1>1 DEF ProcessOK
<1>3. /\ In(p)' = {} /\ Out(p)' = Out(p) /\ Held(p)' = Held(p) /\ Apart(stdin'[p])
  BY <1>2, FewItems DEF In, Out, Held
<1>4. /\ Apart(stdout'[p]) /\ Len(hand'[p]) <= 1 /\ Box(p)' \subseteq Box(p)
      /\ In(p)' \cap (Out(p)' \cup Held(p)') = {} /\ Out(p)' \cap Held(p)' = {}
  BY <1>0, <1>2, <1>3 DEF OnePlace, Box
<1>5. /\ OnePlace'
      /\ \A q \in Procs : /\ Box(q)' \subseteq Box(q)
                          /\ q # p => In(q)' = In(q) /\ Out(q)' = Out(q) /\ Held(q)' = Held(q)
  BY <1>2, <1>3, <1>4, PlaceKept
<1>6. Counted' /\ NoEarly' /\ Phases' = Phases
  BY <1>1, CallsStay
<1>7. Written'
  BY <1>5, <1>6, WrittenStays
<1>8. Queued' \subseteq Queued /\ OnItsWay' \subseteq OnItsWay
  <2>1. \A q \in Procs : In(q)' \subseteq In(q) /\ Out(q)' = Out(q) /\ Held(q)' = Held(q)
    BY <1>3, <1>5
  <2> QED
    BY <2>1, AllItems
<1>9. Simulated
  BY <1>6, <1>8, OnceParts
<1> QED
  BY <1>5, <1>6, <1>7, <1>9 DEF OnceInv

(* An answer is sent to the channel it belongs to: its call has written the  *)
(* request and has no answer yet, or is over.                                *)
LEMMA DeliverStep ==
  ASSUME OnceInv, AnswerInv', NEW p \in Procs, Deliver(p)
  PROVE  OnceInv' /\ Simulated
<1>0. /\ TypeInv /\ CallerOK /\ ProcessOK /\ Budgeted /\ Counted /\ OnePlace /\ Written /\ NoEarly
      /\ IdsUnique /\ TakenOnce /\ RoomToSend /\ LinesFit
  BY TypeParts DEF OnceInv, AnswerInv, ChannelInv, TypeInv
<1>1. /\ hand[p] # <<>> /\ UNCHANGED <<pc, left, id, stdin, stdout>>
      /\ hand' = [hand EXCEPT ![p] = <<>>]
      /\ chan' = [c \in Callers |-> IF id[c] = Head(hand[p]).id
                                    THEN Append(chan[c], Head(hand[p])) ELSE chan[c]]
  BY DEF Deliver, processVars
<1> DEFINE m == Head(hand[p])
           k == m.req
<1>2. /\ stdin'[p] = stdin[p] /\ stdout'[p] = stdout[p] /\ hand'[p] = <<>>
      /\ hand[p] \in Seq(Answers) /\ Len(hand[p]) <= 1
      /\ \A q \in Procs : q # p => /\ stdin'[q] = stdin[q] /\ stdout'[q] = stdout[q]
                                   /\ hand'[q] = hand[q]
  BY <1>0, <1>1 DEF ProcessOK, OnePlace
<1>3. /\ m \in Answers /\ Fits(m) /\ m.id # 0 /\ Taken(p, m.id)
      /\ Held(p) = {k}
  <2>1. 1 \in DOMAIN hand[p] /\ m = hand[p][1] /\ m \in Answers
    BY <1>1, <1>2, HeadItem
  <2>2. m.id \in 1..nextID
    BY <1>0, <1>1 DEF TakenOnce
  <2>3. Held(p) = {k}
    BY <1>1, <1>2, FewItems DEF Held
  <2> QED
    BY <1>0, <1>1, <2>1, <2>2, <2>3 DEF LinesFit, AllFit, Taken
<1> HIDE DEF m, k
<1>4. /\ In(p)' = In(p) /\ Out(p)' = Out(p) /\ Held(p)' = {}
  BY <1>2, FewItems DEF In, Out, Held
<1>5. /\ Apart(stdin'[p]) /\ Apart(stdout'[p]) /\ Len(hand'[p]) <= 1 /\ Box(p)' \subseteq Box(p)
      /\ In(p)' \cap (Out(p)' \cup Held(p)') = {} /\ Out(p)' \cap Held(p)' = {}
  BY <1>0, <1>2, <1>4, FewItems DEF OnePlace, Box
<1>6. /\ OnePlace'
      /\ \A q \in Procs : /\ Box(q)' \subseteq Box(q)
                          /\ q # p => In(q)' = In(q) /\ Out(q)' = Out(q) /\ Held(q)' = Held(q)
  BY <1>2, <1>5, PlaceKept
<1>7. Queued' = Queued /\ OnItsWay' = OnItsWay \ {k} /\ k \in OnItsWay
  <2>1. k \notin Out(p) /\ \A q \in Procs : q # p => k \notin Out(q) \cup Held(q)
    BY <1>0, <1>3 DEF OnePlace, Box
  <2>2. \A j : j \in OnItsWay' <=> j \in OnItsWay /\ j # k
    BY <1>3, <1>4, <1>6, <2>1, AllItems
  <2>3. \A q \in Procs : In(q)' = In(q)
    BY <1>4, <1>6
  <2> QED
    BY <1>3, <2>2, <2>3, AllItems
<1>8. Counted'
  BY <1>0, <1>1 DEF Counted
<1>9. ASSUME \A c \in Callers : id[c] # m.id
      PROVE  OnceInv' /\ Simulated
  <2>1. \A c \in Callers : chan'[c] = chan[c]
    BY <1>1, <1>9 DEF m
  <2>2. \A c \in Callers : Stage(c)' = Stage(c) /\ (Answered(c)' <=> Answered(c))
    BY <1>1, <2>1 DEF Stage, Answered
  <2>3. Phases' = Phases /\ NoEarly'
    BY <1>0, <1>1, <1>8, <2>2, StagesKept DEF NoEarly
  <2>4. Written'
    BY <1>6, <2>3, WrittenStays
  <2>5. Simulated
    BY <1>7, <2>3, OnceParts
  <2> QED
    BY <1>6, <1>8, <2>3, <2>4, <2>5 DEF OnceInv
<1>10. ASSUME NEW c \in Callers, id[c] = m.id
       PROVE  OnceInv' /\ Simulated
  <2>1. k = Token(c) /\ chan[c] = <<>> /\ \A d \in Callers : d # c => id[d] # m.id
    <3>1. k = Token(c)
      BY <1>3, <1>10 DEF Fits, k
    <3>2. chan[c] = <<>>
      BY <1>0, <1>3, <1>10 DEF RoomToSend
    <3>3. \A d \in Callers : d # c => id[d] # m.id
      BY <1>0, <1>3, <1>10 DEF IdsUnique
    <3> QED
      BY <3>1, <3>2, <3>3
  <2>2. chan'[c] = <<m>> /\ \A d \in Callers : d # c => chan'[d] = chan[d]
    <3>1. chan'[c] = Append(chan[c], m)
      BY <1>1, <1>10 DEF m
    <3>2. Append(<<>>, m) = <<m>>
      OBVIOUS
    <3>3. \A d \in Callers : d # c => chan'[d] = chan[d]
      BY <1>1, <2>1 DEF m
    <3> QED
      BY <2>1, <3>1, <3>2, <3>3
  <2>3. ~Answered(c) /\ Answered(c)'
    <3>1. ~Answered(c)
      BY <2>1 DEF Answered
    <3>2. 1 \in DOMAIN chan'[c] /\ chan'[c][1] = m
      BY <2>2
    <3> QED
      BY <1>3, <3>1, <3>2, NotAFailure DEF Answered
  <2>4. \A d \in Callers : d # c => Stage(d)' = Stage(d) /\ (Answered(d)' <=> Answered(d))
    BY <1>1, <2>2 DEF Stage, Answered
  <2>5. left[c] >= 1
    <3>1. pc[c] \in IdPoints
      BY <1>0, <1>3, <1>10 DEF IdsUnique
    <3> QED
      BY <1>0, <3>1 DEF IdPoints, Budgeted
  <2>6. /\ Token(c) \in CallSet /\ Phases[Token(c)] = Stage(c)
        /\ Phases' = [Phases EXCEPT ![Token(c)] = Stage(c)']
    BY <1>0, <1>1, <1>8, <2>4, <2>5, StageMoves
  <2>7. Stage(c) = "sent" /\ Stage(c)' = "answered" /\ pc[c] \in Unfinished
    <3>1. Phases[Token(c)] # "new"
      BY <1>0, <1>3, <2>1 DEF Written, Box
    <3> QED
      BY <1>1, <2>3, <2>6, <3>1 DEF Stage
  <2>8. Written'
    <3>1. \A j \in CallSet : Phases'[j] = "new" => Phases[j] = "new"
      BY <2>6, <2>7 DEF Phases
    <3> QED
      BY <1>6, <3>1, WrittenStays
  <2>9. NoEarly'
    BY <1>0, <1>1, <2>4, <2>7 DEF NoEarly
  <2>10. Simulated
    BY <1>7, <2>1, <2>6, <2>7, OnceParts
  <2> QED
    BY <1>6, <1>8, <2>8, <2>9, <2>10 DEF OnceInv
<1> QED
  BY <1>9, <1>10

LEMMA OnceStep == OnceInv /\ [Next]_vars => OnceInv' /\ Simulated
<1> SUFFICES ASSUME OnceInv, [Next]_vars PROVE OnceInv' /\ Simulated
  OBVIOUS
<1>1. AnswerInv' /\ TypeInv
  BY AnswerStep DEF OnceInv, AnswerInv, ChannelInv
<1> DEFINE Done == OnceInv' /\ Simulated
<1>2. ASSUME NEW c \in Callers,
             Begin(c) \/ Close(c) \/ Cancel(c) \/ CallStep(c) \/ StopStep(c)
      PROVE  Done
  BY <1>1, <1>2, CallerRests, FailureRests, WriteStep, ReturnStep, CallsReturn DEF CallStep
<1>3. ASSUME NEW t \in Threads, FailFirst(t) \/ FailAgain(t) \/ FailLocked(t) PROVE Done
  BY <1>1, <1>3, FailureRests
<1>4. ASSUME NEW p \in Procs, ReadResponse(p) \/ Deliver(p) \/ ReadError(p) \/ ReadEOF(p)
                              \/ WaitReturns(p)
      PROVE  Done
  BY <1>1, <1>4, ReadStep, DeliverStep, FailureRests
<1>5. ASSUME NEW p \in Procs, Serve(p) \/ ExitAtEOF(p) \/ Die(p) \/ Crash(p) PROVE Done
  BY <1>1, <1>5, ServeStep, ExitStep
<1>6. ASSUME UNCHANGED vars PROVE Done
  BY <1>1, <1>6, FailureRests
<1> HIDE DEF Done
<1>7. Done
  BY <1>2, <1>3, <1>4, <1>5, <1>6, NextCases
<1> QED
  BY <1>7 DEF Done

LEMMA OnceInit == Init => OnceInv /\ Once!Init
<1> SUFFICES ASSUME Init PROVE OnceInv /\ Once!Init
  OBVIOUS
<1>1. /\ left = MaxCalls /\ left \in [Callers -> Nat]
      /\ \A c \in Callers : pc[c] = "idle" /\ chan[c] = <<>>
      /\ \A p \in Procs : stdin[p] = <<>> /\ stdout[p] = <<>> /\ hand[p] = <<>>
  BY BoundsAssumption, Distinct DEF Init
<1>2. \A k \in CallSet : Phase(k) = "new"
  <2>1. ASSUME NEW k \in CallSet PROVE Phase(k) = "new"
    <3>1. k[1] \in Callers /\ k[2] \in Nat /\ k[2] <= left[k[1]] /\ left[k[1]] \in Nat
      BY <1>1, CallParts
    <3>2. ~(k[2] > left[k[1]]) /\ pc[k[1]] \notin {"wait", "unwait"}
      BY <1>1, <3>1
    <3> QED
      BY <3>2 DEF Phase
  <2> QED
    BY <2>1
<1>3. \A p \in Procs : In(p) = {} /\ Out(p) = {} /\ Held(p) = {} /\ Box(p) = {}
  BY <1>1, FewItems DEF In, Out, Held, Box
<1>4. Counted
  <2>1. ASSUME NEW c \in Callers PROVE left[c] <= MaxCalls[c]
    <3>1. left[c] = MaxCalls[c] /\ MaxCalls[c] \in Nat
      BY <1>1, BoundsAssumption
    <3> QED
      BY <3>1
  <2> QED
    BY <1>1, <2>1 DEF Counted
<1>5. OnePlace /\ Written /\ NoEarly
  BY <1>1, <1>3, FewItems DEF OnePlace, Written, NoEarly, Answered
<1>6. Once!Init
  <2>1. Queued = {} /\ OnItsWay = {}
    BY <1>3, AllItems
  <2> QED
    BY <1>2, <2>1 DEF Once!Init, Queued, OnItsWay
<1> QED
  BY <1>4, <1>5, <1>6, AnswerInit DEF OnceInv

(* A request is sent at most once, carried out at most once and never sent   *)
(* again after its process failed, and only its own answer reaches the call, *)
(* while it waits (client.go:172, README.md:92): the client implements       *)
(* AtMostOnce.                                                               *)
THEOREM CallOnce == Spec => NeverReplayed
<1>1. OnceInv /\ [Next]_vars => OnceInv' /\ [Once!Next]_(Once!vars)
  BY OnceStep DEF Simulated
<1> QED
  BY <1>1, OnceInit, PTL DEF Spec, NeverReplayed, Once!Spec
=============================================================================
