--------------------------- MODULE StreamProbeSafety ---------------------------
(* Theorems about StreamProbe for every recording and every schedule: one    *)
(* inference at a time, no attempt lost, and the report tells a hypothesis   *)
(* that came before the release.                                             *)
EXTENDS StreamProbe, FiniteSetTheorems, TLAPS

(* Attempts are numbered in their order, one at most for each chunk.         *)
Numbered ==
  /\ attempts <= captured
  /\ pc \in {"poll", "decide"} => attempts < captured
  /\ active # None => active = attempts
  /\ \A p \in Partials : p > attempts => stage[p] = "none"

(* Why one inference runs: whose value is not in done yet is Run's active    *)
(* partial, and Run starts nothing beside it.                                *)
OneActive ==
  /\ \A p \in Partials : stage[p] \in {"running", "returned"} => p = active
  /\ pc \in {"write", "final", "done"} => active = None
  /\ pc \in {"select", "preempt"} => active # None

(* Why no attempt is lost; this holds after a failure as well.               *)
Ledger ==
  /\ 1..attempts = Counted \cup ({active} \ {None})
  /\ active \notin Counted
  /\ \A o, q \in Outcomes : o # q => collected[o] \cap collected[q] = {}

(* Why the first completed partial decides: it is the earliest attempt, and  *)
(* what returned after the release is the last attempt.                      *)
FirstKept ==
  /\ firstPartial = None => collected["ok"] = {}
  /\ firstPartial # None => firstPartial \in collected["ok"]
                            /\ \A p \in collected["ok"] : firstPartial <= p
Late ==
  /\ released => pc \in {"select", "preempt", "write", "final", "done", "failed"}
  /\ \A p \in Counted : stage[p] = "sent"
  /\ \A p \in Partials : stage[p] \in {"returned", "sent"} /\ p \notin early
                           => released /\ p = attempts

Inv == TypeOK /\ Numbered /\ OneActive /\ Ledger /\ FirstKept /\ Late

LEMMA InvInit == Init => Inv
<1> SUFFICES ASSUME Init PROVE Inv
  OBVIOUS
<1>1. captured \in 0..Chunks /\ attempts \in 0..Chunks /\ nextPartialAt \in Nat
  BY ChunksAssumption, ScheduleAssumption DEF Init
<1>2. collected = [o \in Outcomes |-> {}] /\ Counted = {}
  BY DEF Init, Counted
<1>3. TypeOK
  BY <1>1, <1>2 DEF Init, TypeOK, Outcomes
<1>4. Numbered /\ OneActive /\ Late
  BY <1>2 DEF Init, Numbered, OneActive, Late
<1>5. Ledger
  BY <1>2 DEF Init, Ledger
<1>6. FirstKept
  BY <1>2 DEF Init, FirstKept, Outcomes
<1> QED
  BY <1>3, <1>4, <1>5, <1>6 DEF Inv

(* What Collect does to the counted partials.                                *)
LEMMA Collected ==
  ASSUME TypeOK, NEW next, Collect(next)
  PROVE  /\ outcome[active] \in Outcomes /\ active \in Partials /\ active # None
         /\ collected' \in [Outcomes -> SUBSET Partials]
         /\ collected'[outcome[active]] = collected[outcome[active]] \cup {active}
         /\ \A o \in Outcomes : o # outcome[active] => collected'[o] = collected[o]
         /\ Counted' = Counted \cup {active}
         /\ pc' = next /\ active' = None
<1>1. active \in Partials /\ active # None /\ pc' = next /\ active' = None
  BY DEF TypeOK, Collect
<1>2. outcome[active] \in Outcomes
  BY <1>1 DEF TypeOK
<1>3. collected' = [collected EXCEPT ![outcome[active]] = @ \cup {active}]
      /\ collected \in [Outcomes -> SUBSET Partials]
  BY DEF TypeOK, Collect
<1>4. /\ collected' \in [Outcomes -> SUBSET Partials]
      /\ collected'[outcome[active]] = collected[outcome[active]] \cup {active}
      /\ \A o \in Outcomes : o # outcome[active] => collected'[o] = collected[o]
  BY <1>1, <1>2, <1>3
<1>5. Counted' = Counted \cup {active}
  <2>1. ASSUME NEW p PROVE p \in Counted' <=> p \in Counted \/ p = active
    <3>1. p \in Counted' <=> \E o \in Outcomes : p \in collected'[o]
      BY DEF Counted
    <3>2. p \in Counted <=> \E o \in Outcomes : p \in collected[o]
      BY DEF Counted
    <3> QED
      BY <1>2, <1>4, <3>1, <3>2
  <2> QED
    BY <2>1
<1> QED
  BY <1>1, <1>2, <1>4, <1>5

(* What the start of a partial does.                                         *)
LEMMA Started ==
  ASSUME TypeOK, Numbered, StartPartial
  PROVE  /\ active = None /\ attempts' = attempts + 1 /\ active' = attempts' /\ pc' = "wait"
         /\ attempts' \in Partials /\ attempts' <= captured /\ attempts \in 0..Chunks
         /\ stage'[attempts'] = "running" /\ stage[attempts'] = "none"
         /\ \A p \in Partials : p # attempts' => stage'[p] = stage[p]
         /\ stage' \in [Partials -> {"none", "running", "returned", "sent"}]
         /\ UNCHANGED <<captured, collected, firstPartial, early, released, outcome, cancelled>>
<1>1. /\ pc = "decide" /\ active = None /\ attempts' = attempts + 1 /\ active' = attempts'
      /\ pc' = "wait" /\ stage' = [stage EXCEPT ![attempts'] = "running"]
      /\ UNCHANGED <<captured, collected, firstPartial, early, released, outcome, cancelled>>
  BY DEF StartPartial, Due
<1>2. attempts \in 0..Chunks /\ captured \in 0..Chunks /\ attempts < captured
  BY <1>1 DEF TypeOK, Numbered
<1>3. attempts' \in Partials /\ attempts' <= captured /\ attempts' > attempts
  BY <1>1, <1>2, ChunksAssumption DEF Partials
<1>4. stage \in [Partials -> {"none", "running", "returned", "sent"}] /\ stage[attempts'] = "none"
  BY <1>3 DEF TypeOK, Numbered
<1> QED
  BY <1>1, <1>2, <1>3, <1>4

LEMMA CountedTyped == TypeOK => Counted \subseteq Partials
BY DEF TypeOK, Counted

LEMMA NumberedNext == Inv /\ [Next]_vars => Numbered'
<1> SUFFICES ASSUME TypeOK, Numbered, OneActive, [Next]_vars PROVE Numbered'
  BY DEF Inv
<1> USE ChunksAssumption
<1> USE DEF TypeOK, Numbered, runVars, goVars
<1>1. ASSUME Capture PROVE Numbered'
  BY <1>1 DEF Capture
<1>2. ASSUME CaptureCancelled PROVE Numbered'
  BY <1>2 DEF CaptureCancelled
<1>3. ASSUME KeepWaiting PROVE Numbered'
  BY <1>3 DEF KeepWaiting, Unsent
<1>4. ASSUME NextChunk PROVE Numbered'
  BY <1>4 DEF NextChunk, Due
<1>5. ASSUME StartPartial PROVE Numbered'
  <2>1. \A p \in Partials : p > attempts' => p > attempts /\ p # attempts'
    BY <1>5, Started DEF Partials
  <2> QED
    BY <1>5, <2>1, Started
<1>6. ASSUME WriteFails PROVE Numbered'
  BY <1>6 DEF WriteFails, Due
<1>7. ASSUME Release PROVE Numbered'
  BY <1>7 DEF Release
<1>8. ASSUME Preempt PROVE Numbered'
  BY <1>8 DEF Preempt, Unsent
<1>9. ASSUME StartFinal PROVE Numbered'
  BY <1>9 DEF StartFinal
<1>10. ASSUME FinalReturns PROVE Numbered'
  BY <1>10 DEF FinalReturns
<1>11. ASSUME ContextDone PROVE Numbered'
  BY <1>11 DEF ContextDone
<1>12. ASSUME NEW next \in {"decide", "write"}, Collect(next),
              (pc = "poll" /\ next = "decide") \/ (pc \in {"select", "preempt"} /\ next = "write")
       PROVE  Numbered'
  BY <1>12, Collected DEF Collect
<1>13. ASSUME NEW p \in Partials, NEW o \in Outcomes, PartialReturns(p, o) PROVE Numbered'
  BY <1>13 DEF PartialReturns
<1>14. ASSUME NEW p \in Partials, SendResult(p) PROVE Numbered'
  BY <1>14 DEF SendResult
<1>15. ASSUME NEW p \in Partials, RemoveFile(p) PROVE Numbered'
  BY <1>15 DEF RemoveFile
<1>16. CASE UNCHANGED vars
  BY <1>16 DEF vars
<1> QED
  BY <1>1, <1>2, <1>3, <1>4, <1>5, <1>6, <1>7, <1>8, <1>9, <1>10, <1>11,
     <1>12, <1>13, <1>14, <1>15, <1>16
  DEF Next, RunStep, PartialStep, Ended

LEMMA TypeNext == Inv /\ [Next]_vars => TypeOK'
<1> SUFFICES ASSUME TypeOK, Numbered, OneActive, [Next]_vars PROVE TypeOK'
  BY DEF Inv
<1> USE ChunksAssumption, ScheduleAssumption
<1> USE DEF TypeOK, runVars, goVars, Numbered, Partials
<1>1. ASSUME Capture PROVE TypeOK'
  BY <1>1 DEF Capture
<1>2. ASSUME CaptureCancelled PROVE TypeOK'
  BY <1>2 DEF CaptureCancelled
<1>3. ASSUME KeepWaiting PROVE TypeOK'
  BY <1>3 DEF KeepWaiting, Unsent
<1>4. ASSUME NextChunk PROVE TypeOK'
  BY <1>4 DEF NextChunk, Due
<1>5. ASSUME StartPartial PROVE TypeOK'
  BY <1>5 DEF StartPartial, Due
<1>6. ASSUME WriteFails PROVE TypeOK'
  BY <1>6 DEF WriteFails, Due
<1>7. ASSUME Release PROVE TypeOK'
  BY <1>7 DEF Release
<1>8. ASSUME Preempt PROVE TypeOK'
  <2>1. active \in Partials
    BY <1>8 DEF Preempt, OneActive
  <2> QED
    BY <1>8, <2>1 DEF Preempt
<1>9. ASSUME StartFinal PROVE TypeOK'
  BY <1>9 DEF StartFinal
<1>10. ASSUME FinalReturns PROVE TypeOK'
  BY <1>10 DEF FinalReturns
<1>11. ASSUME ContextDone PROVE TypeOK'
  BY <1>11 DEF ContextDone
<1>12. ASSUME NEW next \in {"decide", "write"}, Collect(next),
              (pc = "poll" /\ next = "decide") \/ (pc \in {"select", "preempt"} /\ next = "write")
       PROVE  TypeOK'
  BY <1>12, Collected DEF Collect
<1>13. ASSUME NEW p \in Partials, NEW o \in Outcomes, PartialReturns(p, o) PROVE TypeOK'
  BY <1>13 DEF PartialReturns
<1>14. ASSUME NEW p \in Partials, SendResult(p) PROVE TypeOK'
  BY <1>14 DEF SendResult
<1>15. ASSUME NEW p \in Partials, RemoveFile(p) PROVE TypeOK'
  BY <1>15 DEF RemoveFile
<1>16. CASE UNCHANGED vars
  BY <1>16 DEF vars
<1> QED
  BY <1>1, <1>2, <1>3, <1>4, <1>5, <1>6, <1>7, <1>8, <1>9, <1>10, <1>11,
     <1>12, <1>13, <1>14, <1>15, <1>16
  DEF Next, RunStep, PartialStep, Ended

LEMMA OneActiveNext == Inv /\ [Next]_vars => OneActive'
<1> SUFFICES ASSUME TypeOK, Numbered, OneActive, [Next]_vars PROVE OneActive'
  BY DEF Inv
<1> USE DEF TypeOK, OneActive, runVars, goVars
<1>1. ASSUME Capture PROVE OneActive'
  BY <1>1 DEF Capture
<1>2. ASSUME CaptureCancelled PROVE OneActive'
  BY <1>2 DEF CaptureCancelled
<1>3. ASSUME KeepWaiting PROVE OneActive'
  BY <1>3 DEF KeepWaiting, Unsent
<1>4. ASSUME NextChunk PROVE OneActive'
  BY <1>4 DEF NextChunk, Due
<1>5. ASSUME StartPartial PROVE OneActive'
  <2>1. None \notin Partials
    BY DEF None, Partials
  <2> QED
    BY <1>5, <2>1, Started
<1>6. ASSUME WriteFails PROVE OneActive'
  BY <1>6 DEF WriteFails, Due
<1>7. ASSUME Release PROVE OneActive'
  BY <1>7 DEF Release
<1>8. ASSUME Preempt PROVE OneActive'
  BY <1>8 DEF Preempt, Unsent
<1>9. ASSUME StartFinal PROVE OneActive'
  BY <1>9 DEF StartFinal
<1>10. ASSUME FinalReturns PROVE OneActive'
  BY <1>10 DEF FinalReturns
<1>11. ASSUME ContextDone PROVE OneActive'
  BY <1>11 DEF ContextDone
<1>12. ASSUME NEW next \in {"decide", "write"}, Collect(next),
              (pc = "poll" /\ next = "decide") \/ (pc \in {"select", "preempt"} /\ next = "write")
       PROVE  OneActive'
  BY <1>12, Collected DEF Collect
<1>13. ASSUME NEW p \in Partials, NEW o \in Outcomes, PartialReturns(p, o) PROVE OneActive'
  BY <1>13 DEF PartialReturns
<1>14. ASSUME NEW p \in Partials, SendResult(p) PROVE OneActive'
  BY <1>14 DEF SendResult
<1>15. ASSUME NEW p \in Partials, RemoveFile(p) PROVE OneActive'
  BY <1>15 DEF RemoveFile
<1>16. CASE UNCHANGED vars
  BY <1>16 DEF vars
<1> QED
  BY <1>1, <1>2, <1>3, <1>4, <1>5, <1>6, <1>7, <1>8, <1>9, <1>10, <1>11,
     <1>12, <1>13, <1>14, <1>15, <1>16
  DEF Next, RunStep, PartialStep, Ended

LEMMA LedgerNext == Inv /\ [Next]_vars => Ledger'
<1> SUFFICES ASSUME TypeOK, Numbered, Ledger, [Next]_vars PROVE Ledger'
  BY DEF Inv
<1> USE DEF Ledger, Counted, runVars, goVars
<1>1. ASSUME Capture PROVE Ledger'
  BY <1>1 DEF Capture
<1>2. ASSUME CaptureCancelled PROVE Ledger'
  BY <1>2 DEF CaptureCancelled
<1>3. ASSUME KeepWaiting PROVE Ledger'
  BY <1>3 DEF KeepWaiting, Unsent
<1>4. ASSUME NextChunk PROVE Ledger'
  BY <1>4 DEF NextChunk, Due
<1>5. ASSUME StartPartial PROVE Ledger'
  <2>1. active = None /\ active' = attempts + 1 /\ attempts' = attempts + 1 /\ attempts \in 0..Chunks
        /\ UNCHANGED collected
    BY <1>5, Started
  <2>2. Counted' = Counted /\ Counted = 1..attempts /\ active' # None
    BY <2>1 DEF None
  <2>3. 1..(attempts + 1) = (1..attempts) \cup {attempts + 1} /\ attempts + 1 \notin 1..attempts
    BY <2>1
  <2> QED
    BY <2>1, <2>2, <2>3
<1>6. ASSUME WriteFails PROVE Ledger'
  BY <1>6 DEF WriteFails, Due
<1>7. ASSUME Release PROVE Ledger'
  BY <1>7 DEF Release
<1>8. ASSUME Preempt PROVE Ledger'
  BY <1>8 DEF Preempt, Unsent
<1>9. ASSUME StartFinal PROVE Ledger'
  BY <1>9 DEF StartFinal
<1>10. ASSUME FinalReturns PROVE Ledger'
  BY <1>10 DEF FinalReturns
<1>11. ASSUME ContextDone PROVE Ledger'
  BY <1>11 DEF ContextDone
<1>12. ASSUME NEW next \in {"decide", "write"}, Collect(next) PROVE Ledger'
  <2>1. /\ outcome[active] \in Outcomes /\ active # None
        /\ collected'[outcome[active]] = collected[outcome[active]] \cup {active}
        /\ \A o \in Outcomes : o # outcome[active] => collected'[o] = collected[o]
        /\ Counted' = Counted \cup {active} /\ active' = None /\ UNCHANGED attempts
    BY <1>12, Collected DEF Collect
  <2>2. \A o \in Outcomes : active \notin collected[o]
    OBVIOUS
  <2>3. \A o, q \in Outcomes : o # q => collected'[o] \cap collected'[q] = {}
    BY <2>1, <2>2
  <2>4. None \notin Counted'
    <3>1. None \notin 1..attempts
      BY DEF None
    <3> QED
      BY <2>1, <3>1
  <2> QED
    BY <2>1, <2>3, <2>4
<1>13. ASSUME NEW p \in Partials, NEW o \in Outcomes, PartialReturns(p, o) PROVE Ledger'
  BY <1>13 DEF PartialReturns
<1>14. ASSUME NEW p \in Partials, SendResult(p) PROVE Ledger'
  BY <1>14 DEF SendResult
<1>15. ASSUME NEW p \in Partials, RemoveFile(p) PROVE Ledger'
  BY <1>15 DEF RemoveFile
<1>16. CASE UNCHANGED vars
  BY <1>16 DEF vars
<1> QED
  BY <1>1, <1>2, <1>3, <1>4, <1>5, <1>6, <1>7, <1>8, <1>9, <1>10, <1>11,
     <1>12, <1>13, <1>14, <1>15, <1>16
  DEF Next, RunStep, PartialStep, Ended

LEMMA FirstKeptNext == Inv /\ [Next]_vars => FirstKept'
<1> SUFFICES ASSUME TypeOK, Numbered, Ledger, FirstKept, [Next]_vars PROVE FirstKept'
  BY DEF Inv
<1> USE DEF FirstKept, runVars, goVars
<1>1. ASSUME Capture PROVE FirstKept'
  BY <1>1 DEF Capture
<1>2. ASSUME CaptureCancelled PROVE FirstKept'
  BY <1>2 DEF CaptureCancelled
<1>3. ASSUME KeepWaiting PROVE FirstKept'
  BY <1>3 DEF KeepWaiting, Unsent
<1>4. ASSUME NextChunk PROVE FirstKept'
  BY <1>4 DEF NextChunk, Due
<1>5. ASSUME StartPartial PROVE FirstKept'
  BY <1>5 DEF StartPartial, Due
<1>6. ASSUME WriteFails PROVE FirstKept'
  BY <1>6 DEF WriteFails, Due
<1>7. ASSUME Release PROVE FirstKept'
  BY <1>7 DEF Release
<1>8. ASSUME Preempt PROVE FirstKept'
  BY <1>8 DEF Preempt, Unsent
<1>9. ASSUME StartFinal PROVE FirstKept'
  BY <1>9 DEF StartFinal
<1>10. ASSUME FinalReturns PROVE FirstKept'
  BY <1>10 DEF FinalReturns
<1>11. ASSUME ContextDone PROVE FirstKept'
  BY <1>11 DEF ContextDone
<1>12. ASSUME NEW next \in {"decide", "write"}, Collect(next) PROVE FirstKept'
  <2>1. /\ outcome[active] \in Outcomes /\ active # None /\ active \in Partials
        /\ collected'[outcome[active]] = collected[outcome[active]] \cup {active}
        /\ \A o \in Outcomes : o # outcome[active] => collected'[o] = collected[o]
        /\ firstPartial' = IF outcome[active] = "ok" /\ firstPartial = None
                           THEN active ELSE firstPartial
    BY <1>12, Collected DEF Collect
  <2>2. \A p \in Counted : p <= active /\ p \in Nat
    BY <2>1 DEF Numbered, Ledger, TypeOK
  <2>3. collected["ok"] \subseteq Counted
    BY DEF Counted, Outcomes
  <2>4. CASE outcome[active] # "ok"
    BY <2>1, <2>4 DEF Outcomes
  <2>5. CASE outcome[active] = "ok" /\ firstPartial = None
    BY <2>1, <2>5 DEF Partials
  <2>6. CASE outcome[active] = "ok" /\ firstPartial # None
    BY <2>1, <2>2, <2>3, <2>6
  <2> QED
    BY <2>4, <2>5, <2>6
<1>13. ASSUME NEW p \in Partials, NEW o \in Outcomes, PartialReturns(p, o) PROVE FirstKept'
  BY <1>13 DEF PartialReturns
<1>14. ASSUME NEW p \in Partials, SendResult(p) PROVE FirstKept'
  BY <1>14 DEF SendResult
<1>15. ASSUME NEW p \in Partials, RemoveFile(p) PROVE FirstKept'
  BY <1>15 DEF RemoveFile
<1>16. CASE UNCHANGED vars
  BY <1>16 DEF vars
<1> QED
  BY <1>1, <1>2, <1>3, <1>4, <1>5, <1>6, <1>7, <1>8, <1>9, <1>10, <1>11,
     <1>12, <1>13, <1>14, <1>15, <1>16
  DEF Next, RunStep, PartialStep, Ended

LEMMA LateNext == Inv /\ [Next]_vars => Late'
<1> SUFFICES ASSUME TypeOK, Numbered, OneActive, Ledger, Late, [Next]_vars PROVE Late'
  BY DEF Inv
<1> USE DEF TypeOK, Late, Counted, runVars, goVars
<1>1. ASSUME Capture PROVE Late'
  BY <1>1 DEF Capture
<1>2. ASSUME CaptureCancelled PROVE Late'
  BY <1>2 DEF CaptureCancelled
<1>3. ASSUME KeepWaiting PROVE Late'
  BY <1>3 DEF KeepWaiting, Unsent
<1>4. ASSUME NextChunk PROVE Late'
  BY <1>4 DEF NextChunk, Due
<1>5. ASSUME StartPartial PROVE Late'
  <2>1. pc = "decide" /\ Counted' = Counted /\ ~released
    BY <1>5 DEF StartPartial
  <2>2. \A p \in Counted : p \in Partials /\ p # attempts'
    <3>1. Counted \subseteq 1..attempts
      BY DEF Ledger
    <3>2. attempts' \notin 1..attempts
      BY <1>5, Started
    <3> QED
      BY <3>1, <3>2, CountedTyped
  <2>3. \A p \in Partials : stage'[p] \in {"returned", "sent"} => p \in early
    BY <1>5, <2>1, Started
  <2> QED
    BY <1>5, <2>1, <2>2, <2>3, Started
<1>6. ASSUME WriteFails PROVE Late'
  BY <1>6 DEF WriteFails, Due
<1>7. ASSUME Release PROVE Late'
  BY <1>7 DEF Release
<1>8. ASSUME Preempt PROVE Late'
  BY <1>8 DEF Preempt, Unsent
<1>9. ASSUME StartFinal PROVE Late'
  BY <1>9 DEF StartFinal
<1>10. ASSUME FinalReturns PROVE Late'
  BY <1>10 DEF FinalReturns
<1>11. ASSUME ContextDone PROVE Late'
  BY <1>11 DEF ContextDone
<1>12. ASSUME NEW next \in {"decide", "write"}, Collect(next),
              (pc = "poll" /\ next = "decide") \/ (pc \in {"select", "preempt"} /\ next = "write")
       PROVE  Late'
  BY <1>12, Collected DEF Collect
<1>13. ASSUME NEW p \in Partials, NEW o \in Outcomes, PartialReturns(p, o) PROVE Late'
  <2>1. /\ stage[p] = "running" /\ stage' = [stage EXCEPT ![p] = "returned"]
        /\ early' = IF released THEN early ELSE early \cup {p}
        /\ UNCHANGED <<pc, released, attempts, collected>>
    BY <1>13 DEF PartialReturns
  <2>2. p = attempts /\ Counted' = Counted
    BY <2>1 DEF OneActive, Numbered, Partials, None
  <2>3. \A q \in Counted : stage'[q] = "sent"
    <3>1. \A q \in Counted : q \in Partials /\ q # p
      BY <2>1, CountedTyped
    <3> QED
      BY <2>1, <3>1
  <2>4. \A q \in Partials : q # p => stage'[q] = stage[q]
    BY <2>1
  <2> QED
    BY <2>1, <2>2, <2>3, <2>4
<1>14. ASSUME NEW p \in Partials, SendResult(p) PROVE Late'
  BY <1>14 DEF SendResult
<1>15. ASSUME NEW p \in Partials, RemoveFile(p) PROVE Late'
  BY <1>15 DEF RemoveFile
<1>16. CASE UNCHANGED vars
  BY <1>16 DEF vars
<1> QED
  BY <1>1, <1>2, <1>3, <1>4, <1>5, <1>6, <1>7, <1>8, <1>9, <1>10, <1>11,
     <1>12, <1>13, <1>14, <1>15, <1>16
  DEF Next, RunStep, PartialStep, Ended

LEMMA Invariance == Spec => []Inv
<1>1. Inv /\ [Next]_vars => Inv'
  BY TypeNext, NumberedNext, OneActiveNext, LedgerNext, FirstKeptNext, LateNext DEF Inv
<1> QED
  BY <1>1, InvInit, PTL DEF Spec

(* The variables of Run keep their types; no more partials are tried than    *)
(* the recording has chunks (probe.go:79-215).                               *)
THEOREM TypesKept == Spec => []TypeOK
<1>1. Inv => TypeOK
  BY DEF Inv
<1> QED
  BY <1>1, Invariance, PTL

(* At most one partial runs, and none beside the final transcription         *)
(* (probe.go:149-205).                                                       *)
THEOREM OneAtATime == Spec => []OneInference
<1>1. Inv => OneInference
  <2> SUFFICES ASSUME Inv PROVE OneInference
    OBVIOUS
  <2>1. Running \subseteq {active}
    BY DEF Inv, OneActive, Running
  <2>2. Cardinality(Running) <= 1
    <3>1. IsFiniteSet({active}) /\ Cardinality({active}) = 1
      BY FS_Singleton
    <3> QED
      BY <2>1, <3>1, FS_Subset
  <2>3. pc = "final" => Running = {}
    BY DEF Inv, OneActive, Running, None, Partials
  <2> QED
    BY <2>2, <2>3 DEF OneInference
<1> QED
  BY <1>1, Invariance, PTL

(* Every attempt that Run does not wait for is counted, once, as completed,  *)
(* cancelled or failed (probe.go:112-192).                                   *)
THEOREM NoAttemptLost == Spec => []Accounted
<1>1. Inv => Accounted
  BY DEF Inv, Ledger, Accounted
<1> QED
  BY <1>1, Invariance, PTL

(* The report says a hypothesis came before the release exactly when a       *)
(* completed partial did (probe.go:112-195).                                 *)
THEOREM ReleaseIsTold == Spec => []BeforeRelease
<1>1. Inv => BeforeRelease
  <2> SUFFICES ASSUME Inv, pc = "done"
               PROVE  firstPartial \in early <=> collected["ok"] \cap early # {}
    BY DEF BeforeRelease
  <2>1. collected["ok"] \subseteq Counted /\ Counted \subseteq 1..attempts /\ Counted \subseteq Partials
    BY CountedTyped DEF Inv, Ledger, Counted, Outcomes
  <2>2. ASSUME firstPartial \in early PROVE collected["ok"] \cap early # {}
    <3>1. firstPartial # None
      BY <2>2 DEF Inv, TypeOK, None, Partials
    <3> QED
      BY <2>2, <3>1 DEF Inv, FirstKept
  <2>3. ASSUME NEW p \in collected["ok"], p \in early PROVE firstPartial \in early
    <3>1. firstPartial \in collected["ok"] /\ firstPartial <= p
      BY <2>3 DEF Inv, FirstKept
    <3>2. firstPartial \in Partials /\ stage[firstPartial] = "sent"
      BY <2>1, <3>1 DEF Inv, Late
    <3>a. firstPartial \in Nat /\ p \in Nat /\ p <= attempts
      <4>1. attempts \in Nat
        BY ChunksAssumption DEF Inv, TypeOK
      <4>2. firstPartial \in 1..attempts /\ p \in 1..attempts
        BY <2>1, <2>3, <3>1
      <4> QED
        BY <4>1, <4>2
    <3>3. firstPartial \notin early => firstPartial = attempts
      BY <3>2 DEF Inv, Late
    <3>4. firstPartial = attempts => p = firstPartial
      BY <3>1, <3>a DEF Inv, TypeOK
    <3> QED
      BY <2>3, <3>3, <3>4
  <2> QED
    BY <2>2, <2>3
<1> QED
  BY <1>1, Invariance, PTL
=============================================================================
