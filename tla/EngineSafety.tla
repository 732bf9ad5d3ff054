------------------------------ MODULE EngineSafety ------------------------------
(* Theorems about Engine for every number of requests and of start-up        *)
(* attempts: an engine that returns holds no process any more, and has       *)
(* answered all it was sent, in order.                                       *)
EXTENDS Engine, TLAPS

(* A runtime between two requests: not there, or idle and known to be there. *)
ModelAtRest   == child["model"] = "none" \/ (child["model"] = "idle" /\ cmd)
WhisperAtRest == child["whisper"] = "none"
                 \/ (child["whisper"] = "idle" /\ options.whisperPersistent)

(* Why nothing is left behind: a runtime works or dies only where the engine *)
(* waits for it, or has given up on it, and the deferred calls meet each     *)
(* that it holds.                                                            *)
ModelPoints   == {"handshake", "generate", "stopModel", "closeModel", "dead"}
WhisperPoints == {"start", "restart", "transcribe", "discard", "closeWhisper", "dead"}

Waited ==
  /\ pc \notin ModelPoints => ModelAtRest
  /\ pc \notin WhisperPoints => WhisperAtRest
  /\ pc \in {"options", "load"} => ~cmd
  /\ pc \in {"options", "closeModel", "exited"} => child["whisper"] = "none"
  /\ pc = "exited" => child["model"] = "none"
  /\ pc \in {"start", "restart"} => options.whisperPersistent

(* Why everything is answered: the engine works on one request at a time,    *)
(* the one it read last, and stops reading only at the end of the input.     *)
Serving == {"load", "handshake", "generate", "stopModel", "restart", "transcribe",
            "discard", "reply"}

InOrder ==
  /\ Len(asked) <= MaxRequests
  /\ pc \in Serving => taken = Len(answers) + 1
  /\ pc \notin Serving \cup {"dead"} => taken = Len(answers)
  /\ pc \in Serving \ {"reply"} => asked[taken] # "anonymous"
  /\ pc = "reply" => body # "none" /\ (body = "noid" <=> asked[taken] = "anonymous")
  /\ pc \in {"closeWhisper", "closeModel", "exited"} /\ ~failed => Eof /\ taken = Len(asked)
  /\ Len(answers) <= taken
  /\ \A i \in 1..Len(answers) :
       answers[i].req = i /\ (answers[i].body = "noid" <=> asked[i] = "anonymous")

Inv == TypeOK /\ Waited /\ InOrder

(* An empty sequence, and one with one more element, keep their element set. *)
LEMMA SeqTyped ==
  ASSUME NEW S
  PROVE  <<>> \in Seq(S) /\ \A seq \in Seq(S), x \in S : Append(seq, x) \in Seq(S)
OBVIOUS

LEMMA InvInit == Init => Inv
<1> SUFFICES ASSUME Init PROVE Inv
  OBVIOUS
<1>1. attempt \in 0..Attempts /\ taken \in 0..Len(asked) /\ Len(asked) <= MaxRequests
  BY BoundsAssumption DEF Init
<1>2. child \in [Children -> {"none", "loading", "idle", "busy", "killed"}]
      /\ child["model"] = "none" /\ child["whisper"] = "none"
  BY DEF Init, Children
<1>3. asked \in Seq(Kinds)
      /\ answers \in Seq([req : 1..MaxRequests, body : {"result", "plan", "error", "noid"}])
  BY SeqTyped DEF Init
<1>4. options \in Flags /\ cmd \in BOOLEAN /\ newline \in BOOLEAN /\ failed \in BOOLEAN
  BY DEF Init
<1>5. TypeOK
  BY <1>1, <1>2, <1>3, <1>4 DEF Init, TypeOK
<1>6. Waited
  BY <1>2 DEF Init, Waited, ModelAtRest, WhisperAtRest
<1>7. InOrder
  BY <1>1 DEF Init, InOrder, Serving
<1> QED
  BY <1>5, <1>6, <1>7 DEF Inv

LEMMA TypeNext == Inv /\ [Next]_vars => TypeOK'
<1> SUFFICES ASSUME Inv, [Next]_vars PROVE TypeOK'
  OBVIOUS
<1> USE BoundsAssumption
<1> USE DEF Inv, TypeOK, Goto, Become, hostVars
<1>1. ASSUME Configure PROVE TypeOK'
  BY <1>1 DEF Configure, Valid
<1>2. ASSUME Launch PROVE TypeOK'
  <2>1. attempt' \in 0..Attempts
    BY <1>2 DEF Launch, MayLaunch
  <2>2. child' \in [Children -> {"none", "loading", "idle", "busy", "killed"}]
    BY <1>2 DEF Launch
  <2> QED
    BY <1>2, <2>1, <2>2 DEF Launch
<1>3. ASSUME Ready PROVE TypeOK'
  BY <1>3 DEF Ready
<1>4. ASSUME StartFails PROVE TypeOK'
  <2>1. attempt' \in 0..Attempts
    BY <1>4 DEF StartFails
  <2> QED
    BY <1>4, <2>1 DEF StartFails
<1>5. ASSUME StartExpires PROVE TypeOK'
  <2>1. attempt' \in 0..Attempts
    BY <1>5 DEF StartExpires
  <2>2. child' \in [Children -> {"none", "loading", "idle", "busy", "killed"}]
    BY <1>5 DEF StartExpires
  <2> QED
    BY <1>5, <2>1, <2>2 DEF StartExpires
<1>6. ASSUME Read PROVE TypeOK'
  <2>1. taken' \in 0..Len(asked) /\ UNCHANGED <<options, stray, cmd, attempt, hostVars, answers, failed>>
    BY <1>6 DEF Read, Line
  <2>2. child' = child \/ \E r \in Children : Become(r, "busy")
    BY <1>6 DEF Read, Children
  <2>3. child' \in [Children -> {"none", "loading", "idle", "busy", "killed"}]
    BY <2>2
  <2>4. /\ pc' \in {"reply", "generate", "load", "restart", "transcribe"}
        /\ body' \in {"result", "noid", "plan", "error", body}
    BY <1>6 DEF Read, Confident
  <2> QED
    BY <2>1, <2>3, <2>4
<1>7. ASSUME End PROVE TypeOK'
  BY <1>7 DEF End, ReadEnd, Deferred
<1>8. ASSUME Reply PROVE TypeOK'
  <2> DEFINE Answer == [req : 1..MaxRequests, body : {"result", "plan", "error", "noid"}]
  <2>1. answers \in Seq(Answer) /\ body \in {"result", "plan", "error", "noid"} /\ pc = "reply"
    BY <1>8 DEF Reply, InOrder
  <2>2. taken \in 1..MaxRequests
    BY <2>1 DEF InOrder, Serving
  <2>3. [req |-> taken, body |-> body] \in Answer
    BY <2>1, <2>2
  <2>4. answers' = answers \/ \E answer \in Answer : answers' = Append(answers, answer)
    BY <1>8, <2>3 DEF Reply
  <2> HIDE DEF Answer
  <2>5. answers' \in Seq(Answer)
    BY ONLY <2>1, <2>4, SeqTyped
  <2> USE DEF Answer
  <2> QED
    BY <1>8, <2>5 DEF Reply
<1>9. ASSUME LoadModel PROVE TypeOK'
  <2>1. cmd' \in BOOLEAN
    BY <1>9 DEF LoadModel, Flags
  <2>2. child' \in [Children -> {"none", "loading", "idle", "busy", "killed"}]
    BY <1>9 DEF LoadModel
  <2> QED
    BY <1>9, <2>1, <2>2 DEF LoadModel
<1>10. ASSUME LoadModelFails PROVE TypeOK'
  BY <1>10 DEF LoadModelFails, ReplyPlan
<1>11. ASSUME ModelReady PROVE TypeOK'
  BY <1>11 DEF ModelReady
<1>12. ASSUME ModelGone PROVE TypeOK'
  BY <1>12 DEF ModelGone, ReplyPlan, ModelReaped, ModelEnds
<1>13. ASSUME WhisperLost PROVE TypeOK'
  BY <1>13 DEF WhisperLost
<1>14. ASSUME Stop PROVE TypeOK'
  BY <1>14 DEF Stop, Owner
<1>15. ASSUME Stopped PROVE TypeOK'
  BY <1>15 DEF Stopped, Owner
<1>16. ASSUME ModelAnswers PROVE TypeOK'
  BY <1>16 DEF ModelAnswers, ReplyPlan
<1>17. ASSUME WhisperAnswers PROVE TypeOK'
  BY <1>17 DEF WhisperAnswers
<1>18. ASSUME HostCloses PROVE TypeOK'
  BY <1>18 DEF HostCloses
<1>19. ASSUME HostDies PROVE TypeOK'
  BY <1>19 DEF HostDies
<1>20. ASSUME Kill PROVE TypeOK'
  BY <1>20 DEF Kill, Ended
<1>21. ASSUME NEW r \in Children, Loaded(r) PROVE TypeOK'
  BY <1>21 DEF Loaded
<1>22. ASSUME NEW r \in Children, Crash(r) PROVE TypeOK'
  BY <1>22 DEF Crash
<1>23. ASSUME NEW r \in Children, Orphaned(r) PROVE TypeOK'
  BY <1>23 DEF Orphaned, Notices
<1>24. ASSUME NEW kind \in Kinds, Ask(kind) PROVE TypeOK'
  BY <1>24 DEF Ask
<1>25. ASSUME GiveUp PROVE TypeOK'
  BY <1>25 DEF GiveUp, Starting
<1>26. ASSUME StrayGone PROVE TypeOK'
  BY <1>26 DEF StrayGone
<1>27. CASE UNCHANGED vars
  BY <1>27 DEF vars
<1> QED
  BY <1>1, <1>2, <1>3, <1>4, <1>5, <1>6, <1>7, <1>8, <1>9, <1>10, <1>11,
     <1>12, <1>13, <1>14, <1>15, <1>16, <1>17, <1>18, <1>19, <1>20, <1>21,
     <1>22, <1>23, <1>24, <1>25, <1>26, <1>27
  DEF Next, EngineStep, RuntimeStep, HostStep, Finished

LEMMA WaitedNext == Inv /\ [Next]_vars => Waited'
<1> SUFFICES ASSUME Inv, [Next]_vars PROVE Waited'
  OBVIOUS
<1> USE DEF Inv, TypeOK, Waited, ModelAtRest, WhisperAtRest, ModelPoints,
       WhisperPoints, Goto, Become, Alive, Children
<1>1. ASSUME Configure PROVE Waited'
  BY <1>1 DEF Configure, Valid
<1>2. ASSUME Launch PROVE Waited'
  <2>1. pc \in {"start", "restart"} /\ UNCHANGED <<pc, cmd, options>>
        /\ child'["model"] = child["model"]
    BY <1>2 DEF Launch, Starting
  <2> QED
    BY <2>1
<1>3. ASSUME Ready PROVE Waited'
  <2>1. /\ pc \in {"start", "restart"} /\ child["whisper"] = "idle" /\ UNCHANGED <<cmd, options>>
        /\ child'["model"] = child["model"]
        /\ \/ pc' = "read" /\ child' = child
           \/ pc' = "transcribe"
    BY <1>3 DEF Ready, Starting
  <2> QED
    BY <2>1
<1>4. ASSUME StartFails PROVE Waited'
  BY <1>4 DEF StartFails
<1>5. ASSUME StartExpires PROVE Waited'
  BY <1>5 DEF StartExpires
<1>6. ASSUME Read PROVE Waited'
  BY <1>6 DEF Read, Line, Confident
<1>7. ASSUME End PROVE Waited'
  BY <1>7 DEF End, ReadEnd, Deferred
<1>8. ASSUME Reply PROVE Waited'
  BY <1>8 DEF Reply
<1>9. ASSUME LoadModel PROVE Waited'
  BY <1>9 DEF LoadModel
<1>10. ASSUME LoadModelFails PROVE Waited'
  BY <1>10 DEF LoadModelFails, ReplyPlan
<1>11. ASSUME ModelReady PROVE Waited'
  BY <1>11 DEF ModelReady
<1>12. ASSUME ModelGone PROVE Waited'
  BY <1>12 DEF ModelGone, ReplyPlan, ModelReaped, ModelEnds
<1>13. ASSUME WhisperLost PROVE Waited'
  BY <1>13 DEF WhisperLost
<1>14. ASSUME Stop PROVE Waited'
  BY <1>14 DEF Stop, Owner
<1>15. ASSUME Stopped PROVE Waited'
  BY <1>15 DEF Stopped, Owner
<1>16. ASSUME ModelAnswers PROVE Waited'
  BY <1>16 DEF ModelAnswers, ReplyPlan
<1>17. ASSUME WhisperAnswers PROVE Waited'
  BY <1>17 DEF WhisperAnswers
<1>18. ASSUME HostCloses PROVE Waited'
  BY <1>18 DEF HostCloses
<1>19. ASSUME HostDies PROVE Waited'
  BY <1>19 DEF HostDies
<1>20. ASSUME Kill PROVE Waited'
  BY <1>20 DEF Kill, Ended
<1>21. ASSUME NEW r \in Children, Loaded(r) PROVE Waited'
  BY <1>21 DEF Loaded
<1>22. ASSUME NEW r \in Children, Crash(r) PROVE Waited'
  BY <1>22 DEF Crash
<1>23. ASSUME NEW r \in Children, Orphaned(r) PROVE Waited'
  BY <1>23 DEF Orphaned, Notices
<1>24. ASSUME NEW kind \in Kinds, Ask(kind) PROVE Waited'
  BY <1>24 DEF Ask
<1>25. ASSUME GiveUp PROVE Waited'
  BY <1>25 DEF GiveUp, Starting
<1>26. ASSUME StrayGone PROVE Waited'
  BY <1>26 DEF StrayGone
<1>27. CASE UNCHANGED vars
  BY <1>27 DEF vars
<1> QED
  BY <1>1, <1>2, <1>3, <1>4, <1>5, <1>6, <1>7, <1>8, <1>9, <1>10, <1>11,
     <1>12, <1>13, <1>14, <1>15, <1>16, <1>17, <1>18, <1>19, <1>20, <1>21,
     <1>22, <1>23, <1>24, <1>25, <1>26, <1>27
  DEF Next, EngineStep, RuntimeStep, HostStep, Finished

LEMMA InOrderNext == Inv /\ [Next]_vars => InOrder'
<1> SUFFICES ASSUME Inv, [Next]_vars PROVE InOrder'
  OBVIOUS
<1> USE DEF Inv, TypeOK, InOrder, Serving, Goto, hostVars, Eof
<1>1. ASSUME Configure PROVE InOrder'
  BY <1>1 DEF Configure, Valid
<1>2. ASSUME Launch PROVE InOrder'
  BY <1>2 DEF Launch, MayLaunch
<1>3. ASSUME Ready PROVE InOrder'
  <2>1. /\ \/ pc = "start" /\ pc' = "read"
           \/ pc = "restart" /\ pc' = "transcribe"
        /\ UNCHANGED <<asked, newline, host, taken, answers, body, failed>>
    BY <1>3 DEF Ready, Starting
  <2> QED
    BY <2>1
<1>4. ASSUME StartFails PROVE InOrder'
  BY <1>4 DEF StartFails
<1>5. ASSUME StartExpires PROVE InOrder'
  BY <1>5 DEF StartExpires
<1>6. ASSUME Read PROVE InOrder'
  BY <1>6 DEF Read, Line, Confident
<1>7. ASSUME End PROVE InOrder'
  BY <1>7 DEF End, ReadEnd, Deferred
<1>8. ASSUME Reply PROVE InOrder'
  <2>1. pc = "reply" /\ UNCHANGED <<asked, host, taken, failed>>
        /\ taken = Len(answers) + 1 /\ (body = "noid" <=> asked[taken] = "anonymous")
    BY <1>8 DEF Reply
  <2>2. CASE host = "dead"
    <3>1. pc' = "dead" /\ answers' = answers
      BY <1>8, <2>2 DEF Reply
    <3> QED
      BY <2>1, <3>1
  <2>3. CASE host # "dead"
    <3>1. pc' = "read" /\ answers' = Append(answers, [req |-> taken, body |-> body])
      BY <1>8, <2>3 DEF Reply
    <3>2. answers \in Seq([req : 1..MaxRequests, body : {"result", "plan", "error", "noid"}])
      OBVIOUS
    <3>3. /\ Len(answers') = Len(answers) + 1
          /\ \A i \in 1..Len(answers) : answers'[i] = answers[i]
          /\ answers'[Len(answers) + 1] = [req |-> taken, body |-> body]
      BY <3>1, <3>2
    <3>4. ASSUME NEW i \in 1..Len(answers')
          PROVE  answers'[i].req = i /\ (answers'[i].body = "noid" <=> asked[i] = "anonymous")
      <4>1. CASE i \in 1..Len(answers)
        BY <3>3, <4>1
      <4>2. CASE i = Len(answers) + 1
        BY <2>1, <3>3, <4>2
      <4> QED
        BY <3>2, <3>3, <4>1, <4>2
    <3> QED
      BY <2>1, <3>1, <3>3, <3>4
  <2> QED
    BY <2>2, <2>3
<1>9. ASSUME LoadModel PROVE InOrder'
  BY <1>9 DEF LoadModel
<1>10. ASSUME LoadModelFails PROVE InOrder'
  BY <1>10 DEF LoadModelFails, ReplyPlan
<1>11. ASSUME ModelReady PROVE InOrder'
  BY <1>11 DEF ModelReady
<1>12. ASSUME ModelGone PROVE InOrder'
  BY <1>12 DEF ModelGone, ReplyPlan, ModelReaped, ModelEnds
<1>13. ASSUME WhisperLost PROVE InOrder'
  BY <1>13 DEF WhisperLost
<1>14. ASSUME Stop PROVE InOrder'
  BY <1>14 DEF Stop, Owner
<1>15. ASSUME Stopped PROVE InOrder'
  BY <1>15 DEF Stopped, Owner
<1>16. ASSUME ModelAnswers PROVE InOrder'
  BY <1>16 DEF ModelAnswers, ReplyPlan
<1>17. ASSUME WhisperAnswers PROVE InOrder'
  BY <1>17 DEF WhisperAnswers
<1>18. ASSUME HostCloses PROVE InOrder'
  BY <1>18 DEF HostCloses
<1>19. ASSUME HostDies PROVE InOrder'
  BY <1>19 DEF HostDies
<1>20. ASSUME Kill PROVE InOrder'
  BY <1>20 DEF Kill, Ended
<1>21. ASSUME NEW r \in Children, Loaded(r) PROVE InOrder'
  BY <1>21 DEF Loaded
<1>22. ASSUME NEW r \in Children, Crash(r) PROVE InOrder'
  BY <1>22 DEF Crash
<1>23. ASSUME NEW r \in Children, Orphaned(r) PROVE InOrder'
  BY <1>23 DEF Orphaned, Notices
<1>24. ASSUME NEW kind \in Kinds, Ask(kind) PROVE InOrder'
  <2>1. /\ Len(asked) < MaxRequests /\ asked' = Append(asked, kind) /\ ~Eof
        /\ UNCHANGED <<pc, taken, answers, body, host, failed>>
    BY <1>24 DEF Ask
  <2>2. asked \in Seq(Kinds) /\ taken \in 0..Len(asked)
    OBVIOUS
  <2>3. Len(asked') = Len(asked) + 1 /\ \A i \in 1..Len(asked) : asked'[i] = asked[i]
    BY <2>1, <2>2
  <2>4. Len(asked') <= MaxRequests
    BY <2>1, <2>2, <2>3, BoundsAssumption
  <2>5. Len(answers) <= taken /\ (pc \in Serving => taken = Len(answers) + 1)
    OBVIOUS
  <2>6. \A i \in 1..Len(answers) : asked'[i] = asked[i]
    <3>1. answers \in Seq([req : 1..MaxRequests, body : {"result", "plan", "error", "noid"}])
      OBVIOUS
    <3>2. 1..Len(answers) \subseteq 1..Len(asked)
      BY ONLY <2>2, <2>5, <3>1
    <3> QED
      BY ONLY <2>3, <3>2
  <2>7. pc \in Serving => asked'[taken] = asked[taken]
    BY <2>2, <2>3, <2>5
  <2> QED
    BY <2>1, <2>4, <2>6, <2>7
<1>25. ASSUME GiveUp PROVE InOrder'
  BY <1>25 DEF GiveUp, Starting
<1>26. ASSUME StrayGone PROVE InOrder'
  BY <1>26 DEF StrayGone
<1>27. CASE UNCHANGED vars
  BY <1>27 DEF vars
<1> QED
  BY <1>1, <1>2, <1>3, <1>4, <1>5, <1>6, <1>7, <1>8, <1>9, <1>10, <1>11,
     <1>12, <1>13, <1>14, <1>15, <1>16, <1>17, <1>18, <1>19, <1>20, <1>21,
     <1>22, <1>23, <1>24, <1>25, <1>26, <1>27
  DEF Next, EngineStep, RuntimeStep, HostStep, Finished

LEMMA Invariance == Spec => []Inv
<1>1. Inv /\ [Next]_vars => Inv'
  BY TypeNext, WaitedNext, InOrderNext DEF Inv
<1> QED
  BY <1>1, InvInit, PTL DEF Spec

(* The engine's variables keep their types (main.go:41-96).                  *)
THEOREM TypesKept == Spec => []TypeOK
<1>1. Inv => TypeOK
  BY DEF Inv
<1> QED
  BY <1>1, Invariance, PTL

(* Between two requests the engine holds no runtime that is at work or       *)
(* dying, and one that returned, after a served input as after a failed      *)
(* start-up, holds none (main.go:41-96).  A whisper-server that outlives its *)
(* kill by two seconds is held no longer (persistent.go:462).                *)
THEOREM NothingLeftRunning == Spec => []RuntimesReaped
<1>1. Inv => RuntimesReaped
  BY DEF Inv, TypeOK, Waited, ModelAtRest, WhisperAtRest, ModelPoints, WhisperPoints,
         RuntimesReaped, Exited, Alive, Children
<1> QED
  BY <1>1, Invariance, PTL

(* The answers are those of the requests, in their order, each once, without *)
(* the id exactly where the engine cannot know it, and an engine that        *)
(* returns without an error has answered all it was sent                     *)
(* (jsonl/server.go:46-84).                                                  *)
THEOREM EveryRequestOnce == Spec => []AllAnswered
<1>1. Inv => AllAnswered
  BY DEF Inv, TypeOK, InOrder, Serving, AllAnswered, Exited
<1> QED
  BY <1>1, Invariance, PTL
=============================================================================
