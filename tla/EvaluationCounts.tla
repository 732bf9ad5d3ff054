--------------------------- MODULE EvaluationCounts ---------------------------
(***************************************************************************)
(* Theorems about Evaluation: the index of the 95th percentile, for every  *)
(* number of latencies; that the report counts every fixture, and that all *)
(* of its counters are right, for every number of fixtures.                *)
(***************************************************************************)
EXTENDS Evaluation, FiniteSetTheorems, TLAPS

(* The code of Run that indexes the sorted latencies (evaluation.go:178):   *)
(* the index is in range for every slice that is not empty, and it is the   *)
(* first at or below which at least 95 of 100 latencies lie.                *)
THEOREM PercentileIndex ==
  ASSUME NEW n \in Nat \ {0}
  PROVE  /\ P95Index(n) \in 0 .. (n - 1)
         /\ 100 * (P95Index(n) + 1) >= 95 * n
         /\ P95Index(n) = 0 \/ 100 * P95Index(n) < 95 * n
<1> DEFINE q == (95 * n + 99) \div 100
<1>1. q \in Int /\ 100 * q <= 95 * n + 99 /\ 95 * n + 99 < 100 * q + 100
  OBVIOUS
<1>2. q >= 1 /\ q <= n
  BY <1>1
<1>3. P95Index(n) = q - 1
  BY <1>2, <1>1 DEF P95Index, Larger
<1> HIDE DEF q
<1>4. QED
  BY <1>1, <1>2, <1>3
-----------------------------------------------------------------------------

(* What a case counts for: one of passed and failed, never both.            *)
LEMMA OneVerdict ==
  ASSUME NEW entry, entry.fixture \in Fixtures
  PROVE  ("passed" \in Raised(entry)) <=> ("failed" \notin Raised(entry))
<1>1. \A check \in entry.fixture.checks :
        /\ TotalOf[check] \in {"targetTotal", "actionTotal"}
        /\ PassedOf[check] \in {"targetPassed", "actionPassed"}
  BY DEF Fixtures, Checks, TotalOf, PassedOf
<1>2. CASE IsError(entry.outcome)
  BY <1>2 DEF Raised
<1>3. CASE ~IsError(entry.outcome)
  BY <1>1, <1>3 DEF Raised
<1>4. QED
  BY <1>2, <1>3

Results   == [by : {"rules", "model"}, met : SUBSET Checks, sure : BOOLEAN, unavailable : BOOLEAN]
               \cup {Error(kind) : kind \in {"none", "error", "invalid"}}
CaseTypes == [fixture : Fixtures, eligible : BOOLEAN, outcome : Results,
              failures : SUBSET (Checks \cup {"ambiguity"})]

TypeInv ==
  /\ mode \in Modes /\ total \in Nat /\ expired \in BOOLEAN /\ eligible \in BOOLEAN
  /\ pc \in {"case", "subject", "exit0", "exit1"}
  /\ fixture \in Fixtures
  /\ parsed \in RulePlans \cup {Error("none"), Error("error")}
  /\ pc = "subject" => parsed # Error("none")
  /\ count \in [Counters -> Nat]
  /\ cases \in Seq(CaseTypes)

(* The report has a case for each fixture that was scored, and each case    *)
(* has raised one of the two counters: the part of the invariant that       *)
(* EveryFixtureCounted follows from.                                        *)
Scored ==
  /\ count["passed"] + count["failed"] = Len(cases)
  /\ Exited => Len(cases) = total

ScoreInv == TypeInv /\ Scored

(* What the subject returns is a plan or an error, in every mode.           *)
LEMMA OutcomeIsResult ==
  ASSUME TypeInv, NEW outcome \in Outcomes
  PROVE  outcome \in Results
<1>1. Rules \in Results
  BY DEF TypeInv, Rules, Results, RulePlans, Error
<1>2. Model \subseteq Results
  BY DEF Model, Results, ModelPlans, Error
<1>3. CASE mode = "model"
  BY <1>2, <1>3 DEF Outcomes
<1>4. CASE mode # "model" /\ (mode = "rules" \/ IsError(Rules) \/ ~Unsure(Rules))
  BY <1>1, <1>4 DEF Outcomes
<1>5. CASE mode # "model" /\ ~(mode = "rules" \/ IsError(Rules) \/ ~Unsure(Rules))
  <2>1. PICK answer \in Model : outcome = Hybrid(answer)
    BY <1>5 DEF Outcomes
  <2>2. Rules \in RulePlans
    <3>1. IsError(Error("error")) /\ IsError(Error("none"))
      BY DEF IsError, Error
    <3>2. Rules # Error("error") /\ Rules # Error("none")
      BY <1>5, <3>1
    <3>3. QED
      BY <3>2 DEF TypeInv, Rules
  <2>3. [Rules EXCEPT !.unavailable = TRUE] \in Results
    BY <2>2 DEF RulePlans, Results
  <2>4. QED
    BY <1>2, <2>1, <2>3 DEF Hybrid
<1>6. QED
  BY <1>3, <1>4, <1>5

(* What EndCase appends is a case about the fixture, and its verdict and    *)
(* checks are what the counters go up by.                                   *)
LEMMA EndCaseAppends ==
  ASSUME TypeInv, EndCase
  PROVE  \E entry \in CaseTypes :
           /\ entry.fixture = fixture /\ entry.eligible = eligible /\ entry.outcome \in Outcomes
           /\ entry.failures = IF IsError(entry.outcome) THEN {} ELSE Failures(entry.outcome, fixture)
           /\ cases' = Append(cases, entry)
           /\ count' = [c \in Counters |-> IF c \in Raised(entry) THEN count[c] + 1 ELSE count[c]]
<1>1. PICK outcome \in Outcomes :
        LET entry == [fixture |-> fixture, eligible |-> eligible, outcome |-> outcome,
                     failures |-> IF IsError(outcome) THEN {} ELSE Failures(outcome, fixture)]
        IN  /\ cases' = Append(cases, entry)
            /\ count' = [c \in Counters |-> IF c \in Raised(entry) THEN count[c] + 1 ELSE count[c]]
  BY DEF EndCase
<1> DEFINE entry == [fixture |-> fixture, eligible |-> eligible, outcome |-> outcome,
                    failures |-> IF IsError(outcome) THEN {} ELSE Failures(outcome, fixture)]
<1>2. entry \in CaseTypes
  <2>1. outcome \in Results
    BY OutcomeIsResult
  <2>2. fixture \in Fixtures /\ eligible \in BOOLEAN /\ fixture.checks \subseteq Checks
    BY DEF TypeInv, Fixtures
  <2>3. Failures(outcome, fixture) \subseteq Checks \cup {"ambiguity"}
    BY <2>2 DEF Failures
  <2>4. QED
    BY <2>1, <2>2, <2>3 DEF CaseTypes
<1>3. /\ entry.fixture = fixture /\ entry.eligible = eligible /\ entry.outcome \in Outcomes
      /\ entry.failures = IF IsError(entry.outcome) THEN {} ELSE Failures(entry.outcome, fixture)
  OBVIOUS
<1>4. /\ cases' = Append(cases, entry)
      /\ count' = [c \in Counters |-> IF c \in Raised(entry) THEN count[c] + 1 ELSE count[c]]
  BY <1>1
<1>5. QED
  BY <1>2, <1>3, <1>4

LEMMA InitScored == Init => ScoreInv
<1> SUFFICES ASSUME Init PROVE ScoreInv
  OBVIOUS
<1>1. NoFixture \in Fixtures
  BY DEF NoFixture, Fixtures
<1>2. TypeInv
  <2>1. total \in Nat /\ mode \in Modes
    BY BoundsAssumption DEF Init
  <2>2. count \in [Counters -> Nat] /\ cases \in Seq(CaseTypes)
    BY DEF Init
  <2>3. QED
    BY <1>1, <2>1, <2>2 DEF Init, TypeInv
<1>3. count["passed"] = 0 /\ count["failed"] = 0
  BY DEF Init, Counters
<1>4. Scored
  BY <1>3 DEF Init, Scored, Exited
<1>5. QED
  BY <1>2, <1>4 DEF ScoreInv

LEMMA NextScored == ScoreInv /\ [Next]_vars => ScoreInv'
<1> SUFFICES ASSUME ScoreInv, [Next]_vars PROVE ScoreInv'
  OBVIOUS
<1> USE DEF ScoreInv, TypeInv, Scored, Exited
<1>1. CASE StartCase
  <2>1. count' \in [Counters -> Nat] /\ count'["passed"] = count["passed"] /\ count'["failed"] = count["failed"]
    BY <1>1 DEF StartCase, Counters
  <2>2. eligible' \in BOOLEAN
    BY <1>1 DEF StartCase
  <2>3. parsed' \in RulePlans \cup {Error("error")}
    BY <1>1 DEF StartCase
  <2>4. parsed' # Error("none")
    <3>1. (\A plan \in RulePlans : plan.by = "rules") /\ Error("error").by = "error" /\ Error("none").by = "none"
      BY DEF RulePlans, Error
    <3>2. QED
      BY <2>3, <3>1
  <2>5. QED
    BY <1>1, <2>1, <2>2, <2>3, <2>4 DEF StartCase
<1>2. CASE EndCase
  <2>1. PICK entry \in CaseTypes :
          /\ entry.fixture = fixture
          /\ cases' = Append(cases, entry)
          /\ count' = [c \in Counters |-> IF c \in Raised(entry) THEN count[c] + 1 ELSE count[c]]
    BY <1>2, EndCaseAppends
  <2>2. ("passed" \in Raised(entry)) <=> ("failed" \notin Raised(entry))
    BY <2>1, OneVerdict
  <2>3. count \in [Counters -> Nat] /\ cases \in Seq(CaseTypes)
    OBVIOUS
  <2>4. count' \in [Counters -> Nat]
    BY ONLY <2>1, <2>3
  <2>5. count'["passed"] + count'["failed"] = count["passed"] + count["failed"] + 1
    <3>1. "passed" \in Counters /\ "failed" \in Counters
      BY DEF Counters
    <3>2. \A c \in Counters : count'[c] = IF c \in Raised(entry) THEN count[c] + 1 ELSE count[c]
      BY ONLY <2>1
    <3>3. count["passed"] \in Nat /\ count["failed"] \in Nat
      BY ONLY <2>3, <3>1
    <3>4. QED
      BY ONLY <2>2, <3>1, <3>2, <3>3
  <2>6. cases' \in Seq(CaseTypes) /\ Len(cases') = Len(cases) + 1
    BY ONLY <2>1, <2>3
  <2>7. fixture' \in Fixtures /\ parsed' = Error("none") /\ eligible' = FALSE /\ pc' = "case"
    BY <1>2 DEF EndCase, NoFixture, Fixtures
  <2>8. QED
    BY <1>2, <2>4, <2>5, <2>6, <2>7 DEF EndCase
<1>3. CASE Expire
  BY <1>3 DEF Expire
<1>4. CASE Report
  BY <1>4 DEF Report
<1>5. CASE Finished \/ UNCHANGED vars
  BY <1>5 DEF Finished, vars
<1>6. QED
  BY <1>1, <1>2, <1>3, <1>4, <1>5 DEF Next

(* Evaluator.Run counts every fixture as passed or as failed and none       *)
(* twice, however many there are and whatever the interpreters return: the  *)
(* exit code of main, which reads Failed only, is about all of them.        *)
THEOREM CountsEveryFixture == Spec => []EveryFixtureCounted
<1>1. ScoreInv => EveryFixtureCounted
  BY DEF ScoreInv, Scored, EveryFixtureCounted
<1>2. QED
  BY <1>1, InitScored, NextScored, PTL DEF Spec
-----------------------------------------------------------------------------

(* The other counters of Run.  A set of cases is a kind; Of says how many   *)
(* of the report's cases are of that kind.                                  *)
Hits(kind, report) == {i \in 1..Len(report) : report[i] \in kind}
Of(kind) == Cardinality(Hits(kind, cases))

Errors       == {c \in CaseTypes : IsError(c.outcome)}
OfModel      == {c \in CaseTypes : c.outcome.by = "model" /\ ~c.outcome.unavailable}
Unhelped     == {c \in CaseTypes : c.eligible /\ (IsError(c.outcome) \/ c.outcome.unavailable)}
Asking(check) == {c \in CaseTypes : ~IsError(c.outcome) /\ check \in c.fixture.checks}

(* The plan is as the fixture expects it. *)
Fine(case) ==
  /\ ~IsError(case.outcome) /\ case.fixture.checks \subseteq case.outcome.met
  /\ case.fixture.ambiguous => Confirmed(case.outcome) /\ ~case.outcome.sure

ToldApart ==
  /\ count["invalid"] + count["runtime"] = Of(Errors)
  /\ count["invalid"] > 0 => mode = "model"

(* The case under evaluation has been counted as eligible before it is one. *)
Fallbacks ==
  /\ mode = "hybrid" => count["used"] = Of(OfModel)
  /\ count["eligible"] = count["used"] + Of(Unhelped) + (IF pc = "subject" /\ eligible THEN 1 ELSE 0)

(* A check that was not passed belongs to a case that was not passed.       *)
Accuracies ==
  \A check \in Checks :
    /\ count[TotalOf[check]] = Of(Asking(check))
    /\ count[PassedOf[check]] <= count[TotalOf[check]]
    /\ count[TotalOf[check]] + count["passed"] + Of(Errors) <= Len(cases) + count[PassedOf[check]]

Verdict ==
  /\ count["failed"] = 0 <=> \A i \in 1..Len(cases) : Fine(cases[i])
  /\ pc = "exit0" => count["failed"] = 0
  /\ pc = "exit1" => count["failed"] > 0

(* Between the two calls of the rules only the deadline may pass.           *)
AskedTwice ==
  pc = "subject" /\ mode = "hybrid" =>
    /\ Unsure(parsed) => eligible
    /\ eligible => Unsure(parsed) \/ expired

ReportInv == ScoreInv /\ ToldApart /\ Fallbacks /\ Accuracies /\ Verdict /\ AskedTwice

LEMMA HitsAppend ==
  ASSUME NEW kind, NEW report \in Seq(CaseTypes), NEW entry \in CaseTypes
  PROVE  /\ Cardinality(Hits(kind, report)) \in Nat
         /\ Cardinality(Hits(kind, Append(report, entry)))
              = Cardinality(Hits(kind, report)) + (IF entry \in kind THEN 1 ELSE 0)
<1> DEFINE n == Len(report)
           longer == Append(report, entry)
<1>1. n \in Nat /\ Len(longer) = n + 1 /\ longer[n + 1] = entry
  OBVIOUS
<1>2. \A i \in 1..n : longer[i] = report[i]
  OBVIOUS
<1>3. IsFiniteSet(Hits(kind, report))
  <2>1. IsFiniteSet(1..n)
    BY <1>1, FS_Interval
  <2>2. Hits(kind, report) \in SUBSET (1..n)
    BY DEF Hits
  <2>3. QED
    BY <2>1, <2>2, FS_Subset
<1>4. (n + 1) \notin Hits(kind, report)
  BY <1>1 DEF Hits
<1> HIDE DEF longer, n
<1>5. 1..(n + 1) = (1..n) \cup {n + 1}
  BY <1>1
<1>6. CASE entry \in kind
  <2>1. Hits(kind, longer) = Hits(kind, report) \cup {n + 1}
    BY <1>1, <1>2, <1>5, <1>6 DEF Hits, n
  <2>2. QED
    BY <1>3, <1>4, <1>6, <2>1, FS_AddElement, FS_CardinalityType DEF longer
<1>7. CASE entry \notin kind
  <2>1. Hits(kind, longer) = Hits(kind, report)
    BY <1>1, <1>2, <1>5, <1>7 DEF Hits, n
  <2>2. QED
    BY <1>3, <1>7, <2>1, FS_CardinalityType DEF longer
<1>8. QED
  BY <1>6, <1>7

LEMMA OfCounts ==
  ASSUME cases \in Seq(CaseTypes), NEW kind
  PROVE  Of(kind) \in Nat
<1>1. Hits(kind, cases) \in SUBSET (1..Len(cases)) /\ IsFiniteSet(1..Len(cases))
  BY FS_Interval DEF Hits
<1>2. QED
  BY <1>1, FS_Subset, FS_CardinalityType DEF Of

(* What the subject may return about one fixture: "invalid" comes of the    *)
(* model without the rules behind it, and in hybrid mode the plan is the    *)
(* model's exactly if the case was eligible and no plan says that the model *)
(* was not there.                                                           *)
Answered(entry) ==
  /\ entry.failures = IF IsError(entry.outcome) THEN {} ELSE Failures(entry.outcome, entry.fixture)
  /\ entry.outcome.by = "invalid" => mode = "model"
  /\ mode = "hybrid" =>
       (entry.outcome.by = "model" /\ ~entry.outcome.unavailable <=>
          entry.eligible /\ ~IsError(entry.outcome) /\ ~entry.outcome.unavailable)

LEMMA SubjectAnswers ==
  ASSUME TypeInv, AskedTwice, pc = "subject", NEW outcome \in Outcomes
  PROVE  /\ outcome.by = "invalid" => mode = "model"
         /\ mode = "hybrid" =>
              (outcome.by = "model" /\ ~outcome.unavailable
                 <=> eligible /\ ~IsError(outcome) /\ ~outcome.unavailable)
<1>1. parsed \in RulePlans \/ parsed = Error("error")
  BY DEF TypeInv
<1>2. mode \in {"rules", "model", "hybrid"}
  BY BoundsAssumption DEF TypeInv
<1>3. \A plan \in RulePlans : plan.by = "rules" /\ ~IsError(plan)
  BY DEF RulePlans, IsError
<1>4. \A plan \in ModelPlans : plan.by = "model" /\ ~IsError(plan)
  BY DEF ModelPlans, IsError
<1>5. Error("error").by = "error" /\ Error("invalid").by = "invalid"
  BY DEF Error
<1>6. IsError(Error("error")) /\ IsError(Error("invalid"))
  BY <1>5 DEF IsError
<1>7. CASE mode = "model"
  BY <1>7
<1>8. CASE mode # "model" /\ (mode = "rules" \/ IsError(Rules) \/ ~Unsure(Rules))
  <2>1. outcome = Rules
    BY <1>8 DEF Outcomes
  <2>2. Rules \in {parsed, Error("error")}
    BY DEF Rules
  <2>3. outcome.by \in {"rules", "error"}
    BY <1>1, <1>3, <1>5, <2>1, <2>2
  <2>4. mode = "hybrid" /\ ~IsError(outcome) => ~eligible
    <3>1. SUFFICES ASSUME mode = "hybrid", ~IsError(outcome) PROVE ~eligible
      OBVIOUS
    <3>2. Rules = parsed /\ ~expired
      BY <1>6, <2>1, <3>1 DEF Rules
    <3>3. ~Unsure(parsed)
      BY <1>8, <2>1, <3>1, <3>2
    <3>4. QED
      BY <3>1, <3>2, <3>3 DEF AskedTwice
  <2>5. QED
    BY <2>3, <2>4
<1>9. CASE mode # "model" /\ ~(mode = "rules" \/ IsError(Rules) \/ ~Unsure(Rules))
  <2>1. PICK answer \in Model : outcome = Hybrid(answer)
    BY <1>9 DEF Outcomes
  <2>2. Rules = parsed /\ ~expired
    BY <1>6, <1>9 DEF Rules
  <2>3. parsed \in RulePlans
    BY <1>1, <1>6, <1>9, <2>2
  <2>4. mode = "hybrid" /\ eligible
    BY <1>2, <1>9, <2>2 DEF AskedTwice
  <2>5. CASE IsError(answer)
    <3>1. outcome = [parsed EXCEPT !.unavailable = TRUE]
      BY <2>1, <2>2, <2>5 DEF Hybrid
    <3>2. outcome.by = "rules" /\ outcome.unavailable
      BY <2>3, <3>1 DEF RulePlans
    <3>3. QED
      BY <3>2
  <2>6. CASE ~IsError(answer)
    <3>1. outcome \in ModelPlans
      BY <1>6, <2>1, <2>6 DEF Hybrid, Model
    <3>2. QED
      BY <1>4, <2>4, <3>1
  <2>7. QED
    BY <2>5, <2>6
<1>10. QED
  BY <1>7, <1>8, <1>9

(* The counters a scored case raises, as the report is read. *)
LEMMA RaisedByCase ==
  ASSUME NEW entry \in CaseTypes, Answered(entry)
  PROVE  /\ ("invalid" \in Raised(entry) \/ "runtime" \in Raised(entry)) <=> IsError(entry.outcome)
         /\ ~("invalid" \in Raised(entry) /\ "runtime" \in Raised(entry))
         /\ "invalid" \in Raised(entry) => mode = "model"
         /\ "eligible" \notin Raised(entry)
         /\ "used" \in Raised(entry) <=> entry.eligible /\ ~IsError(entry.outcome) /\ ~entry.outcome.unavailable
         /\ "failed" \in Raised(entry) <=> ~Fine(entry)
         /\ "passed" \in Raised(entry) <=> Fine(entry)
         /\ \A check \in Checks :
              /\ TotalOf[check] \in Raised(entry) <=> entry \in Asking(check)
              /\ PassedOf[check] \in Raised(entry) => TotalOf[check] \in Raised(entry)
              /\ Fine(entry) /\ TotalOf[check] \in Raised(entry) => PassedOf[check] \in Raised(entry)
<1>1. /\ entry.fixture \in Fixtures /\ entry.fixture.checks \subseteq Checks
      /\ entry.outcome \in Results /\ entry.eligible \in BOOLEAN
  BY DEF CaseTypes, Fixtures
<1>2. /\ TotalOf["targets"] = "targetTotal" /\ TotalOf["action"] = "actionTotal"
      /\ PassedOf["targets"] = "targetPassed" /\ PassedOf["action"] = "actionPassed"
  BY DEF TotalOf, PassedOf
<1>3. ("passed" \in Raised(entry)) <=> ("failed" \notin Raised(entry))
  BY <1>1, OneVerdict
<1>4. CASE IsError(entry.outcome)
  BY <1>2, <1>3, <1>4 DEF Raised, Answered, Fine, Checks, Asking
<1>5. CASE ~IsError(entry.outcome)
  <2>1. entry.failures = Failures(entry.outcome, entry.fixture)
    BY <1>5 DEF Answered
  <2>2. entry.failures = {} <=> Fine(entry)
    <3>1. "ambiguity" \notin Checks
      BY DEF Checks
    <3>2. QED
      BY <1>5, <2>1 DEF Failures, Fine
  <2>3. \A check \in Checks : check \in entry.failures <=>
                                check \in entry.fixture.checks /\ check \notin entry.outcome.met
    BY <2>1 DEF Failures, Checks
  <2>4. Raised(entry) = {IF entry.failures = {} THEN "passed" ELSE "failed"}
           \cup (IF FallbackUsed(entry) THEN {"used"} ELSE {})
           \cup {TotalOf[check] : check \in entry.fixture.checks}
           \cup {PassedOf[check] : check \in entry.fixture.checks \ entry.failures}
    BY <1>5 DEF Raised
  <2>5. \A check \in entry.fixture.checks : check \in {"targets", "action"}
    BY <1>1 DEF Checks
  <2>6. \A c \in {"invalid", "runtime", "eligible"} : c \notin Raised(entry)
    BY <1>2, <2>4, <2>5
  <2>7. "used" \in Raised(entry) <=> FallbackUsed(entry)
    BY <1>2, <2>4, <2>5
  <2>8. "failed" \in Raised(entry) <=> entry.failures # {}
    BY <1>2, <2>4, <2>5
  <2>9. \A check \in Checks :
          /\ TotalOf[check] \in Raised(entry) <=> check \in entry.fixture.checks
          /\ PassedOf[check] \in Raised(entry) <=> check \in entry.fixture.checks \ entry.failures
    <3>1. \A check \in Checks : check = "targets" \/ check = "action"
      BY DEF Checks
    <3>2. \A check \in entry.fixture.checks \ entry.failures : check \in {"targets", "action"}
      BY <2>5
    <3>3. /\ "targetTotal" \in Raised(entry) <=> "targets" \in entry.fixture.checks
          /\ "actionTotal" \in Raised(entry) <=> "action" \in entry.fixture.checks
      BY <1>2, <2>4, <2>5
    <3>4. /\ "targetPassed" \in Raised(entry) <=> "targets" \in entry.fixture.checks \ entry.failures
          /\ "actionPassed" \in Raised(entry) <=> "action" \in entry.fixture.checks \ entry.failures
      BY <1>2, <2>4, <2>5, <3>2
    <3>5. QED
      BY <1>2, <3>1, <3>3, <3>4
  <2>10. \A check \in Checks : entry \in Asking(check) <=> check \in entry.fixture.checks
    BY <1>5 DEF Asking
  <2>11. QED
    BY <1>3, <1>5, <2>2, <2>3, <2>6, <2>7, <2>8, <2>9, <2>10 DEF FallbackUsed, Fine
<1>6. QED
  BY <1>4, <1>5

LEMMA Slack ==
  ASSUME NEW t \in Nat, NEW p \in Nat, NEW e \in Nat, NEW n \in Nat, NEW q \in Nat,
         NEW dt \in Nat, NEW dp \in Nat, NEW de \in Nat, NEW dq \in Nat,
         t + p + e <= n + q, dt + dp + de <= 1 + dq
  PROVE  (t + dt) + (p + dp) + (e + de) <= (n + 1) + (q + dq)
  OBVIOUS

LEMMA InitReported == Init => ReportInv
<1> SUFFICES ASSUME Init PROVE ReportInv
  OBVIOUS
<1>1. ScoreInv
  BY InitScored
<1>2. \A c \in Counters : count[c] = 0
  BY DEF Init
<1>3. cases = <<>> /\ Len(cases) = 0 /\ pc = "case"
  BY DEF Init
<1>4. \A kind : Of(kind) = 0
  BY <1>3, FS_EmptySet DEF Of, Hits
<1>5. \A check \in Checks : TotalOf[check] \in Counters /\ PassedOf[check] \in Counters
  BY DEF Checks, TotalOf, PassedOf, Counters
<1>6. /\ count["invalid"] = 0 /\ count["runtime"] = 0 /\ count["used"] = 0 /\ count["eligible"] = 0
      /\ count["passed"] = 0 /\ count["failed"] = 0
  BY <1>2 DEF Counters
<1>7. ToldApart /\ Fallbacks
  BY <1>3, <1>4, <1>6 DEF ToldApart, Fallbacks
<1>8. Accuracies
  BY <1>2, <1>3, <1>4, <1>5, <1>6 DEF Accuracies
<1>9. Verdict /\ AskedTwice
  BY <1>3, <1>6 DEF Verdict, AskedTwice
<1>10. QED
  BY <1>1, <1>7, <1>8, <1>9 DEF ReportInv

(* A new case adds to each kind what it is of, and to each counter what it  *)
(* raises.                                                                  *)
LEMMA EndCaseReported == ReportInv /\ EndCase => ToldApart' /\ Fallbacks' /\ Accuracies' /\ Verdict' /\ AskedTwice'
<1> SUFFICES ASSUME ReportInv, EndCase
             PROVE  ToldApart' /\ Fallbacks' /\ Accuracies' /\ Verdict' /\ AskedTwice'
  OBVIOUS
<1>1. TypeInv /\ AskedTwice /\ pc = "subject" /\ cases \in Seq(CaseTypes) /\ count \in [Counters -> Nat]
  BY DEF ReportInv, ScoreInv, TypeInv, EndCase
<1>2. PICK entry \in CaseTypes :
        /\ entry.fixture = fixture /\ entry.eligible = eligible /\ entry.outcome \in Outcomes
        /\ entry.failures = IF IsError(entry.outcome) THEN {} ELSE Failures(entry.outcome, fixture)
        /\ cases' = Append(cases, entry)
        /\ count' = [c \in Counters |-> IF c \in Raised(entry) THEN count[c] + 1 ELSE count[c]]
  BY <1>1, EndCaseAppends
<1>3. Answered(entry)
  BY <1>1, <1>2, SubjectAnswers DEF Answered
<1> DEFINE Plus(b) == IF b THEN 1 ELSE 0
<1>4. \A c \in Counters : count[c] \in Nat /\ count'[c] = count[c] + Plus(c \in Raised(entry))
  BY <1>1, <1>2
<1>5. \A kind : Of(kind) \in Nat /\ (Of(kind))' = Of(kind) + Plus(entry \in kind)
  <2>1. SUFFICES ASSUME NEW kind
                 PROVE  Of(kind) \in Nat /\ Cardinality(Hits(kind, cases')) = Of(kind) + Plus(entry \in kind)
    BY DEF Of, Hits
  <2>2. QED
    BY <1>1, <1>2, HitsAppend DEF Of
<1>6. /\ pc' = "case" /\ mode' = mode /\ Len(cases') = Len(cases) + 1 /\ Len(cases) \in Nat
      /\ \A i \in 1..Len(cases) : cases'[i] = cases[i]
      /\ cases'[Len(cases) + 1] = entry
  BY <1>1, <1>2 DEF EndCase
<1>7. /\ "invalid" \in Counters /\ "runtime" \in Counters /\ "used" \in Counters
      /\ "eligible" \in Counters /\ "passed" \in Counters /\ "failed" \in Counters
  BY DEF Counters
<1>8. \A check \in Checks : TotalOf[check] \in Counters /\ PassedOf[check] \in Counters
  BY DEF Checks, TotalOf, PassedOf, Counters
<1>9. ToldApart'
  <2>1. entry \in Errors <=> IsError(entry.outcome)
    BY DEF Errors
  <2>2. Plus("invalid" \in Raised(entry)) + Plus("runtime" \in Raised(entry)) = Plus(entry \in Errors)
    BY <1>2, <1>3, <2>1, RaisedByCase
  <2>3. count'["invalid"] + count'["runtime"] = (Of(Errors))'
    BY <1>4, <1>5, <1>7, <2>2 DEF ReportInv, ToldApart
  <2>4. count'["invalid"] > 0 => mode' = "model"
    BY <1>2, <1>3, <1>4, <1>6, <1>7, RaisedByCase DEF ReportInv, ToldApart
  <2>5. QED
    BY <2>3, <2>4 DEF ToldApart
<1>10. Fallbacks'
  <2>1. mode = "hybrid" => ("used" \in Raised(entry) <=> entry \in OfModel)
    BY <1>2, <1>3, RaisedByCase DEF OfModel, Answered
  <2>2. Plus("eligible" \in Raised(entry)) = 0
    BY <1>2, <1>3, RaisedByCase
  <2>3. Plus(eligible) = Plus("used" \in Raised(entry)) + Plus(entry \in Unhelped)
    BY <1>2, <1>3, RaisedByCase DEF Unhelped, CaseTypes
  <2>4. count'["eligible"] = count["used"] + Of(Unhelped) + Plus(eligible)
    BY <1>1, <1>4, <1>7, <2>2 DEF ReportInv, Fallbacks
  <2>5. count'["eligible"] = count'["used"] + (Of(Unhelped))' + 0
    BY <1>4, <1>5, <1>7, <2>3, <2>4
  <2>6. mode' = "hybrid" => count'["used"] = (Of(OfModel))'
    BY <1>4, <1>5, <1>6, <1>7, <2>1 DEF ReportInv, Fallbacks
  <2>7. QED
    BY <1>6, <2>5, <2>6 DEF Fallbacks
<1>11. Accuracies'
  <2>1. SUFFICES ASSUME NEW check \in Checks
                 PROVE  /\ count'[TotalOf[check]] = (Of(Asking(check)))'
                        /\ count'[PassedOf[check]] <= count'[TotalOf[check]]
                        /\ count'[TotalOf[check]] + count'["passed"] + (Of(Errors))'
                             <= Len(cases') + count'[PassedOf[check]]
    BY DEF Accuracies
  <2>2. /\ count[TotalOf[check]] = Of(Asking(check))
        /\ count[PassedOf[check]] <= count[TotalOf[check]]
        /\ count[TotalOf[check]] + count["passed"] + Of(Errors) <= Len(cases) + count[PassedOf[check]]
    BY DEF ReportInv, Accuracies
  <2>3. count'[TotalOf[check]] = (Of(Asking(check)))'
    <3>1. (Of(Asking(check)))' = Of(Asking(check)) + Plus(entry \in Asking(check))
      BY <1>5
    <3>2. count'[TotalOf[check]] = count[TotalOf[check]] + Plus(TotalOf[check] \in Raised(entry))
      BY <1>4, <1>8
    <3>3. QED
      BY <1>2, <1>3, <2>2, <3>1, <3>2, RaisedByCase
  <2>4. PassedOf[check] \in Raised(entry) => TotalOf[check] \in Raised(entry)
    BY <1>2, <1>3, RaisedByCase
  <2>5. Plus(TotalOf[check] \in Raised(entry)) + Plus("passed" \in Raised(entry)) + Plus(entry \in Errors)
          <= 1 + Plus(PassedOf[check] \in Raised(entry))
    <3>1. entry \in Errors <=> IsError(entry.outcome)
      BY DEF Errors
    <3>2. TotalOf[check] \in Raised(entry) => ~IsError(entry.outcome)
      BY <1>2, <1>3, RaisedByCase DEF Asking
    <3>3. "passed" \in Raised(entry) => Fine(entry) /\ ~IsError(entry.outcome)
      BY <1>2, <1>3, RaisedByCase DEF Fine
    <3>4. Fine(entry) /\ TotalOf[check] \in Raised(entry) => PassedOf[check] \in Raised(entry)
      BY <1>2, <1>3, RaisedByCase
    <3>5. QED
      BY <3>1, <3>2, <3>3, <3>4
  <2>6. /\ count[TotalOf[check]] \in Nat /\ count[PassedOf[check]] \in Nat
        /\ count["passed"] \in Nat /\ Of(Errors) \in Nat
    BY <1>4, <1>5, <1>7, <1>8
  <2>7. /\ count'[TotalOf[check]] = count[TotalOf[check]] + Plus(TotalOf[check] \in Raised(entry))
        /\ count'[PassedOf[check]] = count[PassedOf[check]] + Plus(PassedOf[check] \in Raised(entry))
        /\ count'["passed"] = count["passed"] + Plus("passed" \in Raised(entry))
    BY <1>4, <1>7, <1>8
  <2>8. (Of(Errors))' = Of(Errors) + Plus(entry \in Errors)
    BY <1>5
  <2>9. count'[PassedOf[check]] <= count'[TotalOf[check]]
    BY <2>2, <2>4, <2>6, <2>7
  <2>10. count'[TotalOf[check]] + count'["passed"] + (Of(Errors))' <= Len(cases') + count'[PassedOf[check]]
    <3>1. \A b : Plus(b) \in Nat
      OBVIOUS
    <3> HIDE DEF Plus
    <3>2. (count[TotalOf[check]] + Plus(TotalOf[check] \in Raised(entry)))
            + (count["passed"] + Plus("passed" \in Raised(entry))) + (Of(Errors) + Plus(entry \in Errors))
              <= (Len(cases) + 1) + (count[PassedOf[check]] + Plus(PassedOf[check] \in Raised(entry)))
      BY ONLY <1>6, <2>2, <2>5, <2>6, <3>1, Slack
    <3>3. QED
      BY ONLY <1>6, <2>7, <2>8, <3>2
  <2>11. QED
    BY <2>3, <2>9, <2>10
<1>12. Verdict'
  <2>1. "failed" \in Raised(entry) <=> ~Fine(entry)
    BY <1>2, <1>3, RaisedByCase
  <2>2. count'["failed"] = 0 <=> count["failed"] = 0 /\ Fine(entry)
    BY <1>4, <1>7, <2>1
  <2>3. (\A i \in 1..Len(cases') : Fine(cases'[i])) <=> (\A i \in 1..Len(cases) : Fine(cases[i])) /\ Fine(entry)
    BY <1>6
  <2>4. (count["failed"] = 0) <=> (\A i \in 1..Len(cases) : Fine(cases[i]))
    BY DEF ReportInv, Verdict
  <2>5. QED
    BY <1>6, <2>2, <2>3, <2>4 DEF Verdict, Fine
<1>13. AskedTwice'
  BY <1>6 DEF AskedTwice
<1>14. QED
  BY <1>9, <1>10, <1>11, <1>12, <1>13

LEMMA NextReported == ReportInv /\ [Next]_vars => ReportInv'
<1> SUFFICES ASSUME ReportInv, [Next]_vars PROVE ReportInv'
  OBVIOUS
<1>1. ScoreInv'
  BY NextScored DEF ReportInv
<1>2. CASE EndCase
  BY <1>1, <1>2, EndCaseReported DEF ReportInv
<1>3. CASE StartCase
  <2>1. /\ pc = "case" /\ pc' = "subject" /\ mode' = mode /\ cases' = cases /\ expired' = expired
        /\ eligible' = (mode = "hybrid" /\ (expired \/ Unsure(parsed')))
    BY <1>3 DEF StartCase
  <2>2. count \in [Counters -> Nat]
    BY DEF ReportInv, ScoreInv, TypeInv
  <2>3. count' = IF eligible' THEN [count EXCEPT !["eligible"] = @ + 1] ELSE count
    BY <1>3 DEF StartCase
  <2>4. \A kind : (Of(kind))' = Of(kind)
    BY <2>1 DEF Of, Hits
  <2>5. \A c \in Counters : c # "eligible" => count'[c] = count[c]
    BY <2>2, <2>3
  <2>6. count'["eligible"] = count["eligible"] + (IF eligible' THEN 1 ELSE 0) /\ count["eligible"] \in Nat
    BY <2>2, <2>3 DEF Counters
  <2>7. /\ count'["invalid"] = count["invalid"] /\ count'["runtime"] = count["runtime"]
        /\ count'["used"] = count["used"] /\ count'["passed"] = count["passed"]
        /\ count'["failed"] = count["failed"]
    BY <2>5 DEF Counters
  <2>8. \A check \in Checks : /\ count'[TotalOf[check]] = count[TotalOf[check]]
                              /\ count'[PassedOf[check]] = count[PassedOf[check]]
    BY <2>5 DEF Checks, TotalOf, PassedOf, Counters
  <2>9. ToldApart'
    BY <2>1, <2>4, <2>7 DEF ReportInv, ToldApart
  <2>10. Fallbacks'
    <3>1. count["eligible"] = count["used"] + Of(Unhelped)
      <4>1. cases \in Seq(CaseTypes) /\ count["used"] \in Nat
        BY <2>2 DEF ReportInv, ScoreInv, TypeInv, Counters
      <4>2. Of(Unhelped) \in Nat
        BY <4>1, OfCounts
      <4>3. QED
        BY <2>1, <4>1, <4>2 DEF ReportInv, Fallbacks
    <3>2. count'["eligible"] = count'["used"] + (Of(Unhelped))' + (IF eligible' THEN 1 ELSE 0)
      BY <2>4, <2>6, <2>7, <3>1
    <3>3. QED
      BY <2>1, <2>4, <2>7, <3>2 DEF ReportInv, Fallbacks
  <2>11. Accuracies'
    <3>1. \A check \in Checks :
            /\ count[TotalOf[check]] = Of(Asking(check))
            /\ count[PassedOf[check]] <= count[TotalOf[check]]
            /\ count[TotalOf[check]] + count["passed"] + Of(Errors) <= Len(cases) + count[PassedOf[check]]
      BY DEF ReportInv, Accuracies
    <3>2. SUFFICES ASSUME NEW check \in Checks
                   PROVE  /\ count'[TotalOf[check]] = (Of(Asking(check)))'
                          /\ count'[PassedOf[check]] <= count'[TotalOf[check]]
                          /\ count'[TotalOf[check]] + count'["passed"] + (Of(Errors))'
                               <= Len(cases') + count'[PassedOf[check]]
      BY DEF Accuracies
    <3>3. (Of(Asking(check)))' = Of(Asking(check)) /\ (Of(Errors))' = Of(Errors)
      BY <2>4
    <3>4. QED
      BY <2>1, <2>7, <2>8, <3>1, <3>3
  <2>12. Verdict'
    BY <2>1, <2>7 DEF ReportInv, Verdict, Fine
  <2>13. AskedTwice'
    BY <2>1 DEF AskedTwice, Unsure
  <2>14. QED
    BY <1>1, <2>9, <2>10, <2>11, <2>12, <2>13 DEF ReportInv
<1>4. CASE Expire \/ Report \/ Finished \/ UNCHANGED vars
  <2>1. /\ mode' = mode /\ total' = total /\ count' = count /\ cases' = cases
        /\ eligible' = eligible /\ parsed' = parsed /\ (expired => expired')
    <3>2. CASE Expire
      BY <3>2 DEF Expire
    <3>3. CASE Report \/ Finished \/ UNCHANGED vars
      <4>1. /\ mode' = mode /\ total' = total /\ count' = count /\ cases' = cases
            /\ eligible' = eligible /\ parsed' = parsed /\ expired' = expired
        BY <3>3 DEF Report, Finished, vars
      <4>2. QED
        BY <4>1, Zenon
    <3>4. QED
      BY <1>4, <3>2, <3>3
  <2>2. \A kind : (Of(kind))' = Of(kind)
    BY <2>1 DEF Of, Hits
  <2>3. pc' = pc \/ (pc = "case" /\ pc' = (IF count["failed"] > 0 THEN "exit1" ELSE "exit0"))
    BY <1>4 DEF Expire, Report, Finished, vars
  <2>4. count["failed"] \in Nat
    BY DEF ReportInv, ScoreInv, TypeInv, Counters
  <2>5. ToldApart' /\ Fallbacks'
    BY <2>1, <2>2, <2>3 DEF ReportInv, ToldApart, Fallbacks
  <2>6. Accuracies'
    <3>1. \A check \in Checks : (Of(Asking(check)))' = Of(Asking(check)) /\ (Of(Errors))' = Of(Errors)
      BY <2>2
    <3>2. QED
      BY <2>1, <3>1 DEF ReportInv, Accuracies
  <2>7. Verdict'
    <3>1. (count'["failed"] = 0) <=> (\A i \in 1..Len(cases') : Fine(cases'[i]))
      BY <2>1 DEF ReportInv, Verdict
    <3>2. (pc' = "exit0" => count'["failed"] = 0) /\ (pc' = "exit1" => count'["failed"] > 0)
      <4>1. (pc = "exit0" => count["failed"] = 0) /\ (pc = "exit1" => count["failed"] > 0)
        BY DEF ReportInv, Verdict
      <4>2. CASE pc' = pc
        BY <2>1, <4>1, <4>2
      <4>3. CASE pc' = IF count["failed"] > 0 THEN "exit1" ELSE "exit0"
        <5>1. count'["failed"] = count["failed"]
          BY <2>1
        <5>2. QED
          BY ONLY <2>4, <4>3, <5>1
      <4>4. QED
        BY <2>3, <4>2, <4>3
    <3>3. QED
      BY <3>1, <3>2 DEF Verdict, Fine
  <2>8. AskedTwice'
    BY <2>1, <2>3 DEF ReportInv, AskedTwice, Unsure
  <2>9. QED
    BY <1>1, <2>5, <2>6, <2>7, <2>8 DEF ReportInv
<1>5. QED
  BY <1>2, <1>3, <1>4 DEF Next

(* The report of Run adds up, for every number of fixtures, in each mode,   *)
(* and with a deadline that passes anywhere: errors are told apart, a used  *)
(* fallback is a plan of the model, each eligible case is one of those or   *)
(* one the model did not help, the accuracies are over the returned plans,  *)
(* and exit code 0 of main says that every plan was as expected.            *)
THEOREM ReportIsRight == Spec => []ReportAddsUp
<1>1. ReportInv => ReportAddsUp
  <2>1. SUFFICES ASSUME ReportInv, Exited PROVE ReportAddsUp
    BY DEF ReportAddsUp
  <2>2. /\ cases \in Seq(CaseTypes) /\ Len(cases) = total /\ total \in Nat
        /\ count \in [Counters -> Nat] /\ EveryFixtureCounted
    BY <2>1 DEF ReportInv, ScoreInv, TypeInv, Scored, EveryFixtureCounted
  <2>3. \A i \in 1..Len(cases) : cases[i] \in CaseTypes
    BY <2>2
  <2>4. Number(LAMBDA c : IsError(c.outcome)) = Of(Errors)
    BY <2>3 DEF Number, Of, Hits, Errors
  <2>5. Number(LAMBDA c : c.outcome.by = "model" /\ ~c.outcome.unavailable) = Of(OfModel)
    BY <2>3 DEF Number, Of, Hits, OfModel
  <2>6. Number(LAMBDA c : c.eligible /\ (IsError(c.outcome) \/ c.outcome.unavailable)) = Of(Unhelped)
    BY <2>3 DEF Number, Of, Hits, Unhelped
  <2>7. \A check \in Checks :
          Number(LAMBDA c : ~IsError(c.outcome) /\ check \in c.fixture.checks) = Of(Asking(check))
    BY <2>3 DEF Number, Of, Hits, Asking
  <2>8. /\ count["invalid"] + count["runtime"] = Of(Errors)
        /\ count["invalid"] > 0 => mode = "model"
    BY <2>1 DEF ReportInv, ToldApart
  <2>9. /\ mode = "hybrid" => count["used"] = Of(OfModel)
        /\ count["eligible"] = count["used"] + Of(Unhelped)
    <3>1. count["used"] \in Nat /\ Of(Unhelped) \in Nat /\ pc # "subject"
      BY <2>1, <2>2, OfCounts DEF Counters, Exited
    <3>2. QED
      BY <2>1, <3>1 DEF ReportInv, Fallbacks
  <2>10. \A check \in Checks :
           /\ count[TotalOf[check]] = Of(Asking(check))
           /\ count[PassedOf[check]] <= count[TotalOf[check]]
           /\ count["passed"] + Of(Errors) = total => count[PassedOf[check]] = count[TotalOf[check]]
    <3>1. SUFFICES ASSUME NEW check \in Checks
                   PROVE  /\ count[TotalOf[check]] = Of(Asking(check))
                          /\ count[PassedOf[check]] <= count[TotalOf[check]]
                          /\ count["passed"] + Of(Errors) = total
                               => count[PassedOf[check]] = count[TotalOf[check]]
      OBVIOUS
    <3>2. TotalOf[check] \in Counters /\ PassedOf[check] \in Counters /\ "passed" \in Counters
      BY DEF Checks, TotalOf, PassedOf, Counters
    <3>3. /\ count[TotalOf[check]] \in Nat /\ count[PassedOf[check]] \in Nat
          /\ count["passed"] \in Nat /\ Of(Errors) \in Nat
      BY <2>2, <3>2, OfCounts
    <3>4. /\ count[TotalOf[check]] = Of(Asking(check))
          /\ count[PassedOf[check]] <= count[TotalOf[check]]
          /\ count[TotalOf[check]] + count["passed"] + Of(Errors) <= total + count[PassedOf[check]]
      BY <2>1, <2>2 DEF ReportInv, Accuracies
    <3>5. QED
      BY <2>2, <3>3, <3>4
  <2>11. pc = "exit0" <=> \A i \in 1..total : Fine(cases[i])
    <3>1. /\ (count["failed"] = 0) <=> (\A i \in 1..total : Fine(cases[i]))
          /\ pc = "exit0" => count["failed"] = 0
          /\ pc = "exit1" => count["failed"] > 0
      BY <2>1, <2>2 DEF ReportInv, Verdict
    <3>2. count["failed"] \in Nat /\ pc \in {"exit0", "exit1"}
      BY <2>1, <2>2 DEF Counters, Exited
    <3>3. (pc = "exit0") <=> (count["failed"] = 0)
      BY <3>1, <3>2
    <3>4. QED
      BY <3>1, <3>3
  <2>12. QED
    BY <2>2, <2>4, <2>5, <2>6, <2>7, <2>8, <2>9, <2>10, <2>11 DEF ReportAddsUp, Fine
<1>2. QED
  BY <1>1, InitReported, NextReported, PTL DEF Spec
=============================================================================
