------------------------------ MODULE Evaluation ------------------------------
(***************************************************************************)
(* The report of an evaluation (internal/evaluation/evaluation.go and      *)
(* cmd/lifx-command-engine-eval/main.go): Evaluator.Run scores the plan of *)
(* an interpreter for one fixture after the other, under one deadline for  *)
(* all, while a runtime answers, proposes what is invalid, or fails.       *)
(*                                                                         *)
(* Of a plan, met says which of the checks it would pass (the targets, and *)
(* the action as an example of the others), by which interpreter it is.    *)
(***************************************************************************)
EXTENDS Integers, Sequences, FiniteSets

CONSTANTS Modes, MaxCases   (* bound: the fixtures of an evaluation *)

ASSUME BoundsAssumption == Modes \subseteq {"rules", "model", "hybrid"} /\ MaxCases \in Nat \ {0}

Checks   == {"targets", "action"}
Fixtures == [checks : SUBSET Checks, ambiguous : BOOLEAN]

(* The rules ask for confirmation below their highest level, the validation *)
(* of a model's plan always (Cautious of Interpreter).  The hybrid gives the *)
(* reason "model fallback unavailable", and a model might give the same.    *)
(* sure: the confidence reaches the threshold, of the evaluator and of the  *)
(* hybrid, which are two fields of one default that no command changes.     *)
RulePlans  == [by : {"rules"}, met : SUBSET Checks, sure : BOOLEAN, unavailable : {FALSE}]
ModelPlans == [by : {"model"}, met : SUBSET Checks, sure : BOOLEAN, unavailable : BOOLEAN]
Error(kind) == [by |-> kind]
IsError(outcome) == outcome.by \in {"none", "error", "invalid"}
Confirmed(plan) == plan.by = "model" \/ ~plan.sure

TotalOf  == [targets |-> "targetTotal", action |-> "actionTotal"]
PassedOf == [targets |-> "targetPassed", action |-> "actionPassed"]
Counters == {"passed", "failed", "invalid", "runtime", "eligible", "used",
             "targetTotal", "actionTotal", "targetPassed", "actionPassed"}

VARIABLES mode,     (* the -mode flag                                       *)
          total,    (* the fixtures that Load returned                      *)
          pc,       (* case, subject, or the exit code                      *)
          expired,  (* whether the deadline of the evaluation has passed    *)
          fixture,  (* the fixture under evaluation                         *)
          eligible, (* its FallbackEligible                                 *)
          parsed,   (* what the rules make of it: a plan, or their error    *)
          count,    (* the counters of the report and those of its ratios   *)
          cases     (* report.Cases, with their fixtures and outcomes       *)

vars == <<mode, total, pc, expired, fixture, eligible, parsed, count, cases>>

NoFixture == [checks |-> {}, ambiguous |-> FALSE]

Init ==
  /\ mode \in Modes /\ total \in 1..MaxCases
  /\ pc = "case" /\ expired = FALSE /\ eligible = FALSE
  /\ fixture = NoFixture /\ parsed = Error("none")
  /\ count = [c \in Counters |-> 0] /\ cases = <<>>

(* -timeout has passed: from now on the rules and the model return errors.  *)
Expire ==
  /\ ~expired /\ pc \in {"case", "subject"}
  /\ expired' = TRUE
  /\ UNCHANGED <<mode, total, pc, fixture, eligible, parsed, count, cases>>

(* The loop's body up to the subject.  In hybrid mode the rules are asked   *)
(* beforehand, and the plan that comes with their error has confidence 0.   *)
Unsure(outcome) == IsError(outcome) \/ ~outcome.sure

StartCase ==
  /\ pc = "case" /\ Len(cases) < total
  /\ pc' = "subject"
  /\ fixture' \in Fixtures
  /\ parsed' \in RulePlans \cup {Error("error")}
  /\ eligible' = (mode = "hybrid" /\ (expired \/ Unsure(parsed')))
  /\ count' = IF eligible' THEN [count EXCEPT !["eligible"] = @ + 1] ELSE count
  /\ UNCHANGED <<mode, total, expired, cases>>

(* What the rules, the model and the hybrid interpreter may return.         *)
Rules == IF expired THEN Error("error") ELSE parsed
Model == IF expired THEN {Error("error")} ELSE ModelPlans \cup {Error("invalid"), Error("error")}

Hybrid(answer) == IF IsError(answer) THEN [Rules EXCEPT !.unavailable = TRUE] ELSE answer

Outcomes ==
  IF mode = "model" THEN Model
  ELSE IF mode = "rules" \/ IsError(Rules) \/ ~Unsure(Rules) THEN {Rules}
  ELSE {Hybrid(answer) : answer \in Model}

Failures(plan, expected) ==
  (expected.checks \ plan.met)
    \cup (IF expected.ambiguous /\ ~(Confirmed(plan) /\ ~plan.sure) THEN {"ambiguity"} ELSE {})

(* The counters that a case raises. *)
FallbackUsed_WhenEligible(case) == case.eligible
FallbackUsed(case) == case.eligible /\ ~case.outcome.unavailable

Raised(case) ==
  IF IsError(case.outcome)
    THEN {"failed", IF case.outcome.by = "invalid" THEN "invalid" ELSE "runtime"}
    ELSE {IF case.failures = {} THEN "passed" ELSE "failed"}
           \cup (IF FallbackUsed(case) THEN {"used"} ELSE {})
           \cup {TotalOf[check] : check \in case.fixture.checks}
           \cup {PassedOf[check] : check \in case.fixture.checks \ case.failures}

(* The subject's answer, its score, and the case in the report. *)
EndCase ==
  /\ pc = "subject"
  /\ pc' = "case"
  /\ \E outcome \in Outcomes :
       LET case == [fixture |-> fixture, eligible |-> eligible, outcome |-> outcome,
                    failures |-> IF IsError(outcome) THEN {} ELSE Failures(outcome, fixture)]
       IN  /\ cases' = Append(cases, case)
           /\ count' = [c \in Counters |-> IF c \in Raised(case) THEN count[c] + 1 ELSE count[c]]
  /\ fixture' = NoFixture /\ parsed' = Error("none") /\ eligible' = FALSE
  /\ UNCHANGED <<mode, total, expired>>

Report ==
  /\ pc = "case" /\ Len(cases) = total
  /\ pc' = IF count["failed"] > 0 THEN "exit1" ELSE "exit0"
  /\ UNCHANGED <<mode, total, expired, fixture, eligible, parsed, count, cases>>

Exited == pc \in {"exit0", "exit1"}
Finished == Exited /\ UNCHANGED vars

Next == StartCase \/ EndCase \/ Expire \/ Report \/ Finished
Spec == Init /\ [][Next]_vars

(* The index of the 95th percentile of n sorted latencies.  The product and *)
(* the math.Ceil of float64 agree with it for every n up to 200000.         *)
Larger(i, j) == IF i > j THEN i ELSE j
P95Index(n) == Larger(0, ((95 * n + 99) \div 100) - 1)
-----------------------------------------------------------------------------

Number(Test(_)) == Cardinality({i \in 1..Len(cases) : Test(cases[i])})

(* The report adds up, also when the deadline passes between the two calls  *)
(* of the rules or in the middle of the run: every fixture is counted       *)
(* passed or failed; the errors are told apart, and the rules make up for   *)
(* the invalid plans of a hybrid; the model counts as used for exactly the  *)
(* plans that are its own and do not say otherwise, and each eligible case  *)
(* is one of those, one where it was unavailable, or an error.  The         *)
(* accuracies are over the plans that were returned, and exit code 0 says   *)
(* that all was as expected.                                                *)
EveryFixtureCounted == Exited => count["passed"] + count["failed"] = total

ReportAddsUp ==
  Exited =>
    /\ EveryFixtureCounted
    /\ count["invalid"] + count["runtime"] = Number(LAMBDA c : IsError(c.outcome))
    /\ count["invalid"] > 0 => mode = "model"
    /\ mode = "hybrid" =>
         count["used"] = Number(LAMBDA c : c.outcome.by = "model" /\ ~c.outcome.unavailable)
    /\ count["eligible"] =
         count["used"] + Number(LAMBDA c : c.eligible /\ (IsError(c.outcome) \/ c.outcome.unavailable))
    /\ \A check \in Checks :
         /\ count[TotalOf[check]] = Number(LAMBDA c : ~IsError(c.outcome) /\ check \in c.fixture.checks)
         /\ count[PassedOf[check]] <= count[TotalOf[check]]
         /\ count["passed"] + Number(LAMBDA c : IsError(c.outcome)) = total =>
              count[PassedOf[check]] = count[TotalOf[check]]
    /\ pc = "exit0" <=> \A i \in 1..total :
         /\ ~IsError(cases[i].outcome) /\ cases[i].fixture.checks \subseteq cases[i].outcome.met
         /\ cases[i].fixture.ambiguous => Confirmed(cases[i].outcome) /\ ~cases[i].outcome.sure

(* What the code does not guarantee: that every plan of the model counts as *)
(* one (evaluation.go:138 goes by the reason, which a runtime may give too). *)
UsedIsOfModel ==
  Exited /\ mode = "hybrid" => count["used"] = Number(LAMBDA c : c.outcome.by = "model")

(* What the code does not guarantee: that the eligible cases are the ones   *)
(* in which the model is asked.  A request the rules refuse is eligible,    *)
(* and the hybrid interpreter returns the error of the rules.               *)
EligibleIsAsked ==
  Exited /\ ~expired => \A i \in 1..Len(cases) : cases[i].eligible => ~IsError(cases[i].outcome)
=============================================================================
