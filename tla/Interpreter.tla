----------------------------- MODULE Interpreter ------------------------------
(***************************************************************************)
(* How a request becomes a plan: the rules with their score                *)
(* (internal/interpreter/rule.go, internal/confidence, the adapter to      *)
(* lifxlan-go's parser), the choice of the hybrid interpreter, a model     *)
(* that is the FunctionGemma runner, another program, or out of order, and *)
(* the validation of what it proposes (internal/interpreter/model.go).     *)
(*                                                                         *)
(* The parser is outside the repository: what it makes of a text is any of *)
(* Parses.  So are other runtimes, whose plan is any of RawPlans, and the  *)
(* model, whose calls are any of CallSeqs.                                 *)
(***************************************************************************)
EXTENDS Runner

CONSTANTS Inputs,    (* requests: a text and a snapshot of devices          *)
          Parses,    (* sequences of parsed commands                        *)
          CallSeqs,  (* sequences of calls                                  *)
          RawPlans   (* plans of other runtimes                             *)

VARIABLES input,     (* the request                                         *)
          hybrid,    (* whether a model is configured                       *)
          pc,        (* rules, model, done, or failed                       *)
          rules,     (* the plan of the rules                               *)
          calls,     (* the calls of the model, if it is the runner's       *)
          raw,       (* the plan that was decoded from the runtime's answer *)
          answer,    (* what came of the model: none, failed, invalid, or   *)
                     (* the plan of the runner or of another runtime        *)
          plan       (* the result                                          *)

vars == <<input, hybrid, pc, rules, calls, raw, answer, plan>>

NoPlan == Plan(0, "none", {}, FALSE, <<>>)

Init ==
  /\ input \in Inputs /\ hybrid \in BOOLEAN
  /\ pc = "rules" /\ answer = "none"
  /\ rules = NoPlan /\ raw = NoPlan /\ plan = NoPlan /\ calls = <<>>

(* The numbers that a plan may not have: decoding knows durations of        *)
(* thirty-two bits without a sign, and validation the other ranges.         *)
Refused == {"out", "huge"}

(* ------------------------------ the rules ------------------------------- *)

Lower(serial) == [serial EXCEPT !.upper = FALSE]

(* A host lists each of its devices once (of two entries with one serial,   *)
(* the maps of the code keep the last).  The commands of the parser have    *)
(* targets and an action, with values in range; the adapter adds no check   *)
(* of its own.  What other runtimes and a model may say has the form of     *)
(* plans and of calls: decoding refuses everything else.  What occurs in a  *)
(* text as a word occurs in it.                                             *)
Sequence(s) == s \in Seq(ToSet(s))

ASSUME InputsAssumption ==
  \A i \in Inputs :
    /\ Sequence(i.snapshot)
    /\ i.text.names \subseteq i.text.parts
    /\ \A d \in ToSet(i.snapshot) : d.label \in DOMAIN Length
    /\ \A j, k \in DOMAIN i.snapshot :
         Lower(i.snapshot[j].serial) = Lower(i.snapshot[k].serial) => j = k

ASSUME ParsesAssumption ==
  \A p \in Parses :
    /\ Sequence(p)
    /\ \A c \in ToSet(p) : /\ c.targets # {} /\ DOMAIN c.action # {}
                           /\ \A f \in DOMAIN c.action : c.action[f] \notin Refused

ASSUME CallsAssumption == \A s \in CallSeqs : Sequence(s)

ASSUME PlansAssumption ==
  \A p \in RawPlans :
    /\ p = [sound |-> p.sound, confidence |-> p.confidence, level |-> p.level,
            reasons |-> p.reasons, confirm |-> p.confirm, commands |-> p.commands]
    /\ Sequence(p.commands)
    /\ \A c \in ToSet(p.commands) : c = [targets |-> c.targets, action |-> c.action]

Knows_AsWritten(serial) == \E d \in ToSet(input.snapshot) : Lower(d.serial) = serial
Knows(serial) == \E d \in ToSet(input.snapshot) : Lower(d.serial) = Lower(serial)
Device(serial) == CHOOSE d \in ToSet(input.snapshot) : Lower(d.serial) = Lower(serial)
Trusted(serial) == [serial |-> Lower(serial), label |-> Device(serial).label]

(* Words that change a value relative to the one a device has. *)
Relative == [dim |-> "brightness", soft |-> "saturation", warm |-> "kelvin"]
Required == {Relative[w] : w \in input.text.words \cap DOMAIN Relative}

Unsound == \E d \in ToSet(input.snapshot) : ~d.sound
Missing(parsed) ==
  \E c \in ToSet(parsed) : \E serial \in c.targets : ~(Required \subseteq Device(serial).known)

Blank == input.text.parts \cup input.text.words = {}

(* normalizeWords has made labels that differ in case or punctuation equal. *)
Ambiguous == \E label \in input.text.names : Shared(input.snapshot, label)

(* The deductions, the one for "random" rounded up: the float64 value of    *)
(* .95 - .25 - .2 lies below .5.                                            *)
Reasons ==
  (IF Ambiguous THEN {"ambiguous"} ELSE {}) \cup (input.text.words \cap {"cozy", "random"})

Deduction(reason, by) == IF reason \in Reasons THEN by ELSE 0
Confidence ==
  95000 - Deduction("ambiguous", 25000) - Deduction("cozy", 35000) - Deduction("random", 20001)

Level(score) == IF score < 50000 THEN "low" ELSE IF score < 80000 THEN "medium" ELSE "high"

RulesPlan(parsed) ==
  LET score == IF parsed = <<>> THEN 10000 ELSE Confidence
  IN  Plan(score, Level(score),
           IF parsed = <<>> THEN {"nothing"} ELSE IF Reasons = {} THEN {"exact"} ELSE Reasons,
           score < 90000,
           [i \in DOMAIN parsed |-> [targets |-> {Trusted(s) : s \in parsed[i].targets},
                                     action |-> parsed[i].action]])

Threshold == 80000

Offered_LowOnly(score) == score < 50000 /\ hybrid
Offered(score) == score < Threshold /\ hybrid

Interpret ==
  /\ pc = "rules"
  /\ \E parsed \in {p \in Parses : \A c \in ToSet(p) : \A serial \in c.targets : Knows(serial)} :
       IF Blank \/ Unsound \/ Missing(parsed) THEN pc' = "failed" /\ UNCHANGED <<rules, plan>>
       ELSE /\ rules' = RulesPlan(parsed) /\ plan' = rules'
            /\ pc' = IF Offered(rules'.confidence) THEN "model" ELSE "done"
  /\ UNCHANGED <<input, hybrid, calls, raw, answer>>

(* ------------------------------ the model ------------------------------- *)

(* Decoding and validateModelPlan, as far as they refuse a plan. *)
Valid(proposed) ==
  /\ proposed.sound
  /\ proposed.confidence <= 100000
  /\ proposed.level \in {"low", "medium", "high"}
  /\ proposed.commands = <<>> => proposed.confidence < 50000
  /\ \A c \in ToSet(proposed.commands) :
       /\ c.targets # {} /\ DOMAIN c.action # {}
       /\ \A f \in DOMAIN c.action : c.action[f] \notin Refused
       /\ \A t \in c.targets : Knows(t.serial)

(* inferModelPower splits a command by the power of its targets in the      *)
(* snapshot, where unknown is off.                                          *)
SwitchedOff(targets) == {t \in targets : Device(t.serial).power # "on"}

Split(c) ==
  LET off   == SwitchedOff(c.targets)
      woken == [targets |-> off, action |-> After(c.action, [power |-> "on"])]
  IN  IF "power" \in DOMAIN c.action \/ DOMAIN c.action \cap Visual = {} \/ off = {} THEN <<c>>
      ELSE IF off = c.targets THEN <<woken>>
      ELSE <<woken, [targets |-> c.targets \ off, action |-> c.action]>>

Canonical_OwnLabels(c) == c
Canonical(c) == [targets |-> {Trusted(t.serial) : t \in c.targets}, action |-> c.action]

Accepted(proposed) ==
  LET commands == proposed.commands
  IN  [proposed EXCEPT
         !.confirm = TRUE,
         !.commands = FlattenSeq([i \in DOMAIN commands |-> Split(Canonical(commands[i]))])]

Unavailable ==
  [rules EXCEPT !.confirm = TRUE, !.reasons = rules.reasons \cup {"unavailable"}]

Answer(who, proposed) ==
  /\ pc = "model" /\ pc' = "done"
  /\ raw' = proposed
  /\ answer' = IF Valid(proposed) THEN who ELSE "invalid"
  /\ plan' = IF Valid(proposed) THEN Accepted(proposed) ELSE Unavailable

RunnerAnswers ==
  /\ calls' \in CallSeqs
  /\ Answer("runner", Generate(input, calls'))
  /\ UNCHANGED <<input, hybrid, rules>>

RuntimeAnswers ==
  /\ \E proposed \in RawPlans : Answer("runtime", proposed)
  /\ UNCHANGED <<input, hybrid, rules, calls>>

(* No runtime, an error it reports, a time that is over. *)
ModelFails ==
  /\ pc = "model" /\ pc' = "done"
  /\ answer' = "failed" /\ plan' = Unavailable
  /\ UNCHANGED <<input, hybrid, rules, calls, raw>>

Finished == pc \in {"done", "failed"} /\ UNCHANGED vars

Next == Interpret \/ RunnerAnswers \/ RuntimeAnswers \/ ModelFails \/ Finished
Spec == Init /\ [][Next]_vars
-----------------------------------------------------------------------------

Done == pc = "done"
OfModel == answer \in {"runner", "runtime"}

(* Every plan a host sees addresses devices of its own snapshot, by the     *)
(* serial in its canonical form and with the snapshot's label, and changes  *)
(* something, within range: whatever a runtime proposed.  A plan of the     *)
(* runner addresses, of the devices whose labels occur, the longest only.   *)
Grounded ==
  Done => \A c \in ToSet(plan.commands) :
    /\ c.targets # {} /\ DOMAIN c.action # {}
    /\ \A f \in DOMAIN c.action : c.action[f] \notin Refused
    /\ \A t \in c.targets :
         \E d \in ToSet(input.snapshot) :
           /\ t = [serial |-> [d.serial EXCEPT !.upper = FALSE], label |-> d.label]
           /\ answer = "runner" /\ Named(input) # {} =>
                /\ d \in Named(input)
                /\ \A e \in Named(input) : Length[e.label] <= Length[d.label]

(* A plan goes without confirmation exactly when the rules read it from     *)
(* clear words about devices that the labels tell apart.  Otherwise a model *)
(* that is there was asked, and one that did not help leaves the commands   *)
(* of the rules as they were.  The level of the rules is low if they found  *)
(* no command or have two doubts, and medium with one.                      *)
Cautious ==
  Done =>
    LET vague == input.text.words \cap {"cozy", "random"}
        alike == \E i, j \in DOMAIN input.snapshot :
                   /\ i # j /\ input.snapshot[i].label = input.snapshot[j].label
                   /\ input.snapshot[i].label \in input.text.names
        clear == /\ rules.commands # <<>> /\ vague = {} /\ ~alike
    IN  /\ plan.confirm <=> ~clear
        /\ clear => plan = rules /\ plan.level = "high" /\ answer = "none"
        /\ rules.level = "low" <=>
             rules.commands = <<>> \/ vague = {"cozy", "random"} \/ (vague # {} /\ alike)
        /\ ~clear => /\ rules.level # "high"
                     /\ hybrid => answer # "none"
        /\ ~OfModel => plan.commands = rules.commands
        /\ ~OfModel => ("unavailable" \in plan.reasons <=> answer \in {"failed", "invalid"})

(* What a plan leaves on a device is what the calls that reach it said, the *)
(* later over the earlier, and the power to show it if the device was off   *)
(* and nothing else was said.  (Not where the devices of two calls overlap  *)
(* without being the same: a call is merged into the first with its devices *)
(* and comes before those between.)  A text with "off" leaves what it       *)
(* reaches off, unless it has a word for a style, which the code reads      *)
(* first (OffWins).                                                         *)
Shown(effect, d) ==
  IF DOMAIN effect \cap Visual # {} /\ "power" \notin DOMAIN effect /\ d.power # "on"
    THEN After(effect, [power |-> "on"]) ELSE effect

Keeps(in, said, commands) ==
  LET asked     == [i \in DOMAIN said |-> Command(in, said[i])]
      used      == {i \in DOMAIN said : Relevant(in) /\ Usable(asked[i])}
      reached   == [i \in used |-> {Lower(s) : s \in asked[i].targets}]
      wanted(d) == Effect(asked, {i \in used : Lower(d.serial) \in reached[i]})
      left(d)   == Effect(commands, {i \in DOMAIN commands :
                            \E t \in commands[i].targets : t.serial = Lower(d.serial)})
  IN  /\ (\A i, j \in used : reached[i] \cap reached[j] # {} => asked[i].targets = asked[j].targets)
           => \A d \in ToSet(in.snapshot) : left(d) = Shown(wanted(d), d)
      /\ "off" \in in.text.words /\ "cozy" \notin in.text.words =>
           \A d \in ToSet(in.snapshot) :
             LET effect == left(d) IN DOMAIN effect # {} => effect["power"] = "off"

(* Merging the calls and splitting the commands by power keep the effect.   *)
EffectKept == Done /\ answer = "runner" => Keeps(input, calls, plan.commands)

(* What the runner makes of a model's calls passes the engine's validation, *)
(* if the calls use the selectors and the ranges that the tool declares and *)
(* their durations fit in thirty-two bits, of which the tool says nothing.  *)
RunnerPlansPass ==
  (\A call \in ToSet(calls) :
     /\ call.selectors # {} /\ call.selectors \subseteq Inventory(input.snapshot)
     /\ \A f \in DOMAIN call.action : call.action[f] \notin Refused)
    => answer # "invalid" \/ calls = <<>>

(* What the documentation says and the code does not guarantee: "Explicit    *)
(* off always wins" (README.md:47).  The runner takes the profile of a style *)
(* before it looks for "off" (runner.py:184), and the profiles switch on.    *)
OffWins ==
  Done /\ answer = "runner" /\ "off" \in input.text.words =>
    \A c \in ToSet(plan.commands) : "power" \in DOMAIN c.action => c.action["power"] = "off"

(* What the code does not guarantee: that the ranges of the tool are enough  *)
(* for a plan to pass.  A duration has no upper end there (runner.py:71).    *)
ToolRangePasses ==
  (\A call \in ToSet(calls) :
     /\ call.selectors # {} /\ call.selectors \subseteq Inventory(input.snapshot)
     /\ \A f \in DOMAIN call.action : call.action[f] # "out")
    => answer # "invalid" \/ calls = <<>>

(* What the code does not guarantee: that only a plan of the rules says that *)
(* the model was not available (evaluation.go:138 takes it for granted).  A  *)
(* runtime may give any reasons.                                             *)
UnavailableIsTold ==
  Done => ("unavailable" \in plan.reasons <=> answer \in {"failed", "invalid"})

(* What the code does not guarantee: of several devices that a text names,  *)
(* the runner keeps those with the longest label only, also for the calls   *)
(* that select another one of them.                                         *)
NamedAreReached ==
  Done /\ answer = "runner" => \A call \in ToSet(calls) : \A d \in Named(input) :
    call.selectors = {DeviceSelector(input.snapshot, d)} /\ DOMAIN Policy(input.text, call.action) # {}
      => \E c \in ToSet(plan.commands) : \E t \in c.targets : t.serial = Lower(d.serial)
=============================================================================
