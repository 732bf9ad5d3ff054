-------------------------------- MODULE Runner --------------------------------
(***************************************************************************)
(* The FunctionGemma runner between the calls a model makes and the plan   *)
(* it proposes (runtimes/functiongemma/runner.py): the inventory of        *)
(* selectors, the devices a request names, the action policy, the merge.   *)
(*                                                                         *)
(* A text is the set of names and the set of words that occur in it, and   *)
(* the set of names and serials that occur in it at least as a part of a   *)
(* word.  An action is a function from some of its fields to values, and a *)
(* list of targets a set.  A number is low or high in its range, out of    *)
(* the range that the tool declares, or, if it is a duration, huge: within *)
(* the tool's range, which has no upper end, and more than the thirty-two  *)
(* bits it has on the wire.                                                *)
(***************************************************************************)
EXTENDS Naturals, Sequences, SequencesExt

CONSTANTS Length,   (* of each label, its length                            *)
          Group     (* the group of all devices                             *)

ASSUME LengthAssumption == Length \in [DOMAIN Length -> Nat]

Fields == {"power", "hue", "saturation", "brightness", "kelvin", "duration"}
Visual == {"hue", "saturation", "brightness", "kelvin"}

(* What those of a sequence of commands that hit a device leave behind:     *)
(* later fields replace earlier.                                            *)
NoAction   == [f \in {} |-> "unset"]
After(old, action) ==
  [f \in DOMAIN old \cup DOMAIN action |-> IF f \in DOMAIN action THEN action[f] ELSE old[f]]
Effect(commands, hits) ==
  LET effect[n \in 0..Len(commands)] ==
        IF n = 0 THEN NoAction
        ELSE IF n \in hits THEN After(effect[n - 1], commands[n].action) ELSE effect[n - 1]
  IN  effect[Len(commands)]

(* ------------------------------- targets -------------------------------- *)

(* tool_schemas offers these to the model: a label that several devices     *)
(* share is told apart by the serial.                                       *)
Shared(snapshot, label) ==
  \E i, j \in DOMAIN snapshot : i # j /\ snapshot[i].label = label /\ snapshot[j].label = label
DeviceSelector(snapshot, d) ==
  [name |-> d.label, serial |-> IF Shared(snapshot, d.label) THEN {d.serial} ELSE {}]
GroupSelector == [name |-> Group, serial |-> {}]

Inventory(snapshot) ==
  {GroupSelector} \cup {DeviceSelector(snapshot, snapshot[i]) : i \in DOMAIN snapshot}

Resolve(snapshot, selector) ==
  {d.serial : d \in {e \in ToSet(snapshot) : selector \in {DeviceSelector(snapshot, e), GroupSelector}}}

Named(input) == {d \in ToSet(input.snapshot) : d.label \in input.text.names}

Longest(input) == {d \in Named(input) : \A e \in Named(input) : Length[e.label] <= Length[d.label]}

ExplicitTargets(input) == {d.serial : d \in Longest(input)}

(* A call that gives no selector may give serials, as old traces do.        *)
Targets(input, call) ==
  IF ExplicitTargets(input) # {} THEN ExplicitTargets(input)
  ELSE IF call.selectors # {} THEN UNION {Resolve(input.snapshot, s) : s \in call.selectors}
  ELSE call.serials

(* ------------------------------- actions -------------------------------- *)

Cozy == [power |-> "on", brightness |-> "low", saturation |-> "low", kelvin |-> "low"]

Color == {"blue", "warm"}

(* The fields of a proposal that the wording asks for. *)
Solicited(words) ==
  (IF "dim" \in words THEN {"brightness"} ELSE {})
    \cup (IF words \cap Color # {} THEN {"hue", "saturation", "kelvin"} ELSE {})
    \cup (IF "over" \in words THEN {"duration"} ELSE {})

PowerOf(words) ==
  IF "off" \in words THEN [power |-> "off"] ELSE IF "on" \in words THEN [power |-> "on"] ELSE NoAction

(* A percentage in the text is the brightness, whatever the model proposes. *)
Percentage(words) == IF {"dim", "percent"} \subseteq words THEN [brightness |-> "low"] ELSE NoAction

Policy(text, proposed) ==
  IF "cozy" \in text.words THEN Cozy
  ELSE LET kept == Restrict(proposed, Solicited(text.words) \cap DOMAIN proposed)
       IN  After(After(kept, Percentage(text.words)), PowerOf(text.words))

(* -------------------------------- plans --------------------------------- *)

Joint_FirstWins(old, c) == [targets |-> old.targets, action |-> After(c.action, old.action)]
Joint(old, c) == [targets |-> old.targets, action |-> After(old.action, c.action)]

MergeOne(merged, c) ==
  IF \E i \in DOMAIN merged : merged[i].targets = c.targets
    THEN [i \in DOMAIN merged |-> IF merged[i].targets = c.targets THEN Joint(merged[i], c) ELSE merged[i]]
    ELSE Append(merged, c)

(* A call counts if it has a target and, after the policy, an action.  The  *)
(* commands of the first n calls are a recursive function of n.             *)
Command(input, call) ==
  [targets |-> Targets(input, call), action |-> Policy(input.text, call.action)]
Usable(c) == c.targets # {} /\ DOMAIN c.action # {}

Merged(input, calls) ==
  LET merged[n \in 0..Len(calls)] ==
        IF n = 0 THEN <<>>
        ELSE LET c == Command(input, calls[n])
             IN  IF Usable(c) THEN MergeOne(merged[n - 1], c) ELSE merged[n - 1]
  IN  merged[Len(calls)]

(* A confidence is in hundred-thousandths.  sound: the version, the summary *)
(* and the form are those of the schema.                                    *)
Plan(confidence, level, reasons, confirm, commands) ==
  [sound |-> TRUE, confidence |-> confidence, level |-> level, reasons |-> reasons,
   confirm |-> confirm, commands |-> commands]

EmptyPlan == Plan(10000, "low", {"nothing"}, TRUE, <<>>)

(* The engine adds the labels. *)
Written(c) == [targets |-> {[serial |-> s, label |-> ""] : s \in c.targets}, action |-> c.action]

Proposal(commands) ==
  IF commands = <<>> THEN EmptyPlan
  ELSE Plan(65000, "medium", {"proposal"}, TRUE, [i \in DOMAIN commands |-> Written(commands[i])])

ExtractPlan(input, calls) == Proposal(Merged(input, calls))

Lighting == {"dim", "warm"}

(* Unlike an explicit target, a name is looked for without its word bounds. *)
Relevant(input) ==
  \/ input.text.words \cap Lighting # {}
  \/ Group \in input.text.parts
  \/ \E d \in ToSet(input.snapshot) : {d.label, d.serial.dev} \cap input.text.parts # {}

Generate(input, calls) == IF Relevant(input) THEN ExtractPlan(input, calls) ELSE EmptyPlan
=============================================================================
