----------------------------- MODULE MCInterpreter ----------------------------
(* A small instance of Interpreter: two devices, which may share a label or  *)
(* have one that is a part of the other's; texts that name none, some or     *)
(* both of them or their group, as words or as parts of words; up to three   *)
(* calls.                                                                    *)
EXTENDS Interpreter

Office    == "Office"
TwoLabels == "Desk" :> 4 @@ "Desk Lamp" :> 9

Known == {"brightness", "saturation", "kelvin"}
Serial(dev, upper) == [dev |-> dev, upper |-> upper]
Dev(serial, label, power) ==
  [serial |-> serial, label |-> label, power |-> power, known |-> Known, sound |-> TRUE]

d1 == Serial("d1", FALSE)
d2 == Serial("d2", FALSE)

Pairs ==
  {<<Dev(Serial("d1", TRUE), "Desk", p), Dev(d2, label, q)>> :
     label \in {"Desk", "Desk Lamp"}, p \in {"on", "off"}, q \in {"on", "off"}}

First == <<Dev(Serial("d1", TRUE), "Desk", "on"), Dev(d2, "Desk Lamp", "off")>>

Snapshots == Pairs \cup {[First EXCEPT ![2].known = {"kelvin"}], [First EXCEPT ![2].sound = FALSE], <<First[1]>>}

Wordings == {{}, {"play"}, {"off"}, {"blue"}, {"on", "dim", "percent"}, {"cozy"}, {"random", "warm"},
             {"off", "cozy"}, {"off", "blue", "over"}, {"blue", "dim"}, {"soft"}}

(* The last ones only hold a name in a longer word, as in "desks off". *)
Text(names, parts, words) == [names |-> names, parts |-> names \cup parts, words |-> words]
Texts ==
  {Text(names, {}, words) : names \in {{}, {"Desk"}, {"Desk", "Desk Lamp"}, {"Office"}}, words \in Wordings}
    \cup {Text({}, parts, {"off"}) : parts \in {{"Desk"}, {"d2"}, {"Office"}}}

MCInputs == [text : Texts, snapshot : Snapshots]

Turn == [targets |-> {d1}, action |-> "power" :> "on"]
Dim  == [targets |-> {d1, d2}, action |-> "brightness" :> "low"]
MCParses == {<<>>, <<Turn>>, <<Dim>>}

Selectors == {[name |-> "Desk", serial |-> {}], [name |-> "Desk", serial |-> {d2}],
              [name |-> "Desk Lamp", serial |-> {}], [name |-> "Office", serial |-> {}]}
Tints == {[power |-> "on", hue |-> "low", brightness |-> "high"], [hue |-> "high", saturation |-> "low", duration |-> "low"]}

Call(selectors, action) == [selectors |-> selectors, serials |-> {}, action |-> action]
Calls == {Call({s}, a) : s \in Selectors, a \in Tints}
Odd   == {Call({[name |-> "Attic", serial |-> {}]}, "hue" :> "low"),
          Call({[name |-> "Office", serial |-> {}]}, "hue" :> "out"),
          Call({[name |-> "Office", serial |-> {}]}, "duration" :> "huge"),
          [selectors |-> {}, serials |-> {Serial("d3", FALSE)}, action |-> "hue" :> "low"],
          [selectors |-> {}, serials |-> {d1}, action |-> "hue" :> "low"]}
Few   == {c \in Calls : \E s \in c.selectors : s.name # "Office" /\ s.serial = {}}

MCCallSeqs == {<<>>} \cup TupleOf(Calls \cup Odd, 1) \cup TupleOf(Calls, 2) \cup TupleOf(Few, 3)

Ref(dev, upper) == [serial |-> Serial(dev, upper), label |-> "invented"]
Commands(targets, action) == <<[targets |-> targets, action |-> action]>>
Proposed(commands) == Plan(90000, "high", {"sure"}, FALSE, commands)
Fine == Proposed(Commands({Ref("d1", FALSE), Ref("d2", TRUE)}, "hue" :> "low"))

MCRawPlans ==
  {Fine, [Fine EXCEPT !.reasons = {"unavailable"}], [Fine EXCEPT !.sound = FALSE], [Fine EXCEPT !.confidence = 200000], [Fine EXCEPT !.level = "none"],
   Proposed(<<>>), [Proposed(<<>>) EXCEPT !.confidence = 40000],
   Proposed(Commands({}, "hue" :> "low")), Proposed(Commands({Ref("d1", TRUE)}, NoAction)),
   Proposed(Commands({Ref("d3", FALSE)}, "hue" :> "low")),
   Proposed(Commands({Ref("d1", FALSE)}, "brightness" :> "out")),
   Proposed(Commands({Ref("d1", FALSE)}, "power" :> "off") \o Commands({Ref("d1", FALSE)}, "hue" :> "low"))}
=============================================================================
