--------------------------- MODULE InterpreterSafety ---------------------------
(***************************************************************************)
(* Theorems about Interpreter, for every snapshot, text and parse, any     *)
(* number of calls of a model and any plan of another runtime: plans are   *)
(* grounded, doubt is confirmed, the runner's plans are accepted, and they *)
(* do to each device what the calls said.                                  *)
(*                                                                         *)
(* The commands of the runner and of inferModelPower are recursive         *)
(* functions of a number (of calls, of commands).  What holds of them is   *)
(* proved by induction over sets of numbers (EveryNumber).                 *)
(***************************************************************************)
EXTENDS Interpreter, FiniteSetTheorems, TLAPS

(* Induction over the naturals, for sets of numbers: every set of them has  *)
(* a least one, as the intervals from zero are well-founded by inclusion.   *)
LEMMA LeastNumber ==
  ASSUME NEW K \in SUBSET Nat, K # {}
  PROVE  \E n \in K : \A m \in K : n <= m
<1> DEFINE R == StrictSubsetOrdering(Nat)
           S == FiniteSubsetsOf(Nat)
           T == {0..n : n \in K}
<1>1. IsWellFoundedOn(R, S)
  BY FS_StrictSubsetOrderingWellFounded
<1>2. T \subseteq S /\ T # {}
  <2>1. \A n \in K : IsFiniteSet(0..n) /\ (0..n) \in SUBSET Nat
    BY FS_Interval
  <2>2. QED
    BY <2>1 DEF FiniteSubsetsOf
<1>3. \E x \in T : \A y \in T : ~(<<y, x>> \in R)
  <2> HIDE DEF R, S, T
  <2>1. QED
    BY <1>1, <1>2, WFMin
<1>4. PICK n \in K : \A m \in K : ~(<<0..m, 0..n>> \in R)
  BY <1>3
<1>5. SUFFICES ASSUME NEW m \in K, m < n PROVE FALSE
  OBVIOUS
<1>6. /\ (0..m) \subseteq (0..n) /\ n \notin (0..m) /\ n \in (0..n)
      /\ (0..m) \in SUBSET Nat /\ (0..n) \in SUBSET Nat
  BY <1>5
<1>7. <<0..m, 0..n>> \in R
  <2>1. 0..m # 0..n
    BY <1>6
  <2>2. QED
    BY ONLY <1>6, <2>1 DEF StrictSubsetOrdering
<1>8. QED
  BY <1>4, <1>7

LEMMA EveryNumber ==
  ASSUME NEW K \in SUBSET Nat, 0 \in K, \A n \in K : n + 1 \in K
  PROVE  K = Nat
<1>1. SUFFICES ASSUME NEW x \in Nat, x \notin K PROVE FALSE
  OBVIOUS
<1>2. PICK n \in Nat \ K : \A m \in Nat \ K : n <= m
  <2>1. Nat \ K \in SUBSET Nat /\ Nat \ K # {}
    BY <1>1
  <2>2. QED
    BY ONLY <2>1, LeastNumber
<1>3. n # 0 /\ n - 1 \in Nat
  BY <1>2
<1>4. n - 1 \in K
  BY <1>2, <1>3
<1>5. QED
  BY <1>2, <1>3, <1>4
-----------------------------------------------------------------------------

(* The commands of one call after the other. *)
Step(in, said, merged, n) ==
  LET c == Command(in, said[n]) IN IF Usable(c) THEN MergeOne(merged, c) ELSE merged

Stepwise(f, in, said, n) ==
  f = [k \in 0..n |-> IF k = 0 THEN <<>> ELSE Step(in, said, f[k - 1], k)]

LEMMA StepwiseExists ==
  ASSUME NEW in, NEW said, NEW n \in Nat
  PROVE  \E f : Stepwise(f, in, said, n)
<1> DEFINE K == {k \in Nat : \E f : Stepwise(f, in, said, k)}
<1>1. 0 \in K
  <2>1. Stepwise([k \in 0..0 |-> <<>>], in, said, 0)
    BY DEF Stepwise
  <2>2. QED
    BY <2>1
<1>2. ASSUME NEW k \in K PROVE k + 1 \in K
  <2>1. PICK f : Stepwise(f, in, said, k)
    OBVIOUS
  <2> DEFINE g == [j \in 0..(k + 1) |-> IF j = k + 1 THEN Step(in, said, f[k], k + 1) ELSE f[j]]
  <2>2. \A j \in 0..k : g[j] = IF j = 0 THEN <<>> ELSE Step(in, said, g[j - 1], j)
    <3>1. SUFFICES ASSUME NEW j \in 0..k
                   PROVE  g[j] = IF j = 0 THEN <<>> ELSE Step(in, said, g[j - 1], j)
      OBVIOUS
    <3>2. g[j] = f[j] /\ (j # 0 => g[j - 1] = f[j - 1])
      OBVIOUS
    <3>3. f[j] = IF j = 0 THEN <<>> ELSE Step(in, said, f[j - 1], j)
      BY <2>1 DEF Stepwise
    <3>4. QED
      BY ONLY <3>2, <3>3
  <2>3. g[k + 1] = Step(in, said, g[k], k + 1) /\ k + 1 # 0
    OBVIOUS
  <2>4. \A j \in 0..(k + 1) : g[j] = IF j = 0 THEN <<>> ELSE Step(in, said, g[j - 1], j)
    <3>1. SUFFICES ASSUME NEW j \in 0..(k + 1)
                   PROVE  g[j] = IF j = 0 THEN <<>> ELSE Step(in, said, g[j - 1], j)
      OBVIOUS
    <3> HIDE DEF g
    <3>2. j \in 0..k \/ (j = k + 1 /\ j - 1 = k)
      OBVIOUS
    <3>3. QED
      BY ONLY <2>2, <2>3, <3>2
  <2>5. g = [j \in 0..(k + 1) |-> g[j]]
    OBVIOUS
  <2> HIDE DEF g
  <2>6. Stepwise(g, in, said, k + 1)
    BY ONLY <2>4, <2>5 DEF Stepwise
  <2>7. QED
    BY <2>6
<1>3. K = Nat
  <2>1. K \in SUBSET Nat
    OBVIOUS
  <2> HIDE DEF K
  <2>2. QED
    BY <1>1, <1>2, <2>1, EveryNumber
<1>4. QED
  BY <1>3

LEMMA MergedStepwise ==
  ASSUME NEW in, NEW said, Len(said) \in Nat
  PROVE  \E f : Stepwise(f, in, said, Len(said)) /\ Merged(in, said) = f[Len(said)]
<1> DEFINE f == CHOOSE g : Stepwise(g, in, said, Len(said))
<1>1. Stepwise(f, in, said, Len(said))
  BY StepwiseExists
<1>2. Merged(in, said) = f[Len(said)]
  BY DEF Merged, Stepwise, Step
<1>3. QED
  BY <1>1, <1>2
-----------------------------------------------------------------------------

(* Sequences of any elements. *)
LEMMA SequenceParts ==
  ASSUME NEW s, Sequence(s)
  PROVE  /\ Len(s) \in Nat /\ DOMAIN s = 1..Len(s) /\ s = [i \in 1..Len(s) |-> s[i]]
         /\ s = <<>> <=> Len(s) = 0
         /\ \A e : e \in ToSet(s) <=> \E i \in 1..Len(s) : s[i] = e
<1>1. s \in Seq(ToSet(s))
  BY DEF Sequence
<1>2. Len(s) \in Nat /\ DOMAIN s = 1..Len(s) /\ s = [i \in 1..Len(s) |-> s[i]] /\ (s = <<>> <=> Len(s) = 0)
  BY <1>1
<1>3. QED
  BY <1>2 DEF ToSet

LEMMA MakeSequence ==
  ASSUME NEW n \in Nat, NEW s, s = [i \in 1..n |-> s[i]]
  PROVE  Sequence(s) /\ Len(s) = n
<1>1. \A i \in 1..n : s[i] \in ToSet(s)
  BY DEF ToSet
<1>2. s \in Seq(ToSet(s))
  BY <1>1
<1>3. Len(s) = n
  BY <1>2
<1>4. QED
  BY <1>2, <1>3 DEF Sequence

(* merge_commands adds a command, or its action to those with its targets.  *)
Added(s, c, m) ==
  /\ ~ \E i \in DOMAIN s : s[i].targets = c.targets
  /\ DOMAIN m = DOMAIN s \cup {Len(s) + 1} /\ m[Len(s) + 1] = c
  /\ \A i \in DOMAIN s : m[i] = s[i]

Folded(s, c, m) ==
  /\ DOMAIN m = DOMAIN s /\ \E i \in DOMAIN s : s[i].targets = c.targets
  /\ \A i \in DOMAIN s : m[i] = IF s[i].targets = c.targets THEN Joint(s[i], c) ELSE s[i]

LEMMA MergeOneAdds ==
  ASSUME NEW s, Sequence(s), NEW c
  PROVE  /\ Sequence(MergeOne(s, c))
         /\ Added(s, c, MergeOne(s, c)) \/ Folded(s, c, MergeOne(s, c))
<1>1. Len(s) \in Nat /\ DOMAIN s = 1..Len(s)
  BY SequenceParts
<1>2. CASE \E i \in DOMAIN s : s[i].targets = c.targets
  <2> DEFINE m == [i \in DOMAIN s |-> IF s[i].targets = c.targets
                                        THEN Joint(s[i], c) ELSE s[i]]
  <2>1. MergeOne(s, c) = m
    BY <1>2 DEF MergeOne
  <2>2. m = [i \in 1..Len(s) |-> m[i]] /\ DOMAIN m = DOMAIN s
    BY <1>1
  <2>3. Folded(s, c, m)
    BY <1>2 DEF Folded
  <2> HIDE DEF m
  <2>4. Sequence(m)
    BY <1>1, <2>2, MakeSequence
  <2>5. QED
    BY <2>1, <2>2, <2>3, <2>4
<1>3. CASE ~ \E i \in DOMAIN s : s[i].targets = c.targets
  <2>1. MergeOne(s, c) = Append(s, c)
    BY <1>3 DEF MergeOne
  <2>2. s \in Seq(ToSet(s) \cup {c})
    BY DEF Sequence
  <2>3. /\ Len(Append(s, c)) = Len(s) + 1 /\ DOMAIN Append(s, c) = 1..(Len(s) + 1)
        /\ Append(s, c) = [i \in 1..(Len(s) + 1) |-> Append(s, c)[i]]
        /\ Append(s, c)[Len(s) + 1] = c
        /\ \A i \in 1..Len(s) : Append(s, c)[i] = s[i]
    <3> DEFINE E == ToSet(s) \cup {c}
    <3>1. s \in Seq(E) /\ c \in E
      BY <2>2
    <3> HIDE DEF E
    <3>2. Append(s, c) \in Seq(E) /\ Len(Append(s, c)) = Len(s) + 1
      BY ONLY <3>1
    <3>3. Append(s, c)[Len(s) + 1] = c /\ \A i \in 1..Len(s) : Append(s, c)[i] = s[i]
      BY ONLY <3>1, <1>1
    <3>4. /\ DOMAIN Append(s, c) = 1..(Len(s) + 1)
          /\ Append(s, c) = [i \in 1..(Len(s) + 1) |-> Append(s, c)[i]]
      <4> DEFINE t == Append(s, c)
      <4>1. t \in Seq(E) /\ Len(t) = Len(s) + 1
        BY <3>2
      <4> HIDE DEF t
      <4>2. DOMAIN t = 1..(Len(s) + 1) /\ t = [i \in 1..(Len(s) + 1) |-> t[i]]
        BY ONLY <4>1
      <4>3. QED
        BY ONLY <4>2 DEF t
    <3>5. QED
      BY ONLY <3>2, <3>3, <3>4
  <2>4. Sequence(Append(s, c))
    BY <1>1, <2>3, MakeSequence
  <2>5. Added(s, c, Append(s, c))
    <3>1. 1..(Len(s) + 1) = 1..Len(s) \cup {Len(s) + 1}
      BY <1>1
    <3>2. QED
      BY <1>1, <1>3, <2>3, <3>1 DEF Added
  <2>6. QED
    BY <2>1, <2>4, <2>5
<1>4. QED
  BY <1>2, <1>3

(* What holds of each command the runner makes of a sequence of calls.      *)
InRange(said) == \A j \in DOMAIN said : \A f \in DOMAIN said[j].action : said[j].action[f] \notin Refused

IsAction(a) == a = [f \in DOMAIN a |-> a[f]]

LEMMA AfterLaws ==
  /\ IsAction(NoAction) /\ DOMAIN NoAction = {}
  /\ \A a : IsAction(a) => After(NoAction, a) = a /\ After(a, a) = a
  /\ \A a, b : IsAction(After(a, b))
BY DEF IsAction, NoAction, After

AsksOff(in)      == "off" \in in.text.words /\ "cozy" \notin in.text.words
TurnsOff(action) == "power" \in DOMAIN action /\ action["power"] = "off"

Made(in, said, m) ==
  /\ m = [targets |-> m.targets, action |-> m.action]
  /\ m.targets # {} /\ DOMAIN m.action # {}
  /\ \E j \in DOMAIN said : m.targets = Targets(in, said[j])
  /\ InRange(said) => \A f \in DOMAIN m.action : m.action[f] \notin Refused
  /\ AsksOff(in) => TurnsOff(m.action)
  /\ IsAction(m.action)

LEMMA AfterWithout ==
  ASSUME NEW old, NEW action,
         \A f \in DOMAIN old : old[f] \notin Refused,
         \A f \in DOMAIN action : action[f] \notin Refused
  PROVE  \A f \in DOMAIN After(old, action) : After(old, action)[f] \notin Refused
BY DEF After

LEMMA CommandMade ==
  ASSUME NEW in, NEW said, NEW j \in DOMAIN said, Usable(Command(in, said[j]))
  PROVE  Made(in, said, Command(in, said[j]))
<1> DEFINE proposed == said[j].action
           c == Command(in, said[j])
<1>1. c = [targets |-> Targets(in, said[j]), action |-> Policy(in.text, proposed)]
  BY DEF Command
<1>2. c.targets # {} /\ DOMAIN c.action # {}
  BY DEF Usable
<1>3. ASSUME \A f \in DOMAIN proposed : proposed[f] \notin Refused, NEW f \in DOMAIN Policy(in.text, proposed)
      PROVE  Policy(in.text, proposed)[f] \notin Refused
  <2>1. CASE "cozy" \in in.text.words
    BY <1>3, <2>1 DEF Policy, Cozy, Refused
  <2>2. CASE "cozy" \notin in.text.words
    <3> DEFINE kept == Solicited(in.text.words) \cap DOMAIN proposed
               power == PowerOf(in.text.words)
               share == Percentage(in.text.words)
    <3>1. Policy(in.text, proposed) = After(After(Restrict(proposed, kept), share), power)
      BY <2>2 DEF Policy
    <3>2. \A g \in DOMAIN power : power[g] \notin Refused
      BY DEF PowerOf, NoAction, Refused
    <3>3. \A g \in DOMAIN share : share[g] \notin Refused
      BY DEF Percentage, NoAction, Refused
    <3>4. \A g \in DOMAIN Restrict(proposed, kept) : Restrict(proposed, kept)[g] \notin Refused
      BY <1>3 DEF Restrict
    <3> HIDE DEF power, share, kept
    <3>5. QED
      BY <1>3, <3>1, <3>2, <3>3, <3>4, AfterWithout
  <2>3. QED
    BY <2>1, <2>2
<1>4. InRange(said) => \A f \in DOMAIN c.action : c.action[f] \notin Refused
  BY <1>1, <1>3 DEF InRange
<1>5. ASSUME AsksOff(in) PROVE TurnsOff(c.action)
  <2> DEFINE kept == Restrict(proposed, Solicited(in.text.words) \cap DOMAIN proposed)
             old  == After(kept, Percentage(in.text.words))
  <2>1. PowerOf(in.text.words) = [power |-> "off"]
    BY <1>5 DEF AsksOff, PowerOf
  <2>2. Policy(in.text, proposed) = After(old, PowerOf(in.text.words))
    BY <1>5 DEF AsksOff, Policy
  <2> HIDE DEF old
  <2>3. QED
    BY <1>1, <2>1, <2>2 DEF After, TurnsOff
<1>6. IsAction(c.action)
  <2>1. \E a, b : Policy(in.text, proposed) = Cozy \/ Policy(in.text, proposed) = After(a, b)
    BY DEF Policy
  <2>2. IsAction(Cozy)
    BY DEF IsAction, Cozy
  <2>3. QED
    BY <1>1, <2>1, <2>2, AfterLaws
<1>7. QED
  BY <1>1, <1>2, <1>4, <1>5, <1>6 DEF Made

LEMMA MergeMade ==
  ASSUME NEW in, NEW said, NEW m, NEW c, Made(in, said, m), Made(in, said, c)
  PROVE  Made(in, said, Joint(m, c))
<1> DEFINE both == After(m.action, c.action)
<1>1. Joint(m, c) = [targets |-> m.targets, action |-> both]
  BY DEF Joint
<1>2. DOMAIN both # {}
  BY DEF Made, After
<1>3. InRange(said) => \A f \in DOMAIN both : both[f] \notin Refused
  BY AfterWithout DEF Made
<1>4. AsksOff(in) => TurnsOff(both)
  BY DEF Made, TurnsOff, After
<1>5. IsAction(both)
  BY AfterLaws
<1>6. QED
  BY <1>1, <1>2, <1>3, <1>4, <1>5 DEF Made

LEMMA MergedMade ==
  ASSUME NEW in, NEW said, Sequence(said)
  PROVE  /\ Sequence(Merged(in, said))
         /\ \A i \in DOMAIN Merged(in, said) : Made(in, said, Merged(in, said)[i])
<1>1. Len(said) \in Nat /\ DOMAIN said = 1..Len(said)
  BY SequenceParts
<1>2. PICK f : Stepwise(f, in, said, Len(said)) /\ Merged(in, said) = f[Len(said)]
  BY <1>1, MergedStepwise
<1> DEFINE Good(s) == Sequence(s) /\ \A i \in DOMAIN s : Made(in, said, s[i])
           K == {k \in Nat : k <= Len(said) => Good(f[k])}
<1>3. 0 \in K
  <2>1. f[0] = <<>>
    BY <1>1, <1>2 DEF Stepwise
  <2>2. Sequence(<<>>) /\ DOMAIN <<>> = {}
    BY DEF Sequence
  <2>3. QED
    BY <2>1, <2>2
<1>4. ASSUME NEW k \in K PROVE k + 1 \in K
  <2>1. SUFFICES ASSUME k + 1 <= Len(said) PROVE Good(f[k + 1])
    OBVIOUS
  <2>2. Good(f[k])
    BY <1>1, <2>1
  <2>3. k + 1 \in 0..Len(said) /\ k + 1 # 0 /\ (k + 1) - 1 = k /\ k + 1 \in DOMAIN said
    BY <1>1, <2>1
  <2>4. f[k + 1] = Step(in, said, f[k], k + 1)
    BY <1>2, <2>3 DEF Stepwise
  <2> DEFINE c == Command(in, said[k + 1])
  <2>5. CASE ~Usable(c)
    BY <2>2, <2>4, <2>5 DEF Step
  <2>6. CASE Usable(c)
    <3>1. f[k + 1] = MergeOne(f[k], c)
      BY <2>4, <2>6 DEF Step
    <3>2. Made(in, said, c)
      BY <2>3, <2>6, CommandMade
    <3> HIDE DEF c
    <3>3. Sequence(MergeOne(f[k], c))
      BY <2>2, MergeOneAdds
    <3>4. ASSUME NEW i \in DOMAIN MergeOne(f[k], c) PROVE Made(in, said, MergeOne(f[k], c)[i])
      <4>1. \/ MergeOne(f[k], c)[i] = c
            \/ \E j \in DOMAIN f[k] : MergeOne(f[k], c)[i] = f[k][j]
            \/ \E j \in DOMAIN f[k] : MergeOne(f[k], c)[i] = Joint(f[k][j], c)
        <5>1. Added(f[k], c, MergeOne(f[k], c)) \/ Folded(f[k], c, MergeOne(f[k], c))
          BY <2>2, MergeOneAdds
        <5>2. QED
          BY ONLY <3>4, <5>1 DEF Added, Folded
      <4>2. QED
        BY <2>2, <3>2, <4>1, MergeMade
    <3>5. QED
      BY <3>1, <3>3, <3>4
  <2>7. QED
    BY <2>5, <2>6
<1>5. K = Nat
  <2>1. K \in SUBSET Nat
    OBVIOUS
  <2> HIDE DEF K
  <2>2. QED
    BY <1>3, <1>4, <2>1, EveryNumber
<1>6. QED
  BY <1>1, <1>2, <1>5
-----------------------------------------------------------------------------

LEMMA Concatenated ==
  ASSUME NEW s, NEW t, Sequence(s), Sequence(t)
  PROVE  Sequence(s \o t) /\ ToSet(s \o t) = ToSet(s) \cup ToSet(t)
<1> DEFINE E == ToSet(s) \cup ToSet(t)
           u == s \o t
<1>0. /\ Len(s) \in Nat /\ Len(t) \in Nat /\ Len(u) = Len(s) + Len(t)
      /\ \A e : e \in ToSet(s) <=> \E i \in 1..Len(s) : s[i] = e
      /\ \A e : e \in ToSet(t) <=> \E i \in 1..Len(t) : t[i] = e
      /\ \A i \in 1..Len(s) : u[i] = s[i]
      /\ \A i \in 1..Len(t) : u[Len(s) + i] = t[i]
  <2>1. s \in Seq(E) /\ t \in Seq(E)
    BY DEF Sequence
  <2>2. /\ \A e : e \in ToSet(s) <=> \E i \in 1..Len(s) : s[i] = e
        /\ \A e : e \in ToSet(t) <=> \E i \in 1..Len(t) : t[i] = e
    BY SequenceParts
  <2> HIDE DEF E
  <2>3. Len(s) \in Nat /\ Len(t) \in Nat /\ Len(u) = Len(s) + Len(t)
    BY ONLY <2>1
  <2>4. /\ \A i \in 1..Len(s) : u[i] = s[i]
        /\ \A i \in 1..Len(t) : u[Len(s) + i] = t[i]
    BY ONLY <2>1, <2>3
  <2>5. QED
    BY ONLY <2>2, <2>3, <2>4
<1>1. s \in Seq(E) /\ t \in Seq(E)
  BY DEF Sequence
<1> HIDE DEF E
<1>2. u \in Seq(E)
  BY ONLY <1>1
<1> HIDE DEF u
<1>3. Len(u) \in Nat /\ u = [i \in 1..Len(u) |-> u[i]] /\ ToSet(u) \subseteq E
  BY ONLY <1>2 DEF ToSet
<1>4. Sequence(u)
  BY <1>3, MakeSequence
<1>5. DOMAIN u = 1..(Len(s) + Len(t))
  BY ONLY <1>0, <1>3
<1>6. ASSUME NEW e \in E PROVE e \in ToSet(u)
  <2>1. \E j \in DOMAIN u : u[j] = e
    <3>1. CASE e \in ToSet(s)
      BY <1>0, <1>5, <3>1
    <3>2. CASE e \in ToSet(t)
      <4>1. PICK i \in 1..Len(t) : t[i] = e
        BY <1>0, <3>2
      <4>2. Len(s) + i \in DOMAIN u
        BY <1>0, <1>5
      <4>3. QED
        BY <1>0, <4>1, <4>2
    <3>3. QED
      BY <3>1, <3>2 DEF E
  <2>2. QED
    BY <2>1 DEF ToSet
<1>7. QED
  BY ONLY <1>3, <1>4, <1>6 DEF E, u

(* The library's FlattenSeq, part by part. *)
Flattening(f, seqs, n) ==
  f = [k \in 1..n |-> IF k = 1 THEN seqs[k] ELSE f[k - 1] \o seqs[k]]

LEMMA FlatteningExists ==
  ASSUME NEW seqs, NEW n \in Nat
  PROVE  \E f : Flattening(f, seqs, n)
<1> DEFINE K == {k \in Nat : \E f : Flattening(f, seqs, k)}
<1>1. 0 \in K
  <2>1. Flattening([k \in 1..0 |-> <<>>], seqs, 0)
    BY DEF Flattening
  <2>2. QED
    BY <2>1
<1>2. ASSUME NEW k \in K PROVE k + 1 \in K
  <2>1. PICK f : Flattening(f, seqs, k)
    OBVIOUS
  <2> DEFINE g == [j \in 1..(k + 1) |->
                     IF j = 1 THEN seqs[j] ELSE IF j = k + 1 THEN f[k] \o seqs[j] ELSE f[j]]
  <2>2. \A j \in 1..k : g[j] = f[j]
    BY <2>1 DEF Flattening
  <2>3. \A j \in 1..(k + 1) : g[j] = IF j = 1 THEN seqs[j] ELSE g[j - 1] \o seqs[j]
    <3>1. SUFFICES ASSUME NEW j \in 1..(k + 1)
                   PROVE  g[j] = IF j = 1 THEN seqs[j] ELSE g[j - 1] \o seqs[j]
      OBVIOUS
    <3>2. CASE j = 1
      BY <3>2
    <3>3. CASE j # 1 /\ j = k + 1
      <4>1. g[j] = f[k] \o seqs[j]
        BY <3>3
      <4>2. k \in 1..k /\ j - 1 = k
        BY <3>3
      <4>3. g[j - 1] = f[k]
        BY <2>2, <4>2
      <4>4. QED
        BY ONLY <3>3, <4>1, <4>3
    <3>4. CASE j # 1 /\ j # k + 1
      <4>1. j \in 1..k /\ j - 1 \in 1..k
        BY <3>4
      <4>2. g[j] = f[j] /\ g[j - 1] = f[j - 1]
        BY <2>2, <4>1
      <4>3. f[j] = f[j - 1] \o seqs[j]
        BY <2>1, <3>4, <4>1 DEF Flattening
      <4>4. QED
        BY ONLY <3>4, <4>2, <4>3
    <3>5. QED
      BY <3>2, <3>3, <3>4
  <2>4. g = [j \in 1..(k + 1) |-> g[j]]
    OBVIOUS
  <2> HIDE DEF g
  <2>5. Flattening(g, seqs, k + 1)
    BY ONLY <2>3, <2>4 DEF Flattening
  <2>6. QED
    BY <2>5
<1>3. K = Nat
  <2>1. K \in SUBSET Nat
    OBVIOUS
  <2> HIDE DEF K
  <2>2. QED
    BY <1>1, <1>2, <2>1, EveryNumber
<1>4. QED
  BY <1>3

LEMMA Flattened ==
  ASSUME NEW seqs, Sequence(seqs), \A i \in DOMAIN seqs : Sequence(seqs[i])
  PROVE  /\ Sequence(FlattenSeq(seqs))
         /\ \A e : e \in ToSet(FlattenSeq(seqs)) <=> \E i \in DOMAIN seqs : e \in ToSet(seqs[i])
<1>1. Len(seqs) \in Nat /\ DOMAIN seqs = 1..Len(seqs) /\ (seqs = <<>> <=> Len(seqs) = 0)
  BY SequenceParts
<1>2. CASE Len(seqs) = 0
  BY <1>1, <1>2 DEF FlattenSeq, ToSet
<1>3. CASE Len(seqs) # 0
  <2> DEFINE n == Len(seqs)
             f == CHOOSE g : Flattening(g, seqs, n)
             Good(s, k) == /\ Sequence(s)
                           /\ \A e : e \in ToSet(s) <=> \E i \in 1..k : e \in ToSet(seqs[i])
  <2>1. Flattening(f, seqs, n)
    BY <1>1, FlatteningExists
  <2>2. FlattenSeq(seqs) = f[n]
    BY <1>3 DEF FlattenSeq, Flattening
  <2> HIDE DEF f
  <2> DEFINE K == {k \in Nat : k + 1 <= n => Good(f[k + 1], k + 1)}
  <2>3. 0 \in K
    <3>1. 1 \in 1..n
      BY <1>1, <1>3
    <3>2. f[1] = seqs[1]
      BY <2>1, <3>1 DEF Flattening
    <3>3. Good(f[1], 1)
      BY <1>1, <3>1, <3>2
    <3>4. QED
      BY <3>3
  <2>4. ASSUME NEW k \in K PROVE k + 1 \in K
    <3>1. SUFFICES ASSUME k + 2 <= n PROVE Good(f[k + 2], k + 2)
      BY <1>1
    <3>2. Good(f[k + 1], k + 1)
      BY <1>1, <3>1
    <3>3. k + 2 \in 1..n /\ k + 2 # 1 /\ (k + 2) - 1 = k + 1
      BY <1>1, <3>1
    <3>4. f[k + 2] = f[k + 1] \o seqs[k + 2]
      BY <2>1, <3>3 DEF Flattening
    <3>5. Sequence(seqs[k + 2])
      BY <1>1, <3>3
    <3>6. Sequence(f[k + 2]) /\ ToSet(f[k + 2]) = ToSet(f[k + 1]) \cup ToSet(seqs[k + 2])
      BY <3>2, <3>4, <3>5, Concatenated
    <3>7. \A i : i \in 1..(k + 2) <=> i \in 1..(k + 1) \/ i = k + 2
      OBVIOUS
    <3>8. QED
      BY ONLY <3>2, <3>6, <3>7
  <2>5. K = Nat
    <3>1. K \in SUBSET Nat
      OBVIOUS
    <3> HIDE DEF K
    <3>2. QED
      BY <2>3, <2>4, <3>1, EveryNumber
  <2>6. Good(f[n], n)
    <3>1. n - 1 \in Nat /\ (n - 1) + 1 = n
      BY <1>1, <1>3
    <3>2. n - 1 \in K
      BY ONLY <2>5, <3>1
    <3>3. QED
      BY <1>1, <3>1, <3>2
  <2>7. QED
    BY <1>1, <2>2, <2>6
<1>4. QED
  BY <1>2, <1>3
-----------------------------------------------------------------------------

(* The device of a known serial, and that there is no other.                *)
LEMMA OneDevice ==
  ASSUME input \in Inputs, NEW d \in ToSet(input.snapshot), NEW e \in ToSet(input.snapshot),
         Lower(d.serial) = Lower(e.serial)
  PROVE  d = e
BY InputsAssumption DEF ToSet

LEMMA TrustedDevice ==
  ASSUME NEW s, Knows(s)
  PROVE  /\ Device(s) \in ToSet(input.snapshot) /\ Lower(Device(s).serial) = Lower(s)
         /\ Trusted(s) = [serial |-> Lower(Device(s).serial), label |-> Device(s).label]
<1>1. Device(s) \in ToSet(input.snapshot) /\ Lower(Device(s).serial) = Lower(s)
  BY DEF Knows, Device
<1>2. QED
  BY <1>1 DEF Trusted

(* What Grounded says of the commands of a plan. *)
Reach(in, who, t) ==
  \E d \in ToSet(in.snapshot) :
    /\ t = [serial |-> Lower(d.serial), label |-> d.label]
    /\ who = "runner" /\ Named(in) # {} =>
         /\ d \in Named(in)
         /\ \A e \in Named(in) : Length[e.label] <= Length[d.label]

Touches(in, who, c) ==
  /\ c.targets # {} /\ DOMAIN c.action # {}
  /\ \A f \in DOMAIN c.action : c.action[f] \notin Refused
  /\ \A t \in c.targets : Reach(in, who, t)

AllTouch(in, who, commands) == \A c \in ToSet(commands) : Touches(in, who, c)

LEMMA RulesTouch ==
  ASSUME NEW parsed \in Parses, \A c \in ToSet(parsed) : \A s \in c.targets : Knows(s),
         NEW who, who # "runner"
  PROVE  AllTouch(input, who, RulesPlan(parsed).commands)
<1> DEFINE Read(c) == [targets |-> {Trusted(s) : s \in c.targets}, action |-> c.action]
           commands == [i \in DOMAIN parsed |-> Read(parsed[i])]
<1>1. RulesPlan(parsed).commands = commands
  BY DEF RulesPlan, Plan
<1>2. ASSUME NEW c \in ToSet(parsed) PROVE Touches(input, who, Read(c))
  <2>1. c.targets # {} /\ DOMAIN c.action # {} /\ \A f \in DOMAIN c.action : c.action[f] \notin Refused
    BY ParsesAssumption
  <2>2. ASSUME NEW s \in c.targets PROVE Reach(input, who, Trusted(s))
    BY TrustedDevice DEF Reach
  <2>3. QED
    BY <2>1, <2>2 DEF Touches
<1> HIDE DEF Read
<1>3. QED
  BY <1>1, <1>2 DEF AllTouch, ToSet

(* The commands that a command is split into have its devices, and lose no  *)
(* setting.                                                                 *)
LEMMA SplitTouches ==
  ASSUME NEW who, NEW c, c = [targets |-> c.targets, action |-> c.action], Touches(input, who, c)
  PROVE  Sequence(Split(c)) /\ AllTouch(input, who, Split(c))
<1> DEFINE off   == SwitchedOff(c.targets)
           lit   == After(c.action, [power |-> "on"])
           woken == [targets |-> off, action |-> lit]
           rest  == [targets |-> c.targets \ off, action |-> c.action]
<1>1. off \subseteq c.targets
  BY DEF SwitchedOff
<1>2. DOMAIN lit # {} /\ \A f \in DOMAIN lit : lit[f] \notin Refused
  BY DEF After, Touches, Refused
<1>3. off # {} => Touches(input, who, woken)
  BY <1>1, <1>2 DEF Touches
<1>4. off # c.targets => Touches(input, who, rest)
  BY <1>1 DEF Touches
<1>5. Split(c) = IF "power" \in DOMAIN c.action \/ DOMAIN c.action \cap Visual = {} \/ off = {} THEN <<c>>
                 ELSE IF off = c.targets THEN <<woken>> ELSE <<woken, rest>>
  BY DEF Split
<1> HIDE DEF off, lit, woken, rest
<1>6. /\ Sequence(<<c>>) /\ ToSet(<<c>>) = {c}
      /\ Sequence(<<woken>>) /\ ToSet(<<woken>>) = {woken}
      /\ Sequence(<<woken, rest>>) /\ ToSet(<<woken, rest>>) = {woken, rest}
  BY DEF Sequence, ToSet
<1>7. QED
  BY <1>3, <1>4, <1>5, <1>6 DEF AllTouch

(* A plan that is a record of the fields of the schema. *)
IsPlan(p) ==
  p = [sound |-> p.sound, confidence |-> p.confidence, level |-> p.level,
       reasons |-> p.reasons, confirm |-> p.confirm, commands |-> p.commands]

Formed(p) ==
  /\ IsPlan(p)
  /\ Sequence(p.commands)
  /\ \A c \in ToSet(p.commands) : c = [targets |-> c.targets, action |-> c.action]

(* The targets are devices with the longest of the labels a text names. *)
Explicit(in, p) ==
  Named(in) # {} => \A c \in ToSet(p.commands) : \A t \in c.targets :
                      \E d \in Longest(in) : t.serial = d.serial

LEMMA AcceptedTouches ==
  ASSUME input \in Inputs, NEW who, NEW p, Formed(p), Valid(p),
         who = "runner" => Explicit(input, p)
  PROVE  AllTouch(input, who, Accepted(p).commands)
<1> DEFINE given == p.commands
           parts == [i \in DOMAIN given |-> Split(Canonical(given[i]))]
<1>1. Accepted(p).commands = FlattenSeq(parts)
  BY DEF Accepted, Formed, IsPlan
<1>2. Sequence(given) /\ Len(given) \in Nat /\ DOMAIN given = 1..Len(given)
  BY SequenceParts DEF Formed
<1>3. ASSUME NEW c \in ToSet(given) PROVE Touches(input, who, Canonical(c))
  <2>1. /\ c.targets # {} /\ DOMAIN c.action # {} /\ \A f \in DOMAIN c.action : c.action[f] \notin Refused
        /\ \A t \in c.targets : Knows(t.serial)
    BY <1>3 DEF Valid
  <2>2. ASSUME NEW t \in c.targets PROVE Reach(input, who, Trusted(t.serial))
    <3> DEFINE d == Device(t.serial)
    <3>1. /\ d \in ToSet(input.snapshot) /\ Lower(d.serial) = Lower(t.serial)
          /\ Trusted(t.serial) = [serial |-> Lower(d.serial), label |-> d.label]
      BY <2>1, TrustedDevice
    <3>2. ASSUME who = "runner", Named(input) # {}
          PROVE  d \in Named(input) /\ \A e \in Named(input) : Length[e.label] <= Length[d.label]
      <4>1. PICK e \in Longest(input) : t.serial = e.serial
        BY <3>2 DEF Explicit
      <4>2. e \in Named(input) /\ e \in ToSet(input.snapshot)
        BY DEF Longest, Named
      <4>3. d = e
        BY <3>1, <4>1, <4>2, OneDevice
      <4>4. QED
        BY <4>1, <4>3 DEF Longest
    <3>3. QED
      BY <3>1, <3>2 DEF Reach
  <2>3. QED
    BY <2>1, <2>2 DEF Touches, Canonical
<1>4. ASSUME NEW i \in DOMAIN parts PROVE Sequence(parts[i]) /\ AllTouch(input, who, parts[i])
  <2>1. given[i] \in ToSet(given) /\ parts[i] = Split(Canonical(given[i]))
    BY DEF ToSet
  <2>2. Canonical(given[i]) = [targets |-> Canonical(given[i]).targets, action |-> Canonical(given[i]).action]
    BY DEF Canonical
  <2>3. QED
    BY <1>3, <2>1, <2>2, SplitTouches
<1>5. Sequence(parts)
  <2>1. parts = [i \in 1..Len(given) |-> parts[i]]
    BY <1>2
  <2> HIDE DEF parts
  <2>2. QED
    BY <1>2, <2>1, MakeSequence
<1> HIDE DEF parts
<1>6. \A e \in ToSet(FlattenSeq(parts)) : \E i \in DOMAIN parts : e \in ToSet(parts[i])
  BY <1>4, <1>5, Flattened
<1>7. QED
  BY <1>1, <1>4, <1>6 DEF AllTouch

(* Of the labels that a text names one is the longest. *)
LEMMA LongestExists ==
  ASSUME NEW in \in Inputs, Named(in) # {}
  PROVE  Longest(in) # {}
<1> DEFINE s == in.snapshot
           Size(d) == Length[d.label]
<1>1. Len(s) \in Nat /\ \A d \in ToSet(s) : \E i \in 1..Len(s) : s[i] = d
  BY InputsAssumption, SequenceParts
<1>2. \A i \in 1..Len(s) : Size(s[i]) \in Nat
  BY InputsAssumption, SequenceParts, LengthAssumption
<1>3. Named(in) \subseteq ToSet(s)
  BY DEF Named
<1> HIDE DEF s, Size
<1> DEFINE K == {k \in Nat : k <= Len(s) => \E n \in Nat : \A i \in 1..k : Size(s[i]) <= n}
<1>4. 0 \in K
  OBVIOUS
<1>5. ASSUME NEW k \in K PROVE k + 1 \in K
  <2>1. SUFFICES ASSUME k + 1 <= Len(s)
                 PROVE  \E n \in Nat : \A i \in 1..(k + 1) : Size(s[i]) <= n
    OBVIOUS
  <2>2. PICK n \in Nat : \A i \in 1..k : Size(s[i]) <= n
    BY <1>1, <2>1
  <2> DEFINE size == Size(s[k + 1])
             top  == IF size <= n THEN n ELSE size
  <2>3. size \in Nat
    BY <1>1, <1>2, <2>1
  <2>4. \A i \in 1..k : Size(s[i]) \in Nat
    BY <1>1, <1>2, <2>1
  <2>5. top \in Nat /\ n <= top /\ size <= top
    BY <2>3
  <2>6. \A i \in 1..(k + 1) : i \in 1..k \/ Size(s[i]) = size
    OBVIOUS
  <2> HIDE DEF top, size
  <2>7. \A i \in 1..(k + 1) : Size(s[i]) <= top
    BY <2>2, <2>4, <2>5, <2>6
  <2>8. QED
    BY <2>5, <2>7
<1>6. K = Nat
  <2>1. K \in SUBSET Nat
    OBVIOUS
  <2> HIDE DEF K
  <2>2. QED
    BY <1>4, <1>5, <2>1, EveryNumber
<1> DEFINE B == {n \in Nat : \A d \in Named(in) : Size(d) <= n}
<1>7. B # {}
  <2>1. Len(s) \in K
    BY ONLY <1>1, <1>6
  <2>2. PICK n \in Nat : \A i \in 1..Len(s) : Size(s[i]) <= n
    BY <1>1, <2>1
  <2>3. n \in B
    BY <1>1, <1>3, <2>2
  <2>4. QED
    BY <2>3
<1>8. PICK n \in B : \A m \in B : n <= m
  <2>1. B \in SUBSET Nat
    OBVIOUS
  <2> HIDE DEF B
  <2>2. QED
    BY ONLY <1>7, <2>1, LeastNumber
<1>9. \A d \in Named(in) : Size(d) \in Nat
  BY <1>1, <1>2, <1>3
<1>10. \E d \in Named(in) : Size(d) = n
  <2>1. SUFFICES ASSUME \A d \in Named(in) : Size(d) # n PROVE FALSE
    OBVIOUS
  <2>2. \A d \in Named(in) : Size(d) <= n - 1
    BY <1>9, <2>1
  <2>3. n - 1 \in Nat
    BY <1>9, <2>2
  <2>4. QED
    BY <1>8, <2>2, <2>3
<1>11. QED
  BY <1>10 DEF Longest, Size

LEMMA WrittenParts ==
  ASSUME NEW c
  PROVE  /\ Written(c) = [targets |-> Written(c).targets, action |-> Written(c).action]
         /\ Written(c).action = c.action
         /\ \A t \in Written(c).targets : t.serial \in c.targets
         /\ c.targets # {} => Written(c).targets # {}
<1> DEFINE Reference(x) == [serial |-> x, label |-> ""]
           all == {Reference(x) : x \in c.targets}
<1>1. Written(c) = [targets |-> all, action |-> c.action]
  BY DEF Written
<1>2. \A x : Reference(x).serial = x
  OBVIOUS
<1> HIDE DEF Reference
<1>3. (\A t \in all : t.serial \in c.targets) /\ (c.targets # {} => all # {})
  BY <1>2
<1> HIDE DEF all
<1>4. QED
  BY <1>1, <1>3

(* The runner's plans have the form of plans, and keep to the longest of    *)
(* the labels that the text names.                                          *)
LEMMA GenerateFormed ==
  ASSUME NEW in \in Inputs, NEW said, Sequence(said)
  PROVE  Formed(Generate(in, said)) /\ Explicit(in, Generate(in, said))
<1> DEFINE m == Merged(in, said)
           commands == [i \in DOMAIN m |-> Written(m[i])]
           p == Plan(65000, "medium", {"proposal"}, TRUE, commands)
<1>1. Formed(EmptyPlan) /\ Explicit(in, EmptyPlan)
  BY DEF Formed, IsPlan, Explicit, EmptyPlan, Plan, Sequence, ToSet
<1>2. /\ Sequence(m) /\ Len(m) \in Nat /\ DOMAIN m = 1..Len(m)
      /\ \A i \in DOMAIN m : Made(in, said, m[i])
  BY MergedMade, SequenceParts
<1> HIDE DEF m
<1>3. ToSet(commands) = {Written(m[i]) : i \in DOMAIN m}
  BY DEF ToSet
<1>4. Sequence(commands)
  <2>1. commands = [i \in 1..Len(m) |-> commands[i]]
    BY <1>2
  <2> HIDE DEF commands
  <2>2. QED
    BY <1>2, <2>1, MakeSequence
<1>5. ASSUME NEW i \in DOMAIN m, Named(in) # {}, NEW t \in Written(m[i]).targets
      PROVE  \E d \in Longest(in) : t.serial = d.serial
  <2>1. t.serial \in m[i].targets
    BY WrittenParts
  <2>2. PICK j \in DOMAIN said : m[i].targets = Targets(in, said[j])
    BY <1>2 DEF Made
  <2>3. Targets(in, said[j]) \subseteq ExplicitTargets(in) \/ ExplicitTargets(in) = {}
    BY DEF Targets
  <2>4. ExplicitTargets(in) # {}
    <3>1. Longest(in) # {}
      BY <1>5, LongestExists
    <3>2. QED
      BY <3>1 DEF ExplicitTargets
  <2>5. QED
    BY <2>1, <2>2, <2>3, <2>4 DEF ExplicitTargets
<1>6. Formed(p)
  <2>1. \A c \in ToSet(commands) : c = [targets |-> c.targets, action |-> c.action]
    BY <1>3, WrittenParts
  <2> HIDE DEF commands
  <2>2. QED
    BY <1>4, <2>1 DEF Formed, IsPlan, Plan
<1>7. Explicit(in, p)
  <2>1. p.commands = commands
    BY DEF Plan
  <2> HIDE DEF p
  <2>2. QED
    BY <1>3, <1>5, <2>1 DEF Explicit
<1>8. Proposal(m) = EmptyPlan \/ Proposal(m) = p
  BY DEF Proposal, Plan
<1> HIDE DEF p
<1>9. ExtractPlan(in, said) = Proposal(m)
  BY DEF ExtractPlan, m
<1>10. QED
  BY <1>1, <1>6, <1>7, <1>8, <1>9 DEF Generate

(* Calls with the selectors and the ranges of the tool's schema, and durations *)
(* of thirty-two bits.                                                         *)
InSchema(in, said) ==
  \A call \in ToSet(said) :
     /\ call.selectors # {} /\ call.selectors \subseteq Inventory(in.snapshot)
     /\ \A f \in DOMAIN call.action : call.action[f] \notin Refused

LEMMA GenerateValid ==
  ASSUME NEW said, Sequence(said), InSchema(input, said)
  PROVE  Valid(Generate(input, said))
<1> DEFINE m == Merged(input, said)
           commands == [i \in DOMAIN m |-> Written(m[i])]
           p == Plan(65000, "medium", {"proposal"}, TRUE, commands)
<1>1. Valid(EmptyPlan)
  BY DEF Valid, EmptyPlan, Plan, ToSet
<1>2. /\ Len(m) \in Nat /\ DOMAIN m = 1..Len(m) /\ (m = <<>> <=> Len(m) = 0)
      /\ \A i \in DOMAIN m : Made(input, said, m[i])
  BY MergedMade, SequenceParts
<1>3. InRange(said) /\ \A j \in DOMAIN said : said[j] \in ToSet(said)
  BY DEF InRange, InSchema, ToSet
<1>4. ExtractPlan(input, said) = Proposal(m)
  BY DEF ExtractPlan
<1> HIDE DEF m
<1>5. ToSet(commands) = {Written(m[i]) : i \in DOMAIN m}
  BY DEF ToSet
<1>6. m # <<>> => commands # <<>>
  BY <1>2
<1>7. ASSUME NEW i \in DOMAIN m, NEW t \in Written(m[i]).targets PROVE Knows(t.serial)
  <2>1. t.serial \in m[i].targets
    BY WrittenParts
  <2>2. PICK j \in DOMAIN said : m[i].targets = Targets(input, said[j])
    BY <1>2 DEF Made
  <2>3. said[j].selectors # {}
    BY <1>3 DEF InSchema
  <2>4. \/ t.serial \in ExplicitTargets(input)
        \/ \E x \in said[j].selectors : t.serial \in Resolve(input.snapshot, x)
    BY <2>1, <2>2, <2>3 DEF Targets
  <2>5. \E d \in ToSet(input.snapshot) : t.serial = d.serial
    BY <2>4 DEF ExplicitTargets, Longest, Named, Resolve
  <2>6. QED
    BY <2>5 DEF Knows
<1>8. ASSUME NEW c \in ToSet(commands)
      PROVE  /\ c.targets # {} /\ DOMAIN c.action # {}
             /\ \A f \in DOMAIN c.action : c.action[f] \notin Refused
             /\ \A t \in c.targets : Knows(t.serial)
  <2>1. PICK i \in DOMAIN m : c = Written(m[i])
    BY <1>5
  <2>2. Made(input, said, m[i])
    BY <1>2
  <2>3. QED
    BY <1>3, <1>7, <2>1, <2>2, WrittenParts DEF Made
<1> HIDE DEF commands
<1>9. m # <<>> => Valid(p)
  BY <1>6, <1>8 DEF Valid, Plan
<1>10. Proposal(m) = IF m = <<>> THEN EmptyPlan ELSE p
  BY DEF Proposal, Plan, commands
<1> HIDE DEF p
<1>11. QED
  BY <1>1, <1>4, <1>9, <1>10 DEF Generate
-----------------------------------------------------------------------------

(* What commands leave on a device, one after the other.                    *)
Left(commands, hits, old, k) ==
  IF k \in hits THEN After(old, commands[k].action) ELSE old

Effectwise(f, commands, hits, n) ==
  f = [k \in 0..n |-> IF k = 0 THEN NoAction ELSE Left(commands, hits, f[k - 1], k)]

LEMMA EffectwiseExists ==
  ASSUME NEW commands, NEW hits, NEW n \in Nat
  PROVE  \E f : Effectwise(f, commands, hits, n)
<1> DEFINE K == {k \in Nat : \E f : Effectwise(f, commands, hits, k)}
           Then(old, k) == Left(commands, hits, old, k)
<1>1. 0 \in K
  <2>1. Effectwise([k \in 0..0 |-> NoAction], commands, hits, 0)
    BY DEF Effectwise
  <2>2. QED
    BY <2>1
<1>2. ASSUME NEW k \in K PROVE k + 1 \in K
  <2>1. PICK f : Effectwise(f, commands, hits, k)
    OBVIOUS
  <2> DEFINE g == [j \in 0..(k + 1) |-> IF j = k + 1 THEN Then(f[k], k + 1) ELSE f[j]]
  <2>2. \A j \in 0..k : g[j] = IF j = 0 THEN NoAction ELSE Then(g[j - 1], j)
    <3>1. SUFFICES ASSUME NEW j \in 0..k
                   PROVE  g[j] = IF j = 0 THEN NoAction ELSE Then(g[j - 1], j)
      OBVIOUS
    <3>2. g[j] = f[j] /\ (j # 0 => g[j - 1] = f[j - 1])
      OBVIOUS
    <3>3. f[j] = IF j = 0 THEN NoAction ELSE Then(f[j - 1], j)
      BY <2>1 DEF Effectwise
    <3>4. QED
      BY ONLY <3>2, <3>3
  <2>3. g[k + 1] = Then(g[k], k + 1) /\ k + 1 # 0
    OBVIOUS
  <2>4. \A j \in 0..(k + 1) : g[j] = IF j = 0 THEN NoAction ELSE Then(g[j - 1], j)
    <3>1. SUFFICES ASSUME NEW j \in 0..(k + 1)
                   PROVE  g[j] = IF j = 0 THEN NoAction ELSE Then(g[j - 1], j)
      OBVIOUS
    <3> HIDE DEF g
    <3>2. j \in 0..k \/ (j = k + 1 /\ j - 1 = k)
      OBVIOUS
    <3>3. QED
      BY ONLY <2>2, <2>3, <3>2
  <2>5. g = [j \in 0..(k + 1) |-> g[j]]
    OBVIOUS
  <2> HIDE DEF g
  <2>6. Effectwise(g, commands, hits, k + 1)
    BY ONLY <2>4, <2>5 DEF Effectwise
  <2>7. QED
    BY <2>6
<1>3. K = Nat
  <2>1. K \in SUBSET Nat
    OBVIOUS
  <2> HIDE DEF K
  <2>2. QED
    BY <1>1, <1>2, <2>1, EveryNumber
<1>4. QED
  BY <1>3

LEMMA EffectSteps ==
  ASSUME NEW commands, NEW hits, Len(commands) \in Nat
  PROVE  \E f : /\ f[0] = NoAction /\ f[Len(commands)] = Effect(commands, hits)
                /\ \A k \in 1..Len(commands) : f[k] = Left(commands, hits, f[k - 1], k)
<1> DEFINE f == CHOOSE g : Effectwise(g, commands, hits, Len(commands))
<1>1. Effectwise(f, commands, hits, Len(commands))
  BY EffectwiseExists
<1>2. Effect(commands, hits) = f[Len(commands)]
  BY DEF Effect, Effectwise, Left
<1> HIDE DEF f
<1>3. \A k \in 0..Len(commands) :
        f[k] = IF k = 0 THEN NoAction ELSE Left(commands, hits, f[k - 1], k)
  BY ONLY <1>1 DEF Effectwise
<1>4. QED
  BY <1>2, <1>3

(* Commands that hit a device with the same action leave this action.       *)
LEMMA EffectOfSame ==
  ASSUME NEW commands, Len(commands) \in Nat, NEW hits, hits \subseteq 1..Len(commands),
         NEW a, IsAction(a), \A i \in hits : commands[i].action = a
  PROVE  Effect(commands, hits) = IF hits = {} THEN NoAction ELSE a
<1>1. PICK f : /\ f[0] = NoAction /\ f[Len(commands)] = Effect(commands, hits)
               /\ \A k \in 1..Len(commands) : f[k] = Left(commands, hits, f[k - 1], k)
  BY EffectSteps
<1> DEFINE Good(k) == f[k] = IF \E i \in hits : i <= k THEN a ELSE NoAction
           K == {k \in Nat : k <= Len(commands) => Good(k)}
<1>2. 0 \in K
  BY <1>1
<1>3. ASSUME NEW k \in K PROVE k + 1 \in K
  <2>1. SUFFICES ASSUME k + 1 <= Len(commands) PROVE Good(k + 1)
    OBVIOUS
  <2>2. Good(k) /\ k + 1 \in 1..Len(commands) /\ (k + 1) - 1 = k
    <3>1. k \in Nat /\ (k <= Len(commands) => Good(k))
      OBVIOUS
    <3> HIDE DEF Good
    <3>2. QED
      BY ONLY <2>1, <3>1, Len(commands) \in Nat
  <2>3. f[k + 1] = Left(commands, hits, f[k], k + 1)
    BY <1>1, <2>2
  <2>4. (\E i \in hits : i <= k + 1) <=> (\E i \in hits : i <= k) \/ k + 1 \in hits
    OBVIOUS
  <2>5. f[k] = a \/ f[k] = NoAction
    BY <2>2
  <2>6. QED
    BY <2>2, <2>3, <2>4, <2>5, AfterLaws DEF Left
<1>4. K = Nat
  <2>1. K \in SUBSET Nat
    OBVIOUS
  <2> HIDE DEF K
  <2>2. QED
    BY <1>2, <1>3, <2>1, EveryNumber
<1>5. Good(Len(commands))
  BY <1>4
<1>6. (\E i \in hits : i <= Len(commands)) <=> hits # {}
  <2>1. \A i \in hits : i <= Len(commands)
    OBVIOUS
  <2>2. QED
    BY ONLY <2>1
<1>7. QED
  BY <1>1, <1>5, <1>6

(* Commands that turn off what they hit leave it off.                       *)
LEMMA EffectOfOff ==
  ASSUME NEW commands, Len(commands) \in Nat, NEW hits,
         \A i \in hits : TurnsOff(commands[i].action)
  PROVE  Effect(commands, hits) = NoAction \/ TurnsOff(Effect(commands, hits))
<1>1. PICK f : /\ f[0] = NoAction /\ f[Len(commands)] = Effect(commands, hits)
               /\ \A k \in 1..Len(commands) : f[k] = Left(commands, hits, f[k - 1], k)
  BY EffectSteps
<1> DEFINE K == {k \in Nat : k <= Len(commands) => f[k] = NoAction \/ TurnsOff(f[k])}
<1>2. 0 \in K
  BY <1>1
<1>3. ASSUME NEW k \in K PROVE k + 1 \in K
  <2>1. SUFFICES ASSUME k + 1 <= Len(commands) PROVE f[k + 1] = NoAction \/ TurnsOff(f[k + 1])
    OBVIOUS
  <2>2. k + 1 \in 1..Len(commands) /\ (k + 1) - 1 = k /\ (f[k] = NoAction \/ TurnsOff(f[k]))
    BY <2>1
  <2>3. f[k + 1] = Left(commands, hits, f[k], k + 1)
    BY <1>1, <2>2
  <2>4. \A old, b : TurnsOff(b) => TurnsOff(After(old, b))
    BY DEF TurnsOff, After
  <2>5. QED
    BY <2>2, <2>3, <2>4 DEF Left
<1>4. K = Nat
  <2>1. K \in SUBSET Nat
    OBVIOUS
  <2> HIDE DEF K
  <2>2. QED
    BY <1>2, <1>3, <2>1, EveryNumber
<1>5. QED
  BY <1>1, <1>4
(* merge_commands leaves on a device what the commands did, if those that   *)
(* reach it have the same targets.                                          *)
Reaches(c, t) == \E s \in c.targets : Lower(s) = t

(* e is what the commands of s leave on the device with serial t. *)
Leaves(s, t, e) ==
  /\ \A i \in DOMAIN s : Reaches(s[i], t) => s[i].action = e
  /\ (\A i \in DOMAIN s : ~Reaches(s[i], t)) => e = NoAction

SameTargets(s, c, t) ==
  \A i \in DOMAIN s : Reaches(s[i], t) /\ Reaches(c, t) => s[i].targets = c.targets

ReachedBy(s, c, m, t) ==
  /\ (\E i \in DOMAIN m : Reaches(m[i], t))
       <=> Reaches(c, t) \/ \E i \in DOMAIN s : Reaches(s[i], t)
  /\ \A i \in DOMAIN m : \/ m[i].targets = c.targets
                         \/ \E j \in DOMAIN s : m[i].targets = s[j].targets

LEMMA MergeOneEffect ==
  ASSUME NEW s, Sequence(s), NEW c, IsAction(c.action), NEW t, NEW e,
         Leaves(s, t, e), SameTargets(s, c, t)
  PROVE  /\ Leaves(MergeOne(s, c), t, IF Reaches(c, t) THEN After(e, c.action) ELSE e)
         /\ ReachedBy(s, c, MergeOne(s, c), t)
<1> DEFINE m  == MergeOne(s, c)
           e2 == IF Reaches(c, t) THEN After(e, c.action) ELSE e
<1>1. Added(s, c, m) \/ Folded(s, c, m)
  BY MergeOneAdds
<1>2. \A x, y : x.targets = y.targets => (Reaches(x, t) <=> Reaches(y, t))
  BY DEF Reaches
<1> HIDE DEF m
<1>3. CASE Added(s, c, m)
  <2>1. /\ \A i \in DOMAIN m : i \in DOMAIN s \/ i = Len(s) + 1
        /\ \A i \in DOMAIN s : i \in DOMAIN m /\ m[i] = s[i] /\ s[i].targets # c.targets
        /\ Len(s) + 1 \in DOMAIN m /\ m[Len(s) + 1] = c
    BY <1>3 DEF Added
  <2>2. Reaches(c, t) => \A i \in DOMAIN s : ~Reaches(s[i], t)
    BY <2>1 DEF SameTargets
  <2>3. Reaches(c, t) => After(e, c.action) = c.action
    BY <2>2, AfterLaws DEF Leaves
  <2>4. ReachedBy(s, c, m, t)
    BY <2>1 DEF ReachedBy
  <2>5. Leaves(m, t, e2)
    BY <2>1, <2>2, <2>3 DEF Leaves
  <2>6. QED
    BY <2>4, <2>5 DEF m
<1>4. CASE Folded(s, c, m)
  <2>1. /\ DOMAIN m = DOMAIN s
        /\ \A i \in DOMAIN s : m[i] = IF s[i].targets = c.targets THEN Joint(s[i], c) ELSE s[i]
        /\ \E i \in DOMAIN s : s[i].targets = c.targets
    BY <1>4 DEF Folded
  <2>2. \A i \in DOMAIN s :
          /\ m[i].targets = s[i].targets
          /\ s[i].targets = c.targets => m[i].action = After(s[i].action, c.action)
          /\ s[i].targets # c.targets => m[i].action = s[i].action
    BY <2>1 DEF Joint
  <2>3. \A i \in DOMAIN s : Reaches(m[i], t) <=> Reaches(s[i], t)
    BY <1>2, <2>2
  <2>4. ReachedBy(s, c, m, t)
    BY <1>2, <2>1, <2>2, <2>3 DEF ReachedBy
  <2>5. Leaves(m, t, e2)
    BY <1>2, <2>1, <2>2, <2>3 DEF Leaves, SameTargets
  <2>6. QED
    BY <2>4, <2>5 DEF m
<1>5. QED
  BY <1>1, <1>3, <1>4

Asked(in, said)   == [i \in DOMAIN said |-> Command(in, said[i])]
Used(in, said)    == {i \in DOMAIN said : Usable(Command(in, said[i]))}
Hits(in, said, t) == {i \in Used(in, said) : Reaches(Command(in, said[i]), t)}

LEMMA MergedEffect ==
  ASSUME NEW in, NEW said, Sequence(said), NEW t,
         \A i, j \in Hits(in, said, t) : Command(in, said[i]).targets = Command(in, said[j]).targets
  PROVE  Leaves(Merged(in, said), t, Effect(Asked(in, said), Hits(in, said, t)))
<1> DEFINE hits == Hits(in, said, t)
           C(j) == Command(in, said[j])
<1>1. Len(said) \in Nat /\ DOMAIN said = 1..Len(said)
  BY SequenceParts
<1>2. Len(Asked(in, said)) = Len(said) /\ \A i \in DOMAIN said : Asked(in, said)[i] = C(i)
  <2> DEFINE asked == Asked(in, said)
  <2>1. asked = [i \in 1..Len(said) |-> asked[i]] /\ \A i \in DOMAIN said : asked[i] = C(i)
    BY <1>1 DEF Asked
  <2> HIDE DEF asked
  <2>2. Len(asked) = Len(said)
    BY <1>1, <2>1, MakeSequence
  <2>3. QED
    BY <2>1, <2>2 DEF asked
<1>3. PICK f : Stepwise(f, in, said, Len(said)) /\ Merged(in, said) = f[Len(said)]
  BY <1>1, MergedStepwise
<1>4. PICK g : /\ g[0] = NoAction /\ g[Len(said)] = Effect(Asked(in, said), hits)
               /\ \A k \in 1..Len(said) : g[k] = Left(Asked(in, said), hits, g[k - 1], k)
  BY <1>1, <1>2, EffectSteps
<1>5. \A j \in hits : j \in DOMAIN said /\ Usable(C(j)) /\ Reaches(C(j), t)
  BY DEF Hits, Used
<1>6. \A j \in DOMAIN said : Usable(C(j)) /\ Reaches(C(j), t) => j \in hits
  BY DEF Hits, Used
<1>7. \A i, j \in hits : C(i).targets = C(j).targets
  OBVIOUS
<1> HIDE DEF hits, C
<1> DEFINE Good(s, e, k) ==
             /\ Sequence(s)
             /\ Leaves(s, t, e)
             /\ \A i \in DOMAIN s : Reaches(s[i], t) =>
                  \E j \in hits : j <= k /\ s[i].targets = C(j).targets
           K == {k \in Nat : k <= Len(said) => Good(f[k], g[k], k)}
<1>8. 0 \in K
  <2>1. f[0] = <<>>
    BY <1>1, <1>3 DEF Stepwise
  <2>2. Sequence(<<>>) /\ DOMAIN <<>> = {}
    BY DEF Sequence
  <2>3. QED
    BY <1>4, <2>1, <2>2 DEF Leaves
<1>9. ASSUME NEW k \in K PROVE k + 1 \in K
  <2>0. k \in Nat /\ (k <= Len(said) => Good(f[k], g[k], k))
    OBVIOUS
  <2> HIDE DEF Good
  <2>1. SUFFICES ASSUME k + 1 <= Len(said) PROVE Good(f[k + 1], g[k + 1], k + 1)
    BY <2>0
  <2>2. Good(f[k], g[k], k)
    BY <1>1, <2>0, <2>1
  <2>3. /\ k + 1 \in 0..Len(said) /\ k + 1 # 0 /\ (k + 1) - 1 = k
        /\ k + 1 \in DOMAIN said /\ k + 1 \in 1..Len(said)
    BY <1>1, <2>0, <2>1
  <2>4. f[k + 1] = Step(in, said, f[k], k + 1)
    BY <1>3, <2>3 DEF Stepwise
  <2>5. g[k + 1] = IF k + 1 \in hits THEN After(g[k], C(k + 1).action) ELSE g[k]
    BY <1>2, <1>4, <2>3 DEF Left
  <2>6. \A j \in hits : j \in Nat /\ (j <= k + 1 <=> j <= k \/ j = k + 1)
    BY <1>1, <1>5, <2>0
  <2>7. CASE ~Usable(C(k + 1))
    <3>1. f[k + 1] = f[k] /\ k + 1 \notin hits
      BY <1>5, <2>4, <2>7 DEF Step, C
    <3>2. QED
      BY <2>2, <2>5, <2>6, <3>1 DEF Good
  <2>8. CASE Usable(C(k + 1))
    <3> DEFINE c == C(k + 1)
               m == MergeOne(f[k], c)
    <3>1. f[k + 1] = m /\ (k + 1 \in hits <=> Reaches(c, t)) /\ IsAction(c.action)
      <4>1. IsAction(c.action)
        BY <2>3, <2>8, CommandMade DEF Made, C
      <4>2. QED
        BY <1>5, <1>6, <2>3, <2>4, <2>8, <4>1 DEF Step, C
    <3>2. SameTargets(f[k], c, t)
      BY <1>7, <2>2, <3>1 DEF Good, SameTargets
    <3>3. Sequence(f[k]) /\ Leaves(f[k], t, g[k])
      BY <2>2 DEF Good
    <3> HIDE DEF c
    <3>4. /\ Leaves(m, t, IF Reaches(c, t) THEN After(g[k], c.action) ELSE g[k])
          /\ ReachedBy(f[k], c, m, t)
      BY <3>1, <3>2, <3>3, MergeOneEffect
    <3> HIDE DEF m
    <3>5. Sequence(m)
      BY <3>3, MergeOneAdds DEF m
    <3>6. ASSUME NEW i \in DOMAIN m, Reaches(m[i], t)
          PROVE  \E j \in hits : j <= k + 1 /\ m[i].targets = C(j).targets
      <4>1. CASE m[i].targets = c.targets
        <5>1. k + 1 \in hits
          BY <3>1, <3>6, <4>1 DEF Reaches
        <5>2. QED
          BY <2>6, <4>1, <5>1 DEF c
      <4>2. CASE \E j \in DOMAIN f[k] : m[i].targets = f[k][j].targets
        <5>1. PICK j \in DOMAIN f[k] : m[i].targets = f[k][j].targets
          BY <4>2
        <5>2. Reaches(f[k][j], t)
          BY <3>6, <5>1 DEF Reaches
        <5>3. QED
          BY <2>2, <2>6, <5>1, <5>2 DEF Good
      <4>3. QED
        BY <3>4, <4>1, <4>2 DEF ReachedBy
    <3>7. g[k + 1] = IF Reaches(c, t) THEN After(g[k], c.action) ELSE g[k]
      BY <2>5, <3>1 DEF c
    <3>8. QED
      BY <3>1, <3>4, <3>5, <3>6, <3>7 DEF Good
  <2>9. QED
    BY <2>7, <2>8
<1>10. K = Nat
  <2>1. K \in SUBSET Nat
    OBVIOUS
  <2> HIDE DEF K
  <2>2. QED
    BY <1>8, <1>9, <2>1, EveryNumber
<1>11. Good(Merged(in, said), Effect(Asked(in, said), hits), Len(said))
  <2>1. Len(said) \in K
    BY <1>1, <1>10
  <2>2. QED
    BY <1>1, <1>3, <1>4, <2>1
<1>12. QED
  BY <1>11 DEF hits

(* Validation and the power it adds: what an accepted plan does to a device *)
(* is what the proposal did, and the power to show it.                      *)
Meets(c, d)    == \E t \in c.targets : t.serial = Lower(d.serial)
MeetsAny(c, d) == \E t \in c.targets : Lower(t.serial) = Lower(d.serial)

LEMMA LowerTwice == \A s : Lower(Lower(s)) = Lower(s)
BY DEF Lower

LEMMA SplitShows ==
  ASSUME input \in Inputs, NEW d \in ToSet(input.snapshot),
         NEW c, c = [targets |-> c.targets, action |-> c.action]
  PROVE  /\ \A e \in ToSet(Split(c)) :
              /\ Meets(e, d) => Meets(c, d) /\ e.action = Shown(c.action, d)
              /\ e.action = c.action \/ "power" \notin DOMAIN c.action
         /\ Meets(c, d) => \E e \in ToSet(Split(c)) : Meets(e, d)
<1> DEFINE off   == SwitchedOff(c.targets)
           lit   == After(c.action, [power |-> "on"])
           woken == [targets |-> off, action |-> lit]
           rest  == [targets |-> c.targets \ off, action |-> c.action]
           plain == "power" \in DOMAIN c.action \/ DOMAIN c.action \cap Visual = {}
<1>1. \A t \in c.targets : t.serial = Lower(d.serial) => Device(t.serial) = d
  <2>1. ASSUME NEW t \in c.targets, t.serial = Lower(d.serial) PROVE Device(t.serial) = d
    <3>1. Lower(d.serial) = Lower(t.serial)
      BY <2>1, LowerTwice
    <3>2. Knows(t.serial)
      BY <3>1 DEF Knows
    <3>3. Device(t.serial) \in ToSet(input.snapshot) /\ Lower(Device(t.serial).serial) = Lower(t.serial)
      BY <3>2, TrustedDevice
    <3>4. QED
      BY <3>1, <3>3, OneDevice
  <2>2. QED
    BY <2>1
<1>2. \A t \in c.targets : t.serial = Lower(d.serial) => (t \in off <=> d.power # "on")
  BY <1>1 DEF SwitchedOff
<1>3. off \subseteq c.targets
  BY DEF SwitchedOff
<1>4. /\ Meets(woken, d) <=> Meets(c, d) /\ d.power # "on"
      /\ Meets(rest, d) <=> Meets(c, d) /\ d.power = "on"
  BY <1>2, <1>3 DEF Meets
<1>5. Shown(c.action, d) = IF plain \/ d.power = "on" THEN c.action ELSE lit
  BY DEF Shown
<1>6. Split(c) = IF plain \/ off = {} THEN <<c>>
                 ELSE IF off = c.targets THEN <<woken>> ELSE <<woken, rest>>
  BY DEF Split
<1>7. /\ off = {} => ~Meets(woken, d)
      /\ off = c.targets => ~Meets(rest, d)
  BY DEF Meets
<1>8. woken.action = lit /\ rest.action = c.action /\ ("power" \in DOMAIN c.action => plain)
  OBVIOUS
<1> HIDE DEF off, lit, woken, rest, plain
<1>9. ToSet(<<c>>) = {c} /\ ToSet(<<woken>>) = {woken} /\ ToSet(<<woken, rest>>) = {woken, rest}
  BY DEF ToSet
<1>10. CASE plain \/ off = {}
  <2>1. ToSet(Split(c)) = {c}
    BY <1>6, <1>9, <1>10
  <2>2. Meets(c, d) => c.action = Shown(c.action, d)
    BY <1>4, <1>5, <1>7, <1>10
  <2>3. QED
    BY <2>1, <2>2
<1>11. CASE ~plain /\ off # {} /\ off = c.targets
  <2>1. ToSet(Split(c)) = {woken}
    BY <1>6, <1>9, <1>11
  <2>2. Meets(c, d) <=> Meets(woken, d)
    BY <1>4, <1>7, <1>11
  <2>3. Meets(woken, d) => lit = Shown(c.action, d)
    BY <1>4, <1>5, <1>11
  <2>4. QED
    BY <1>8, <1>11, <2>1, <2>2, <2>3
<1>12. CASE ~plain /\ off # {} /\ off # c.targets
  <2>1. ToSet(Split(c)) = {woken, rest}
    BY <1>6, <1>9, <1>12
  <2>2. Meets(c, d) <=> Meets(woken, d) \/ Meets(rest, d)
    BY <1>4
  <2>3. /\ Meets(woken, d) => lit = Shown(c.action, d)
        /\ Meets(rest, d) => c.action = Shown(c.action, d)
    BY <1>4, <1>5, <1>12
  <2>4. QED
    BY <1>8, <1>12, <2>1, <2>2, <2>3
<1>13. QED
  BY <1>10, <1>11, <1>12

LEMMA AcceptedShows ==
  ASSUME input \in Inputs, NEW p, Formed(p), NEW d \in ToSet(input.snapshot)
  PROVE  /\ Sequence(Accepted(p).commands)
         /\ \A c \in ToSet(Accepted(p).commands) : Meets(c, d) =>
              \E g \in ToSet(p.commands) : MeetsAny(g, d) /\ c.action = Shown(g.action, d)
         /\ \A c \in ToSet(Accepted(p).commands) :
              \E g \in ToSet(p.commands) : c.action = g.action \/ "power" \notin DOMAIN g.action
         /\ \A g \in ToSet(p.commands) : MeetsAny(g, d) =>
              \E c \in ToSet(Accepted(p).commands) : Meets(c, d)
<1> DEFINE given == p.commands
           parts == [i \in DOMAIN given |-> Split(Canonical(given[i]))]
           made  == FlattenSeq(parts)
<1>1. Accepted(p).commands = made
  BY DEF Accepted, Formed, IsPlan
<1>2. /\ Sequence(given) /\ Len(given) \in Nat /\ DOMAIN given = 1..Len(given)
      /\ \A g : g \in ToSet(given) <=> \E i \in DOMAIN given : given[i] = g
  BY SequenceParts DEF Formed
<1>3. ASSUME NEW g
      PROVE  /\ Canonical(g) = [targets |-> Canonical(g).targets, action |-> Canonical(g).action]
             /\ Canonical(g).action = g.action
             /\ Meets(Canonical(g), d) <=> MeetsAny(g, d)
  <2>1. Canonical(g) = [targets |-> {Trusted(t.serial) : t \in g.targets}, action |-> g.action]
    BY DEF Canonical
  <2>2. \A s : Trusted(s).serial = Lower(s)
    BY DEF Trusted
  <2>3. QED
    BY <2>1, <2>2 DEF Meets, MeetsAny
<1>4. Sequence(parts) /\ \A i \in DOMAIN parts : Sequence(parts[i])
  <2>1. parts = [i \in 1..Len(given) |-> parts[i]]
    BY <1>2
  <2>2. \A c : Sequence(Split(c))
    <3>1. \A x, y : Sequence(<<x>>) /\ Sequence(<<x, y>>)
      BY DEF Sequence, ToSet
    <3>2. QED
      BY <3>1 DEF Split
  <2>3. \A i \in DOMAIN parts : Sequence(parts[i])
    BY <2>2
  <2> HIDE DEF parts
  <2>4. QED
    BY <1>2, <2>1, <2>3, MakeSequence
<1>5. \A i \in DOMAIN given : parts[i] = Split(Canonical(given[i]))
  OBVIOUS
<1>6. DOMAIN parts = DOMAIN given
  OBVIOUS
<1> HIDE DEF parts, given
<1>7. Sequence(made) /\ \A e : e \in ToSet(made) <=> \E i \in DOMAIN given : e \in ToSet(parts[i])
  BY <1>4, <1>6, Flattened
<1> HIDE DEF made
<1>8. ASSUME NEW c \in ToSet(made)
      PROVE  \E g \in ToSet(given) : /\ Meets(c, d) => MeetsAny(g, d) /\ c.action = Shown(g.action, d)
                                     /\ c.action = g.action \/ "power" \notin DOMAIN g.action
  <2>1. PICK i \in DOMAIN given : c \in ToSet(parts[i])
    BY <1>7
  <2> DEFINE g == given[i]
  <2>2. g \in ToSet(given) /\ parts[i] = Split(Canonical(g))
    BY <1>2, <1>5
  <2> HIDE DEF g
  <2>3. c \in ToSet(Split(Canonical(g)))
    BY <2>1, <2>2
  <2>4. /\ Meets(c, d) => Meets(Canonical(g), d) /\ c.action = Shown(Canonical(g).action, d)
        /\ c.action = Canonical(g).action \/ "power" \notin DOMAIN Canonical(g).action
    BY <1>3, <2>3, SplitShows
  <2>5. QED
    BY <1>3, <2>2, <2>4
<1>9. ASSUME NEW g \in ToSet(given), MeetsAny(g, d) PROVE \E c \in ToSet(made) : Meets(c, d)
  <2>1. PICK i \in DOMAIN given : given[i] = g
    BY <1>2
  <2>2. PICK c \in ToSet(Split(Canonical(g))) : Meets(c, d)
    BY <1>3, <1>9, SplitShows
  <2>3. QED
    BY <1>5, <1>7, <2>1, <2>2
<1>10. QED
  BY <1>1, <1>7, <1>8, <1>9 DEF given

LEMMA GeneratedCommands ==
  ASSUME NEW in, NEW said, Sequence(said)
  PROVE  LET m == Merged(in, said)
         IN  ToSet(Generate(in, said).commands)
               = IF Relevant(in) THEN {Written(m[i]) : i \in DOMAIN m} ELSE {}
<1> DEFINE m == Merged(in, said)
           commands == [i \in DOMAIN m |-> Written(m[i])]
<1>1. Sequence(m) /\ DOMAIN m = 1..Len(m) /\ (m = <<>> <=> Len(m) = 0) /\ Len(m) \in Nat
  BY MergedMade, SequenceParts
<1>2. ToSet(EmptyPlan.commands) = {}
  BY DEF EmptyPlan, Plan, ToSet
<1>3. Proposal(m).commands = IF m = <<>> THEN EmptyPlan.commands ELSE commands
  BY DEF Proposal, Plan
<1>4. ToSet(commands) = {Written(m[i]) : i \in DOMAIN m}
  BY DEF ToSet
<1>5. m = <<>> => DOMAIN m = {}
  BY <1>1
<1>6. Generate(in, said) = IF Relevant(in) THEN Proposal(m) ELSE EmptyPlan
  BY DEF Generate, ExtractPlan
<1> HIDE DEF m, commands
<1>7. QED
  BY <1>2, <1>3, <1>4, <1>5, <1>6 DEF m

LEMMA RunnerKeeps ==
  ASSUME input \in Inputs, NEW said, Sequence(said)
  PROVE  Keeps(input, said, Accepted(Generate(input, said)).commands)
<1> DEFINE m    == Merged(input, said)
           p    == Generate(input, said)
           made == Accepted(p).commands
           C(i) == Command(input, said[i])
           asked   == [i \in DOMAIN said |-> C(i)]
           used    == {i \in DOMAIN said : Relevant(input) /\ Usable(asked[i])}
           reached == [i \in used |-> {Lower(s) : s \in asked[i].targets}]
           hits(d) == {i \in used : Lower(d.serial) \in reached[i]}
           met(d)  == {i \in DOMAIN made : \E t \in made[i].targets : t.serial = Lower(d.serial)}
           wanted(d) == Effect(asked, hits(d))
           left(d)   == Effect(made, met(d))
           apart == \A i, j \in used :
                      reached[i] \cap reached[j] # {} => asked[i].targets = asked[j].targets
<1>1. Formed(p)
  BY GenerateFormed
<1>2. /\ \A i \in DOMAIN m : Made(input, said, m[i])
      /\ Len(said) \in Nat /\ DOMAIN said = 1..Len(said)
  BY MergedMade, SequenceParts
<1>3. ToSet(p.commands) = IF Relevant(input) THEN {Written(m[i]) : i \in DOMAIN m} ELSE {}
  BY GeneratedCommands
<1>4. ASSUME NEW i, NEW d
      PROVE  /\ Written(m[i]).action = m[i].action
             /\ MeetsAny(Written(m[i]), d) <=> Reaches(m[i], Lower(d.serial))
  <2> DEFINE c == m[i]
             w == Written(c)
  <2>1. w.action = c.action /\ w.targets = {[serial |-> s, label |-> ""] : s \in c.targets}
    BY DEF Written
  <2> HIDE DEF c, w
  <2>2. ASSUME MeetsAny(w, d) PROVE Reaches(c, Lower(d.serial))
    <3>1. PICK t \in w.targets : Lower(t.serial) = Lower(d.serial)
      BY <2>2 DEF MeetsAny
    <3>2. PICK s \in c.targets : t = [serial |-> s, label |-> ""]
      BY <2>1
    <3>3. QED
      BY <3>1, <3>2 DEF Reaches
  <2>3. ASSUME Reaches(c, Lower(d.serial)) PROVE MeetsAny(w, d)
    <3>1. PICK s \in c.targets : Lower(s) = Lower(d.serial)
      BY <2>3 DEF Reaches
    <3> DEFINE t == [serial |-> s, label |-> ""]
    <3>2. t \in w.targets /\ t.serial = s
      BY <2>1
    <3>3. QED
      BY <3>1, <3>2 DEF MeetsAny
  <2>4. QED
    BY <2>1, <2>2, <2>3 DEF c, w
<1>5. \A i \in DOMAIN said : asked[i] = C(i)
  OBVIOUS
<1>6. \A i \in used : \A t : t \in reached[i] <=> Reaches(C(i), t)
  BY <1>5 DEF Reaches
<1>7. Len(asked) \in Nat
  <2>1. asked = [i \in 1..Len(said) |-> asked[i]]
    BY <1>2
  <2> HIDE DEF asked
  <2>2. QED
    BY <1>2, <2>1, MakeSequence
<1>8. asked = Asked(input, said)
  BY DEF Asked
<1>9. Relevant(input) => used = Used(input, said)
  BY <1>5 DEF Used
<1>10. ~Relevant(input) => used = {}
  OBVIOUS
<1> HIDE DEF m, p, asked, used, reached, C
<1>11. ASSUME NEW d \in ToSet(input.snapshot)
       PROVE  /\ Len(made) \in Nat /\ met(d) \subseteq 1..Len(made)
              /\ \A i \in met(d) : made[i] \in ToSet(made) /\ Meets(made[i], d)
              /\ \A c \in ToSet(made) : Meets(c, d) => met(d) # {}
              /\ \A c \in ToSet(made) : Meets(c, d) =>
                   \E g \in ToSet(p.commands) : MeetsAny(g, d) /\ c.action = Shown(g.action, d)
              /\ \A c \in ToSet(made) :
                   \E g \in ToSet(p.commands) : c.action = g.action \/ "power" \notin DOMAIN g.action
              /\ \A g \in ToSet(p.commands) : MeetsAny(g, d) =>
                   \E c \in ToSet(made) : Meets(c, d)
  <2>1. /\ Sequence(made)
        /\ \A c \in ToSet(made) : Meets(c, d) =>
             \E g \in ToSet(p.commands) : MeetsAny(g, d) /\ c.action = Shown(g.action, d)
        /\ \A c \in ToSet(made) :
             \E g \in ToSet(p.commands) : c.action = g.action \/ "power" \notin DOMAIN g.action
        /\ \A g \in ToSet(p.commands) : MeetsAny(g, d) =>
             \E c \in ToSet(made) : Meets(c, d)
    BY <1>1, AcceptedShows
  <2> HIDE DEF made
  <2>2. /\ Len(made) \in Nat /\ DOMAIN made = 1..Len(made)
        /\ \A e : e \in ToSet(made) <=> \E i \in 1..Len(made) : made[i] = e
    BY <2>1, SequenceParts
  <2>3. \A i \in met(d) : i \in DOMAIN made /\ Meets(made[i], d)
    BY DEF Meets
  <2>4. \A i \in DOMAIN made : Meets(made[i], d) => i \in met(d)
    BY DEF Meets
  <2> HIDE DEF met
  <2>5. QED
    BY <2>1, <2>2, <2>3, <2>4
<1> HIDE DEF made
<1>12. ASSUME apart, NEW d \in ToSet(input.snapshot) PROVE left(d) = Shown(wanted(d), d)
  <2>1. CASE ~Relevant(input)
    <3>1. hits(d) = {} /\ ToSet(p.commands) = {}
      BY <1>3, <1>10, <2>1
    <3>2. met(d) = {}
      BY <1>11, <3>1
    <3>3. wanted(d) = NoAction /\ left(d) = NoAction
      BY <1>7, <1>11, <3>1, <3>2, AfterLaws, EffectOfSame
    <3>4. QED
      BY <3>3, AfterLaws DEF Shown
  <2>2. CASE Relevant(input)
    <3> DEFINE t == Lower(d.serial)
               e == wanted(d)
    <3>1. hits(d) = Hits(input, said, t)
      BY <1>6, <1>9, <2>2 DEF Hits, C
    <3>2. \A i, j \in Hits(input, said, t) : C(i).targets = C(j).targets
      <4>1. ASSUME NEW i \in hits(d), NEW j \in hits(d) PROVE C(i).targets = C(j).targets
        <5>1. i \in used /\ j \in used /\ t \in reached[i] \cap reached[j]
          OBVIOUS
        <5>2. asked[i] = C(i) /\ asked[j] = C(j)
          BY <1>5, <5>1 DEF used
        <5>3. QED
          BY <1>12, <5>1, <5>2
      <4>2. QED
        BY <3>1, <4>1
    <3>3. Leaves(m, t, e)
      <4>1. Leaves(m, t, Effect(Asked(input, said), Hits(input, said, t)))
        BY <3>2, MergedEffect DEF m, C
      <4>2. QED
        BY <1>8, <3>1, <4>1
    <3> HIDE DEF t, e
    <3>4. CASE \A i \in DOMAIN m : ~Reaches(m[i], t)
      <4>1. \A g \in ToSet(p.commands) : ~MeetsAny(g, d)
        BY <1>3, <1>4, <2>2, <3>4 DEF t
      <4>2. met(d) = {}
        BY <1>11, <4>1
      <4>3. e = NoAction /\ left(d) = NoAction
        BY <1>11, <3>3, <3>4, <4>2, AfterLaws, EffectOfSame DEF Leaves
      <4>4. Shown(NoAction, d) = NoAction
        BY AfterLaws DEF Shown
      <4>5. QED
        BY <4>3, <4>4 DEF e
    <3>5. CASE \E i \in DOMAIN m : Reaches(m[i], t)
      <4>1. PICK i \in DOMAIN m : Reaches(m[i], t)
        BY <3>5
      <4>2. e = m[i].action /\ IsAction(e)
        BY <1>2, <3>3, <4>1 DEF Leaves, Made
      <4>3. IsAction(Shown(e, d))
        BY <4>2, AfterLaws DEF Shown
      <4>4. \A g \in ToSet(p.commands) : MeetsAny(g, d) => g.action = e
        BY <1>3, <1>4, <2>2, <3>3 DEF Leaves, t
      <4>5. \A j \in met(d) : made[j].action = Shown(e, d)
        BY <1>11, <4>4
      <4>6. met(d) # {}
        <5>1. Written(m[i]) \in ToSet(p.commands) /\ MeetsAny(Written(m[i]), d)
          BY <1>3, <1>4, <2>2, <4>1 DEF t
        <5>2. QED
          BY <1>11, <5>1
      <4>7. left(d) = Shown(e, d)
        <5> DEFINE a  == Shown(e, d)
                   hs == met(d)
        <5>1. /\ IsAction(a) /\ hs # {} /\ hs \subseteq 1..Len(made) /\ Len(made) \in Nat
              /\ \A j \in hs : made[j].action = a
          BY <1>11, <4>3, <4>5, <4>6
        <5> HIDE DEF a, hs
        <5>2. Effect(made, hs) = a
          BY <5>1, EffectOfSame
        <5>3. QED
          BY <5>2 DEF a, hs
      <4>8. QED
        BY <4>7 DEF e
    <3>6. QED
      BY <3>4, <3>5
  <2>3. QED
    BY <2>1, <2>2
<1>13. ASSUME AsksOff(input), NEW d \in ToSet(input.snapshot), DOMAIN left(d) # {}
       PROVE  left(d)["power"] = "off"
  <2>1. \A g \in ToSet(p.commands) : TurnsOff(g.action)
    BY <1>2, <1>3, <1>4, <1>13 DEF Made
  <2>2. \A i \in met(d) : TurnsOff(made[i].action)
    BY <1>11, <2>1 DEF TurnsOff
  <2>3. left(d) = NoAction \/ TurnsOff(left(d))
    BY <1>11, <2>2, EffectOfOff
  <2>4. QED
    BY <1>13, <2>3, AfterLaws DEF TurnsOff
<1>14. QED
  <2>1. Keeps(input, said, made) <=>
          /\ apart => \A d \in ToSet(input.snapshot) : left(d) = Shown(wanted(d), d)
          /\ AsksOff(input) => \A d \in ToSet(input.snapshot) :
                                 DOMAIN left(d) # {} => left(d)["power"] = "off"
    BY DEF Keeps, AsksOff, asked, used, reached, C
  <2>2. QED
    BY <1>12, <1>13, <2>1 DEF made, p
-----------------------------------------------------------------------------

Vague(in) == in.text.words \cap {"cozy", "random"}
Alikes(in) ==
  \E i, j \in DOMAIN in.snapshot :
    /\ i # j /\ in.snapshot[i].label = in.snapshot[j].label
    /\ in.snapshot[i].label \in in.text.names

Clear(in, r) == r.commands # <<>> /\ Vague(in) = {} /\ ~Alikes(in)

(* No command, or two of the three doubts. *)
Poor(in, r) ==
  r.commands = <<>> \/ Vague(in) = {"cozy", "random"} \/ (Vague(in) # {} /\ Alikes(in))

(* The score of the rules tells clear requests from the others. *)
Scored(in, r) ==
  /\ IsPlan(r)
  /\ Clear(in, r) => ~r.confirm /\ r.level = "high" /\ ~(r.confidence < Threshold)
  /\ ~Clear(in, r) => r.confirm /\ r.level # "high" /\ r.confidence < Threshold
  /\ r.level = "low" <=> Poor(in, r)
  /\ "unavailable" \notin r.reasons

LEMMA RulesScored ==
  ASSUME NEW parsed \in Parses
  PROVE  Scored(input, RulesPlan(parsed))
<1> DEFINE r == RulesPlan(parsed)
           score == IF parsed = <<>> THEN 10000 ELSE Confidence
           commands == [i \in DOMAIN parsed |-> [targets |-> {Trusted(s) : s \in parsed[i].targets},
                                                action |-> parsed[i].action]]
           reasons == IF parsed = <<>> THEN {"nothing"} ELSE IF Reasons = {} THEN {"exact"} ELSE Reasons
<1>1. /\ IsPlan(r) /\ r.confidence = score /\ r.level = Level(score) /\ r.reasons = reasons
      /\ r.commands = commands
  BY DEF RulesPlan, Plan, IsPlan
<1>0. r = Plan(score, Level(score), reasons, score < 90000, commands)
  BY DEF RulesPlan
<1>2. commands # <<>> <=> parsed # <<>>
  BY ParsesAssumption, SequenceParts
<1> HIDE DEF commands
<1>3. Reasons \subseteq {"ambiguous", "cozy", "random"}
  BY DEF Reasons
<1>4. /\ Reasons = {} => Confidence = 95000
      /\ Reasons # {} => Confidence \in Int /\ Confidence <= 74999
  <2> DEFINE a == Deduction("ambiguous", 25000)
             b == Deduction("cozy", 35000)
             d == Deduction("random", 20001)
  <2>1. /\ a = IF "ambiguous" \in Reasons THEN 25000 ELSE 0
        /\ b = IF "cozy" \in Reasons THEN 35000 ELSE 0
        /\ d = IF "random" \in Reasons THEN 20001 ELSE 0
    BY DEF Deduction
  <2>2. Confidence = 95000 - a - b - d
    BY DEF Confidence
  <2> HIDE DEF a, b, d
  <2>3. a \in {0, 25000} /\ b \in {0, 35000} /\ d \in {0, 20001}
    BY ONLY <2>1
  <2>4. Reasons = {} => a = 0 /\ b = 0 /\ d = 0
    BY ONLY <2>1
  <2>5. ASSUME NEW x \in Reasons PROVE a # 0 \/ b # 0 \/ d # 0
    <3>1. x = "ambiguous" \/ x = "cozy" \/ x = "random"
      BY <1>3
    <3>2. QED
      BY <2>1, <3>1
  <2>6. QED
    BY ONLY <2>2, <2>3, <2>4, <2>5
<1>5. Clear(input, r) <=> parsed # <<>> /\ Reasons = {}
  <2>1. (Reasons = {}) <=> (Vague(input) = {} /\ ~Ambiguous)
    BY DEF Reasons, Vague
  <2>2. Ambiguous <=> Alikes(input)
    BY DEF Ambiguous, Shared, Alikes
  <2> QED
    BY <1>1, <1>2, <2>1, <2>2 DEF Clear
<1>6. score = 95000 \/ (score \in Int /\ score <= 74999)
  BY <1>4
<1>7. (score = 95000) <=> Clear(input, r)
  BY <1>4, <1>5
<1>low. Level(score) = "low" <=> Poor(input, r)
  <2>1. (parsed = <<>>) <=> (r.commands = <<>>)
    BY <1>1, <1>2
  <2>2. /\ "ambiguous" \in Reasons <=> Alikes(input)
        /\ "cozy" \in Reasons <=> "cozy" \in Vague(input)
        /\ "random" \in Reasons <=> "random" \in Vague(input)
        /\ Vague(input) \subseteq {"cozy", "random"}
    BY DEF Reasons, Ambiguous, Shared, Alikes, Vague
  <2>3. Confidence < 50000 <=>
          \/ "cozy" \in Reasons /\ "random" \in Reasons
          \/ ("cozy" \in Reasons \/ "random" \in Reasons) /\ "ambiguous" \in Reasons
    BY DEF Confidence, Deduction
  <2>4. Poor(input, r) <=>
          \/ parsed = <<>>
          \/ "cozy" \in Reasons /\ "random" \in Reasons
          \/ ("cozy" \in Reasons \/ "random" \in Reasons) /\ "ambiguous" \in Reasons
    BY <2>1, <2>2 DEF Poor
  <2>5. score < 50000 <=> parsed = <<>> \/ Confidence < 50000
    OBVIOUS
  <2>6. Level(score) = "low" <=> score < 50000
    BY DEF Level
  <2> QED
    BY ONLY <2>3, <2>4, <2>5, <2>6
<1>8. "unavailable" \notin reasons
  BY <1>3
<1> HIDE DEF r, score, reasons
<1>9. Level(score) = "high" <=> score = 95000
  BY <1>6 DEF Level
<1>10. r.confirm <=> ~Clear(input, r)
  <2>1. r.confirm <=> score < 90000
    <3>1. score \in Int
      BY <1>6
    <3> DEFINE top == 90000
    <3>2. r = Plan(score, Level(score), reasons, score < top, commands) /\ top \in Int
      BY ONLY <1>0
    <3> HIDE DEF top
    <3>3. r.confirm <=> score < top
      BY ONLY <3>1, <3>2 DEF Plan
    <3>4. QED
      BY ONLY <3>3 DEF top
  <2>2. score < 90000 <=> ~Clear(input, r)
    BY ONLY <1>6, <1>7
  <2>3. QED
    BY ONLY <2>1, <2>2
<1>11. score < 80000 <=> ~Clear(input, r)
  BY ONLY <1>6, <1>7
<1>12. Scored(input, r)
  <2>1. r.level = "high" <=> Clear(input, r)
    BY ONLY <1>1, <1>7, <1>9
  <2>2. r.confidence < Threshold <=> ~Clear(input, r)
    BY ONLY <1>1, <1>11 DEF Threshold
  <2>3. IsPlan(r) /\ "unavailable" \notin r.reasons
    BY ONLY <1>1, <1>8
  <2>low. r.level = "low" <=> Poor(input, r)
    BY ONLY <1>1, <1>low
  <2>4. QED
    BY ONLY <1>10, <2>1, <2>2, <2>3, <2>low, Zenon DEF Scored
<1>13. QED
  BY <1>12 DEF r
-----------------------------------------------------------------------------

(* What Cautious says of a result. *)
Judged(in, model, r, who, p) ==
  /\ p.confirm <=> ~Clear(in, r)
  /\ Clear(in, r) => p = r /\ p.level = "high" /\ who = "none"
  /\ r.level = "low" <=> Poor(in, r)
  /\ ~Clear(in, r) => r.level # "high" /\ (model => who # "none")
  /\ who \notin {"runner", "runtime"} =>
       /\ p.commands = r.commands
       /\ "unavailable" \in p.reasons <=> who \in {"failed", "invalid"}

(* The inductive invariant: the plan of the rules and its score are right   *)
(* from the rules on, only an unclear request reaches a model, and a result *)
(* is what the three properties say of it.                                  *)
Inv ==
  /\ input \in Inputs /\ hybrid \in BOOLEAN
  /\ pc \in {"rules", "model", "done", "failed"}
  /\ pc # "done" => answer = "none" /\ calls = <<>>
  /\ pc \in {"model", "done"} => Scored(input, rules)
  /\ pc = "model" => ~Clear(input, rules) /\ AllTouch(input, "failed", rules.commands)
  /\ pc = "done" => /\ AllTouch(input, answer, plan.commands)
                    /\ Judged(input, hybrid, rules, answer, plan)
  /\ answer = "invalid" /\ calls # <<>> => ~InSchema(input, calls)

LEMMA InitInv == Init => Inv
BY DEF Init, Inv

LEMMA AllTouchOthers ==
  ASSUME NEW in, NEW who, NEW other, NEW commands,
         who # "runner", other # "runner", AllTouch(in, who, commands)
  PROVE  AllTouch(in, other, commands)
BY DEF AllTouch, Touches, Reach

LEMMA InterpretKept == Inv /\ Interpret => Inv'
<1> SUFFICES ASSUME Inv, Interpret PROVE Inv'
  OBVIOUS
<1>1. PICK parsed \in Parses :
        /\ \A c \in ToSet(parsed) : \A s \in c.targets : Knows(s)
        /\ \/ pc' = "failed"
           \/ /\ rules' = RulesPlan(parsed) /\ plan' = rules'
              /\ pc' = IF Offered(rules'.confidence) THEN "model" ELSE "done"
  BY DEF Interpret
<1>2. /\ input' = input /\ hybrid' = hybrid /\ calls' = calls /\ answer' = answer
      /\ answer = "none" /\ calls = <<>> /\ input \in Inputs /\ hybrid \in BOOLEAN
  BY DEF Interpret, Inv
<1>3. CASE pc' = "failed"
  BY <1>2, <1>3 DEF Inv
<1>4. CASE /\ rules' = RulesPlan(parsed) /\ plan' = rules'
           /\ pc' = IF Offered(rules'.confidence) THEN "model" ELSE "done"
  <2>1. Scored(input, rules')
    BY <1>4, RulesScored
  <2>2. AllTouch(input, "none", rules'.commands) /\ AllTouch(input, "failed", rules'.commands)
    BY <1>1, <1>4, RulesTouch
  <2>3. Offered(rules'.confidence) <=> hybrid /\ ~Clear(input, rules')
    BY <2>1 DEF Offered, Scored
  <2>4. pc' = "done" => Judged(input, hybrid, rules', "none", plan')
    BY <1>4, <2>1, <2>3 DEF Judged, Scored
  <2>5. QED
    BY <1>2, <1>4, <2>1, <2>2, <2>3, <2>4 DEF Inv
<1>5. QED
  BY <1>1, <1>3, <1>4

LEMMA UnavailableJudged ==
  ASSUME Inv, pc = "model", NEW who \in {"failed", "invalid"}
  PROVE  /\ AllTouch(input, who, Unavailable.commands)
         /\ Judged(input, hybrid, rules, who, Unavailable)
<1>1. Scored(input, rules) /\ ~Clear(input, rules) /\ AllTouch(input, "failed", rules.commands)
  BY DEF Inv
<1>2. /\ Unavailable.confirm /\ Unavailable.commands = rules.commands
      /\ "unavailable" \in Unavailable.reasons
  BY <1>1 DEF Unavailable, Scored, IsPlan
<1>3. AllTouch(input, who, Unavailable.commands)
  BY <1>1, <1>2, AllTouchOthers
<1>4. QED
  BY <1>1, <1>2, <1>3 DEF Judged, Scored

LEMMA AcceptedJudged ==
  ASSUME Inv, pc = "model", NEW who \in {"runner", "runtime"}, NEW p, Formed(p), Valid(p),
         who = "runner" => Explicit(input, p)
  PROVE  /\ AllTouch(input, who, Accepted(p).commands)
         /\ Judged(input, hybrid, rules, who, Accepted(p))
<1>1. Scored(input, rules) /\ ~Clear(input, rules) /\ input \in Inputs
  BY DEF Inv
<1>2. Accepted(p).confirm
  BY DEF Accepted, Formed, IsPlan
<1>3. AllTouch(input, who, Accepted(p).commands)
  BY <1>1, AcceptedTouches
<1>4. QED
  BY <1>1, <1>2, <1>3 DEF Judged, Scored

LEMMA AnswerKept ==
  ASSUME Inv, NEW who \in {"runner", "runtime"}, NEW p, Formed(p),
         who = "runner" => Explicit(input, p),
         Answer(who, p), UNCHANGED <<input, hybrid, rules>>,
         answer' = "invalid" /\ calls' # <<>> => ~InSchema(input, calls')
  PROVE  Inv'
<1>1. pc = "model" /\ pc' = "done"
  BY DEF Answer
<1>2. AllTouch(input, answer', plan'.commands) /\ Judged(input, hybrid, rules, answer', plan')
  <2>1. CASE Valid(p)
    BY <1>1, <2>1, AcceptedJudged DEF Answer
  <2>2. CASE ~Valid(p)
    BY <1>1, <2>2, UnavailableJudged DEF Answer
  <2>3. QED
    BY <2>1, <2>2
<1>3. QED
  BY <1>1, <1>2 DEF Inv

LEMMA StepKept == Inv /\ [Next]_vars => Inv'
<1> SUFFICES ASSUME Inv, [Next]_vars PROVE Inv'
  OBVIOUS
<1>1. CASE Interpret
  BY <1>1, InterpretKept
<1>2. CASE RunnerAnswers
  <2> DEFINE p == Generate(input, calls')
  <2>1. Sequence(calls') /\ input \in Inputs /\ Answer("runner", p)
    BY <1>2, CallsAssumption DEF RunnerAnswers, Inv
  <2>2. Formed(p) /\ Explicit(input, p)
    BY <2>1, GenerateFormed
  <2>3. answer' = "invalid" => ~InSchema(input, calls')
    BY <2>1, GenerateValid DEF Answer
  <2> HIDE DEF p
  <2>4. QED
    BY <1>2, <2>1, <2>2, <2>3, AnswerKept DEF RunnerAnswers
<1>3. CASE RuntimeAnswers
  <2>1. PICK p \in RawPlans : Answer("runtime", p)
    BY <1>3 DEF RuntimeAnswers
  <2>2. Formed(p)
    BY PlansAssumption DEF Formed, IsPlan
  <2>3. calls' = <<>>
    BY <1>3, <2>1 DEF RuntimeAnswers, Answer, Inv
  <2>4. QED
    BY <1>3, <2>1, <2>2, <2>3, AnswerKept DEF RuntimeAnswers
<1>4. CASE ModelFails
  BY <1>4, UnavailableJudged DEF ModelFails, Inv
<1>5. CASE UNCHANGED vars
  BY <1>5 DEF vars, Inv
<1>6. QED
  BY <1>1, <1>2, <1>3, <1>4, <1>5 DEF Next, Finished

LEMMA InvKept == Spec => []Inv
BY InitInv, StepKept, PTL DEF Spec

(* Every plan a host sees addresses devices of its own snapshot, by the     *)
(* serial and the label it has there, and changes something within range,   *)
(* whatever a runtime proposed (internal/interpreter/model.go:108).         *)
THEOREM PlansAreGrounded == Spec => []Grounded
<1>1. Inv => Grounded
  BY DEF Inv, Grounded, Done, AllTouch, Touches, Reach, Lower
<1>2. QED
  BY <1>1, InvKept, PTL

(* A plan goes without confirmation exactly when the rules read it from     *)
(* clear words; otherwise a model that is there was asked, and one that did *)
(* not help leaves the commands of the rules                                *)
(* (internal/interpreter/hybrid.go:30).                                     *)
THEOREM DoubtIsConfirmed == Spec => []Cautious
<1>1. Inv => Cautious
  BY DEF Inv, Judged, Clear, Poor, Vague, Alikes, Cautious, Done, OfModel
<1>2. QED
  BY <1>1, InvKept, PTL

(* What the runner makes of calls within its tool's schema passes the       *)
(* engine's validation (runtimes/functiongemma/runner.py:131,               *)
(* internal/interpreter/model.go:68).                                       *)
THEOREM RunnerIsValid == Spec => []RunnerPlansPass
<1>1. Inv => RunnerPlansPass
  BY DEF Inv, InSchema, RunnerPlansPass
<1>2. QED
  BY <1>1, InvKept, PTL

(* A result of the runner is what the validation makes of its plan for some  *)
(* sequence of calls; a later step leaves it as it is.                       *)
LEMMA RunnerStep ==
  ASSUME Inv, [Next]_vars, answer' = "runner"
  PROVE  \/ UNCHANGED <<input, calls, plan, answer>>
         \/ /\ input \in Inputs /\ input' = input /\ Sequence(calls')
            /\ plan' = Accepted(Generate(input, calls'))
<1>1. ASSUME Interpret PROVE FALSE
  BY <1>1 DEF Interpret, Inv
<1>2. ASSUME RuntimeAnswers \/ ModelFails PROVE FALSE
  BY <1>2 DEF RuntimeAnswers, ModelFails, Answer
<1>3. ASSUME RunnerAnswers
      PROVE  /\ input \in Inputs /\ input' = input /\ Sequence(calls')
             /\ plan' = Accepted(Generate(input, calls'))
  BY <1>3, CallsAssumption DEF RunnerAnswers, Answer, Inv
<1> QED
  BY <1>1, <1>2, <1>3 DEF Next, Finished, vars

(* What a plan of the runner leaves on each device of the snapshot is what  *)
(* the calls that reach it said, later over earlier, with the power to show *)
(* it, however many calls are merged and split                              *)
(* (runtimes/functiongemma/runner.py:178, internal/interpreter/model.go:117).*)
THEOREM EffectIsKept == Spec => []EffectKept
<1> DEFINE Kept == answer = "runner" => Keeps(input, calls, plan.commands)
<1>1. Init => Kept
  BY DEF Init
<1>2. Inv /\ Kept /\ [Next]_vars => Kept'
  <2> SUFFICES ASSUME Inv, Kept, [Next]_vars, answer' = "runner"
               PROVE  Keeps(input', calls', plan'.commands)
    BY DEF Kept
  <2>kept. CASE UNCHANGED <<input, calls, plan, answer>>
    BY <2>kept
  <2>made. CASE /\ input \in Inputs /\ input' = input /\ Sequence(calls')
                /\ plan' = Accepted(Generate(input, calls'))
    BY <2>made, RunnerKeeps
  <2> QED
    BY <2>kept, <2>made, RunnerStep
<1>3. Kept => EffectKept
  BY DEF EffectKept
<1>4. QED
  BY <1>1, <1>2, <1>3, InvKept, PTL DEF Spec

(* A plan says that the model was not available exactly when the rules had   *)
(* to do without it, which the report of an evaluation takes for granted     *)
(* (internal/evaluation/evaluation.go:138), as long as no other runtime      *)
(* gives this reason for a plan of its own.                                  *)
THEOREM UnavailableOfRules ==
  ASSUME \A p \in RawPlans : "unavailable" \notin p.reasons
  PROVE  Spec => []UnavailableIsTold
<1> DEFINE Kept == OfModel => "unavailable" \notin plan.reasons
<1>1. Init => Kept
  BY DEF Init, OfModel
<1>2. Inv /\ Kept /\ [Next]_vars => Kept'
  <2> SUFFICES ASSUME Inv, Kept, [Next]_vars, OfModel'
               PROVE  "unavailable" \notin plan'.reasons
    OBVIOUS
  <2>1. CASE Interpret
    BY <2>1 DEF Interpret, Inv, OfModel
  <2>2. ASSUME NEW who, NEW p, Formed(p), "unavailable" \notin p.reasons, Answer(who, p)
        PROVE  "unavailable" \notin plan'.reasons
    <3>1. plan' = Accepted(p)
      BY <2>2 DEF Answer, OfModel
    <3>2. Accepted(p).reasons = p.reasons
      BY <2>2 DEF Accepted, Formed, IsPlan
    <3> QED
      BY <2>2, <3>1, <3>2
  <2>3. CASE RunnerAnswers
    <3> DEFINE p == Generate(input, calls')
    <3>1. Sequence(calls') /\ input \in Inputs /\ Answer("runner", p)
      BY <2>3, CallsAssumption DEF RunnerAnswers, Inv
    <3>2. p.reasons \in {{"nothing"}, {"proposal"}}
      BY DEF Generate, ExtractPlan, Proposal, EmptyPlan, Plan
    <3>3. Formed(p)
      BY <3>1, GenerateFormed
    <3> HIDE DEF p
    <3> QED
      BY <2>2, <3>1, <3>2, <3>3
  <2>4. CASE RuntimeAnswers
    <3>1. PICK p \in RawPlans : Answer("runtime", p)
      BY <2>4 DEF RuntimeAnswers
    <3>2. Formed(p)
      BY PlansAssumption DEF Formed, IsPlan
    <3> QED
      BY <2>2, <3>1, <3>2
  <2>5. CASE ModelFails
    BY <2>5 DEF ModelFails, OfModel
  <2>6. CASE UNCHANGED vars
    BY <2>6 DEF vars, OfModel
  <2> QED
    BY <2>1, <2>3, <2>4, <2>5, <2>6 DEF Next, Finished
<1>3. Inv /\ Kept => UnavailableIsTold
  BY DEF Inv, Judged, OfModel, UnavailableIsTold, Done
<1> QED
  BY <1>1, <1>2, <1>3, InvKept, PTL DEF Spec

(* What hits a device with a field leaves it with some field.                *)
LEMMA EffectOfSome ==
  ASSUME NEW commands, Len(commands) \in Nat, NEW hits,
         NEW i \in hits, i \in 1..Len(commands), DOMAIN commands[i].action # {}
  PROVE  DOMAIN Effect(commands, hits) # {}
<1>1. PICK f : /\ f[0] = NoAction /\ f[Len(commands)] = Effect(commands, hits)
               /\ \A k \in 1..Len(commands) : f[k] = Left(commands, hits, f[k - 1], k)
  BY EffectSteps
<1> DEFINE K == {k \in Nat : i <= k /\ k <= Len(commands) => DOMAIN f[k] # {}}
<1>2. 0 \in K
  OBVIOUS
<1>3. ASSUME NEW k \in K PROVE k + 1 \in K
  <2>1. SUFFICES ASSUME i <= k + 1, k + 1 <= Len(commands) PROVE DOMAIN f[k + 1] # {}
    OBVIOUS
  <2>2. k + 1 \in 1..Len(commands) /\ (k + 1) - 1 = k /\ (i <= k => DOMAIN f[k] # {})
    BY <2>1
  <2>3. f[k + 1] = Left(commands, hits, f[k], k + 1)
    BY <1>1, <2>2
  <2>4. \A old, b : DOMAIN After(old, b) = DOMAIN old \cup DOMAIN b
    BY DEF After
  <2>5. i <= k \/ k + 1 = i
    BY <2>1
  <2>6. CASE k + 1 \in hits
    <3>1. DOMAIN f[k + 1] = DOMAIN f[k] \cup DOMAIN commands[k + 1].action
      BY <2>3, <2>4, <2>6 DEF Left
    <3> QED
      BY <2>2, <2>5, <3>1
  <2>7. CASE k + 1 \notin hits
    <3>1. f[k + 1] = f[k] /\ k + 1 # i
      BY <2>3, <2>7 DEF Left
    <3> QED
      BY <2>2, <2>5, <3>1
  <2> QED
    BY <2>6, <2>7
<1>4. K = Nat
  <2>1. K \in SUBSET Nat
    OBVIOUS
  <2> HIDE DEF K
  <2> QED
    BY <1>2, <1>3, <2>1, EveryNumber
<1>5. Len(commands) \in K
  BY <1>4
<1> QED
  BY <1>1, <1>5

(* None of the labels in the text is longer than another. *)
Alike(in) == \A d, e \in Named(in) : Length[d.label] = Length[e.label]

LEMMA RunnerReaches ==
  ASSUME input \in Inputs, Alike(input), NEW said, Sequence(said),
         NEW call \in ToSet(said), DOMAIN Policy(input.text, call.action) # {},
         NEW d \in Named(input)
  PROVE  \E c \in ToSet(Accepted(Generate(input, said)).commands) : Meets(c, d)
<1> DEFINE m    == Merged(input, said)
           p    == Generate(input, said)
           t    == Lower(d.serial)
           C(i) == Command(input, said[i])
           hits == Hits(input, said, t)
<1>1. /\ Len(said) \in Nat /\ DOMAIN said = 1..Len(said)
      /\ d \in ToSet(input.snapshot) /\ Relevant(input)
  <2>1. d \in ToSet(input.snapshot) /\ d.label \in input.text.names
    BY DEF Named
  <2>2. d.label \in input.text.parts
    BY <2>1, InputsAssumption
  <2> QED
    BY <2>1, <2>2, SequenceParts DEF Relevant
<1>2. d.serial \in ExplicitTargets(input)
  <2>1. ASSUME NEW e \in Named(input) PROVE Length[e.label] <= Length[d.label]
    <3>1. Length[e.label] = Length[d.label] /\ d.label \in DOMAIN Length
      BY <1>1, InputsAssumption DEF Alike
    <3> QED
      BY <3>1, LengthAssumption
  <2> QED
    BY <2>1 DEF ExplicitTargets, Longest
<1>3. \A i : C(i).targets = ExplicitTargets(input)
  BY <1>2 DEF Command, Targets
<1>4. PICK i \in DOMAIN said : said[i] = call
  BY DEF ToSet
<1>5. DOMAIN C(i).action # {}
  BY <1>4 DEF Command
<1>6. i \in hits
  <2>1. Usable(C(i)) /\ Reaches(C(i), t)
    BY <1>2, <1>3, <1>5 DEF Usable, Reaches
  <2> QED
    BY <2>1 DEF Hits, Used
<1>7. Leaves(m, t, Effect(Asked(input, said), hits))
  BY <1>3, MergedEffect
<1>8. DOMAIN Effect(Asked(input, said), hits) # {}
  <2> DEFINE asked == Asked(input, said)
  <2>1. asked = [j \in 1..Len(said) |-> asked[j]] /\ asked[i] = C(i)
    BY <1>1 DEF Asked
  <2> HIDE DEF asked, hits
  <2>2. Len(asked) = Len(said)
    BY <1>1, <2>1, MakeSequence
  <2>3. i \in 1..Len(asked) /\ Len(asked) \in Nat /\ DOMAIN asked[i].action # {}
    BY <1>1, <1>5, <2>1, <2>2
  <2>4. DOMAIN Effect(asked, hits) # {}
    BY <1>6, <2>3, EffectOfSome
  <2> QED
    BY <2>4 DEF asked
<1>9. PICK j \in DOMAIN m : Reaches(m[j], t)
  <2>1. DOMAIN NoAction = {}
    BY AfterLaws
  <2> HIDE DEF m, hits
  <2> QED
    BY <1>7, <1>8, <2>1 DEF Leaves
<1>10. Written(m[j]) \in ToSet(p.commands)
  BY <1>1, GeneratedCommands
<1>11. MeetsAny(Written(m[j]), d)
  <2>1. PICK s \in m[j].targets : Lower(s) = t
    BY <1>9 DEF Reaches
  <2> DEFINE x == [serial |-> s, label |-> ""]
  <2>2. x \in Written(m[j]).targets /\ x.serial = s
    BY DEF Written
  <2> HIDE DEF x
  <2> QED
    BY <2>1, <2>2 DEF MeetsAny
<1>12. Formed(p)
  BY GenerateFormed
<1> HIDE DEF p, m
<1>13. \E c \in ToSet(Accepted(p).commands) : Meets(c, d)
  BY <1>1, <1>10, <1>11, <1>12, AcceptedShows
<1> QED
  BY <1>13 DEF p

(* Where no label in the text is longer than another, a call that selects a  *)
(* device the text names, and that the policy leaves something of, reaches   *)
(* that device: the preference for the longest label is the one way to lose  *)
(* it (runtimes/functiongemma/runner.py:118).                                *)
THEOREM NamedReachedIfAlike == Spec => [](Alike(input) => NamedAreReached)
<1> DEFINE Reached == \A call \in ToSet(calls) : DOMAIN Policy(input.text, call.action) # {} =>
                        \A d \in Named(input) : \E c \in ToSet(plan.commands) : Meets(c, d)
           Kept == answer = "runner" /\ Alike(input) => Reached
<1>1. Init => Kept
  BY DEF Init
<1>2. Inv /\ Kept /\ [Next]_vars => Kept'
  <2> SUFFICES ASSUME Inv, Kept, [Next]_vars, answer' = "runner", Alike(input') PROVE Reached'
    OBVIOUS
  <2>kept. CASE UNCHANGED <<input, calls, plan, answer>>
    BY <2>kept
  <2>made. CASE /\ input \in Inputs /\ input' = input /\ Sequence(calls')
                /\ plan' = Accepted(Generate(input, calls'))
    <3>1. ASSUME NEW call \in ToSet(calls'), DOMAIN Policy(input.text, call.action) # {},
                 NEW d \in Named(input)
          PROVE  \E c \in ToSet(plan'.commands) : Meets(c, d)
      BY <2>made, <3>1, RunnerReaches
    <3> QED
      BY <2>made, <3>1 DEF Meets
  <2> QED
    BY <2>kept, <2>made, RunnerStep
<1>3. Kept => (Alike(input) => NamedAreReached)
  BY DEF NamedAreReached, Meets
<1> QED
  BY <1>1, <1>2, <1>3, InvKept, PTL DEF Spec
=============================================================================
