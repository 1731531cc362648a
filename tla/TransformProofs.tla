-------------------------- MODULE TransformProofs --------------------------
(***************************************************************************)
(* Proofs about the two modules of src/transform that have states: Masking *)
(* for any scenarios, then CustomCommand for any workers, loads, line      *)
(* sizes and pipe capacity.                                                *)
(***************************************************************************)
EXTENDS Masking, CustomCommand, WellFoundedInduction, SequenceTheorems, TLAPS

-----------------------------------------------------------------------------
(***************************************************************************)
(* Masking.  What was written is, at every moment, what the plan of the    *)
(* whole configuration makes of documents already read: that is the        *)
(* inductive invariant.  The properties then say what such a document      *)
(* looks like, and rest on what the loops of the code compute: paths       *)
(* written and read, rules applied one after the other, inherited rules    *)
(* collected and pushed.  Each loop is a recursive function; a lemma gives *)
(* its equations, and induction is on the set of the numbers for which a   *)
(* statement holds.                                                        *)
(***************************************************************************)

(* Loops *)

\* Every nonempty set of naturals has a least element.
LEMMA LeastNatural ==
  ASSUME NEW S, S \subseteq Nat, S # {}
  PROVE  \E x \in S : \A y \in S : x <= y
  <1> DEFINE R == OpToRel(<, Nat)
  <1>1. IsWellFoundedOn(R, Nat)
    BY NatLessThanWellFounded
  <1>2. \A x, y \in Nat : y < x => <<y, x>> \in R
    BY DEF OpToRel
  <1> HIDE DEF R
  <1>3. PICK x \in S : \A y \in S : <<y, x>> \notin R
    BY <1>1, WFMin
  <1>4. \A y \in S : x <= y
    <2> SUFFICES ASSUME NEW y \in S PROVE x <= y
      OBVIOUS
    <2>1. x \in Nat /\ y \in Nat
      OBVIOUS
    <2>2. ~(y < x)
      BY <1>2, <1>3, <2>1
    <2> QED
      BY <2>1, <2>2
  <1> QED
    BY <1>4

\* Induction, on a set: the form the provers can use for every loop below.
LEMMA SetInduction ==
  ASSUME NEW S, 0 \in S, \A n \in Nat : n \in S => n + 1 \in S
  PROVE  Nat \subseteq S
  <1> SUFFICES ASSUME Nat \ S # {} PROVE FALSE
    OBVIOUS
  <1>1. PICK x \in Nat \ S : \A y \in Nat \ S : x <= y
    BY LeastNatural, Nat \ S \subseteq Nat
  <1>2. x # 0 /\ x - 1 \in Nat /\ (x - 1) + 1 = x
    BY <1>1
  <1>3. x - 1 \in S
    BY <1>1, <1>2
  <1> QED
    BY <1>1, <1>2, <1>3

\* The loop of get_path: each name of the path is looked up in what the last one gave.
LEMMA AlongSteps ==
  ASSUME NEW doc, NEW path, Len(path) \in Nat
  PROVE  Along(doc, path) =
           [n \in 0..Len(path) |-> IF n = 0 THEN doc ELSE Child(Along(doc, path)[n - 1], path[n])]
  <1> DEFINE Is(g, N) == g = [n \in 0..N |-> IF n = 0 THEN doc ELSE Child(g[n - 1], path[n])]
             S == {N \in Nat : \E g : Is(g, N)}
  <1>1. 0 \in S
    <2>1. Is([n \in 0..0 |-> doc], 0)
      OBVIOUS
    <2> QED
      BY <2>1
  <1>2. \A N \in Nat : N \in S => N + 1 \in S
    <2> SUFFICES ASSUME NEW N \in Nat, NEW g, Is(g, N) PROVE \E h : Is(h, N + 1)
      OBVIOUS
    <2> DEFINE h == [n \in 0..(N + 1) |-> IF n = N + 1 THEN Child(g[N], path[n]) ELSE g[n]]
    <2>1. Is(h, N + 1)
      OBVIOUS
    <2> QED
      BY <2>1
  <1>3. \E g : Is(g, Len(path))
    <2> HIDE DEF Is
    <2> QED
      BY <1>1, <1>2, SetInduction
  <1> QED
    BY <1>3 DEF Along

\* The documents set_path builds, from the innermost outwards.
Built(f, doc, path, value) ==
  /\ f[0] = value
  /\ \A n \in 1..Len(path) :
       f[n] = With(Along(doc, path)[Len(path) - n], path[Len(path) - n + 1], f[n - 1])

\* The descent of set_path builds them.
LEMMA SetPathSteps ==
  ASSUME NEW doc, NEW path, NEW value, Len(path) \in Nat
  PROVE  \E f : Built(f, doc, path, value) /\ SetPath(doc, path, value) = f[Len(path)]
  <1> DEFINE Step(x, n) == With(Along(doc, path)[Len(path) - n], path[Len(path) - n + 1], x)
             Is(g, N) == g = [n \in 0..N |-> IF n = 0 THEN value ELSE Step(g[n - 1], n)]
             S == {N \in Nat : \E g : Is(g, N)}
  <1> HIDE DEF Step
  <1>1. 0 \in S
    <2>1. Is([n \in 0..0 |-> value], 0)
      OBVIOUS
    <2> QED
      BY <2>1
  <1>2. \A N \in Nat : N \in S => N + 1 \in S
    <2> HIDE DEF Is
    <2> SUFFICES ASSUME NEW N \in Nat, NEW g, Is(g, N) PROVE \E h : Is(h, N + 1)
      OBVIOUS
    <2> USE DEF Is
    <2> DEFINE h == [n \in 0..(N + 1) |-> IF n = N + 1 THEN Step(g[N], n) ELSE g[n]]
    <2>1. (\A n \in 0..N : h[n] = g[n]) /\ h[N + 1] = Step(g[N], N + 1)
      OBVIOUS
    <2>2. \A n \in 0..N : g[n] = IF n = 0 THEN value ELSE Step(g[n - 1], n)
      OBVIOUS
    <2>3. ASSUME NEW n \in 0..(N + 1)
          PROVE  h[n] = IF n = 0 THEN value ELSE Step(h[n - 1], n)
      <3>1. CASE n = 0
        BY <2>1, <2>2, <3>1
      <3>2. CASE n \in 1..N
        <4>1. n - 1 \in 0..N /\ n \in 0..N /\ n # 0
          BY <3>2
        <4> HIDE DEF h
        <4> QED
          BY <2>1, <2>2, <4>1
      <3>3. CASE n = N + 1
        <4>1. n - 1 = N /\ N \in 0..N /\ n # 0
          BY <3>3
        <4> HIDE DEF h
        <4> QED
          BY <2>1, <3>3, <4>1
      <3> QED
        BY <3>1, <3>2, <3>3
    <2>4. Is(h, N + 1)
      BY <2>3, Zenon
    <2> QED
      BY <2>4
  <1>3. \E g : Is(g, Len(path))
    <2> HIDE DEF Is
    <2> QED
      BY <1>1, <1>2, SetInduction
  <1> DEFINE f == CHOOSE g : Is(g, Len(path))
  <1>4. Is(f, Len(path))
    <2> HIDE DEF Is
    <2> QED
      BY <1>3
  <1>5. SetPath(doc, path, value) = f[Len(path)]
    BY DEF SetPath, Step
  <1> HIDE DEF f
  <1>6. f[0] = value /\ \A n \in 1..Len(path) : f[n] = Step(f[n - 1], n)
    <2>1. f[0] = value
      BY <1>4
    <2>2. ASSUME NEW n \in 1..Len(path) PROVE f[n] = Step(f[n - 1], n)
      BY <1>4
    <2> QED
      BY <2>1, <2>2
  <1> QED
    BY <1>5, <1>6 DEF Step, Built

\* The document after each rule of a collection, as transform changes it.
Applied(f, rules, doc) ==
  /\ f[0] = doc
  /\ \A n \in 1..Len(rules) :
       f[n] = ApplyRule(rules[n], doc, f[n - 1])

\* The loop of transform makes them.
LEMMA ApplyRulesSteps ==
  ASSUME NEW rules, NEW doc, Len(rules) \in Nat
  PROVE  \E f : Applied(f, rules, doc) /\ ApplyRules(rules, doc) = f[Len(rules)]
  <1> DEFINE Step(x, n) == ApplyRule(rules[n], doc, x)
             Is(g, N) == g = [n \in 0..N |-> IF n = 0 THEN doc ELSE Step(g[n - 1], n)]
             S == {N \in Nat : \E g : Is(g, N)}
  <1> HIDE DEF Step
  <1>1. 0 \in S
    <2>1. Is([n \in 0..0 |-> doc], 0)
      OBVIOUS
    <2> QED
      BY <2>1
  <1>2. \A N \in Nat : N \in S => N + 1 \in S
    <2> HIDE DEF Is
    <2> SUFFICES ASSUME NEW N \in Nat, NEW g, Is(g, N) PROVE \E h : Is(h, N + 1)
      OBVIOUS
    <2> USE DEF Is
    <2> DEFINE h == [n \in 0..(N + 1) |-> IF n = N + 1 THEN Step(g[N], n) ELSE g[n]]
    <2>1. (\A n \in 0..N : h[n] = g[n]) /\ h[N + 1] = Step(g[N], N + 1)
      OBVIOUS
    <2>2. \A n \in 0..N : g[n] = IF n = 0 THEN doc ELSE Step(g[n - 1], n)
      OBVIOUS
    <2>3. ASSUME NEW n \in 0..(N + 1)
          PROVE  h[n] = IF n = 0 THEN doc ELSE Step(h[n - 1], n)
      <3>1. CASE n = 0
        BY <2>1, <2>2, <3>1
      <3>2. CASE n \in 1..N
        <4>1. n - 1 \in 0..N /\ n \in 0..N /\ n # 0
          BY <3>2
        <4> HIDE DEF h
        <4> QED
          BY <2>1, <2>2, <4>1
      <3>3. CASE n = N + 1
        <4>1. n - 1 = N /\ N \in 0..N /\ n # 0
          BY <3>3
        <4> HIDE DEF h
        <4> QED
          BY <2>1, <3>3, <4>1
      <3> QED
        BY <3>1, <3>2, <3>3
    <2>4. Is(h, N + 1)
      BY <2>3, Zenon
    <2> QED
      BY <2>4
  <1>3. \E g : Is(g, Len(rules))
    <2> HIDE DEF Is
    <2> QED
      BY <1>1, <1>2, SetInduction
  <1> DEFINE f == CHOOSE g : Is(g, Len(rules))
  <1>4. Is(f, Len(rules))
    <2> HIDE DEF Is
    <2> QED
      BY <1>3
  <1>5. ApplyRules(rules, doc) = f[Len(rules)]
    BY DEF ApplyRules, Step
  <1> HIDE DEF f
  <1>6. f[0] = doc /\ \A n \in 1..Len(rules) : f[n] = Step(f[n - 1], n)
    <2>1. f[0] = doc
      BY <1>4
    <2>2. ASSUME NEW n \in 1..Len(rules) PROVE f[n] = Step(f[n - 1], n)
      BY <1>4
    <2> QED
      BY <2>1, <2>2
  <1> QED
    BY <1>5, <1>6 DEF Step, Applied

\* What is inherited after each edge.
OverEdges(f, configs, edges, collection, rule, before) ==
  /\ f[0] = before
  /\ \A n \in 1..Len(edges) :
       f[n] = Inherit(configs, collection, rule, edges[n], f[n - 1])

\* The loop of expand_inherited over the edges.
LEMMA InheritRuleSteps ==
  ASSUME NEW configs, NEW edges, NEW collection, NEW rule, NEW before, Len(edges) \in Nat
  PROVE  \E f : /\ OverEdges(f, configs, edges, collection, rule, before)
                /\ InheritRule(configs, edges, collection, rule, before) = f[Len(edges)]
  <1> DEFINE Step(x, n) == Inherit(configs, collection, rule, edges[n], x)
             Is(g, N) == g = [n \in 0..N |-> IF n = 0 THEN before ELSE Step(g[n - 1], n)]
             S == {N \in Nat : \E g : Is(g, N)}
  <1> HIDE DEF Step
  <1>1. 0 \in S
    <2>1. Is([n \in 0..0 |-> before], 0)
      OBVIOUS
    <2> QED
      BY <2>1
  <1>2. \A N \in Nat : N \in S => N + 1 \in S
    <2> HIDE DEF Is
    <2> SUFFICES ASSUME NEW N \in Nat, NEW g, Is(g, N) PROVE \E h : Is(h, N + 1)
      OBVIOUS
    <2> USE DEF Is
    <2> DEFINE h == [n \in 0..(N + 1) |-> IF n = N + 1 THEN Step(g[N], n) ELSE g[n]]
    <2>1. (\A n \in 0..N : h[n] = g[n]) /\ h[N + 1] = Step(g[N], N + 1)
      OBVIOUS
    <2>2. \A n \in 0..N : g[n] = IF n = 0 THEN before ELSE Step(g[n - 1], n)
      OBVIOUS
    <2>3. ASSUME NEW n \in 0..(N + 1)
          PROVE  h[n] = IF n = 0 THEN before ELSE Step(h[n - 1], n)
      <3>1. CASE n = 0
        BY <2>1, <2>2, <3>1
      <3>2. CASE n \in 1..N
        <4>1. n - 1 \in 0..N /\ n \in 0..N /\ n # 0
          BY <3>2
        <4> HIDE DEF h
        <4> QED
          BY <2>1, <2>2, <4>1
      <3>3. CASE n = N + 1
        <4>1. n - 1 = N /\ N \in 0..N /\ n # 0
          BY <3>3
        <4> HIDE DEF h
        <4> QED
          BY <2>1, <3>3, <4>1
      <3> QED
        BY <3>1, <3>2, <3>3
    <2>4. Is(h, N + 1)
      BY <2>3, Zenon
    <2> QED
      BY <2>4
  <1>3. \E g : Is(g, Len(edges))
    <2> HIDE DEF Is
    <2> QED
      BY <1>1, <1>2, SetInduction
  <1> DEFINE f == CHOOSE g : Is(g, Len(edges))
  <1>4. Is(f, Len(edges))
    <2> HIDE DEF Is
    <2> QED
      BY <1>3
  <1>5. InheritRule(configs, edges, collection, rule, before) = f[Len(edges)]
    BY DEF InheritRule, Step
  <1> HIDE DEF f
  <1>6. f[0] = before /\ \A n \in 1..Len(edges) : f[n] = Step(f[n - 1], n)
    <2>1. f[0] = before
      BY <1>4
    <2>2. ASSUME NEW n \in 1..Len(edges) PROVE f[n] = Step(f[n - 1], n)
      BY <1>4
    <2> QED
      BY <2>1, <2>2
  <1> QED
    BY <1>5, <1>6 DEF Step, OverEdges

\* After each rule of an entry.
OverRules(f, configs, edges, entry, before) ==
  /\ f[0] = before
  /\ \A n \in 1..Len(entry.rules) :
       f[n] = IF entry.rules[n].refs
       THEN InheritRule(configs, edges, entry.collection, entry.rules[n], f[n - 1]) ELSE f[n - 1]

\* Its loop over the marked rules of an entry.
LEMMA InheritEntrySteps ==
  ASSUME NEW configs, NEW edges, NEW entry, NEW before, Len(entry.rules) \in Nat
  PROVE  \E f : /\ OverRules(f, configs, edges, entry, before)
                /\ InheritEntry(configs, edges, entry, before) = f[Len(entry.rules)]
  <1> DEFINE Step(x, n) == IF entry.rules[n].refs
       THEN InheritRule(configs, edges, entry.collection, entry.rules[n], x) ELSE x
             Is(g, N) == g = [n \in 0..N |-> IF n = 0 THEN before ELSE Step(g[n - 1], n)]
             S == {N \in Nat : \E g : Is(g, N)}
  <1> HIDE DEF Step
  <1>1. 0 \in S
    <2>1. Is([n \in 0..0 |-> before], 0)
      OBVIOUS
    <2> QED
      BY <2>1
  <1>2. \A N \in Nat : N \in S => N + 1 \in S
    <2> HIDE DEF Is
    <2> SUFFICES ASSUME NEW N \in Nat, NEW g, Is(g, N) PROVE \E h : Is(h, N + 1)
      OBVIOUS
    <2> USE DEF Is
    <2> DEFINE h == [n \in 0..(N + 1) |-> IF n = N + 1 THEN Step(g[N], n) ELSE g[n]]
    <2>1. (\A n \in 0..N : h[n] = g[n]) /\ h[N + 1] = Step(g[N], N + 1)
      OBVIOUS
    <2>2. \A n \in 0..N : g[n] = IF n = 0 THEN before ELSE Step(g[n - 1], n)
      OBVIOUS
    <2>3. ASSUME NEW n \in 0..(N + 1)
          PROVE  h[n] = IF n = 0 THEN before ELSE Step(h[n - 1], n)
      <3>1. CASE n = 0
        BY <2>1, <2>2, <3>1
      <3>2. CASE n \in 1..N
        <4>1. n - 1 \in 0..N /\ n \in 0..N /\ n # 0
          BY <3>2
        <4> HIDE DEF h
        <4> QED
          BY <2>1, <2>2, <4>1
      <3>3. CASE n = N + 1
        <4>1. n - 1 = N /\ N \in 0..N /\ n # 0
          BY <3>3
        <4> HIDE DEF h
        <4> QED
          BY <2>1, <3>3, <4>1
      <3> QED
        BY <3>1, <3>2, <3>3
    <2>4. Is(h, N + 1)
      BY <2>3, Zenon
    <2> QED
      BY <2>4
  <1>3. \E g : Is(g, Len(entry.rules))
    <2> HIDE DEF Is
    <2> QED
      BY <1>1, <1>2, SetInduction
  <1> DEFINE f == CHOOSE g : Is(g, Len(entry.rules))
  <1>4. Is(f, Len(entry.rules))
    <2> HIDE DEF Is
    <2> QED
      BY <1>3
  <1>5. InheritEntry(configs, edges, entry, before) = f[Len(entry.rules)]
    BY DEF InheritEntry, Step
  <1> HIDE DEF f
  <1>6. f[0] = before /\ \A n \in 1..Len(entry.rules) : f[n] = Step(f[n - 1], n)
    <2>1. f[0] = before
      BY <1>4
    <2>2. ASSUME NEW n \in 1..Len(entry.rules) PROVE f[n] = Step(f[n - 1], n)
      BY <1>4
    <2> QED
      BY <2>1, <2>2
  <1> QED
    BY <1>5, <1>6 DEF Step, OverRules

\* After each entry.
OverEntries(f, configs, edges) ==
  /\ f[0] = <<>>
  /\ \A n \in 1..Len(configs) :
       f[n] = InheritEntry(configs, edges, configs[n], f[n - 1])

\* Its loop over the entries.
LEMMA ExpandInheritedSteps ==
  ASSUME NEW configs, NEW edges, Len(configs) \in Nat
  PROVE  \E f : OverEntries(f, configs, edges) /\ ExpandInherited(configs, edges) = f[Len(configs)]
  <1> DEFINE Step(x, n) == InheritEntry(configs, edges, configs[n], x)
             Is(g, N) == g = [n \in 0..N |-> IF n = 0 THEN <<>> ELSE Step(g[n - 1], n)]
             S == {N \in Nat : \E g : Is(g, N)}
  <1> HIDE DEF Step
  <1>1. 0 \in S
    <2>1. Is([n \in 0..0 |-> <<>>], 0)
      OBVIOUS
    <2> QED
      BY <2>1
  <1>2. \A N \in Nat : N \in S => N + 1 \in S
    <2> HIDE DEF Is
    <2> SUFFICES ASSUME NEW N \in Nat, NEW g, Is(g, N) PROVE \E h : Is(h, N + 1)
      OBVIOUS
    <2> USE DEF Is
    <2> DEFINE h == [n \in 0..(N + 1) |-> IF n = N + 1 THEN Step(g[N], n) ELSE g[n]]
    <2>1. (\A n \in 0..N : h[n] = g[n]) /\ h[N + 1] = Step(g[N], N + 1)
      OBVIOUS
    <2>2. \A n \in 0..N : g[n] = IF n = 0 THEN <<>> ELSE Step(g[n - 1], n)
      OBVIOUS
    <2>3. ASSUME NEW n \in 0..(N + 1)
          PROVE  h[n] = IF n = 0 THEN <<>> ELSE Step(h[n - 1], n)
      <3>1. CASE n = 0
        BY <2>1, <2>2, <3>1
      <3>2. CASE n \in 1..N
        <4>1. n - 1 \in 0..N /\ n \in 0..N /\ n # 0
          BY <3>2
        <4> HIDE DEF h
        <4> QED
          BY <2>1, <2>2, <4>1
      <3>3. CASE n = N + 1
        <4>1. n - 1 = N /\ N \in 0..N /\ n # 0
          BY <3>3
        <4> HIDE DEF h
        <4> QED
          BY <2>1, <3>3, <4>1
      <3> QED
        BY <3>1, <3>2, <3>3
    <2>4. Is(h, N + 1)
      BY <2>3, Zenon
    <2> QED
      BY <2>4
  <1>3. \E g : Is(g, Len(configs))
    <2> HIDE DEF Is
    <2> QED
      BY <1>1, <1>2, SetInduction
  <1> DEFINE f == CHOOSE g : Is(g, Len(configs))
  <1>4. Is(f, Len(configs))
    <2> HIDE DEF Is
    <2> QED
      BY <1>3
  <1>5. ExpandInherited(configs, edges) = f[Len(configs)]
    BY DEF ExpandInherited, Step
  <1> HIDE DEF f
  <1>6. f[0] = <<>> /\ \A n \in 1..Len(configs) : f[n] = Step(f[n - 1], n)
    <2>1. f[0] = <<>>
      BY <1>4
    <2>2. ASSUME NEW n \in 1..Len(configs) PROVE f[n] = Step(f[n - 1], n)
      BY <1>4
    <2> QED
      BY <2>1, <2>2
  <1> QED
    BY <1>5, <1>6 DEF Step, OverEntries

\* The entries after each inherited rule has been pushed.
Pushed(f, configs, inherited) ==
  /\ f[0] = configs
  /\ \A n \in 1..Len(inherited) :
       f[n] = PushRule(f[n - 1], inherited[n])

\* The loop of expand_transformation_configs over what was inherited.
LEMMA PushRulesSteps ==
  ASSUME NEW configs, NEW inherited, Len(inherited) \in Nat
  PROVE  \E f : Pushed(f, configs, inherited) /\ PushRules(configs, inherited) = f[Len(inherited)]
  <1> DEFINE Step(x, n) == PushRule(x, inherited[n])
             Is(g, N) == g = [n \in 0..N |-> IF n = 0 THEN configs ELSE Step(g[n - 1], n)]
             S == {N \in Nat : \E g : Is(g, N)}
  <1> HIDE DEF Step
  <1>1. 0 \in S
    <2>1. Is([n \in 0..0 |-> configs], 0)
      OBVIOUS
    <2> QED
      BY <2>1
  <1>2. \A N \in Nat : N \in S => N + 1 \in S
    <2> HIDE DEF Is
    <2> SUFFICES ASSUME NEW N \in Nat, NEW g, Is(g, N) PROVE \E h : Is(h, N + 1)
      OBVIOUS
    <2> USE DEF Is
    <2> DEFINE h == [n \in 0..(N + 1) |-> IF n = N + 1 THEN Step(g[N], n) ELSE g[n]]
    <2>1. (\A n \in 0..N : h[n] = g[n]) /\ h[N + 1] = Step(g[N], N + 1)
      OBVIOUS
    <2>2. \A n \in 0..N : g[n] = IF n = 0 THEN configs ELSE Step(g[n - 1], n)
      OBVIOUS
    <2>3. ASSUME NEW n \in 0..(N + 1)
          PROVE  h[n] = IF n = 0 THEN configs ELSE Step(h[n - 1], n)
      <3>1. CASE n = 0
        BY <2>1, <2>2, <3>1
      <3>2. CASE n \in 1..N
        <4>1. n - 1 \in 0..N /\ n \in 0..N /\ n # 0
          BY <3>2
        <4> HIDE DEF h
        <4> QED
          BY <2>1, <2>2, <4>1
      <3>3. CASE n = N + 1
        <4>1. n - 1 = N /\ N \in 0..N /\ n # 0
          BY <3>3
        <4> HIDE DEF h
        <4> QED
          BY <2>1, <3>3, <4>1
      <3> QED
        BY <3>1, <3>2, <3>3
    <2>4. Is(h, N + 1)
      BY <2>3, Zenon
    <2> QED
      BY <2>4
  <1>3. \E g : Is(g, Len(inherited))
    <2> HIDE DEF Is
    <2> QED
      BY <1>1, <1>2, SetInduction
  <1> DEFINE f == CHOOSE g : Is(g, Len(inherited))
  <1>4. Is(f, Len(inherited))
    <2> HIDE DEF Is
    <2> QED
      BY <1>3
  <1>5. PushRules(configs, inherited) = f[Len(inherited)]
    BY DEF PushRules, Step
  <1> HIDE DEF f
  <1>6. f[0] = configs /\ \A n \in 1..Len(inherited) : f[n] = Step(f[n - 1], n)
    <2>1. f[0] = configs
      BY <1>4
    <2>2. ASSUME NEW n \in 1..Len(inherited) PROVE f[n] = Step(f[n - 1], n)
      BY <1>4
    <2> QED
      BY <2>1, <2>2
  <1> QED
    BY <1>5, <1>6 DEF Step, Pushed

-----------------------------------------------------------------------------
(* Paths *)

\* What is found under a name of a document that was just written.
LEMMA ChildOfWith ==
  ASSUME NEW v, NEW name, NEW value, NEW other
  PROVE  /\ Child(With(v, name, value), name) = value
         /\ other # name => Child(With(v, name, value), other) = Child(v, other)
  <1> DEFINE fields == [x \in Names(v) \cup {name} |-> IF x = name THEN value ELSE v[2][x]]
  <1>1. With(v, name, value) = <<"document", fields>>
    BY DEF With, Document
  <1>2. Names(With(v, name, value)) = Names(v) \cup {name}
    BY <1>1 DEF Names
  <1>3. With(v, name, value)[2] = fields
    BY <1>1
  <1> QED
    BY <1>2, <1>3 DEF Child

\* A written document is no error and not absent.
LEMMA WithIsDocument ==
  ASSUME NEW v, NEW name, NEW value
  PROVE  With(v, name, value) # Error
  BY DEF With, Document, Error

\* Writing along a path leaves, at each prefix of the path, the document that the
\* recursion built for it.
LEMMA AlongSet ==
  ASSUME NEW doc, NEW path, NEW value, Len(path) \in Nat, NEW f, Built(f, doc, path, value)
  PROVE  \A n \in 0..Len(path) : Along(f[Len(path)], path)[n] = f[Len(path) - n]
  <1> DEFINE new == f[Len(path)]
             S == {n \in Nat : n <= Len(path) => Along(new, path)[n] = f[Len(path) - n]}
  <1>1. Along(new, path) =
          [n \in 0..Len(path) |-> IF n = 0 THEN new ELSE Child(Along(new, path)[n - 1], path[n])]
    BY AlongSteps
  <1>2. 0 \in S
    BY <1>1
  <1>3. \A n \in Nat : n \in S => n + 1 \in S
    <2> SUFFICES ASSUME NEW n \in Nat, n \in S, n + 1 <= Len(path)
                 PROVE  Along(new, path)[n + 1] = f[Len(path) - (n + 1)]
      OBVIOUS
    <2> DEFINE k == Len(path) - n
    <2>1. /\ Along(new, path)[n] = f[k] /\ k - 1 = Len(path) - (n + 1)
          /\ k \in 1..Len(path) /\ Len(path) - k = n /\ Len(path) - k + 1 = n + 1
      <3> HIDE DEF new
      <3> QED
        OBVIOUS
    <2> HIDE DEF k, new
    <2>2. n + 1 \in 0..Len(path) /\ n + 1 # 0 /\ (n + 1) - 1 = n
      OBVIOUS
    <2>3. Along(new, path)[n + 1] = Child(Along(new, path)[n], path[n + 1])
      BY <1>1, <2>2
    <2>4. f[k] = With(Along(doc, path)[n], path[n + 1], f[k - 1])
      <3>1. \A m \in 1..Len(path) :
              f[m] = With(Along(doc, path)[Len(path) - m], path[Len(path) - m + 1], f[m - 1])
        BY DEF Built
      <3> QED
        BY <2>1, <3>1
    <2> QED
      BY <2>1, <2>3, <2>4, ChildOfWith
  <1>4. Nat \subseteq S
    <2> HIDE DEF S
    <2> QED
      BY <1>2, <1>3, SetInduction
  <1> QED
    BY <1>4

\* What is written at a path is found there.
LEMMA SetThenGet ==
  ASSUME NEW doc, NEW path, NEW value, Len(path) \in Nat
  PROVE  GetPath(SetPath(doc, path, value), path) = value
  <1>1. PICK f : Built(f, doc, path, value) /\ SetPath(doc, path, value) = f[Len(path)]
    BY SetPathSteps
  <1>2. Along(f[Len(path)], path)[Len(path)] = f[Len(path) - Len(path)]
    <2>1. Len(path) \in 0..Len(path)
      OBVIOUS
    <2>2. Built(f, doc, path, value)
      BY <1>1
    <2>3. \A n \in 0..Len(path) : Along(f[Len(path)], path)[n] = f[Len(path) - n]
      BY <2>2, AlongSet
    <2> QED
      BY <2>1, <2>3
  <1>3. f[Len(path) - Len(path)] = value
    BY <1>1 DEF Built
  <1> QED
    BY <1>1, <1>2, <1>3 DEF GetPath

\* Two paths with a common prefix read the same along it.
LEMMA AlongPrefix ==
  ASSUME NEW doc, NEW p, NEW q, Len(p) \in Nat, Len(q) \in Nat,
         NEW i \in Nat, i <= Len(p), i <= Len(q), \A n \in 1..i : p[n] = q[n]
  PROVE  \A n \in 0..i : Along(doc, p)[n] = Along(doc, q)[n]
  <1> DEFINE S == {n \in Nat : n <= i => Along(doc, p)[n] = Along(doc, q)[n]}
  <1>1. 0 \in S
    BY AlongSteps
  <1>2. \A n \in Nat : n \in S => n + 1 \in S
    <2> SUFFICES ASSUME NEW n \in Nat, n \in S, n + 1 <= i
                 PROVE  Along(doc, p)[n + 1] = Along(doc, q)[n + 1]
      OBVIOUS
    <2>1. Along(doc, p)[n] = Along(doc, q)[n] /\ p[n + 1] = q[n + 1]
      OBVIOUS
    <2>2. n + 1 \in 0..Len(p) /\ n + 1 \in 0..Len(q) /\ n + 1 # 0 /\ (n + 1) - 1 = n
      OBVIOUS
    <2>3. Along(doc, p)[n + 1] = Child(Along(doc, p)[n], p[n + 1])
      BY <2>2, AlongSteps
    <2>4. Along(doc, q)[n + 1] = Child(Along(doc, q)[n], q[n + 1])
      BY <2>2, AlongSteps
    <2> QED
      BY <2>1, <2>3, <2>4
  <1>3. Nat \subseteq S
    <2> HIDE DEF S
    <2> QED
      BY <1>1, <1>2, SetInduction
  <1> QED
    BY <1>3

\* From where two documents agree on a path, they agree to its end.
LEMMA AlongRest ==
  ASSUME NEW doc, NEW new, NEW q, Len(q) \in Nat, NEW i \in 0..Len(q),
         Along(doc, q)[i] = Along(new, q)[i]
  PROVE  GetPath(doc, q) = GetPath(new, q)
  <1> DEFINE S == {n \in Nat : i + n <= Len(q) => Along(doc, q)[i + n] = Along(new, q)[i + n]}
  <1>1. 0 \in S
    OBVIOUS
  <1>2. \A n \in Nat : n \in S => n + 1 \in S
    <2> SUFFICES ASSUME NEW n \in Nat, n \in S, i + (n + 1) <= Len(q)
                 PROVE  Along(doc, q)[i + (n + 1)] = Along(new, q)[i + (n + 1)]
      OBVIOUS
    <2> DEFINE k == i + (n + 1)
    <2>1. Along(doc, q)[i + n] = Along(new, q)[i + n] /\ k \in 0..Len(q) /\ k # 0 /\ k - 1 = i + n
      OBVIOUS
    <2> HIDE DEF k
    <2>2. Along(doc, q)[k] = Child(Along(doc, q)[k - 1], q[k])
      BY <2>1, AlongSteps
    <2>3. Along(new, q)[k] = Child(Along(new, q)[k - 1], q[k])
      BY <2>1, AlongSteps
    <2>4. Along(doc, q)[k] = Along(new, q)[k]
      BY <2>1, <2>2, <2>3
    <2> QED
      BY <2>4 DEF k
  <1>3. Nat \subseteq S
    <2> HIDE DEF S
    <2> QED
      BY <1>1, <1>2, SetInduction
  <1>4. Len(q) - i \in S /\ i + (Len(q) - i) = Len(q)
    BY <1>3
  <1> QED
    BY <1>4 DEF GetPath

\* A write leaves every path that does not overlap its own as it was.
LEMMA SetElsewhere ==
  ASSUME NEW doc, NEW path, NEW value, NEW q, IsPath(path), IsPath(q), ~Overlap(q, path)
  PROVE  GetPath(SetPath(doc, path, value), q) = GetPath(doc, q)
  <1>0. Len(path) \in Nat /\ Len(q) \in Nat /\ DOMAIN path = 1..Len(path) /\ DOMAIN q = 1..Len(q)
    BY DEF IsPath, IsList
  <1> DEFINE Differ == {i \in Nat : i \in DOMAIN path \cap DOMAIN q /\ q[i] # path[i]}
  <1>1. Differ # {}
    BY <1>0 DEF Overlap
  <1>2. PICK i \in Differ : \A j \in Differ : i <= j
    BY <1>1, LeastNatural
  <1>3. /\ i \in 1..Len(path) /\ i \in 1..Len(q) /\ q[i] # path[i]
        /\ i - 1 \in Nat /\ i - 1 <= Len(path) /\ i - 1 <= Len(q)
        /\ \A n \in 1..(i - 1) : path[n] = q[n]
    <2>1. i \in 1..Len(path) /\ i \in 1..Len(q) /\ q[i] # path[i]
      BY <1>0, <1>2
    <2>2. \A n \in 1..(i - 1) : path[n] = q[n]
      BY <1>0, <1>2, <2>1
    <2> QED
      BY <1>0, <2>1, <2>2
  <1>4. PICK f : Built(f, doc, path, value) /\ SetPath(doc, path, value) = f[Len(path)]
    BY <1>0, SetPathSteps
  <1> DEFINE new == SetPath(doc, path, value)
             k == Len(path) - (i - 1)
  <1>5. Along(new, path)[i - 1] = f[k]
    <2>1. i - 1 \in 0..Len(path)
      BY <1>0, <1>3
    <2>2. \A n \in 0..Len(path) : Along(f[Len(path)], path)[n] = f[Len(path) - n]
      <3>1. Len(path) \in Nat /\ Built(f, doc, path, value)
        BY <1>0, <1>4
      <3> QED
        BY <3>1, AlongSet
    <2> QED
      BY <1>4, <2>1, <2>2
  <1>6. f[k] = With(Along(doc, path)[i - 1], path[i], f[k - 1])
    <2>1. k \in 0..Len(path) /\ k # 0 /\ Len(path) - k = i - 1 /\ Len(path) - k + 1 = i
      BY <1>0, <1>3
    <2> HIDE DEF k
    <2> QED
      BY <1>0, <1>4, <2>1 DEF Built
  <1> HIDE DEF new, k
  <1>7. Along(new, q)[i - 1] = Along(new, path)[i - 1] /\ Along(doc, q)[i - 1] = Along(doc, path)[i - 1]
    <2>1. i - 1 \in 0..(i - 1)
      BY <1>3
    <2> QED
      BY <1>0, <1>3, <2>1, AlongPrefix
  <1>8. Along(new, q)[i] = Child(Along(new, q)[i - 1], q[i]) /\ Along(doc, q)[i] = Child(Along(doc, q)[i - 1], q[i])
    <2>1. i \in 0..Len(q) /\ i # 0
      BY <1>0, <1>3
    <2> QED
      BY <1>0, <2>1, AlongSteps
  <1>9. Along(new, q)[i] = Along(doc, q)[i]
    BY <1>3, <1>5, <1>6, <1>7, <1>8, ChildOfWith
  <1>10. i \in 0..Len(q)
    BY <1>0, <1>3
  <1> QED
    BY <1>0, <1>9, <1>10, AlongRest DEF new

\* What a write makes of a document is a document: a rule's result is all that
\* can be an error.
LEMMA SetIsNoError ==
  ASSUME NEW doc, NEW path, NEW value, IsPath(path)
  PROVE  SetPath(doc, path, value) # Error
  <1>0. Len(path) \in Nat /\ Len(path) > 0
    BY DEF IsPath, IsList
  <1>1. PICK f : Built(f, doc, path, value) /\ SetPath(doc, path, value) = f[Len(path)]
    BY <1>0, SetPathSteps
  <1>2. f[Len(path)] = With(Along(doc, path)[Len(path) - Len(path)], path[Len(path) - Len(path) + 1],
                            f[Len(path) - 1])
    <2>1. Len(path) \in 1..Len(path)
      BY <1>0
    <2> QED
      BY <1>0, <1>1, <2>1 DEF Built
  <1> QED
    BY <1>1, <1>2, WithIsDocument

-----------------------------------------------------------------------------
(* The rules of a collection *)

\* What one rule does to the document, by the code's three outcomes.
LEMMA RuleCases ==
  ASSUME NEW r, NEW doc, NEW out, ApplyRule(r, doc, out) # Error
  PROVE  /\ out # Error
         /\ ~Holds(r.when, doc) => ApplyRule(r, doc, out) = out
         /\ Holds(r.when, doc) => /\ RuleResult(r, doc) # Error
                                  /\ ApplyRule(r, doc, out) = SetPath(out, r.field, RuleResult(r, doc))
  BY DEF ApplyRule

\* After an error nothing follows: every rule of a document that was written
\* left a document.
LEMMA NoErrorBefore ==
  ASSUME NEW rules, NEW doc, NEW f, Applied(f, rules, doc), Len(rules) \in Nat,
         f[Len(rules)] # Error
  PROVE  \A n \in 0..Len(rules) : f[n] # Error
  <1> DEFINE N == Len(rules)
             S == {n \in Nat : n <= N => f[N - n] # Error}
  <1>0. \A n \in 1..N : f[n] = ApplyRule(rules[n], doc, f[n - 1])
    BY DEF Applied
  <1>1. 0 \in S
    OBVIOUS
  <1>2. \A n \in Nat : n \in S => n + 1 \in S
    <2> SUFFICES ASSUME NEW n \in Nat, n \in S, n + 1 <= N PROVE f[N - (n + 1)] # Error
      OBVIOUS
    <2> DEFINE k == N - n
    <2>1. k \in 1..N /\ f[k] # Error /\ N - (n + 1) = k - 1
      OBVIOUS
    <2> HIDE DEF N, k
    <2>2. f[k] = ApplyRule(rules[k], doc, f[k - 1])
      BY <1>0, <2>1
    <2> QED
      BY <2>1, <2>2, RuleCases
  <1>3. Nat \subseteq S
    <2> HIDE DEF S
    <2> QED
      BY <1>1, <1>2, SetInduction
  <1>4. ASSUME NEW n \in 0..N PROVE f[n] # Error
    <2>1. N - n \in S /\ N - n <= N /\ N - (N - n) = n
      BY <1>3
    <2> QED
      BY <2>1
  <1> QED
    BY <1>4

\* A path that no rule's field overlaps is left as it was read.
LEMMA RulesElsewhere ==
  ASSUME NEW rules, NEW doc, NEW q, Len(rules) \in Nat, IsPath(q),
         ApplyRules(rules, doc) # Error,
         \A n \in 1..Len(rules) : IsPath(rules[n].field) /\ ~Overlap(q, rules[n].field)
  PROVE  GetPath(ApplyRules(rules, doc), q) = GetPath(doc, q)
  <1>1. PICK f : Applied(f, rules, doc) /\ ApplyRules(rules, doc) = f[Len(rules)]
    BY ApplyRulesSteps
  <1>2. \A n \in 0..Len(rules) : f[n] # Error
    BY <1>1, NoErrorBefore
  <1>3. f[0] = doc /\ \A n \in 1..Len(rules) : f[n] = ApplyRule(rules[n], doc, f[n - 1])
    BY <1>1 DEF Applied
  <1> DEFINE S == {n \in Nat : n <= Len(rules) => GetPath(f[n], q) = GetPath(doc, q)}
  <1>4. 0 \in S
    BY <1>3
  <1>5. \A n \in Nat : n \in S => n + 1 \in S
    <2> SUFFICES ASSUME NEW n \in Nat, n \in S, n + 1 <= Len(rules)
                 PROVE  GetPath(f[n + 1], q) = GetPath(doc, q)
      OBVIOUS
    <2>1. n + 1 \in 1..Len(rules) /\ n + 1 \in 0..Len(rules) /\ (n + 1) - 1 = n
      OBVIOUS
    <2>2. GetPath(f[n], q) = GetPath(doc, q)
      BY <2>1
    <2> DEFINE r == rules[n + 1]
    <2>3. f[n + 1] = ApplyRule(r, doc, f[n]) /\ f[n + 1] # Error /\ IsPath(r.field) /\ ~Overlap(q, r.field)
      BY <1>2, <1>3, <2>1
    <2> HIDE DEF r
    <2>4. f[n + 1] = f[n] \/ f[n + 1] = SetPath(f[n], r.field, RuleResult(r, doc))
      BY <2>3, RuleCases
    <2> QED
      BY <2>2, <2>3, <2>4, SetElsewhere
  <1>6. Nat \subseteq S
    <2> HIDE DEF S
    <2> QED
      BY <1>4, <1>5, SetInduction
  <1>7. Len(rules) \in S
    BY <1>6
  <1> QED
    BY <1>1, <1>7

\* The field of a rule that applies holds what the rule made of the document that
\* was read, when no other rule's field overlaps it.
LEMMA RuleWrites ==
  ASSUME NEW rules, NEW doc, NEW r, Len(rules) \in Nat, NEW i \in 1..Len(rules),
         ApplyRules(rules, doc) # Error,
         rules[i] = r, IsPath(r.field), Holds(r.when, doc),
         \A n \in 1..Len(rules) :
           IsPath(rules[n].field) /\ (rules[n] = r \/ ~Overlap(r.field, rules[n].field))
  PROVE  /\ RuleResult(r, doc) # Error
         /\ GetPath(ApplyRules(rules, doc), r.field) = RuleResult(r, doc)
  <1> DEFINE result == RuleResult(r, doc)
  <1>0. Len(r.field) \in Nat
    BY DEF IsPath, IsList
  <1>1. PICK f : Applied(f, rules, doc) /\ ApplyRules(rules, doc) = f[Len(rules)]
    BY ApplyRulesSteps
  <1>2. \A n \in 0..Len(rules) : f[n] # Error
    BY <1>1, NoErrorBefore
  <1>3. \A n \in 1..Len(rules) : f[n] = ApplyRule(rules[n], doc, f[n - 1])
    BY <1>1 DEF Applied
  <1>4. \A n \in 1..Len(rules) : rules[n] = r => f[n] = SetPath(f[n - 1], r.field, result) /\ result # Error
    <2> SUFFICES ASSUME NEW n \in 1..Len(rules), rules[n] = r
                 PROVE  f[n] = SetPath(f[n - 1], r.field, result) /\ result # Error
      OBVIOUS
    <2>1. f[n] = ApplyRule(r, doc, f[n - 1]) /\ f[n] # Error
      BY <1>2, <1>3
    <2> QED
      BY <2>1, RuleCases
  <1> HIDE DEF result
  <1> DEFINE S == {n \in Nat : i + n <= Len(rules) => GetPath(f[i + n], r.field) = result}
  <1>5. 0 \in S
    <2>1. f[i] = SetPath(f[i - 1], r.field, result)
      BY <1>4
    <2>2. GetPath(f[i], r.field) = result
      BY <1>0, <2>1, SetThenGet
    <2> QED
      BY <2>2
  <1>6. \A n \in Nat : n \in S => n + 1 \in S
    <2> SUFFICES ASSUME NEW n \in Nat, n \in S, i + (n + 1) <= Len(rules)
                 PROVE  GetPath(f[i + (n + 1)], r.field) = result
      OBVIOUS
    <2> DEFINE k == i + (n + 1)
    <2>1. k \in 1..Len(rules) /\ k \in 0..Len(rules) /\ k - 1 = i + n /\ GetPath(f[i + n], r.field) = result
      OBVIOUS
    <2> HIDE DEF k
    <2> DEFINE s == rules[k]
    <2>2. /\ f[k] = ApplyRule(s, doc, f[k - 1]) /\ f[k] # Error /\ IsPath(s.field)
          /\ s = r \/ ~Overlap(r.field, s.field)
          /\ GetPath(f[k - 1], r.field) = result
      BY <1>2, <1>3, <2>1
    <2>3. CASE s = r
      <3>1. f[k] = SetPath(f[k - 1], r.field, result)
        BY <1>4, <2>1, <2>3
      <3>2. GetPath(f[k], r.field) = result
        BY <1>0, <3>1, SetThenGet
      <3> QED
        BY <3>2 DEF k
    <2>4. CASE ~Overlap(r.field, s.field)
      <3> HIDE DEF s
      <3>1. f[k] = f[k - 1] \/ f[k] = SetPath(f[k - 1], s.field, RuleResult(s, doc))
        BY <2>2, RuleCases
      <3>2. GetPath(f[k], r.field) = result
        BY <2>2, <2>4, <3>1, SetElsewhere
      <3> QED
        BY <3>2 DEF k
    <2> QED
      BY <2>2, <2>3, <2>4
  <1>7. Nat \subseteq S
    <2> HIDE DEF S
    <2> QED
      BY <1>5, <1>6, SetInduction
  <1>8. Len(rules) - i \in S /\ i + (Len(rules) - i) = Len(rules)
    BY <1>7
  <1>9. GetPath(f[Len(rules)], r.field) = result
    BY <1>8
  <1>10. result # Error
    BY <1>4
  <1> QED
    BY <1>1, <1>9, <1>10 DEF result

-----------------------------------------------------------------------------
(* Inheritance *)

\* What the configuration and the graph are, as far as these proofs need it.
WellFormedConfigs(configs) ==
  /\ Len(configs) \in Nat /\ DOMAIN configs = 1..Len(configs)
  /\ \A i \in 1..Len(configs) :
       Len(configs[i].rules) \in Nat /\ DOMAIN configs[i].rules = 1..Len(configs[i].rules)

WellFormedEdges(edges) == Len(edges) \in Nat /\ DOMAIN edges = 1..Len(edges)

\* A marked rule j of entry i, an edge k that points at its field, and a holder
\* without a rule of its own.
Wanted(configs, edges, i, j, k) ==
  /\ configs[i].rules[j].refs
  /\ PointsAt(edges[k], configs[i].collection, configs[i].rules[j])
  /\ ~HasExplicit(configs, edges[k].from, edges[k].field)

Passed(configs, edges, i, j, k) ==
  [collection |-> edges[k].from, rule |-> InheritedRule(configs[i].rules[j], edges[k].field)]

Triples(configs, edges) ==
  {x \in (DOMAIN configs) \X Nat \X (DOMAIN edges) :
     x[2] \in DOMAIN configs[x[1]].rules /\ Wanted(configs, edges, x[1], x[2], x[3])}

\* All that may be inherited.
Heirs(configs, edges) == {Passed(configs, edges, x[1], x[2], x[3]) : x \in Triples(configs, edges)}

\* What was inherited stays inherited.
Keeps(a, b) == \A c, f : HasInherited(a, c, f) => HasInherited(b, c, f)

Serves(configs, edges, i, j, k, out) ==
  Wanted(configs, edges, i, j, k) => HasInherited(out, edges[k].from, edges[k].field)

\* One edge.
LEMMA InheritOne ==
  ASSUME NEW configs, NEW edges, WellFormedConfigs(configs),
         NEW i \in DOMAIN configs, NEW j \in DOMAIN configs[i].rules, NEW k \in DOMAIN edges,
         configs[i].rules[j].refs, NEW out \in Seq(Heirs(configs, edges)),
         NEW new, new = Inherit(configs, configs[i].collection, configs[i].rules[j], edges[k], out)
  PROVE  /\ new \in Seq(Heirs(configs, edges))
         /\ Keeps(out, new)
         /\ Serves(configs, edges, i, j, k, new)
  <1> DEFINE h == Passed(configs, edges, i, j, k)
             H == Heirs(configs, edges)
  <1>1. CASE Wanted(configs, edges, i, j, k) /\ ~HasInherited(out, edges[k].from, edges[k].field)
    <2>1. new = Append(out, h)
      BY <1>1 DEF Inherit, Wanted, Passed
    <2>2. h \in H
      <3>1. j \in Nat
        BY DEF WellFormedConfigs
      <3>2. <<i, j, k>> \in Triples(configs, edges)
        BY <1>1, <3>1 DEF Triples
      <3> QED
        BY <3>2 DEF Heirs
    <2>3. h.collection = edges[k].from /\ h.rule.field = edges[k].field
      BY DEF Passed, InheritedRule
    <2> HIDE DEF h, H
    <2>4. new \in Seq(H) /\ Len(new) = Len(out) + 1 /\ new[Len(new)] = h /\ \A n \in 1..Len(out) : new[n] = out[n]
      BY <2>1, <2>2 DEF H
    <2>5. DOMAIN new = 1..Len(new) /\ DOMAIN out = 1..Len(out) /\ Len(out) \in Nat
      BY <2>4
    <2>6. Keeps(out, new)
      BY <2>4, <2>5 DEF Keeps, HasInherited
    <2>7. Len(new) \in DOMAIN new
      BY <2>4, <2>5
    <2>8. HasInherited(new, edges[k].from, edges[k].field)
      BY <2>3, <2>4, <2>7 DEF HasInherited
    <2> QED
      BY <2>4, <2>6, <2>8 DEF H, Serves
  <1>2. CASE ~(Wanted(configs, edges, i, j, k) /\ ~HasInherited(out, edges[k].from, edges[k].field))
    <2>1. new = out
      BY <1>2 DEF Inherit, Wanted
    <2> QED
      BY <1>2, <2>1 DEF Keeps, Serves
  <1> QED
    BY <1>1, <1>2

\* What was inherited earlier still serves.
LEMMA ServesStill ==
  ASSUME NEW configs, NEW edges, NEW i, NEW j, NEW k, NEW a, NEW b,
         Serves(configs, edges, i, j, k, a), Keeps(a, b)
  PROVE  Serves(configs, edges, i, j, k, b)
  BY DEF Serves, Keeps

\* All edges, for one marked rule.
LEMMA InheritRuleServes ==
  ASSUME NEW configs, NEW edges, WellFormedConfigs(configs), WellFormedEdges(edges),
         NEW i \in DOMAIN configs, NEW j \in DOMAIN configs[i].rules,
         configs[i].rules[j].refs, NEW before \in Seq(Heirs(configs, edges)),
         NEW new, new = InheritRule(configs, edges, configs[i].collection, configs[i].rules[j], before)
  PROVE  /\ new \in Seq(Heirs(configs, edges))
         /\ Keeps(before, new)
         /\ \A k \in DOMAIN edges : Serves(configs, edges, i, j, k, new)
  <1> DEFINE c == configs[i].collection
             r == configs[i].rules[j]
             N == Len(edges)
             Good(out, n) == /\ out \in Seq(Heirs(configs, edges)) /\ Keeps(before, out)
                             /\ \A k \in 1..n : Serves(configs, edges, i, j, k, out)
  <1>1. N \in Nat /\ DOMAIN edges = 1..N
    BY DEF WellFormedEdges
  <1>2. PICK f : OverEdges(f, configs, edges, c, r, before) /\ new = f[N]
    BY <1>1, InheritRuleSteps
  <1> DEFINE S == {n \in Nat : n <= N => Good(f[n], n)}
  <1>3. 0 \in S
    BY <1>2 DEF OverEdges, Keeps
  <1>4. \A n \in Nat : n \in S => n + 1 \in S
    <2> HIDE DEF Good
    <2> SUFFICES ASSUME NEW n \in Nat, n + 1 <= N, Good(f[n], n) PROVE Good(f[n + 1], n + 1)
      BY <1>1
    <2>1. n + 1 \in 1..N /\ (n + 1) - 1 = n
      BY <1>1
    <2>2. f[n + 1] = Inherit(configs, c, r, edges[n + 1], f[n])
      BY <1>2, <2>1 DEF OverEdges
    <2>3. f[n] \in Seq(Heirs(configs, edges)) /\ n + 1 \in DOMAIN edges
      BY <1>1, <2>1 DEF Good
    <2>4. /\ f[n + 1] \in Seq(Heirs(configs, edges)) /\ Keeps(f[n], f[n + 1])
          /\ Serves(configs, edges, i, j, n + 1, f[n + 1])
      BY <2>2, <2>3, InheritOne
    <2>5. Keeps(before, f[n + 1])
      BY <2>4 DEF Good, Keeps
    <2>6. ASSUME NEW k \in 1..(n + 1) PROVE Serves(configs, edges, i, j, k, f[n + 1])
      <3>1. CASE k \in 1..n
        BY <2>4, <3>1, ServesStill DEF Good
      <3>2. CASE k = n + 1
        BY <2>4, <3>2
      <3> QED
        BY <3>1, <3>2
    <2> QED
      BY <2>4, <2>5, <2>6 DEF Good
  <1>5. Good(f[N], N)
    <2> HIDE DEF S, Good
    <2>1. Nat \subseteq S
      BY <1>3, <1>4, SetInduction
    <2> QED
      BY <1>1, <2>1 DEF S
  <1> QED
    BY <1>1, <1>2, <1>5

\* All marked rules of one entry.
LEMMA InheritEntryServes ==
  ASSUME NEW configs, NEW edges, WellFormedConfigs(configs), WellFormedEdges(edges),
         NEW i \in DOMAIN configs, NEW before \in Seq(Heirs(configs, edges)),
         NEW new, new = InheritEntry(configs, edges, configs[i], before)
  PROVE  /\ new \in Seq(Heirs(configs, edges))
         /\ Keeps(before, new)
         /\ \A j \in DOMAIN configs[i].rules, k \in DOMAIN edges : Serves(configs, edges, i, j, k, new)
  <1> DEFINE N == Len(configs[i].rules)
             Good(out, n) == /\ out \in Seq(Heirs(configs, edges)) /\ Keeps(before, out)
                             /\ \A j \in 1..n, k \in DOMAIN edges : Serves(configs, edges, i, j, k, out)
  <1>1. N \in Nat /\ DOMAIN configs[i].rules = 1..N
    BY DEF WellFormedConfigs
  <1>2. PICK f : OverRules(f, configs, edges, configs[i], before) /\ new = f[N]
    BY <1>1, InheritEntrySteps
  <1> DEFINE S == {n \in Nat : n <= N => Good(f[n], n)}
  <1>3. 0 \in S
    BY <1>2 DEF OverRules, Keeps
  <1>4. \A n \in Nat : n \in S => n + 1 \in S
    <2> HIDE DEF Good
    <2> SUFFICES ASSUME NEW n \in Nat, n + 1 <= N, Good(f[n], n) PROVE Good(f[n + 1], n + 1)
      BY <1>1
    <2>1. n + 1 \in 1..N /\ (n + 1) - 1 = n /\ n + 1 \in DOMAIN configs[i].rules
      BY <1>1
    <2> DEFINE r == configs[i].rules[n + 1]
    <2>2. f[n + 1] = IF r.refs THEN InheritRule(configs, edges, configs[i].collection, r, f[n]) ELSE f[n]
      BY <1>2, <2>1 DEF OverRules
    <2>3. f[n] \in Seq(Heirs(configs, edges))
      BY DEF Good
    <2>4. /\ f[n + 1] \in Seq(Heirs(configs, edges)) /\ Keeps(f[n], f[n + 1])
          /\ \A k \in DOMAIN edges : Serves(configs, edges, i, n + 1, k, f[n + 1])
      <3>1. CASE r.refs
        BY <2>1, <2>2, <2>3, <3>1, InheritRuleServes
      <3>2. CASE ~r.refs
        <4>1. f[n + 1] = f[n]
          BY <2>2, <3>2
        <4>2. \A k \in DOMAIN edges : ~Wanted(configs, edges, i, n + 1, k)
          BY <3>2 DEF Wanted
        <4> QED
          BY <2>3, <4>1, <4>2 DEF Keeps, Serves
      <3> QED
        BY <3>1, <3>2
    <2>5. Keeps(before, f[n + 1])
      BY <2>4 DEF Good, Keeps
    <2>6. ASSUME NEW j \in 1..(n + 1), NEW k \in DOMAIN edges
          PROVE  Serves(configs, edges, i, j, k, f[n + 1])
      <3>1. CASE j \in 1..n
        BY <2>4, <3>1, ServesStill DEF Good
      <3>2. CASE j = n + 1
        BY <2>4, <3>2
      <3> QED
        BY <3>1, <3>2
    <2> QED
      BY <2>4, <2>5, <2>6 DEF Good
  <1>5. Good(f[N], N)
    <2> HIDE DEF S, Good
    <2>1. Nat \subseteq S
      BY <1>3, <1>4, SetInduction
    <2> QED
      BY <1>1, <2>1 DEF S
  <1> QED
    BY <1>1, <1>2, <1>5

\* expand_inherited passes a marked rule on along an edge or not at all, and no
\* holder that wants one is left without.
LEMMA ExpandInheritedServes ==
  ASSUME NEW configs, NEW edges, WellFormedConfigs(configs), WellFormedEdges(edges),
         NEW new, new = ExpandInherited(configs, edges)
  PROVE  /\ new \in Seq(Heirs(configs, edges))
         /\ \A i \in DOMAIN configs : \A j \in DOMAIN configs[i].rules, k \in DOMAIN edges :
              Serves(configs, edges, i, j, k, new)
  <1> DEFINE N == Len(configs)
             Good(out, n) == /\ out \in Seq(Heirs(configs, edges))
                             /\ \A i \in 1..n : \A j \in DOMAIN configs[i].rules, k \in DOMAIN edges :
                                  Serves(configs, edges, i, j, k, out)
  <1>1. N \in Nat /\ DOMAIN configs = 1..N
    BY DEF WellFormedConfigs
  <1>2. PICK f : OverEntries(f, configs, edges) /\ new = f[N]
    BY <1>1, ExpandInheritedSteps
  <1> DEFINE S == {n \in Nat : n <= N => Good(f[n], n)}
  <1>3. 0 \in S
    <2>1. f[0] = <<>> /\ <<>> \in Seq(Heirs(configs, edges))
      BY <1>2 DEF OverEntries
    <2>2. Good(f[0], 0)
      <3>1. 1..0 = {}
        OBVIOUS
      <3> QED
        BY <2>1, <3>1, Zenon
    <2> HIDE DEF Good
    <2> QED
      BY <2>2
  <1>4. \A n \in Nat : n \in S => n + 1 \in S
    <2> HIDE DEF Good
    <2> SUFFICES ASSUME NEW n \in Nat, n + 1 <= N, Good(f[n], n) PROVE Good(f[n + 1], n + 1)
      BY <1>1
    <2>1. n + 1 \in 1..N /\ (n + 1) - 1 = n /\ n + 1 \in DOMAIN configs
      BY <1>1
    <2>2. f[n + 1] = InheritEntry(configs, edges, configs[n + 1], f[n])
      BY <1>2, <2>1 DEF OverEntries
    <2>3. f[n] \in Seq(Heirs(configs, edges))
      BY DEF Good
    <2>4. /\ f[n + 1] \in Seq(Heirs(configs, edges)) /\ Keeps(f[n], f[n + 1])
          /\ \A j \in DOMAIN configs[n + 1].rules, k \in DOMAIN edges :
               Serves(configs, edges, n + 1, j, k, f[n + 1])
      BY <2>1, <2>2, <2>3, InheritEntryServes
    <2>6. ASSUME NEW i \in 1..(n + 1), NEW j \in DOMAIN configs[i].rules, NEW k \in DOMAIN edges
          PROVE  Serves(configs, edges, i, j, k, f[n + 1])
      <3>1. CASE i \in 1..n
        BY <2>4, <3>1, ServesStill DEF Good
      <3>2. CASE i = n + 1
        BY <2>4, <3>2
      <3> QED
        BY <3>1, <3>2
    <2> QED
      BY <2>4, <2>6 DEF Good
  <1>5. Good(f[N], N)
    <2> HIDE DEF S, Good
    <2>1. Nat \subseteq S
      BY <1>3, <1>4, SetInduction
    <2> QED
      BY <1>1, <2>1 DEF S
  <1> QED
    BY <1>1, <1>2, <1>5

-----------------------------------------------------------------------------
(* Inherited rules joining the entries *)

\* The first entry of a collection, and the last.
LEMMA FirstAndLast ==
  ASSUME NEW N \in Nat, NEW T, T \subseteq 1..N, T # {}
  PROVE  /\ Min(T) \in T /\ \A y \in T : Min(T) <= y
         /\ Max(T) \in T /\ \A y \in T : Max(T) >= y
  <1>1. \E x \in T : \A y \in T : x <= y
    BY LeastNatural, T \subseteq Nat
  <1>2. \E x \in T : \A y \in T : x >= y
    <2> DEFINE U == {n \in Nat : \E x \in T : n = N - x}
    <2>1. U # {}
      <3>1. PICK x \in T : TRUE
        OBVIOUS
      <3>2. x \in 1..N
        BY <3>1
      <3>3. N - x \in U
        BY <3>1, <3>2
      <3> QED
        BY <3>3
    <2>2. PICK n \in U : \A m \in U : n <= m
      BY <2>1, LeastNatural
    <2>3. PICK x \in T : n = N - x
      BY <2>2
    <2>4. ASSUME NEW y \in T PROVE x >= y
      <3>1. N - y \in U
        BY T \subseteq 1..N
      <3> QED
        BY <2>2, <2>3, <3>1, T \subseteq 1..N
    <2> QED
      BY <2>4
  <1> QED
    BY <1>1, <1>2 DEF Min, Max

Configs(cols, whens, queries, rs) == [collection : cols, when : whens, query : queries, rules : Seq(rs)]

\* An entry with one more rule at its end.
Lengthened(a, b, r) ==
  /\ b.collection = a.collection /\ b.when = a.when
  /\ Len(b.rules) = Len(a.rules) + 1
  /\ \A j \in 1..Len(a.rules) : b.rules[j] = a.rules[j]
  /\ b.rules[Len(a.rules) + 1] = r

\* The two ways an inherited rule finds its place.
PushedAlone(cs, t, new) ==
  /\ \A i \in 1..Len(cs) : cs[i].collection # t.collection
  /\ Len(new) = Len(cs) + 1 /\ \A i \in 1..Len(cs) : new[i] = cs[i]
  /\ new[Len(cs) + 1] = Entry(t.collection, <<t.rule>>)

PushedInto(cs, t, new, m) ==
  /\ cs[m].collection = t.collection
  /\ Len(new) = Len(cs)
  /\ \A i \in 1..Len(cs) : i # m => new[i] = cs[i]
  /\ Lengthened(cs[m], new[m], t.rule)

\* The code takes one of them.
LEMMA PushRuleCases ==
  ASSUME NEW cols, NEW whens, NEW queries, NEW rs, {} \in whens, {} \in queries,
         NEW cs \in Seq(Configs(cols, whens, queries, rs)), NEW t \in [collection : cols, rule : rs],
         NEW new, new = PushRule(cs, t)
  PROVE  /\ new \in Seq(Configs(cols, whens, queries, rs))
         /\ PushedAlone(cs, t, new) \/ \E m \in 1..Len(cs) : PushedInto(cs, t, new, m)
  <1> DEFINE own == {i \in DOMAIN cs : cs[i].collection = t.collection}
             C == Configs(cols, whens, queries, rs)
  <1>0. Len(cs) \in Nat /\ DOMAIN cs = 1..Len(cs)
    OBVIOUS
  <1>1. CASE own = {}
    <2> DEFINE e == Entry(t.collection, <<t.rule>>)
    <2>1. new = Append(cs, e)
      BY <1>1 DEF PushRule
    <2>2. e \in C
      <3>1. <<t.rule>> \in Seq(rs) /\ t.collection \in cols
        OBVIOUS
      <3> QED
        BY <3>1 DEF Entry, Configs
    <2> HIDE DEF e, C
    <2>3. new \in Seq(C) /\ Len(new) = Len(cs) + 1 /\ new[Len(cs) + 1] = e /\ \A i \in 1..Len(cs) : new[i] = cs[i]
      BY <2>1, <2>2 DEF C
    <2> QED
      BY <1>0, <1>1, <2>3 DEF PushedAlone, C, e
  <1>2. CASE own # {}
    <2> DEFINE m == Min(own)
               e == [cs[m] EXCEPT !.rules = Append(@, t.rule)]
    <2>1. m \in own
      BY <1>0, <1>2, FirstAndLast
    <2>2. new = [cs EXCEPT ![m] = e]
      BY <1>2 DEF PushRule
    <2>3. m \in 1..Len(cs) /\ cs[m].collection = t.collection
      BY <1>0, <2>1
    <2> HIDE DEF m
    <2>4. cs[m] \in C
      BY <2>3
    <2>5. cs[m].rules \in Seq(rs) /\ t.rule \in rs
      BY <2>4 DEF Configs
    <2>6. Append(cs[m].rules, t.rule) \in Seq(rs)
      BY <2>5
    <2>7. e \in C
      BY <2>4, <2>6 DEF Configs
    <2>8. Lengthened(cs[m], e, t.rule)
      <3>1. e.rules = Append(cs[m].rules, t.rule) /\ e.collection = cs[m].collection /\ e.when = cs[m].when
        BY <2>4 DEF Configs
      <3> QED
        BY <2>5, <3>1 DEF Lengthened
    <2> HIDE DEF e, C
    <2>9. new \in Seq(C) /\ Len(new) = Len(cs) /\ new[m] = e /\ \A i \in 1..Len(cs) : i # m => new[i] = cs[i]
      BY <1>0, <2>2, <2>3, <2>7 DEF C
    <2> QED
      BY <2>3, <2>8, <2>9 DEF PushedInto, C
  <1> QED
    BY <1>1, <1>2

\* What the entries are after n pushes: every configured entry with its condition
\* and its rules in their order; nothing else but inherited rules; new entries
\* unconditional and the only ones of their collection; every inherited rule in
\* some entry of its collection.
Brought(inherited, n, collection, rule) ==
  \E k \in 1..n : inherited[k].collection = collection /\ inherited[k].rule = rule

Longer(a, b) ==
  /\ b.collection = a.collection /\ b.when = a.when
  /\ Len(a.rules) <= Len(b.rules)
  /\ \A j \in 1..Len(a.rules) : b.rules[j] = a.rules[j]

Preserved(configs, cs) == Len(configs) <= Len(cs) /\ \A i \in 1..Len(configs) : Longer(configs[i], cs[i])

Sourced(configs, inherited, n, cs) ==
  \A i \in 1..Len(cs) : \A j \in 1..Len(cs[i].rules) :
    \/ i <= Len(configs) /\ j <= Len(configs[i].rules)
    \/ Brought(inherited, n, cs[i].collection, cs[i].rules[j])

AddedAlone(configs, cs) ==
  \A i \in 1..Len(cs) : i > Len(configs) =>
    cs[i].when = {} /\ \A m \in 1..Len(cs) : cs[m].collection = cs[i].collection => m = i

Held(cs, collection, rule) ==
  \E i \in 1..Len(cs) : cs[i].collection = collection /\ \E j \in 1..Len(cs[i].rules) : cs[i].rules[j] = rule

AllHeld(inherited, n, cs) == \A k \in 1..n : Held(cs, inherited[k].collection, inherited[k].rule)

\* One push into an existing entry.
LEMMA PushInto ==
  ASSUME NEW cols, NEW whens, NEW queries, NEW rs,
         NEW configs \in Seq(Configs(cols, whens, queries, rs)),
         NEW cs \in Seq(Configs(cols, whens, queries, rs)),
         NEW new \in Seq(Configs(cols, whens, queries, rs)),
         NEW inherited, NEW n \in Nat, NEW m \in 1..Len(cs), PushedInto(cs, inherited[n + 1], new, m),
         Preserved(configs, cs), Sourced(configs, inherited, n, cs), AddedAlone(configs, cs),
         AllHeld(inherited, n, cs)
  PROVE  /\ Preserved(configs, new) /\ Sourced(configs, inherited, n + 1, new)
         /\ AddedAlone(configs, new) /\ AllHeld(inherited, n + 1, new)
  <1> DEFINE t == inherited[n + 1]
  <1>1. /\ Len(new) = Len(cs) /\ Len(cs) \in Nat /\ Len(configs) \in Nat
        /\ \A i \in 1..Len(cs) : i # m => new[i] = cs[i]
        /\ Lengthened(cs[m], new[m], t.rule) /\ cs[m].collection = t.collection
    BY DEF PushedInto
  <1>2. \A i \in 1..Len(cs) : Len(cs[i].rules) \in Nat /\ Len(new[i].rules) \in Nat
    <2>1. \A x \in Configs(cols, whens, queries, rs) : Len(x.rules) \in Nat
      BY DEF Configs
    <2>2. \A i \in 1..Len(cs) : cs[i] \in Configs(cols, whens, queries, rs)
      OBVIOUS
    <2>3. \A i \in 1..Len(new) : new[i] \in Configs(cols, whens, queries, rs)
      OBVIOUS
    <2>4. Len(new) = Len(cs)
      BY <1>1
    <2> QED
      BY <2>1, <2>2, <2>3, <2>4
  <1>3. \A i \in 1..Len(cs) : new[i].collection = cs[i].collection /\ new[i].when = cs[i].when
    BY <1>1 DEF Lengthened
  <1>4. \A i \in 1..Len(cs) : \A j \in 1..Len(cs[i].rules) :
          j \in 1..Len(new[i].rules) /\ new[i].rules[j] = cs[i].rules[j]
    BY <1>1, <1>2 DEF Lengthened
  <1>5. \A i \in 1..Len(cs) : \A j \in 1..Len(new[i].rules) :
          j \in 1..Len(cs[i].rules) \/ (i = m /\ new[i].rules[j] = t.rule)
    BY <1>1, <1>2 DEF Lengthened
  <1>6. \A c, r : Brought(inherited, n, c, r) => Brought(inherited, n + 1, c, r)
    BY DEF Brought
  <1>7. Brought(inherited, n + 1, t.collection, t.rule)
    BY DEF Brought
  <1>8. Preserved(configs, new)
    <2>0. \A i \in 1..Len(configs) : Len(configs[i].rules) \in Nat
      BY DEF Configs
    <2>1. \A i \in 1..Len(configs) : i \in 1..Len(cs) /\ Len(configs[i].rules) \in Nat
      BY <1>1, <2>0 DEF Preserved
    <2>2. ASSUME NEW i \in 1..Len(configs) PROVE Longer(configs[i], new[i])
      <3>1. i \in 1..Len(cs) /\ Longer(configs[i], cs[i])
        BY <2>1 DEF Preserved
      <3>2. Len(cs[i].rules) <= Len(new[i].rules)
        BY <1>1, <1>2, <3>1 DEF Lengthened
      <3> QED
        BY <1>2, <1>3, <1>4, <2>1, <3>1, <3>2 DEF Longer
    <2> QED
      BY <1>1, <2>2 DEF Preserved
  <1>9. Sourced(configs, inherited, n + 1, new)
    <2> SUFFICES ASSUME NEW i \in 1..Len(cs), NEW j \in 1..Len(new[i].rules)
                 PROVE  \/ i <= Len(configs) /\ j <= Len(configs[i].rules)
                        \/ Brought(inherited, n + 1, new[i].collection, new[i].rules[j])
      BY <1>1 DEF Sourced
    <2>1. CASE j \in 1..Len(cs[i].rules)
      <3>1. \/ i <= Len(configs) /\ j <= Len(configs[i].rules)
            \/ Brought(inherited, n, cs[i].collection, cs[i].rules[j])
        BY <2>1 DEF Sourced
      <3> QED
        BY <1>3, <1>4, <1>6, <2>1, <3>1
    <2>2. CASE i = m /\ new[i].rules[j] = t.rule
      BY <1>1, <1>3, <1>7, <2>2
    <2> QED
      BY <1>5, <2>1, <2>2
  <1>10. AddedAlone(configs, new)
    BY <1>1, <1>3 DEF AddedAlone
  <1>11. AllHeld(inherited, n + 1, new)
    <2>1. ASSUME NEW c, NEW r, Held(cs, c, r) PROVE Held(new, c, r)
      <3>1. PICK i \in 1..Len(cs) : cs[i].collection = c /\ \E j \in 1..Len(cs[i].rules) : cs[i].rules[j] = r
        BY <2>1 DEF Held
      <3>2. PICK j \in 1..Len(cs[i].rules) : cs[i].rules[j] = r
        BY <3>1
      <3>3. j \in 1..Len(new[i].rules) /\ new[i].rules[j] = r /\ new[i].collection = c /\ i \in 1..Len(new)
        BY <1>1, <1>3, <1>4, <3>1, <3>2
      <3> QED
        BY <3>3 DEF Held
    <2>2. Held(new, t.collection, t.rule)
      <3>1. Len(new[m].rules) \in 1..Len(new[m].rules) /\ new[m].rules[Len(new[m].rules)] = t.rule
        BY <1>1, <1>2 DEF Lengthened
      <3> QED
        BY <1>1, <1>3, <3>1 DEF Held
    <2> QED
      BY <2>1, <2>2 DEF AllHeld
  <1> QED
    BY <1>8, <1>9, <1>10, <1>11

\* One push that makes an entry.
LEMMA PushAlone ==
  ASSUME NEW cols, NEW whens, NEW queries, NEW rs,
         NEW configs \in Seq(Configs(cols, whens, queries, rs)),
         NEW cs \in Seq(Configs(cols, whens, queries, rs)),
         NEW new \in Seq(Configs(cols, whens, queries, rs)),
         NEW inherited, NEW n \in Nat, PushedAlone(cs, inherited[n + 1], new),
         Preserved(configs, cs), Sourced(configs, inherited, n, cs), AddedAlone(configs, cs),
         AllHeld(inherited, n, cs)
  PROVE  /\ Preserved(configs, new) /\ Sourced(configs, inherited, n + 1, new)
         /\ AddedAlone(configs, new) /\ AllHeld(inherited, n + 1, new)
  <1> DEFINE t == inherited[n + 1]
             N == Len(cs)
  <1>1. /\ Len(new) = N + 1 /\ N \in Nat /\ Len(configs) \in Nat
        /\ \A i \in 1..N : new[i] = cs[i] /\ cs[i].collection # t.collection
        /\ new[N + 1] = Entry(t.collection, <<t.rule>>)
    BY DEF PushedAlone
  <1>2. /\ new[N + 1].collection = t.collection /\ new[N + 1].when = {} /\ Len(new[N + 1].rules) = 1
        /\ new[N + 1].rules[1] = t.rule
    BY <1>1 DEF Entry
  <1>3. \A i \in 1..Len(new) : i \in 1..N \/ i = N + 1
    BY <1>1
  <1>4. N + 1 \in 1..Len(new) /\ \A i \in 1..N : i \in 1..Len(new)
    BY <1>1
  <1> HIDE DEF N
  <1>6. \A c, r : Brought(inherited, n, c, r) => Brought(inherited, n + 1, c, r)
    BY DEF Brought
  <1>7. Brought(inherited, n + 1, t.collection, t.rule)
    BY DEF Brought
  <1>8. Preserved(configs, new)
    BY <1>1 DEF Preserved, N
  <1>9. Sourced(configs, inherited, n + 1, new)
    <2> SUFFICES ASSUME NEW i \in 1..Len(new), NEW j \in 1..Len(new[i].rules)
                 PROVE  \/ i <= Len(configs) /\ j <= Len(configs[i].rules)
                        \/ Brought(inherited, n + 1, new[i].collection, new[i].rules[j])
      BY DEF Sourced
    <2>1. CASE i \in 1..N
      BY <1>1, <1>6, <2>1 DEF Sourced, N
    <2>2. CASE i = N + 1
      <3>1. j = 1
        <4>1. Len(new[i].rules) = 1
          BY <1>2, <2>2
        <4>2. j \in 1..1
          BY <4>1
        <4> QED
          BY <4>2
      <3> QED
        BY <1>2, <1>7, <2>2, <3>1
    <2> QED
      BY <1>3, <2>1, <2>2
  <1>10. AddedAlone(configs, new)
    <2> SUFFICES ASSUME NEW i \in 1..Len(new), i > Len(configs)
                 PROVE  new[i].when = {} /\ \A m \in 1..Len(new) : new[m].collection = new[i].collection => m = i
      BY DEF AddedAlone
    <2>1. CASE i \in 1..N
      <3>1. new[i].when = {} /\ \A m \in 1..N : cs[m].collection = cs[i].collection => m = i
        BY <1>1, <2>1 DEF AddedAlone, N
      <3> QED
        BY <1>1, <1>2, <1>3, <2>1, <3>1
    <2>2. CASE i = N + 1
      BY <1>1, <1>2, <1>3, <2>2
    <2> QED
      BY <1>3, <2>1, <2>2
  <1>11. AllHeld(inherited, n + 1, new)
    <2>1. \A c, r : Held(cs, c, r) => Held(new, c, r)
      BY <1>1, <1>4 DEF Held, N
    <2>2. Held(new, t.collection, t.rule)
      BY <1>2, <1>4 DEF Held
    <2> QED
      BY <2>1, <2>2 DEF AllHeld
  <1> QED
    BY <1>8, <1>9, <1>10, <1>11

\* All pushes.
LEMMA PushRulesJoin ==
  ASSUME NEW cols, NEW whens, NEW queries, NEW rs, {} \in whens, {} \in queries,
         NEW configs \in Seq(Configs(cols, whens, queries, rs)),
         NEW inherited \in Seq([collection : cols, rule : rs]),
         NEW new, new = PushRules(configs, inherited)
  PROVE  /\ new \in Seq(Configs(cols, whens, queries, rs))
         /\ Preserved(configs, new) /\ Sourced(configs, inherited, Len(inherited), new)
         /\ AddedAlone(configs, new) /\ AllHeld(inherited, Len(inherited), new)
  <1> DEFINE N == Len(inherited)
             C == Configs(cols, whens, queries, rs)
             Good(cs, n) == /\ cs \in Seq(C)
                            /\ Preserved(configs, cs) /\ Sourced(configs, inherited, n, cs)
                            /\ AddedAlone(configs, cs) /\ AllHeld(inherited, n, cs)
  <1>1. N \in Nat
    OBVIOUS
  <1>2. PICK f : Pushed(f, configs, inherited) /\ new = f[N]
    BY <1>1, PushRulesSteps
  <1> DEFINE S == {n \in Nat : n <= N => Good(f[n], n)}
  <1>3. Good(f[0], 0)
    <2>1. f[0] = configs
      BY <1>2 DEF Pushed
    <2>2. \A i \in 1..Len(configs) : Len(configs[i].rules) \in Nat
      BY DEF Configs
    <2>3. Preserved(configs, configs)
      BY <2>2 DEF Preserved, Longer
    <2>4. Sourced(configs, inherited, 0, configs)
      BY <2>2 DEF Sourced
    <2>5. AddedAlone(configs, configs) /\ AllHeld(inherited, 0, configs)
      BY DEF AddedAlone, AllHeld
    <2> QED
      BY <2>1, <2>3, <2>4, <2>5
  <1>4. \A n \in Nat : n \in S => n + 1 \in S
    <2> HIDE DEF Good, C
    <2> SUFFICES ASSUME NEW n \in Nat, n + 1 <= N, Good(f[n], n) PROVE Good(f[n + 1], n + 1)
      BY <1>1
    <2>1. n + 1 \in 1..N /\ (n + 1) - 1 = n
      BY <1>1
    <2>7. inherited[n + 1] \in [collection : cols, rule : rs]
      <3> DEFINE P == [collection : cols, rule : rs]
      <3>1. inherited \in Seq(P) /\ n + 1 \in 1..Len(inherited)
        BY <2>1
      <3> HIDE DEF P
      <3>2. inherited[n + 1] \in P
        BY <3>1
      <3> QED
        BY <3>2 DEF P
    <2>2. f[n + 1] = PushRule(f[n], inherited[n + 1])
      BY <1>2, <2>1 DEF Pushed
    <2>3. /\ f[n] \in Seq(Configs(cols, whens, queries, rs)) /\ Preserved(configs, f[n])
          /\ Sourced(configs, inherited, n, f[n]) /\ AddedAlone(configs, f[n]) /\ AllHeld(inherited, n, f[n])
      BY DEF Good, C
    <2>4. /\ f[n + 1] \in Seq(Configs(cols, whens, queries, rs))
          /\ \/ PushedAlone(f[n], inherited[n + 1], f[n + 1])
             \/ \E m \in 1..Len(f[n]) : PushedInto(f[n], inherited[n + 1], f[n + 1], m)
      BY <2>2, <2>3, <2>7, PushRuleCases
    <2>5. CASE PushedAlone(f[n], inherited[n + 1], f[n + 1])
      BY <2>3, <2>4, <2>5, PushAlone DEF Good, C
    <2>6. CASE \E m \in 1..Len(f[n]) : PushedInto(f[n], inherited[n + 1], f[n + 1], m)
      <3>1. PICK m \in 1..Len(f[n]) : PushedInto(f[n], inherited[n + 1], f[n + 1], m)
        BY <2>6
      <3> QED
        BY <2>3, <2>4, <3>1, PushInto DEF Good, C
    <2> QED
      BY <2>4, <2>5, <2>6
  <1>5. Good(f[N], N)
    <2> HIDE DEF S, Good
    <2>0. 0 \in S
      BY <1>3 DEF S
    <2>1. Nat \subseteq S
      BY <2>0, <1>4, SetInduction
    <2> QED
      BY <1>1, <2>1 DEF S
  <1> QED
    BY <1>2, <1>5

-----------------------------------------------------------------------------
(* The plan *)

\* A list of the scenario, as the sequence it is.
LEMMA ListIsSeq ==
  ASSUME NEW s, IsList(s), NEW X, \A i \in 1..Len(s) : s[i] \in X
  PROVE  s \in Seq(X)
  <1>1. Len(s) \in Nat /\ s = [i \in 1..Len(s) |-> s[i]]
    BY DEF IsList
  <1>2. [i \in 1..Len(s) |-> s[i]] \in [1..Len(s) -> X]
    OBVIOUS
  <1>3. s \in [1..Len(s) -> X]
    BY <1>1, <1>2
  <1> QED
    BY <1>1, <1>3, SeqDef

IsHeir(configs, edges, collection, rule) ==
  \E h \in Heirs(configs, edges) : h.collection = collection /\ h.rule = rule

\* The expanded configuration: what is there is configured or inherited, and
\* what is configured or can be inherited is there.
LEMMA ExpandJoins ==
  ASSUME NEW configs, NEW edges, IsList(configs), \A i \in DOMAIN configs : IsEntry(configs[i]),
         IsList(edges), NEW cs, cs = Expand(configs, edges)
  PROVE  /\ Len(configs) \in Nat
         /\ \A i \in 1..Len(configs) :
              Len(configs[i].rules) \in Nat /\ DOMAIN configs[i].rules = 1..Len(configs[i].rules)
         /\ Len(cs) \in Nat /\ DOMAIN cs = 1..Len(cs)
         /\ \A i \in 1..Len(cs) : Len(cs[i].rules) \in Nat
         /\ Preserved(configs, cs) /\ AddedAlone(configs, cs)
         /\ \A i \in 1..Len(cs) : \A j \in 1..Len(cs[i].rules) :
              \/ i <= Len(configs) /\ j <= Len(configs[i].rules)
              \/ IsHeir(configs, edges, cs[i].collection, cs[i].rules[j])
         /\ \A i \in DOMAIN configs : \A j \in DOMAIN configs[i].rules, k \in DOMAIN edges :
              Wanted(configs, edges, i, j, k) =>
                \E r : /\ r.field = edges[k].field
                       /\ Held(cs, edges[k].from, r) /\ IsHeir(configs, edges, edges[k].from, r)
  <1> DEFINE H == Heirs(configs, edges)
             inh == ExpandInherited(configs, edges)
             cols == {configs[i].collection : i \in DOMAIN configs} \cup {h.collection : h \in H}
             whens == {configs[i].when : i \in DOMAIN configs} \cup {{}}
             queries == {configs[i].query : i \in DOMAIN configs} \cup {{}}
             Own(i) == {configs[i].rules[j] : j \in DOMAIN configs[i].rules}
             own == UNION {Own(i) : i \in DOMAIN configs}
             rs == own \cup {h.rule : h \in H}
             C == Configs(cols, whens, queries, rs)
  <1>1. Len(configs) \in Nat /\ DOMAIN configs = 1..Len(configs)
    BY DEF IsList
  <1>2. \A i \in DOMAIN configs :
          /\ IsList(configs[i].rules)
          /\ Len(configs[i].rules) \in Nat /\ DOMAIN configs[i].rules = 1..Len(configs[i].rules)
    BY DEF IsEntry, IsList
  <1>3. WellFormedConfigs(configs) /\ WellFormedEdges(edges)
    BY <1>1, <1>2 DEF WellFormedConfigs, WellFormedEdges, IsList
  <1>4. /\ inh \in Seq(H)
        /\ \A i \in DOMAIN configs : \A j \in DOMAIN configs[i].rules, k \in DOMAIN edges :
             Serves(configs, edges, i, j, k, inh)
    BY <1>3, ExpandInheritedServes
  <1>5. configs \in Seq(C)
    <2>1. ASSUME NEW i \in DOMAIN configs PROVE configs[i] \in C
      <3>1. configs[i].rules \in Seq(rs)
        <4>1. \A j \in DOMAIN configs[i].rules : configs[i].rules[j] \in rs
          <5>1. Own(i) \subseteq own
            <6> HIDE DEF Own
            <6> QED
              OBVIOUS
          <5>2. \A j \in DOMAIN configs[i].rules : configs[i].rules[j] \in Own(i)
            OBVIOUS
          <5> HIDE DEF own, Own, H
          <5> QED
            BY <5>1, <5>2
        <4> HIDE DEF rs
        <4> QED
          BY <1>2, <4>1, ListIsSeq
      <3>2. configs[i].collection \in cols /\ configs[i].when \in whens /\ configs[i].query \in queries
        OBVIOUS
      <3>3. configs[i] = [collection |-> configs[i].collection, when |-> configs[i].when,
                          query |-> configs[i].query, rules |-> configs[i].rules]
        BY DEF IsEntry
      <3> HIDE DEF rs, cols, whens, queries
      <3> QED
        BY <3>1, <3>2, <3>3 DEF Configs
    <2> HIDE DEF C
    <2> QED
      BY <1>1, <2>1, ListIsSeq
  <1>6. H \subseteq [collection : cols, rule : rs]
    <2> SUFFICES ASSUME NEW h \in H PROVE h \in [collection : cols, rule : rs]
      OBVIOUS
    <2>1. PICK x \in Triples(configs, edges) : h = Passed(configs, edges, x[1], x[2], x[3])
      BY DEF Heirs
    <2>2. h = [collection |-> h.collection, rule |-> h.rule]
      BY <2>1 DEF Passed
    <2>3. h.collection \in cols /\ h.rule \in rs
      <3> HIDE DEF H, own
      <3> QED
        OBVIOUS
    <2> HIDE DEF cols, rs, H
    <2> QED
      BY <2>2, <2>3
  <1>7. inh \in Seq([collection : cols, rule : rs])
    <2> HIDE DEF H, inh, cols, rs
    <2> QED
      BY <1>4, <1>6, SeqMonotonic
  <1>8. {} \in whens /\ {} \in queries
    OBVIOUS
  <1>9. cs = PushRules(configs, inh)
    BY DEF Expand
  <1> HIDE DEF cols, whens, queries, rs, inh
  <1>10. /\ cs \in Seq(Configs(cols, whens, queries, rs))
         /\ Preserved(configs, cs) /\ Sourced(configs, inh, Len(inh), cs)
         /\ AddedAlone(configs, cs) /\ AllHeld(inh, Len(inh), cs)
    BY <1>5, <1>7, <1>8, <1>9, PushRulesJoin
  <1>11. /\ Len(cs) \in Nat /\ DOMAIN cs = 1..Len(cs)
         /\ \A i \in 1..Len(cs) : Len(cs[i].rules) \in Nat
    <2>1. \A i \in 1..Len(cs) : cs[i] \in C
      <3> HIDE DEF C
      <3> QED
        BY <1>10 DEF C
    <2>2. \A i \in 1..Len(cs) : Len(cs[i].rules) \in Nat
      BY <2>1 DEF Configs
    <2> HIDE DEF C
    <2>3. cs \in Seq(C)
      BY <1>10 DEF C
    <2> QED
      BY <2>2, <2>3
  <1>12. \A k \in 1..Len(inh) : inh[k] \in H
    <2> HIDE DEF H
    <2> QED
      BY <1>4
  <1>13. \A i \in 1..Len(cs) : \A j \in 1..Len(cs[i].rules) :
           \/ i <= Len(configs) /\ j <= Len(configs[i].rules)
           \/ IsHeir(configs, edges, cs[i].collection, cs[i].rules[j])
    BY <1>10, <1>12 DEF Sourced, Brought, IsHeir
  <1>14. ASSUME NEW i \in DOMAIN configs, NEW j \in DOMAIN configs[i].rules, NEW k \in DOMAIN edges,
                Wanted(configs, edges, i, j, k)
         PROVE  \E r : /\ r.field = edges[k].field
                       /\ Held(cs, edges[k].from, r) /\ IsHeir(configs, edges, edges[k].from, r)
    <2>1. HasInherited(inh, edges[k].from, edges[k].field)
      BY <1>4, <1>14 DEF Serves
    <2>2. DOMAIN inh = 1..Len(inh)
      <3> HIDE DEF H
      <3> QED
        BY <1>4
    <2>3. PICK n \in 1..Len(inh) : inh[n].collection = edges[k].from /\ inh[n].rule.field = edges[k].field
      BY <2>1, <2>2 DEF HasInherited
    <2>4. Held(cs, edges[k].from, inh[n].rule)
      BY <1>10, <2>3 DEF AllHeld
    <2>5. IsHeir(configs, edges, edges[k].from, inh[n].rule)
      BY <1>12, <2>3 DEF IsHeir
    <2> QED
      BY <2>3, <2>4, <2>5
  <1> QED
    BY <1>1, <1>2, <1>10, <1>11, <1>13, <1>14

\* A rule that the collection may have inherited, in the scenario at hand.
Inherited(c, r) == IsHeir(scenario.configs, scenario.edges, c, r)

Planned(c) == {plan[c].rules[n] : n \in 1..Len(plan[c].rules)}

\* What a compiled plan holds for a collection: the last of its entries, with
\* that entry's condition and rules, and rules it inherited; every rule it should
\* inherit when it has at most one entry.
LEMMA CompiledPlan ==
  ASSUME scenario \in Scenarios, plan = Compile(Expand(scenario.configs, scenario.edges)), NEW c
  PROVE  /\ c \in DOMAIN plan => /\ Len(plan[c].rules) \in Nat
                                 /\ \A r \in Planned(c) : r \in RulesOf(c) \/ Inherited(c, r)
         /\ Entries(c) # {} =>
              LET m == Max(Entries(c))
              IN /\ m \in Entries(c) /\ c \in DOMAIN plan
                 /\ plan[c].when = scenario.configs[m].when
                 /\ Rules(m) \subseteq Planned(c)
                 /\ \A r \in Planned(c) : r \in Rules(m) \/ Inherited(c, r)
         /\ Entries(c) = {} /\ c \in DOMAIN plan => plan[c].when = {}
         /\ (\A i, j \in Entries(c) : i = j) =>
              \A i \in DOMAIN scenario.configs : \A j \in DOMAIN scenario.configs[i].rules :
                \A k \in DOMAIN scenario.edges :
                  /\ Wanted(scenario.configs, scenario.edges, i, j, k) /\ scenario.edges[k].from = c
                  => c \in DOMAIN plan /\ \E r \in Planned(c) : r.field = scenario.edges[k].field /\ Inherited(c, r)
  <1> DEFINE configs == scenario.configs
             edges == scenario.edges
             cs == Expand(configs, edges)
             Of == {i \in DOMAIN cs : cs[i].collection = c}
             L == Len(configs)
             N == Len(cs)
             Wants(k) == \E i \in DOMAIN configs : \E j \in DOMAIN configs[i].rules :
                           Wanted(configs, edges, i, j, k) /\ edges[k].from = c
  <1>0. IsList(configs) /\ (\A i \in DOMAIN configs : IsEntry(configs[i])) /\ IsList(edges)
    BY ScenarioAssumption
  <1>1. DOMAIN configs = 1..L
    BY <1>0 DEF IsList
  <1>2. /\ L \in Nat
        /\ \A i \in 1..L : Len(configs[i].rules) \in Nat /\ DOMAIN configs[i].rules = 1..Len(configs[i].rules)
        /\ N \in Nat /\ DOMAIN cs = 1..N
        /\ \A i \in 1..N : Len(cs[i].rules) \in Nat
        /\ Preserved(configs, cs) /\ AddedAlone(configs, cs)
        /\ \A i \in 1..N : \A j \in 1..Len(cs[i].rules) :
             \/ i <= L /\ j <= Len(configs[i].rules)
             \/ IsHeir(configs, edges, cs[i].collection, cs[i].rules[j])
    <2> HIDE DEF configs, edges
    <2> QED
      BY <1>0, ExpandJoins
  <1>3. \A i \in DOMAIN configs : \A j \in DOMAIN configs[i].rules, k \in DOMAIN edges :
          Wanted(configs, edges, i, j, k) =>
            \E r : /\ r.field = edges[k].field
                   /\ Held(cs, edges[k].from, r) /\ IsHeir(configs, edges, edges[k].from, r)
    <2> HIDE DEF configs, edges
    <2> QED
      BY <1>0, ExpandJoins
  <1>4. /\ DOMAIN plan = {cs[i].collection : i \in DOMAIN cs}
        /\ c \in DOMAIN plan => plan[c] = cs[Max(Of)]
    BY DEF Compile
  <1>5. Entries(c) = {i \in 1..L : configs[i].collection = c}
    BY <1>1 DEF Entries
  <1>6. \A i : Rules(i) = {configs[i].rules[j] : j \in DOMAIN configs[i].rules}
    BY DEF Rules
  <1>7. \A r : Inherited(c, r) <=> IsHeir(configs, edges, c, r)
    BY DEF Inherited
  <1> HIDE DEF configs, edges, cs
  <1>8. c \in DOMAIN plan => Of # {} /\ Max(Of) \in Of /\ Max(Of) \in 1..N
    <2>1. SUFFICES ASSUME c \in DOMAIN plan PROVE Of # {} /\ Max(Of) \in Of /\ Max(Of) \in 1..N
      OBVIOUS
    <2>2. Of # {} /\ Of \subseteq 1..N
      BY <1>2, <1>4, <2>1
    <2> HIDE DEF Of
    <2>3. Max(Of) \in Of
      BY <1>2, <2>2, FirstAndLast
    <2> QED
      BY <2>2, <2>3
  <1>9. \A i \in 1..L : i \in 1..N /\ Longer(configs[i], cs[i])
    BY <1>2 DEF Preserved
  <1>10. Entries(c) # {} => Of = Entries(c)
    <2> SUFFICES ASSUME NEW e \in Entries(c) PROVE Of = Entries(c)
      OBVIOUS
    <2>1. e \in Of /\ e \in 1..L
      BY <1>2, <1>5, <1>9 DEF Longer
    <2>2. ASSUME NEW i \in Of PROVE i \in Entries(c)
      <3>1. i \in 1..N /\ cs[i].collection = c
        BY <1>2
      <3>2. i <= L
        BY <1>2, <2>1, <3>1 DEF AddedAlone
      <3>3. i \in 1..L
        BY <1>2, <3>1, <3>2
      <3> QED
        BY <1>5, <1>9, <3>1, <3>3 DEF Longer
    <2>3. ASSUME NEW i \in Entries(c) PROVE i \in Of
      BY <1>2, <1>5, <1>9 DEF Longer
    <2> QED
      BY <2>2, <2>3
  <1> DEFINE M == Max(Of)
             rules == plan[c].rules
  <1>11. ASSUME c \in DOMAIN plan
         PROVE  /\ M \in 1..N /\ cs[M].collection = c /\ plan[c] = cs[M] /\ Len(rules) \in Nat
                /\ \A n \in 1..Len(rules) : \/ M <= L /\ n <= Len(configs[M].rules)
                                            \/ Inherited(c, rules[n])
    <2>1. M \in 1..N /\ cs[M].collection = c /\ plan[c] = cs[M]
      BY <1>4, <1>8, <1>11
    <2> HIDE DEF M
    <2> QED
      BY <1>2, <1>7, <2>1
  <1> HIDE DEF Of
  <1>12. ASSUME c \in DOMAIN plan, M <= L, NEW n \in 1..Len(rules), n <= Len(configs[M].rules)
         PROVE  rules[n] \in Rules(M) /\ M \in Entries(c)
    <2>1. M \in 1..L /\ plan[c] = cs[M] /\ cs[M].collection = c
      BY <1>2, <1>11, <1>12
    <2> HIDE DEF M
    <2>2. n \in 1..Len(configs[M].rules) /\ Longer(configs[M], cs[M])
      BY <1>2, <1>9, <1>11, <1>12, <2>1
    <2>3. rules[n] = configs[M].rules[n] /\ configs[M].collection = c /\ n \in DOMAIN configs[M].rules
      BY <1>2, <2>1, <2>2 DEF Longer
    <2> QED
      BY <1>5, <1>6, <2>1, <2>3
  <1>13. ASSUME c \in DOMAIN plan, NEW r \in Planned(c)
         PROVE  (r \in Rules(M) /\ M \in Entries(c)) \/ Inherited(c, r)
    <2>1. PICK n \in 1..Len(rules) : r = rules[n]
      BY DEF Planned
    <2> HIDE DEF M, rules
    <2> QED
      BY <1>11, <1>12, <1>13, <2>1
  <1>14. c \in DOMAIN plan => /\ Len(plan[c].rules) \in Nat
                              /\ \A r \in Planned(c) : r \in RulesOf(c) \/ Inherited(c, r)
    <2> HIDE DEF M
    <2> QED
      BY <1>11, <1>13 DEF RulesOf
  <1>15. ASSUME Entries(c) # {}
         PROVE  LET m == Max(Entries(c))
                IN /\ m \in Entries(c) /\ c \in DOMAIN plan
                   /\ plan[c].when = scenario.configs[m].when
                   /\ Rules(m) \subseteq Planned(c)
                   /\ \A r \in Planned(c) : r \in Rules(m) \/ Inherited(c, r)
    <2>1. Of = Entries(c) /\ M = Max(Entries(c))
      BY <1>10, <1>15
    <2>2. M \in Entries(c)
      BY <1>2, <1>5, <1>15, <2>1, FirstAndLast
    <2> HIDE DEF M
    <2>3. M \in 1..L /\ configs[M].collection = c /\ Longer(configs[M], cs[M]) /\ M \in 1..N
      BY <1>5, <1>9, <2>2
    <2>4. c \in DOMAIN plan
      BY <1>2, <1>4, <2>3 DEF Longer
    <2>5. plan[c] = cs[M]
      BY <1>11, <2>4 DEF M
    <2>6. plan[c].when = configs[M].when
      BY <2>3, <2>5 DEF Longer
    <2>7. ASSUME NEW r \in Rules(M) PROVE r \in Planned(c)
      <3>1. PICK j \in DOMAIN configs[M].rules : r = configs[M].rules[j]
        BY <1>6
      <3>2. j \in 1..Len(configs[M].rules) /\ Len(configs[M].rules) \in Nat
        BY <1>2, <2>3, <3>1
      <3>3. j \in 1..Len(rules) /\ rules[j] = r
        BY <1>2, <2>3, <2>5, <3>1, <3>2 DEF Longer
      <3> QED
        BY <3>3 DEF Planned
    <2>8. \A r \in Planned(c) : r \in Rules(M) \/ Inherited(c, r)
      BY <1>13, <2>4 DEF M
    <2> QED
      BY <2>1, <2>2, <2>4, <2>6, <2>7, <2>8 DEF configs
  <1>16. ASSUME Entries(c) = {}, c \in DOMAIN plan PROVE plan[c].when = {}
    <2>1. M \in 1..N /\ plan[c] = cs[M] /\ cs[M].collection = c
      BY <1>11, <1>16
    <2> HIDE DEF M
    <2>2. M > L
      <3> SUFFICES ASSUME M <= L PROVE FALSE
        BY <1>2, <2>1
      <3>1. M \in 1..L
        BY <1>2, <2>1
      <3> QED
        BY <1>5, <1>9, <1>16, <2>1, <3>1 DEF Longer
    <2> QED
      BY <1>2, <2>1, <2>2 DEF AddedAlone
  <1>17. ASSUME \A i, j \in Entries(c) : i = j,
                NEW i \in DOMAIN configs, NEW j \in DOMAIN configs[i].rules, NEW k \in DOMAIN edges,
                Wanted(configs, edges, i, j, k), edges[k].from = c
         PROVE  c \in DOMAIN plan /\ \E r \in Planned(c) : r.field = edges[k].field /\ Inherited(c, r)
    <2>1. PICK r : r.field = edges[k].field /\ Held(cs, c, r) /\ IsHeir(configs, edges, c, r)
      BY <1>3, <1>17
    <2>2. PICK x \in 1..N : cs[x].collection = c /\ \E y \in 1..Len(cs[x].rules) : cs[x].rules[y] = r
      BY <2>1 DEF Held
    <2>3. c \in DOMAIN plan /\ x \in Of
      BY <1>2, <1>4, <2>2 DEF Of
    <2>4. M \in Of /\ M \in 1..N /\ plan[c] = cs[M]
      BY <1>4, <1>8, <2>3
    <2>5. x = M
      <3>1. CASE Entries(c) # {}
        BY <1>10, <1>17, <2>3, <2>4, <3>1
      <3>2. CASE Entries(c) = {}
        <4>1. x > L
          <5> SUFFICES ASSUME x <= L PROVE FALSE
            BY <1>2, <2>2
          <5>1. x \in 1..L
            BY <1>2, <2>2
          <5> QED
            BY <1>5, <1>9, <2>2, <3>2, <5>1 DEF Longer
        <4>2. cs[M].collection = c
          BY <2>4 DEF Of
        <4> HIDE DEF M
        <4> QED
          BY <1>2, <2>2, <2>4, <4>1, <4>2 DEF AddedAlone
      <3> QED
        BY <3>1, <3>2
    <2>6. r \in Planned(c)
      BY <2>2, <2>4, <2>5 DEF Planned
    <2> QED
      BY <1>7, <2>1, <2>3, <2>6
  <1> QED
    BY <1>14, <1>15, <1>16, <1>17 DEF configs, edges

Expanded == Expand(scenario.configs, scenario.edges)

\* What may have been written once the documents before n are dealt with.
Produced(n) ==
  {w \in {[source |-> k, out |-> TransformDocument(plan, scenario.docs[k].collection, scenario.docs[k].doc)] :
            k \in 1..n} :
     w.out # Error}

\* The inductive invariant: a document is written as the plan of the whole
\* configuration transforms it, and nothing is before that plan is compiled.
MaskInv ==
  /\ scenario \in Scenarios
  /\ MaskTypeOK
  /\ pc \in {"compile", "refused"} => written = <<>>
  /\ pc \notin {"compile", "refused"} => Compiles(Expanded) /\ plan = Compile(Expanded)
  /\ written \in Seq(Produced(next - 1))

\* The initial states satisfy the invariant.
LEMMA MaskInvInit == MaskInit => MaskInv
  <1> SUFFICES ASSUME MaskInit PROVE MaskInv
    OBVIOUS
  <1>1. IsList(scenario.docs)
    BY ScenarioAssumption DEF MaskInit
  <1>2. Len(scenario.docs) \in Nat
    BY <1>1 DEF IsList
  <1>3. written \in Seq(Produced(next - 1))
    BY DEF MaskInit
  <1> QED
    BY <1>2, <1>3 DEF MaskInit, MaskInv, MaskTypeOK

\* Every step preserves the invariant.
LEMMA MaskInvNext == MaskInv /\ [MaskNext]_maskVars => MaskInv'
  <1> SUFFICES ASSUME MaskInv, [MaskNext]_maskVars PROVE MaskInv'
    OBVIOUS
  <1>1. Len(scenario.docs) \in Nat
    BY ScenarioAssumption DEF MaskInv, IsList
  <1>2. /\ scenario \in Scenarios /\ next \in 1..(Len(scenario.docs) + 1)
        /\ \A i \in DOMAIN written : written[i].source \in 1..(next - 1)
        /\ pc \in {"compile", "stream", "done", "refused", "failed"}
        /\ written \in Seq(Produced(next - 1))
    BY DEF MaskInv, MaskTypeOK
  <1>3. CASE CompileRefused
    BY <1>1, <1>3 DEF CompileRefused, MaskInv, MaskTypeOK, Produced
  <1>4. CASE CompileOk
    <2>1. written = <<>> /\ written' = <<>> /\ next' = next /\ scenario' = scenario
      BY <1>4 DEF CompileOk, MaskInv
    <2>2. written' \in Seq(Produced(next - 1)')
      BY <2>1
    <2>3. MaskTypeOK'
      BY <1>2, <1>4, <2>1 DEF CompileOk, MaskTypeOK
    <2>4. (pc \notin {"compile", "refused"} => Compiles(Expanded) /\ plan = Compile(Expanded))'
      BY <1>4 DEF CompileOk, Expanded
    <2> QED
      BY <1>2, <1>4, <2>1, <2>2, <2>3, <2>4 DEF CompileOk, MaskInv
  <1>5. CASE Skip
    <2>1. /\ next' = next + 1 /\ next \in 1..Len(scenario.docs)
          /\ UNCHANGED <<scenario, plan, written, pc>>
      BY <1>1, <1>2, <1>5 DEF Skip, Reading
    <2>2. Produced(next - 1) \subseteq Produced(next - 1)'
      BY <2>1 DEF Produced
    <2>3. written' \in Seq(Produced(next - 1)')
      BY <1>2, <2>1, <2>2
    <2>4. MaskTypeOK'
      BY <1>1, <1>2, <2>1 DEF MaskTypeOK
    <2> QED
      BY <2>1, <2>3, <2>4 DEF MaskInv, Expanded
  <1>6. CASE Write
    <2> DEFINE out == TransformDocument(plan, Current.collection, Current.doc)
               w == [source |-> next, out |-> out]
    <2>1. /\ next' = next + 1 /\ next \in 1..Len(scenario.docs)
          /\ UNCHANGED <<scenario, plan, pc>> /\ written' = Append(written, w) /\ out # Error
          /\ pc = "stream"
      BY <1>1, <1>2, <1>6 DEF Write, Reading
    <2>2. Produced(next - 1) \subseteq Produced(next)
      BY <2>1 DEF Produced
    <2>3. w \in Produced(next)
      <3>1. out = TransformDocument(plan, scenario.docs[next].collection, scenario.docs[next].doc)
        BY DEF Current
      <3> HIDE DEF out
      <3>2. next \in 1..next
        BY <2>1
      <3> QED
        BY <2>1, <3>1, <3>2 DEF Produced
    <2>4. Produced(next - 1)' = Produced(next)
      BY <2>1 DEF Produced
    <2>5. written \in Seq(Produced(next))
      BY <1>2, <2>2
    <2> HIDE DEF w
    <2>6. written' \in Seq(Produced(next - 1)')
      BY <2>1, <2>3, <2>4, <2>5
    <2>7. MaskTypeOK'
      <3>1. \A i \in DOMAIN written' : written'[i].source \in 1..next
        <4>1. \A i \in DOMAIN written' : written'[i] \in Produced(next)
          BY <2>4, <2>6
        <4> QED
          BY <4>1 DEF Produced
      <3> QED
        BY <1>1, <1>2, <2>1, <3>1 DEF MaskTypeOK
    <2> QED
      BY <1>2, <2>1, <2>6, <2>7 DEF MaskInv, Expanded
  <1>7. CASE TransformFails
    BY <1>1, <1>7 DEF TransformFails, Reading, MaskInv, MaskTypeOK, Produced, Expanded
  <1>8. CASE Finish
    BY <1>1, <1>8 DEF Finish, MaskInv, MaskTypeOK, Produced, Expanded
  <1>9. CASE UNCHANGED maskVars
    BY <1>9 DEF maskVars, MaskInv, MaskTypeOK, Produced, Expanded
  <1> QED
    BY <1>3, <1>4, <1>5, <1>6, <1>7, <1>8, <1>9 DEF MaskNext, Terminating

\* The invariant of every run of the plan.
THEOREM MaskInvHolds == MaskSpec => []MaskInv
  BY MaskInvInit, MaskInvNext, PTL DEF MaskSpec

\* What is read and written stays within the documents of the source, in
\* every run (cmd_dump, dump_collection).
THEOREM MaskTypeCorrect == MaskSpec => []MaskTypeOK
  <1>1. MaskInv => MaskTypeOK
    BY DEF MaskInv
  <1> QED
    BY <1>1, MaskInvHolds, PTL

-----------------------------------------------------------------------------
(* What was written *)

Source(w) == Original(w).collection

\* A written document is what the compiled plan makes of the one that was read.
LEMMA WrittenAs ==
  ASSUME MaskInv, NEW w \in Writes
  PROVE  /\ scenario \in Scenarios /\ plan = Compile(Expand(scenario.configs, scenario.edges))
         /\ w.source \in DOMAIN scenario.docs
         /\ w.out # Error
         /\ w.out = TransformDocument(plan, Source(w), Original(w).doc)
  <1>1. PICK i \in DOMAIN written : w = written[i]
    BY DEF Writes
  <1>2. written[i] \in Produced(next - 1)
    BY <1>1 DEF MaskInv
  <1>3. written # <<>>
    BY <1>1
  <1>4. plan = Compile(Expand(scenario.configs, scenario.edges)) /\ scenario \in Scenarios
    BY <1>3 DEF MaskInv, Expanded
  <1>5. IsList(scenario.docs) /\ next \in 1..(Len(scenario.docs) + 1)
    BY <1>4, ScenarioAssumption DEF MaskInv, MaskTypeOK
  <1>6. PICK k \in 1..(next - 1) :
          /\ w = [source |-> k, out |-> TransformDocument(plan, scenario.docs[k].collection, scenario.docs[k].doc)]
          /\ w.out # Error
    BY <1>1, <1>2 DEF Produced
  <1>7. k \in DOMAIN scenario.docs
    BY <1>5 DEF IsList
  <1> QED
    BY <1>4, <1>6, <1>7 DEF Source, Original

\* What an inherited rule is: a copy of the name and parameters of a marked rule
\* that a reference of the collection points at, on a field without a rule.
LEMMA InheritedIs ==
  ASSUME scenario \in Scenarios, NEW c, NEW r, Inherited(c, r)
  PROVE  \E i \in DOMAIN scenario.configs : \E j \in DOMAIN scenario.configs[i].rules, k \in DOMAIN scenario.edges :
           /\ Wanted(scenario.configs, scenario.edges, i, j, k)
           /\ scenario.edges[k].from = c
           /\ r = InheritedRule(scenario.configs[i].rules[j], scenario.edges[k].field)
  BY DEF Inherited, IsHeir, Heirs, Triples, Passed

\* So it governs its field, alone and unconditionally.
LEMMA InheritedGoverns ==
  ASSUME scenario \in Scenarios, NEW c, NEW r, Inherited(c, r)
  PROVE  /\ IsPath(r.field) /\ r.field \in Governed(c) /\ r.when = {}
         /\ \A s \in RulesOf(c) : s.field # r.field
  <1>1. PICK i, j, k :
          /\ i \in DOMAIN scenario.configs /\ j \in DOMAIN scenario.configs[i].rules /\ k \in DOMAIN scenario.edges
          /\ Wanted(scenario.configs, scenario.edges, i, j, k)
          /\ scenario.edges[k].from = c
          /\ r = InheritedRule(scenario.configs[i].rules[j], scenario.edges[k].field)
    BY InheritedIs
  <1>2. r.field = scenario.edges[k].field /\ r.when = {}
    BY <1>1 DEF InheritedRule
  <1>3. IsPath(r.field)
    BY <1>1, <1>2, ScenarioAssumption
  <1>4. r.field \in Governed(c)
    BY <1>1, <1>2 DEF Governed, Edges
  <1>5. \A s \in RulesOf(c) : s.field # r.field
    BY <1>1, <1>2 DEF RulesOf, Rules, Entries, Wanted, HasExplicit
  <1> QED
    BY <1>2, <1>3, <1>4, <1>5

\* A configured rule is one of its entry's.
LEMMA ConfiguredGoverns ==
  ASSUME scenario \in Scenarios, NEW c, NEW r \in RulesOf(c)
  PROVE  IsRule(r) /\ IsPath(r.field) /\ r.field \in Governed(c)
  <1>1. PICK i, j :
          /\ i \in DOMAIN scenario.configs /\ j \in DOMAIN scenario.configs[i].rules
          /\ r = scenario.configs[i].rules[j]
    BY DEF RulesOf, Rules, Entries
  <1>2. IsEntry(scenario.configs[i])
    BY <1>1, ScenarioAssumption
  <1>3. IsRule(r)
    BY <1>1, <1>2 DEF IsEntry
  <1> QED
    BY <1>3 DEF IsRule, Governed

\* Every rule of the compiled plan is on a field that is governed.
LEMMA PlannedGoverns ==
  ASSUME scenario \in Scenarios, plan = Compile(Expand(scenario.configs, scenario.edges)),
         NEW c \in DOMAIN plan, NEW n \in 1..Len(plan[c].rules)
  PROVE  IsPath(plan[c].rules[n].field) /\ plan[c].rules[n].field \in Governed(c)
  <1>1. plan[c].rules[n] \in Planned(c)
    BY DEF Planned
  <1>2. plan[c].rules[n] \in RulesOf(c) \/ Inherited(c, plan[c].rules[n])
    BY <1>1, CompiledPlan
  <1> QED
    BY <1>2, InheritedGoverns, ConfiguredGoverns

\* A document that its entry's condition leaves alone is written as it was read.
LEMMA Untouched ==
  ASSUME MaskInv, NEW w \in Writes, Source(w) \notin DOMAIN plan \/ ~Holds(plan[Source(w)].when, Original(w).doc)
  PROVE  \A path : After(w, path) = Before(w, path)
  BY WrittenAs DEF TransformDocument, After, Before

\* Otherwise the rules of the plan are applied to it.
LEMMA Transformed ==
  ASSUME MaskInv, NEW w \in Writes, Source(w) \in DOMAIN plan, Holds(plan[Source(w)].when, Original(w).doc)
  PROVE  /\ ApplyRules(plan[Source(w)].rules, Original(w).doc) # Error
         /\ \A path : After(w, path) = GetPath(ApplyRules(plan[Source(w)].rules, Original(w).doc), path)
         /\ Len(plan[Source(w)].rules) \in Nat
  <1>1. w.out = ApplyRules(plan[Source(w)].rules, Original(w).doc) /\ w.out # Error
    BY WrittenAs DEF TransformDocument
  <1>2. Len(plan[Source(w)].rules) \in Nat
    BY WrittenAs, CompiledPlan
  <1> QED
    BY <1>1, <1>2 DEF After

\* The paths that no rule and no reference governs, in every document that
\* was written.
LEMMA InvUngoverned == MaskInv => UngovernedIsUntouched
  <1> SUFFICES ASSUME MaskInv, NEW w \in Writes, NEW path \in scenario.paths,
                      \A g \in Governed(Original(w).collection) : ~Overlap(path, g)
               PROVE  After(w, path) = Before(w, path)
    BY DEF UngovernedIsUntouched
  <1> DEFINE c == Source(w)
             doc == Original(w).doc
  <1>1. scenario \in Scenarios /\ plan = Compile(Expand(scenario.configs, scenario.edges))
    BY WrittenAs
  <1>2. IsPath(path)
    BY <1>1, ScenarioAssumption
  <1>3. CASE c \in DOMAIN plan /\ Holds(plan[c].when, doc)
    <2>1. \A n \in 1..Len(plan[c].rules) : IsPath(plan[c].rules[n].field) /\ ~Overlap(path, plan[c].rules[n].field)
      BY <1>1, <1>3, PlannedGoverns DEF Source
    <2>2. /\ ApplyRules(plan[c].rules, doc) # Error /\ Len(plan[c].rules) \in Nat
          /\ After(w, path) = GetPath(ApplyRules(plan[c].rules, doc), path)
      BY <1>3, Transformed
    <2>3. GetPath(ApplyRules(plan[c].rules, doc), path) = GetPath(doc, path)
      <3> HIDE DEF c, doc
      <3> QED
        BY <1>2, <2>1, <2>2, RulesElsewhere
    <2> QED
      BY <2>2, <2>3 DEF Before
  <1> QED
    BY <1>3, Untouched

\* What no rule and no reference governs is dumped as it was read
\* (apply_rules, set_path).
THEOREM UngovernedUntouched == MaskSpec => []UngovernedIsUntouched
  BY MaskInvHolds, InvUngoverned, PTL

\* A field with one rule in the plan, which nothing else reaches, is dumped as
\* that rule says: no error, and not what was read.
LEMMA SoleRule ==
  ASSUME MaskInv, NEW w \in Writes, Source(w) \in DOMAIN plan,
         Holds(plan[Source(w)].when, Original(w).doc),
         NEW r \in Planned(Source(w)), Holds(r.when, Original(w).doc),
         \A s \in Planned(Source(w)) : s = r \/ s.field # r.field,
         Alone(Source(w), r.field)
  PROVE  /\ RuleResult(r, Original(w).doc) # Error
         /\ After(w, r.field) = RuleResult(r, Original(w).doc)
  <1> DEFINE c == Source(w)
             doc == Original(w).doc
             rules == plan[c].rules
  <1>1. scenario \in Scenarios /\ plan = Compile(Expand(scenario.configs, scenario.edges))
    BY WrittenAs
  <1>2. /\ ApplyRules(rules, doc) # Error /\ Len(rules) \in Nat
        /\ After(w, r.field) = GetPath(ApplyRules(rules, doc), r.field)
    BY Transformed
  <1>3. \A n \in 1..Len(rules) : IsPath(rules[n].field) /\ rules[n].field \in Governed(c)
    BY <1>1, PlannedGoverns
  <1>4. \A n \in 1..Len(rules) : rules[n] = r \/ ~Overlap(r.field, rules[n].field)
    <2> SUFFICES ASSUME NEW n \in 1..Len(rules), rules[n] # r PROVE ~Overlap(r.field, rules[n].field)
      OBVIOUS
    <2>1. rules[n] \in Planned(c)
      BY DEF Planned
    <2>2. rules[n].field # r.field
      BY <2>1
    <2> QED
      BY <1>3, <2>2 DEF Alone
  <1>5. PICK i \in 1..Len(rules) : rules[i] = r
    BY DEF Planned
  <1>6. IsPath(r.field) /\ Holds(r.when, doc)
    BY <1>3, <1>5
  <1> HIDE DEF doc, rules
  <1>7. RuleResult(r, doc) # Error /\ GetPath(ApplyRules(rules, doc), r.field) = RuleResult(r, doc)
    BY <1>2, <1>3, <1>4, <1>5, <1>6, RuleWrites
  <1> QED
    BY <1>2, <1>7 DEF doc

\* What the generating transformers make is known only by what it is computed from.
LEMMA DerivedIsMasked ==
  ASSUME NEW r, NEW doc, r.name \in Derived, RuleResult(r, doc) # Error
  PROVE  RuleResult(r, doc)[1] = "masked"
  <1>1. PICK params, input : RuleResult(r, doc) = Transform(r.name, params, input, doc)
    BY DEF RuleResult
  <1>2. Transform(r.name, params, input, doc) = <<"masked", <<r.name, params, HashableBytes(input)>>>>
    BY DEF Transform, Derived
  <1> QED
    BY <1>1, <1>2

\* The fields that are generated.
LEMMA InvNothingLeaks == MaskInv => NothingLeaks
  <1> SUFFICES ASSUME MaskInv, NEW w \in Writes, NEW i \in DOMAIN scenario.configs, NEW r \in Rules(i),
                      scenario.configs[i].collection = Original(w).collection,
                      i = Max(Entries(scenario.configs[i].collection)),
                      r.name \in Derived, Alone(scenario.configs[i].collection, r.field),
                      {s \in Rules(i) : s.field = r.field} = {r},
                      Holds(scenario.configs[i].when, Original(w).doc), Holds(r.when, Original(w).doc)
               PROVE  After(w, r.field)[1] = "masked"
    BY DEF NothingLeaks
  <1> DEFINE c == Source(w)
  <1>1. scenario \in Scenarios /\ plan = Compile(Expand(scenario.configs, scenario.edges))
    BY WrittenAs
  <1>2. i \in Entries(c) /\ i = Max(Entries(c)) /\ Entries(c) # {}
    BY DEF Entries, Source
  <1>3. /\ c \in DOMAIN plan /\ plan[c].when = scenario.configs[i].when
        /\ Rules(i) \subseteq Planned(c)
        /\ \A s \in Planned(c) : s \in Rules(i) \/ Inherited(c, s)
    <2> HIDE DEF c
    <2> QED
      BY <1>1, <1>2, CompiledPlan
  <1>4. r \in RulesOf(c)
    BY <1>2 DEF RulesOf
  <1>5. \A s \in Planned(c) : s = r \/ s.field # r.field
    BY <1>1, <1>3, <1>4, InheritedGoverns
  <1>6. Alone(c, r.field) /\ Holds(plan[c].when, Original(w).doc)
    BY <1>3 DEF Source
  <1>7. RuleResult(r, Original(w).doc) # Error /\ After(w, r.field) = RuleResult(r, Original(w).doc)
    BY <1>3, <1>5, <1>6, SoleRule
  <1> QED
    BY <1>7, DerivedIsMasked

\* A field whose rule generates its value is never dumped as it was read
\* (TransformationPlan::transform, apply_rules).
THEOREM DerivedNeverLeak == MaskSpec => []NothingLeaks
  BY MaskInvHolds, InvNothingLeaks, PTL

\* Only `template` looks at the rest of the document.
LEMMA SameFromAnyDocument ==
  ASSUME NEW name, name # "template", NEW params, NEW input, NEW doc, NEW other
  PROVE  Transform(name, params, input, doc) = Transform(name, params, input, other)
  BY DEF Transform

\* A marked rule that propagates, and the copy of it that a holder inherits, make
\* the same of the same value.
LEMMA CopyAgrees ==
  ASSUME NEW m, Propagates(m), NEW field, NEW doc, NEW other,
         GetPath(other, field) = GetPath(doc, m.field)
  PROVE  RuleResult(InheritedRule(m, field), other) = RuleResult(m, doc)
  <1> DEFINE h == InheritedRule(m, field)
  <1>1. /\ h.field = field /\ h.name = m.name /\ h.params = m.params /\ h.type = {}
        /\ h.dynamic = <<>> /\ DOMAIN h.dynamic = {}
    BY DEF InheritedRule
  <1>2. DOMAIN m.dynamic = {} /\ m.type = {} /\ m.name # "template"
    BY DEF Propagates
  <1> HIDE DEF h
  <1>3. Resolve(h, other) = Resolve(m, doc)
    BY <1>1, <1>2 DEF Resolve
  <1>4. \A params, input : Transform(m.name, params, input, doc) = Transform(m.name, params, input, other)
    BY <1>2, SameFromAnyDocument
  <1>5. RuleResult(h, other) = RuleResult(m, doc)
    BY <1>1, <1>2, <1>3, <1>4 DEF RuleResult
  <1> QED
    BY <1>5 DEF h

\* A collection with one unconditional entry at most is masked unconditionally.
LEMMA PlainHolds ==
  ASSUME scenario \in Scenarios, plan = Compile(Expand(scenario.configs, scenario.edges)),
         NEW c \in DOMAIN plan, Plain(c), NEW doc
  PROVE  Holds(plan[c].when, doc)
  <1>1. plan[c].when = {}
    <2>1. CASE Entries(c) = {}
      BY <2>1, CompiledPlan
    <2>2. CASE Entries(c) # {}
      BY <2>2, CompiledPlan DEF Plain
    <2> QED
      BY <2>1, <2>2
  <1> QED
    BY <1>1 DEF Holds

\* With one entry, the rules of the plan are the collection's own and what it
\* inherits.
LEMMA PlainPlan ==
  ASSUME scenario \in Scenarios, plan = Compile(Expand(scenario.configs, scenario.edges)),
         NEW c, Plain(c), NEW r \in RulesOf(c)
  PROVE  /\ c \in DOMAIN plan /\ r \in Planned(c)
         /\ \A s \in Planned(c) : s \in RulesOf(c) \/ s.field # r.field
  <1>1. Entries(c) # {}
    BY DEF RulesOf
  <1> DEFINE i == Max(Entries(c))
  <1>2. /\ i \in Entries(c) /\ c \in DOMAIN plan /\ Rules(i) \subseteq Planned(c)
        /\ \A s \in Planned(c) : s \in RulesOf(c) \/ Inherited(c, s)
    BY <1>1, CompiledPlan
  <1>3. r \in Rules(i)
    BY <1>2 DEF RulesOf, Plain
  <1>4. \A s : Inherited(c, s) => s.field # r.field
    BY InheritedGoverns
  <1> QED
    BY <1>2, <1>3, <1>4

\* The two ends of a reference that survives masking.
LEMMA InvReferences == MaskInv => ReferencesFollow
  <1> SUFFICES ASSUME MaskInv, NEW w \in Writes, NEW v \in Writes, NEW e \in Edges,
                      Original(w).collection = e.from, Original(v).collection \in e.targets,
                      Survives(e, Original(v).collection),
                      Before(w, e.field) = Before(v, e.to)
               PROVE  After(w, e.field) = After(v, e.to)
    BY DEF ReferencesFollow
  <1> DEFINE c == Source(v)
             b == Source(w)
             target == Original(v).doc
             holder == Original(w).doc
  <1>1. scenario \in Scenarios /\ plan = Compile(Expand(scenario.configs, scenario.edges))
    BY WrittenAs
  <1>2. b = e.from /\ c \in e.targets /\ Survives(e, c) /\ GetPath(holder, e.field) = GetPath(target, e.to)
    BY DEF Source, Before
  <1>3. PICK m \in Marked(c, e.to) : Marked(c, e.to) = {m}
    BY <1>2 DEF Survives
  <1>4. /\ m \in RulesOf(c) /\ m.refs /\ m.field = e.to /\ Propagates(m)
        /\ \A s \in RulesOf(c) : s.field = e.to => s = m
    BY <1>2, <1>3 DEF Survives, Marked
  <1>5. Plain(b) /\ Plain(c) /\ Alone(c, e.to) /\ Alone(b, e.field) /\ ~\E r \in RulesOf(b) : r.field = e.field
    BY <1>2 DEF Survives
  <1> HIDE DEF c, b, target, holder
  <1>10. After(v, e.to) = RuleResult(m, target)
    <2>1. /\ c \in DOMAIN plan /\ m \in Planned(c)
          /\ \A s \in Planned(c) : s \in RulesOf(c) \/ s.field # e.to
      BY <1>1, <1>4, <1>5, PlainPlan
    <2>2. \A s \in Planned(c) : s = m \/ s.field # m.field
      BY <1>4, <2>1
    <2>3. Holds(plan[c].when, target) /\ Holds(m.when, target)
      BY <1>1, <1>4, <1>5, <2>1, PlainHolds DEF Propagates, Holds
    <2> QED
      BY <1>4, <1>5, <2>1, <2>2, <2>3, SoleRule DEF c, target
  <1>11. \E h : b \in DOMAIN plan /\ h \in Planned(b) /\ h.field = e.field /\ Inherited(b, h)
    <2>1. PICK k \in DOMAIN scenario.edges : e = scenario.edges[k]
      BY DEF Edges
    <2>2. PICK i, j : /\ i \in DOMAIN scenario.configs /\ j \in DOMAIN scenario.configs[i].rules
                      /\ scenario.configs[i].collection = c /\ scenario.configs[i].rules[j] = m
      BY <1>4 DEF RulesOf, Rules, Entries
    <2>3. ~HasExplicit(scenario.configs, b, e.field)
      BY <1>5 DEF HasExplicit, RulesOf, Rules, Entries
    <2>4. Wanted(scenario.configs, scenario.edges, i, j, k) /\ scenario.edges[k].from = b
      BY <1>2, <1>4, <2>1, <2>2, <2>3 DEF Wanted, PointsAt
    <2>5. \A x, y \in Entries(b) : x = y
      BY <1>5 DEF Plain
    <2> QED
      BY <1>1, <2>1, <2>2, <2>4, <2>5, CompiledPlan
  <1>12. \A h : Inherited(b, h) /\ h.field = e.field => h = InheritedRule(m, e.field)
    <2> SUFFICES ASSUME NEW h, Inherited(b, h), h.field = e.field PROVE h = InheritedRule(m, e.field)
      OBVIOUS
    <2>1. PICK i, j, k :
            /\ i \in DOMAIN scenario.configs /\ j \in DOMAIN scenario.configs[i].rules /\ k \in DOMAIN scenario.edges
            /\ Wanted(scenario.configs, scenario.edges, i, j, k) /\ scenario.edges[k].from = b
            /\ h = InheritedRule(scenario.configs[i].rules[j], scenario.edges[k].field)
      BY <1>1, InheritedIs
    <2> DEFINE x == scenario.edges[k]
               d == scenario.configs[i].collection
               s == scenario.configs[i].rules[j]
    <2>2. x \in Edges /\ x.from = e.from /\ x.field = e.field /\ h = InheritedRule(s, e.field)
      BY <1>2, <2>1 DEF Edges, InheritedRule
    <2>3. s.refs /\ x.to = s.field /\ d \in x.targets
      BY <2>1 DEF Wanted, PointsAt
    <2>4. s \in Marked(d, x.to)
      BY <2>1, <2>3 DEF Marked, RulesOf, Rules, Entries
    <2>5. d = c /\ x.to = e.to
      <3>1. d \in {scenario.configs[n].collection : n \in DOMAIN scenario.configs}
        BY <2>1
      <3> HIDE DEF x, d, s
      <3> QED
        BY <1>2, <2>2, <2>3, <2>4, <3>1 DEF Survives
    <2>6. s = m
      BY <1>3, <2>4, <2>5
    <2> QED
      BY <2>2, <2>6
  <1>13. After(w, e.field) = RuleResult(InheritedRule(m, e.field), holder)
    <2> DEFINE h == InheritedRule(m, e.field)
    <2>1. b \in DOMAIN plan /\ h \in Planned(b)
      BY <1>11, <1>12
    <2>2. h.field = e.field /\ h.when = {}
      BY DEF InheritedRule
    <2>3. \A s \in Planned(b) : s = h \/ s.field # h.field
      <3>1. \A s \in Planned(b) : s \in RulesOf(b) \/ Inherited(b, s)
        BY <1>1, <2>1, CompiledPlan
      <3> QED
        BY <1>5, <1>12, <2>2, <3>1
    <2>4. Holds(plan[b].when, holder) /\ Holds(h.when, holder)
      BY <1>1, <1>5, <2>1, <2>2, PlainHolds DEF Holds
    <2> HIDE DEF h
    <2>5. After(w, h.field) = RuleResult(h, holder)
      BY <1>5, <2>1, <2>2, <2>3, <2>4, SoleRule DEF b, holder
    <2> QED
      BY <2>2, <2>5 DEF h
  <1>14. RuleResult(InheritedRule(m, e.field), holder) = RuleResult(m, target)
    BY <1>2, <1>4, CopyAgrees
  <1> QED
    BY <1>10, <1>13, <1>14

\* A holder of a reference that survives masking still has the value of the
\* field it points at (expand_inherited_rules).
THEOREM ReferencesSurvive == MaskSpec => []ReferencesFollow
  BY MaskInvHolds, InvReferences, PTL

-----------------------------------------------------------------------------
(* Numbers *)

\* The saturating conversion stays within i64.
LEMMA ClampBounds ==
  ASSUME NEW n \in Int
  PROVE  Clamp(n) \in MinInt..MaxInt
  BY WidthAssumption DEF Clamp

\* Rounding to f64 leaves an integer one.
LEMMA AsFloatIsInt ==
  ASSUME NEW n \in Int
  PROVE  AsFloat(n) \in Int
  BY WidthAssumption DEF AsFloat

\* A digest scaled to a range stays in it.
LEMMA RangedBounds ==
  ASSUME NEW d \in Nat, NEW min \in Int, NEW max \in Int
  PROVE  Ranged(d, min, max) \in Int /\ (min <= max => Ranged(d, min, max) \in min..max)
         /\ (max <= min => Ranged(d, min, max) = min)
  <1>1. CASE max <= min
    BY <1>1 DEF Ranged
  <1>2. CASE min < max
    <2> DEFINE width == max - min + 1
    <2>1. width \in Nat /\ width > 0
      BY <1>2
    <2> HIDE DEF width
    <2>2. d % width \in 0..(width - 1)
      BY <2>1
    <2>3. Ranged(d, min, max) = min + (d % width)
      BY <1>2 DEF Ranged, width
    <2> QED
      BY <1>2, <2>2, <2>3 DEF width
  <1> QED
    BY <1>1, <1>2

\* A value whose payload is an integer wherever its type says so.
Numeral(v) == v[1] \in Numeric \cup {"datetime"} => v[2] \in Int

\* So is every value of a document.
LEMMA ValueIsNumeral ==
  ASSUME NEW v, Value(v)
  PROVE  Numeral(v)
  BY DEF Value, Numeral, Numeric, Absent, Null, True, False, NaN

\* What casts to i64 is within it.
LEMMA ToI64Bounds ==
  ASSUME NEW v, Numeral(v), ToI64(v) # Error
  PROVE  ToI64(v)[1] = "int64" /\ ToI64(v)[2] \in MinInt..MaxInt
  <1>0. CASE v = NaN
    BY <1>0, WidthAssumption DEF ToI64, NaN, Numeric
  <1>1. CASE v[1] \in Numeric
    <2>1. ToI64(v) = <<"int64", Clamp(v[2])>>
      BY <1>1 DEF ToI64, Numeric, NaN
    <2> QED
      BY <1>1, <2>1, ClampBounds DEF Numeral
  <1>2. CASE v # NaN /\ v[1] \notin Numeric
    <2>1. v[2] \in DOMAIN IntText /\ ToI64(v) = <<"int64", IntText[v[2]]>>
      BY <1>2 DEF ToI64
    <2> QED
      BY <2>1, TextAssumption
  <1> QED
    BY <1>0, <1>1, <1>2

\* What casts to f64 is, in this model, an integer.
LEMMA ToF64IsInt ==
  ASSUME NEW v, Numeral(v), ToF64(v) # Error
  PROVE  ToF64(v)[1] \in {"double", "nan"} /\ ToF64(v)[2] \in Int
  <1>0. CASE v = NaN
    BY <1>0 DEF ToF64, NaN, Numeric
  <1>1. CASE v[1] \in Numeric
    <2>1. ToF64(v) = <<"double", AsFloat(v[2])>>
      BY <1>1 DEF ToF64, Numeric, NaN
    <2> QED
      BY <1>1, <2>1, AsFloatIsInt DEF Numeral
  <1>2. CASE v # NaN /\ v[1] \notin Numeric
    <2>1. v[2] \in DOMAIN IntText /\ ToF64(v) = <<"double", AsFloat(IntText[v[2]])>>
      BY <1>2 DEF ToF64
    <2>2. IntText[v[2]] \in Int
      BY <2>1, TextAssumption, WidthAssumption
    <2> QED
      BY <2>1, <2>2, AsFloatIsInt
  <1> QED
    BY <1>0, <1>1, <1>2

\* Text read as a date stands for an instant.
LEMMA DateTextIsNumeral ==
  ASSUME NEW v
  PROVE  Numeral(FromDateText(v))
  BY TextAssumption, WidthAssumption DEF FromDateText, Numeral, Numeric, Error

\* So does whatever else is read from text.
LEMMA FromTextIsNumeral ==
  ASSUME NEW v, NEW k
  PROVE  Numeral(FromText(v, k))
  <1>1. FromText(v, k)
          \in {FromDateText(v), <<"objectId", IdText[v[2]]>>, <<"decimal128", IntText[v[2]]>>, <<"binary", v[2]>>, Error}
    BY DEF FromText
  <1> QED
    BY <1>1, DateTextIsNumeral DEF Numeral, Numeric, Error

\* A rendered value is text.
LEMMA RenderedIsText ==
  ASSUME NEW v
  PROVE  Rendered(v)[1] \in {"string", "rendered"}
  BY DEF Rendered

\* A cast leaves a value whose payload its type describes.
LEMMA CastIsNumeral ==
  ASSUME NEW v, Numeral(v), NEW type
  PROVE  Numeral(BsonToTyped(v, type)) /\ Numeral(YamlToTyped(v, type))
  <1>1. Numeral(Error)
    BY DEF Numeral, Error, Numeric
  <1>2. Numeral(Rendered(v))
    BY RenderedIsText DEF Numeral, Numeric
  <1>3. Numeral(ToI64(v))
    BY <1>1, ToI64Bounds, WidthAssumption DEF Numeral
  <1>4. Numeral(ToF64(v))
    BY <1>1, ToF64IsInt DEF Numeral
  <1>5. Numeral(FromText(v, type)) /\ Numeral(<<"decimal128", v[2]>>)
    BY FromTextIsNumeral DEF Numeral, Numeric
  <1>6. BsonToTyped(v, type) \in {v, Rendered(v), ToI64(v), ToF64(v), FromText(v, type), Error}
    BY DEF BsonToTyped
  <1>7. YamlToTyped(v, type) \in {v, Rendered(v), ToI64(v), ToF64(v), FromText(v, type), <<"decimal128", v[2]>>, Error}
    BY DEF YamlToTyped
  <1> QED
    BY <1>1, <1>2, <1>3, <1>4, <1>5, <1>6, <1>7

\* A value cast to an integer is one, from a document and from the configuration.
LEMMA IntCast ==
  ASSUME NEW v, Value(v)
  PROVE  /\ BsonToTyped(v, "int") # Error => BsonToTyped(v, "int")[2] \in MinInt..MaxInt
         /\ YamlToTyped(v, "int") # Error => YamlToTyped(v, "int")[2] \in MinInt..MaxInt
  <1>1. Numeral(v)
    BY ValueIsNumeral
  <1>2. v[1] # "int"
    BY DEF Value, Absent, Null, True, False, NaN
  <1>3. BsonToTyped(v, "int") = ToI64(v)
    BY <1>2 DEF BsonToTyped, TextKinds
  <1>4. YamlToTyped(v, "int") \in {ToI64(v), Error}
    BY <1>2 DEF YamlToTyped, TextKinds
  <1> QED
    BY <1>1, <1>3, <1>4, ToI64Bounds

\* And to a float.
LEMMA FloatCast ==
  ASSUME NEW v, Value(v)
  PROVE  /\ BsonToTyped(v, "float") # Error => BsonToTyped(v, "float")[2] \in Int
         /\ YamlToTyped(v, "float") # Error => YamlToTyped(v, "float")[2] \in Int
  <1>1. Numeral(v)
    BY ValueIsNumeral
  <1>2. v[1] # "float"
    BY DEF Value, Absent, Null, True, False, NaN
  <1>3. BsonToTyped(v, "float") = ToF64(v)
    BY <1>2 DEF BsonToTyped, TextKinds
  <1>4. YamlToTyped(v, "float") = ToF64(v)
    BY <1>2 DEF YamlToTyped, TextKinds
  <1> QED
    BY <1>1, <1>3, <1>4, ToF64IsInt

\* What a rule reads of a document of the source.
LEMMA RuleReads ==
  ASSUME scenario \in Scenarios, NEW n \in DOMAIN scenario.docs, NEW c, NEW r \in RulesOf(c)
  PROVE  /\ r.field \in Looked(scenario)
         /\ Value(GetPath(scenario.docs[n].doc, r.field))
         /\ \A p \in DOMAIN r.dynamic : Value(GetPath(scenario.docs[n].doc, r.dynamic[p]))
  <1>1. PICK i, j : /\ i \in DOMAIN scenario.configs /\ j \in DOMAIN scenario.configs[i].rules
                    /\ r = scenario.configs[i].rules[j]
    BY DEF RulesOf, Rules, Entries
  <1> DEFINE e      == scenario.configs[i]
             Own(x) == UNION {RulePaths(x.rules[y]) : y \in DOMAIN x.rules}
  <1>2. RulePaths(r) \subseteq Own(e)
    BY <1>1
  <1>3. e \in {scenario.configs[x] : x \in DOMAIN scenario.configs}
    BY <1>1
  <1>4. RulePaths(r) \subseteq UNION {Own(x) : x \in {scenario.configs[y] : y \in DOMAIN scenario.configs}}
    <2> HIDE DEF Own, e
    <2> QED
      BY <1>2, <1>3
  <1>5. RulePaths(r) \subseteq Looked(scenario)
    BY <1>4, Zenon DEF Looked
  <1>6. \A path \in Looked(scenario) : Value(GetPath(scenario.docs[n].doc, path))
    BY ScenarioAssumption
  <1> QED
    BY <1>5, <1>6 DEF RulePaths

\* What the transformer of a rule is given: a value whose payload its type
\* describes, with a digest.
LEMMA RuleInput ==
  ASSUME scenario \in Scenarios, NEW n \in DOMAIN scenario.docs, NEW c, NEW r \in RulesOf(c),
         RuleResult(r, scenario.docs[n].doc) # Error
  PROVE  LET doc    == scenario.docs[n].doc
             params == Resolve(r, doc)
         IN \E input : /\ RuleResult(r, doc) = Transform(r.name, params, input, doc)
                       /\ \A p \in DOMAIN params : params[p] # Error
                       /\ Numeral(input) /\ Digest(HashableBytes(input)) \in Nat
  <1> DEFINE doc    == scenario.docs[n].doc
             field  == GetPath(doc, r.field)
             value  == IF field = Absent THEN Null ELSE field
             type   == CHOOSE t \in r.type : TRUE
             input  == IF r.type = {} THEN value ELSE BsonToTyped(value, type)
             params == Resolve(r, doc)
  <1>1. /\ input # Error /\ \A p \in DOMAIN params : params[p] # Error
        /\ RuleResult(r, doc) = Transform(r.name, params, input, doc)
    BY DEF RuleResult
  <1>2. r.field \in Looked(scenario) /\ Value(field)
    BY RuleReads
  <1>3. Numeral(value)
    <2>1. Numeral(Null)
      BY DEF Numeral, Null, Numeric
    <2> QED
      BY <1>2, <2>1, ValueIsNumeral
  <1>4. \A k \in ParamTypes : Digest(HashableBytes(BsonToTyped(value, k))) \in Nat
    BY <1>2, DigestAssumption
  <1> HIDE DEF field, value, type
  <1>5. BsonToTyped(value, "any") = value
    BY DEF BsonToTyped, TextKinds
  <1>6. type \notin ParamTypes => BsonToTyped(value, type) \in {value, Error}
    BY DEF BsonToTyped, TextKinds, ParamTypes
  <1>7. Digest(HashableBytes(value)) \in Nat
    BY <1>4, <1>5 DEF ParamTypes
  <1>8. Numeral(input)
    BY <1>3, CastIsNumeral
  <1>9. Digest(HashableBytes(input)) \in Nat
    BY <1>1, <1>4, <1>6, <1>7
  <1> HIDE DEF input, params, doc
  <1>10. /\ RuleResult(r, doc) = Transform(r.name, params, input, doc)
         /\ \A p \in DOMAIN params : params[p] # Error
         /\ Numeral(input) /\ Digest(HashableBytes(input)) \in Nat
    BY <1>1, <1>8, <1>9
  <1> QED
    BY <1>10 DEF doc, params

\* A parameter is read from the document, configured, or left to its default.
LEMMA ParameterOf ==
  ASSUME scenario \in Scenarios, NEW n \in DOMAIN scenario.docs, NEW c, NEW r \in RulesOf(c),
         r.name \in Transformers, NEW p \in DOMAIN Declared[r.name],
         Resolve(r, scenario.docs[n].doc)[p] # Error
  PROVE  LET def == Declared[r.name][p]
             got == Resolve(r, scenario.docs[n].doc)[p]
         IN \/ \E v : Value(v) /\ got \in {BsonToTyped(v, def.kind), YamlToTyped(v, def.kind)}
            \/ ~def.required /\ got = def.default
  <1> DEFINE doc == scenario.docs[n].doc
             def == Declared[r.name][p]
             got == Resolve(r, doc)[p]
  <1>1. got = IF p \in DOMAIN r.dynamic THEN DynamicValue(r, doc, p)
              ELSE StaticValue(Declared[r.name], r.params, p)
    BY DEF Resolve
  <1>2. CASE p \in DOMAIN r.dynamic
    <2>1. got = BsonToTyped(GetPath(doc, r.dynamic[p]), def.kind)
      BY <1>1, <1>2 DEF DynamicValue
    <2>2. Value(GetPath(doc, r.dynamic[p]))
      BY <1>2, RuleReads
    <2> QED
      BY <2>1, <2>2
  <1>3. CASE p \notin DOMAIN r.dynamic /\ p \in DOMAIN r.params
    <2>1. got = YamlToTyped(r.params[p], def.kind)
      BY <1>1, <1>3 DEF StaticValue
    <2>2. Value(r.params[p])
      BY <1>3, ConfiguredGoverns DEF IsRule
    <2> QED
      BY <2>1, <2>2
  <1>4. CASE p \notin DOMAIN r.dynamic /\ p \notin DOMAIN r.params
    BY <1>1, <1>4 DEF StaticValue
  <1> QED
    BY <1>2, <1>3, <1>4

\* The parameters of the three transformers of numbers.
LEMMA NumberParameters ==
  ASSUME scenario \in Scenarios, NEW n \in DOMAIN scenario.docs, NEW c, NEW r \in RulesOf(c),
         \A p \in DOMAIN Resolve(r, scenario.docs[n].doc) : Resolve(r, scenario.docs[n].doc)[p] # Error
  PROVE  LET params == Resolve(r, scenario.docs[n].doc)
         IN /\ r.name = "random_int" => params.min[2] \in MinInt..MaxInt /\ params.max[2] \in MinInt..MaxInt
            /\ r.name = "noise_int" => params.ratio[2] \in Int
            /\ r.name = "noise_date" => params.max_days[2] \in Int
  <1> DEFINE params == Resolve(r, scenario.docs[n].doc)
  <1>0. r.name \in Transformers => \A p \in DOMAIN Declared[r.name] : p \in DOMAIN params /\ params[p] # Error
    BY DEF Resolve
  <1>1. ASSUME r.name = "random_int" PROVE params.min[2] \in MinInt..MaxInt /\ params.max[2] \in MinInt..MaxInt
    <2>1. r.name \in Transformers /\ Declared[r.name] = [min |-> Required("int"), max |-> Required("int")]
      BY <1>1 DEF Transformers, Declared
    <2>2. \A p \in {"min", "max"} : /\ p \in DOMAIN Declared[r.name] /\ Declared[r.name][p].kind = "int"
                                    /\ Declared[r.name][p].required
      BY <2>1 DEF Required, Parameter
    <2> HIDE DEF params
    <2>3. \A p \in {"min", "max"} : \E v : Value(v) /\ params[p] \in {BsonToTyped(v, "int"), YamlToTyped(v, "int")}
      BY <1>0, <2>1, <2>2, ParameterOf DEF params
    <2>4. \A p \in {"min", "max"} : params[p][2] \in MinInt..MaxInt
      BY <1>0, <2>1, <2>2, <2>3, IntCast
    <2> QED
      BY <2>4
  <1>2. ASSUME r.name = "noise_int" PROVE params.ratio[2] \in Int
    <2>1. r.name \in Transformers /\ Declared[r.name] = [ratio |-> Optional("float", <<"double", 1>>)]
      BY <1>2 DEF Transformers, Declared, Derived
    <2>2. /\ "ratio" \in DOMAIN Declared[r.name] /\ Declared[r.name]["ratio"].kind = "float"
          /\ Declared[r.name]["ratio"].default = <<"double", 1>>
      BY <2>1 DEF Optional, Parameter
    <2> HIDE DEF params
    <2>3. \/ \E v : Value(v) /\ params["ratio"] \in {BsonToTyped(v, "float"), YamlToTyped(v, "float")}
          \/ params["ratio"] = <<"double", 1>>
      BY <1>0, <2>1, <2>2, ParameterOf DEF params
    <2>4. params["ratio"][2] \in Int
      BY <1>0, <2>1, <2>2, <2>3, FloatCast
    <2> QED
      BY <2>4
  <1>3. ASSUME r.name = "noise_date" PROVE params.max_days[2] \in Int
    <2>1. r.name \in Transformers /\ Declared[r.name] = [max_days |-> Optional("int", <<"int64", 30>>)]
      BY <1>3 DEF Transformers, Declared, Derived
    <2>2. /\ "max_days" \in DOMAIN Declared[r.name] /\ Declared[r.name]["max_days"].kind = "int"
          /\ Declared[r.name]["max_days"].default = <<"int64", 30>>
      BY <2>1 DEF Optional, Parameter
    <2> HIDE DEF params
    <2>3. \/ \E v : Value(v) /\ params["max_days"] \in {BsonToTyped(v, "int"), YamlToTyped(v, "int")}
          \/ params["max_days"] = <<"int64", 30>>
      BY <1>0, <2>1, <2>2, ParameterOf DEF params
    <2>4. params["max_days"][2] \in Int
      BY <1>0, <2>1, <2>2, <2>3, IntCast, WidthAssumption
    <2> QED
      BY <2>4
  <1> QED
    BY <1>1, <1>2, <1>3

\* Noise on an integer saturates at the ends of i64.
LEMMA NoiseIntBounds ==
  ASSUME NEW v, Numeral(v), Digest(HashableBytes(v)) \in Nat, NEW ratio \in Int, NoiseInt(v, ratio) # Error
  PROVE  NoiseInt(v, ratio)[2] \in MinInt..MaxInt
  <1> DEFINE base  == ToI64(v)
             way   == (Digest(HashableBytes(v)) % 3) - 1
             delta == AsFloat(base[2]) * ratio * way
  <1>1. base # Error /\ NoiseInt(v, ratio) = <<"int64", Clamp(base[2] + Clamp(delta))>>
    BY DEF NoiseInt
  <1>2. base[2] \in Int
    BY <1>1, ToI64Bounds, WidthAssumption
  <1>3. way \in Int
    OBVIOUS
  <1>4. AsFloat(base[2]) \in Int
    BY <1>2, AsFloatIsInt
  <1> HIDE DEF base, way
  <1>5. delta \in Int
    <2>1. AsFloat(base[2]) * ratio \in Int
      BY <1>4
    <2> QED
      BY <1>3, <2>1
  <1> HIDE DEF delta
  <1>6. base[2] + Clamp(delta) \in Int
    BY <1>2, <1>5, ClampBounds, WidthAssumption
  <1> QED
    BY <1>1, <1>6, ClampBounds

\* Noise on a date too.
LEMMA NoiseDateBounds ==
  ASSUME NEW v, Numeral(v), Digest(HashableBytes(v)) \in Nat, NEW days \in Int, NoiseDate(v, days) # Error
  PROVE  NoiseDate(v, days)[2] \in MinInt..MaxInt
  <1> DEFINE shift == Ranged(Digest(HashableBytes(v)), Negated(days), days)
  <1>1. v[1] = "datetime" /\ NoiseDate(v, days) = <<"datetime", Clamp(v[2] + Clamp(shift * DayMillis))>>
    BY DEF NoiseDate
  <1>2. Negated(days) \in Int
    BY WidthAssumption DEF Negated
  <1>3. shift \in Int
    BY <1>2, RangedBounds
  <1>4. v[2] \in Int
    BY <1>1 DEF Numeral
  <1> HIDE DEF shift
  <1>5. shift * DayMillis \in Int
    BY <1>3, DayAssumption
  <1>6. Clamp(shift * DayMillis) \in Int
    BY <1>5, ClampBounds, WidthAssumption
  <1>7. v[2] + Clamp(shift * DayMillis) \in Int
    BY <1>4, <1>6
  <1> QED
    BY <1>1, <1>7, ClampBounds

\* What the three transformers of numbers make of a document of the source.
LEMMA NumberBounds ==
  ASSUME scenario \in Scenarios, NEW n \in DOMAIN scenario.docs, NEW c, NEW r \in RulesOf(c),
         r.name \in {"random_int", "noise_int", "noise_date"},
         RuleResult(r, scenario.docs[n].doc) # Error
  PROVE  LET out == RuleResult(r, scenario.docs[n].doc)
             p   == Resolve(r, scenario.docs[n].doc)
         IN /\ out[2] \in MinInt..MaxInt
            /\ r.name = "random_int" /\ p.min[2] <= p.max[2] => out[2] \in p.min[2]..p.max[2]
  <1> DEFINE doc == scenario.docs[n].doc
             out == RuleResult(r, doc)
             p   == Resolve(r, doc)
  <1>1. PICK input : /\ out = Transform(r.name, p, input, doc)
                     /\ \A x \in DOMAIN p : p[x] # Error
                     /\ Numeral(input) /\ Digest(HashableBytes(input)) \in Nat
    BY RuleInput
  <1>2. /\ r.name = "random_int" => p.min[2] \in MinInt..MaxInt /\ p.max[2] \in MinInt..MaxInt
        /\ r.name = "noise_int" => p.ratio[2] \in Int
        /\ r.name = "noise_date" => p.max_days[2] \in Int
    BY <1>1, NumberParameters
  <1>3. out # Error
    OBVIOUS
  <1> HIDE DEF doc, out, p
  <1>4. CASE r.name = "random_int"
    <2> DEFINE min == p.min[2]
               max == p.max[2]
               d   == Digest(HashableBytes(input))
    <2>1. out = <<"int64", Ranged(d, min, max)>>
      BY <1>1, <1>4 DEF Transform, Derived
    <2>2. min \in MinInt..MaxInt /\ max \in MinInt..MaxInt /\ min \in Int /\ max \in Int
      BY <1>2, <1>4, WidthAssumption
    <2>3. d \in Nat
      BY <1>1
    <2> HIDE DEF min, max, d
    <2>4. (min <= max => Ranged(d, min, max) \in min..max) /\ (max <= min => Ranged(d, min, max) = min)
      BY <2>2, <2>3, RangedBounds
    <2>5. Ranged(d, min, max) \in MinInt..MaxInt
      BY <2>2, <2>4, WidthAssumption
    <2>6. out[2] = Ranged(d, min, max)
      BY <2>1
    <2> QED
      BY <2>4, <2>5, <2>6 DEF min, max, out, p, doc
  <1>5. CASE r.name = "noise_int"
    <2>1. out = NoiseInt(input, p.ratio[2])
      BY <1>1, <1>5 DEF Transform, Derived
    <2> QED
      BY <1>1, <1>2, <1>3, <1>5, <2>1, NoiseIntBounds DEF out, doc
  <1>6. CASE r.name = "noise_date"
    <2>1. out = NoiseDate(input, p.max_days[2])
      BY <1>1, <1>6 DEF Transform, Derived
    <2> QED
      BY <1>1, <1>2, <1>3, <1>6, <2>1, NoiseDateBounds DEF out, doc
  <1> QED
    BY <1>4, <1>5, <1>6

\* The numbers that are written.
LEMMA InvNumbers == MaskInv => NumbersInRange
  <1> SUFFICES ASSUME MaskInv, NEW w \in Writes, NEW r \in RulesOf(Source(w)),
                      Plain(Source(w)), Alone(Source(w), r.field),
                      {s \in RulesOf(Source(w)) : s.field = r.field} = {r},
                      r.when = {}, r.name \in {"random_int", "noise_int", "noise_date"}
               PROVE  LET out == After(w, r.field)
                          p   == Resolve(r, Original(w).doc)
                      IN /\ out[2] \in MinInt..MaxInt
                         /\ r.name = "random_int" /\ p.min[2] <= p.max[2] => out[2] \in p.min[2]..p.max[2]
    BY DEF NumbersInRange, Source
  <1> DEFINE c == Source(w)
  <1>1. /\ scenario \in Scenarios /\ plan = Compile(Expand(scenario.configs, scenario.edges))
        /\ w.source \in DOMAIN scenario.docs
    BY WrittenAs
  <1> HIDE DEF c
  <1>2. /\ c \in DOMAIN plan /\ r \in Planned(c)
        /\ \A s \in Planned(c) : s \in RulesOf(c) \/ s.field # r.field
    BY <1>1, PlainPlan DEF c
  <1>3. \A s \in Planned(c) : s = r \/ s.field # r.field
    BY <1>2 DEF c
  <1>4. Holds(plan[c].when, Original(w).doc) /\ Holds(r.when, Original(w).doc)
    BY <1>1, <1>2, PlainHolds DEF c, Holds
  <1>5. RuleResult(r, Original(w).doc) # Error /\ After(w, r.field) = RuleResult(r, Original(w).doc)
    BY <1>2, <1>3, <1>4, SoleRule DEF c
  <1> QED
    BY <1>1, <1>5, NumberBounds DEF Original

\* Generated and perturbed integers and dates are written within i64, and a
\* generated integer within its bounds (random_int, noise_int, noise_date).
THEOREM NumbersStayInRange == MaskSpec => []NumbersInRange
  BY MaskInvHolds, InvNumbers, PTL

-----------------------------------------------------------------------------
(* The two readings of a condition *)

LiteralTypes == {"null", "bool", "int64", "double", "nan", "string"}

\* A literal in a filter is itself, or the instant it reads as.
LEMMA LiteralInFilter ==
  ASSUME NEW v
  PROVE  /\ v[1] = "string" /\ v[2] \in DOMAIN DateText => FilterLiteral(v) = <<"datetime", DateText[v[2]]>>
         /\ ~(v[1] = "string" /\ v[2] \in DOMAIN DateText) => FilterLiteral(v) = v
  <1>1. MillisOf(v) # {} <=> v[1] = "datetime" \/ (v[1] = "string" /\ v[2] \in DOMAIN DateText)
    BY DEF MillisOf
  <1> QED
    BY <1>1 DEF FilterLiteral, FromDateText

\* Below the exact floats, numbers are told apart by the value they stand for.
LEMMA FloatOfIs ==
  ASSUME NEW v, ~Huge(v)
  PROVE  FloatOf(v) = IF v[1] \in Numeric THEN {v[2]} ELSE {}
  BY DEF Huge, FloatOf

\* The instant a value stands for, by its type.
LEMMA MillisOfIs ==
  ASSUME NEW v
  PROVE  MillisOf(v) = IF v[1] = "datetime" THEN {v[2]}
                       ELSE IF v[1] = "string" /\ v[2] \in DOMAIN DateText THEN {DateText[v[2]]} ELSE {}
  BY DEF MillisOf

\* Where neither value is beyond the exact floats, and no text is compared with
\* a date written as text, both readings agree on what is equal.
LEMMA EqualReadings ==
  ASSUME NEW field, Value(field), field[1] \notin {"array", "decimal128"}, ~Huge(field),
         NEW v, Value(v), v[1] \in LiteralTypes, ~Huge(v),
         ~(field[1] = "nan" /\ v[1] = "nan"),
         ~(field[1] = "string" /\ v[1] = "string" /\ v[2] \in DOMAIN DateText)
  PROVE  BsonEq(IF field = Absent THEN Null ELSE field, v) <=> ServerEq(field, FilterLiteral(v))
  <1> DEFINE left == IF field = Absent THEN Null ELSE field
  <1>1. Value(left) /\ ~Huge(left) /\ left[1] \notin {"array", "decimal128", "absent"}
    BY DEF Value, Huge, Absent, Null, True, False, NaN, Numeric
  <1>2. Bracket(field) = Bracket(left) /\ field[2] = left[2]
    BY DEF Bracket, Absent, Null, Numeric
  <1>3. left[1] = "string" => field[1] = "string"
    BY DEF Null
  <1> HIDE DEF left
  <1>4. FloatOf(left) = (IF left[1] \in Numeric THEN {left[2]} ELSE {})
        /\ FloatOf(v) = (IF v[1] \in Numeric THEN {v[2]} ELSE {})
    BY <1>1, FloatOfIs
  <1>5. left = <<left[1], left[2]>> /\ v = <<v[1], v[2]>>
    BY <1>1 DEF Value
  <1>6. v[1] # "datetime"
    BY DEF LiteralTypes
  <1>7. ServerEq(field, FilterLiteral(v))
          <=> Bracket(left) = Bracket(FilterLiteral(v)) /\ left[2] = FilterLiteral(v)[2]
    BY <1>2 DEF ServerEq
  <1>8. CASE v[1] = "string" /\ v[2] \in DOMAIN DateText
    <2>1. FilterLiteral(v) = <<"datetime", DateText[v[2]]>>
      BY <1>8, LiteralInFilter
    <2>2. Bracket(FilterLiteral(v)) = "datetime" /\ FilterLiteral(v)[2] = DateText[v[2]]
      BY <2>1 DEF Bracket, Numeric
    <2>3. left[1] # "string" /\ v[1] \notin Numeric
      BY <1>3, <1>8 DEF Numeric
    <2>4. Bracket(left) = "datetime" <=> left[1] = "datetime"
      BY DEF Bracket, Numeric
    <2>5. CASE left[1] = "datetime"
      <3>1. MillisOf(left) = {left[2]} /\ MillisOf(v) = {DateText[v[2]]}
        BY <1>8, <2>5, MillisOfIs
      <3>2. BsonEq(left, v) <=> left[2] = DateText[v[2]]
        BY <1>4, <2>3, <3>1 DEF BsonEq
      <3> QED
        BY <1>7, <2>2, <2>4, <2>5, <3>2 DEF left
    <2>6. CASE left[1] # "datetime"
      <3>1. MillisOf(left) = {} /\ FloatOf(v) = {}
        BY <1>4, <2>3, <2>6, MillisOfIs
      <3>2. BsonEq(left, v) <=> left = v /\ left # NaN
        BY <3>1 DEF BsonEq
      <3>3. v # NaN
        BY <1>8 DEF NaN
      <3> QED
        BY <3>3, <1>7, <1>8, <2>2, <2>3, <2>4, <2>6, <3>2 DEF left
    <2> QED
      BY <2>5, <2>6
  <1>9. CASE ~(v[1] = "string" /\ v[2] \in DOMAIN DateText)
    <2>1. FilterLiteral(v) = v /\ MillisOf(v) = {}
      BY <1>6, <1>9, LiteralInFilter, MillisOfIs
    <2>2. CASE left[1] \in Numeric /\ v[1] \in Numeric
      <3>1. BsonEq(left, v) <=> left[2] = v[2]
        BY <1>4, <2>1, <2>2 DEF BsonEq
      <3>2. Bracket(left) = "number" /\ Bracket(v) = "number"
        BY <2>2 DEF Bracket, Numeric
      <3> QED
        BY <1>7, <2>1, <3>1, <3>2 DEF left
    <2>3. CASE ~(left[1] \in Numeric /\ v[1] \in Numeric)
      <3>1. BsonEq(left, v) <=> left = v /\ left # NaN
        BY <1>4, <2>1, <2>3 DEF BsonEq
      <3>2. Bracket(left) = Bracket(v) <=> left[1] = v[1]
        BY <1>1, <2>3 DEF Bracket, LiteralTypes, Numeric, Value, Absent, Null, True, False, NaN
      <3>3. left = v <=> left[1] = v[1] /\ left[2] = v[2]
        BY <1>5
      <3>4. left = v => left # NaN
        BY DEF left, NaN, Null
      <3> QED
        BY <1>7, <2>1, <3>1, <3>2, <3>3, <3>4 DEF left
    <2> QED
      BY <2>2, <2>3
  <1> QED
    BY <1>8, <1>9

\* And on what is before and after.
LEMMA OrderedReadings ==
  ASSUME NEW field, Value(field), field[1] \notin {"array", "decimal128"}, ~Huge(field),
         NEW v, Value(v), v[1] \in {"int64", "double", "nan", "string"}, ~Huge(v),
         ~(field[1] = "nan" /\ v[1] = "nan"),
         ~(field[1] = "string" /\ v[1] = "string"), NEW op \in Ranges
  PROVE  LET left == IF field = Absent THEN Null ELSE field
         IN (\/ \E a \in FloatOf(left), b \in FloatOf(v) : Ordered(op, a, b)
             \/ \E a \in MillisOf(left), b \in MillisOf(v) : Ordered(op, a, b))
            <=> ServerMeets(MongoOp(op), field, FilterLiteral(v))
  <1> DEFINE left == IF field = Absent THEN Null ELSE field
             lit  == FilterLiteral(v)
             some == \/ \E a \in FloatOf(left), b \in FloatOf(v) : Ordered(op, a, b)
                     \/ \E a \in MillisOf(left), b \in MillisOf(v) : Ordered(op, a, b)
  <1>1. Value(left) /\ ~Huge(left) /\ left[1] \notin {"array", "decimal128", "absent"}
    BY DEF Value, Huge, Absent, Null, True, False, NaN, Numeric
  <1>2. Bracket(field) = Bracket(left) /\ field[2] = left[2]
    BY DEF Bracket, Absent, Null, Numeric
  <1>3. left[1] = "string" => field[1] = "string"
    BY DEF Null
  <1>4. ServerMeets(MongoOp(op), field, lit) <=> Bracket(field) = Bracket(lit) /\ Ordered(op, field[2], lit[2])
    BY DEF MongoOp, ServerMeets, Ordered, Ranges
  <1> HIDE DEF left, lit
  <1>5. /\ FloatOf(left) = (IF left[1] \in Numeric THEN {left[2]} ELSE {})
        /\ FloatOf(v) = (IF v[1] \in Numeric THEN {v[2]} ELSE {})
    BY <1>1, FloatOfIs
  <1>6. CASE v[1] \in Numeric
    <2>1. lit = v /\ MillisOf(v) = {} /\ FloatOf(v) = {v[2]} /\ Bracket(v) = "number"
      BY <1>5, <1>6, LiteralInFilter, MillisOfIs DEF lit, Numeric, Bracket
    <2>2. Bracket(left) = "number" <=> left[1] \in Numeric
      BY <1>1 DEF Bracket, Numeric, Value, Absent, Null, True, False, NaN
    <2>3. some <=> left[1] \in Numeric /\ Ordered(op, left[2], v[2])
      BY <1>5, <2>1
    <2> QED
      BY <1>2, <1>4, <2>1, <2>2, <2>3 DEF left, lit
  <1>7. CASE v[1] = "string"
    <2>1. left[1] # "string" /\ FloatOf(v) = {}
      BY <1>3, <1>5, <1>7 DEF Numeric
    <2>2. MillisOf(left) = IF left[1] = "datetime" THEN {left[2]} ELSE {}
      BY <2>1, MillisOfIs
    <2>3. CASE v[2] \in DOMAIN DateText
      <3>1. lit = <<"datetime", DateText[v[2]]>> /\ MillisOf(v) = {DateText[v[2]]}
        BY <1>7, <2>3, LiteralInFilter, MillisOfIs DEF lit
      <3>2. Bracket(lit) = "datetime" /\ lit[2] = DateText[v[2]]
        BY <3>1 DEF Bracket, Numeric
      <3>3. Bracket(left) = "datetime" <=> left[1] = "datetime"
        BY DEF Bracket, Numeric
      <3>4. some <=> left[1] = "datetime" /\ Ordered(op, left[2], DateText[v[2]])
        BY <2>1, <2>2, <3>1
      <3> QED
        BY <1>2, <1>4, <3>2, <3>3, <3>4 DEF left, lit
    <2>4. CASE v[2] \notin DOMAIN DateText
      <3>1. lit = v /\ MillisOf(v) = {}
        BY <1>7, <2>4, LiteralInFilter, MillisOfIs DEF lit
      <3>2. Bracket(v) = "string"
        BY <1>7 DEF Bracket, Numeric
      <3>3. Bracket(left) # "string"
        BY <2>1 DEF Bracket, Numeric
      <3>4. ~some
        BY <2>1, <3>1
      <3> QED
        BY <1>2, <1>4, <3>1, <3>2, <3>3, <3>4 DEF left, lit
    <2> QED
      BY <2>3, <2>4
  <1>8. CASE v[1] = "nan"
    <2>1. lit = v /\ MillisOf(v) = {} /\ FloatOf(v) = {} /\ Bracket(v) = "nan"
      BY <1>5, <1>8, LiteralInFilter, MillisOfIs DEF lit, Numeric, Bracket
    <2>2. Bracket(left) # "nan"
      BY <1>8 DEF Bracket, Numeric, left, Null
    <2> QED
      BY <1>2, <1>4, <2>1, <2>2 DEF left, lit
  <1> QED
    BY <1>6, <1>7, <1>8 DEF Numeric

\* A bare field is true for the same values on both sides.
LEMMA BareReadings ==
  ASSUME NEW field, Value(field), field[1] \notin {"array", "decimal128"}
  PROVE  Truthy(field) <=> field # Absent /\ ~\E v \in {Null, False, <<"int32", 0>>, EmptyText} : ServerEq(field, v)
  <1>1. field = <<field[1], field[2]>>
    BY DEF Value
  <1>2. /\ Bracket(Null) = "null" /\ Bracket(False) = "bool" /\ Bracket(<<"int32", 0>>) = "number"
        /\ Bracket(EmptyText) = "string"
    BY DEF Bracket, Null, False, EmptyText, Numeric
  <1>3. CASE field[1] \in Numeric
    <2>1. Bracket(field) = "number"
      BY <1>3 DEF Bracket, Numeric
    <2> QED
      BY <1>2, <1>3, <2>1 DEF Truthy, ServerEq, Absent, Null, False, EmptyText, Numeric
  <1>4. CASE field[1] \notin Numeric
    <2>1. Bracket(field) = IF field[1] = "absent" THEN "null" ELSE field[1]
      BY <1>4 DEF Bracket
    <2>2. field[1] # "number" /\ field[1] \in {"null", "absent"} => field \in {Null, Absent}
      BY DEF Value, Absent, Null, True, False, NaN
    <2>3. /\ field = False <=> field[1] = "bool" /\ field[2] = 0
          /\ field = EmptyText <=> field[1] = "string" /\ field[2] = 0
      BY <1>1 DEF False, EmptyText
    <2>4. field[1] # "number"
      BY DEF Value, Absent, Null, True, False, NaN
    <2> QED
      BY <1>2, <1>4, <2>1, <2>2, <2>3, <2>4 DEF Truthy, ServerEq, Absent, Null, False, EmptyText
  <1> QED
    BY <1>3, <1>4

\* A value that is no array is the only candidate of its query.
LEMMA OneCandidate ==
  ASSUME NEW field, field[1] # "array"
  PROVE  Candidates(field) = {field}
  BY DEF Candidates

\* The steps of a path on the server.
LEMMA ReachedSteps ==
  ASSUME NEW doc, NEW path, Len(path) \in Nat
  PROVE  ReachedAlong(doc, path) =
           [n \in 0..Len(path) |->
              IF n = 0 THEN {doc} ELSE UNION {Children(v, path[n]) : v \in ReachedAlong(doc, path)[n - 1]}]
  <1> DEFINE Onward(x, n) == UNION {Children(v, path[n]) : v \in x}
             Is(g, N)     == g = [n \in 0..N |-> IF n = 0 THEN {doc} ELSE Onward(g[n - 1], n)]
             S            == {N \in Nat : \E g : Is(g, N)}
  <1>1. Is([n \in 0..0 |-> {doc}], 0)
    OBVIOUS
  <1>2. ASSUME NEW N \in Nat, NEW g, Is(g, N)
        PROVE  \E h : Is(h, N + 1)
    <2> DEFINE h == [n \in 0..(N + 1) |-> IF n = N + 1 THEN Onward(g[N], n) ELSE g[n]]
    <2> HIDE DEF Onward
    <2>1. g = [n \in 0..N |-> IF n = 0 THEN {doc} ELSE Onward(g[n - 1], n)]
      BY <1>2
    <2>2. ASSUME NEW n \in 0..(N + 1)
          PROVE  h[n] = IF n = 0 THEN {doc} ELSE Onward(h[n - 1], n)
      <3>1. CASE n = N + 1
        <4>1. h[n] = Onward(g[N], n) /\ n - 1 = N /\ n # 0 /\ h[N] = g[N]
          BY <3>1
        <4> QED
          BY <4>1
      <3>2. CASE n = 0
        <4>1. h[n] = g[n] /\ g[n] = {doc}
          BY <2>1, <3>2
        <4> QED
          BY <3>2, <4>1
      <3>3. CASE n \in 1..N
        <4>1. h[n] = g[n] /\ h[n - 1] = g[n - 1]
          BY <3>3
        <4>2. n \in 0..N /\ n # 0
          BY <3>3
        <4>3. g[n] = IF n = 0 THEN {doc} ELSE Onward(g[n - 1], n)
          BY <2>1, <4>2
        <4> QED
          BY <4>1, <4>2, <4>3
      <3> QED
        BY <3>1, <3>2, <3>3
    <2>3. h = [n \in 0..(N + 1) |-> h[n]]
      OBVIOUS
    <2> HIDE DEF h
    <2>4. Is(h, N + 1)
      BY <2>2, <2>3
    <2> QED
      BY <2>4
  <1>3. \E g : Is(g, Len(path))
    <2> HIDE DEF Is
    <2>1. 0 \in S
      BY <1>1
    <2>2. \A N \in Nat : N \in S => N + 1 \in S
      BY <1>2
    <2> QED
      BY <2>1, <2>2, SetInduction
  <1> QED
    BY <1>3 DEF ReachedAlong

\* Where no array is on the way, both sides follow a path to the same value.
LEMMA ReachedIsOne ==
  ASSUME NEW doc, NEW path, Len(path) \in Nat, ~CrossesArray(doc, path)
  PROVE  Reached(doc, path) = {GetPath(doc, path)}
  <1> DEFINE S == {n \in Nat : n <= Len(path) => ReachedAlong(doc, path)[n] = {Along(doc, path)[n]}}
  <1>1. 0 \in S
    BY AlongSteps, ReachedSteps
  <1>2. \A n \in Nat : n \in S => n + 1 \in S
    <2> SUFFICES ASSUME NEW n \in Nat, n \in S, n + 1 <= Len(path)
                 PROVE  ReachedAlong(doc, path)[n + 1] = {Along(doc, path)[n + 1]}
      OBVIOUS
    <2> DEFINE v == Along(doc, path)[n]
    <2>1. ReachedAlong(doc, path)[n] = {v} /\ n \in 0..(Len(path) - 1)
      OBVIOUS
    <2>2. v[1] # "array"
      BY <2>1 DEF CrossesArray
    <2>3. n + 1 \in 0..Len(path) /\ n + 1 # 0 /\ (n + 1) - 1 = n
      BY <2>1
    <2>4. Along(doc, path)[n + 1] = Child(v, path[n + 1])
      BY <2>3, AlongSteps
    <2>5. ReachedAlong(doc, path)[n + 1] = UNION {Children(x, path[n + 1]) : x \in {v}}
      <3> HIDE DEF v
      <3> QED
        BY <2>1, <2>3, ReachedSteps
    <2>6. Children(v, path[n + 1]) = {Child(v, path[n + 1])}
      BY <2>2 DEF Children
    <2> HIDE DEF v
    <2> QED
      BY <2>4, <2>5, <2>6
  <1>3. Len(path) \in S
    <2> HIDE DEF S
    <2> QED
      BY <1>1, <1>2, SetInduction
  <1> QED
    BY <1>3 DEF Reached, GetPath

\* A term holds of a field exactly when the field meets its queries.
LEMMA TermReadings ==
  ASSUME NEW t, IsTerm(t), NEW doc, Value(GetPath(doc, t.path)), ~Parts(t, GetPath(doc, t.path)),
         ~CrossesArray(doc, t.path)
  PROVE  EvalTerm(t, doc)
           <=> \A q \in FilterTerm(t).queries : ServerMatches(Reached(doc, FilterTerm(t).path), q)
  <1> DEFINE field == GetPath(doc, t.path)
             left  == IF field = Absent THEN Null ELSE field
             meets == \A q \in FilterTerm(t).queries : ServerMatches({field}, q)
             q     == FilterCompare(t.op, t.rhs)
             Equal == \E i \in DOMAIN t.rhs : ServerEq(field, FilterLiteral(t.rhs[i]))
  <1>0. Reached(doc, t.path) = {field}
    BY ReachedIsOne DEF IsTerm, IsPath, IsList
  <1>1. field[1] \notin {"array", "decimal128"} /\ ~Huge(field) /\ Candidates(field) = {field}
    BY OneCandidate DEF Parts
  <1>2. \A i \in DOMAIN t.rhs :
          /\ Value(t.rhs[i]) /\ t.rhs[i][1] \in LiteralTypes /\ ~Huge(t.rhs[i])
          /\ ~(field[1] = "nan" /\ t.rhs[i][1] = "nan")
          /\ ~(field[1] = "string" /\ t.rhs[i][1] = "string" /\ t.rhs[i][2] \in DOMAIN DateText)
    <2> SUFFICES ASSUME NEW i \in DOMAIN t.rhs
                 PROVE  /\ Value(t.rhs[i]) /\ t.rhs[i][1] \in LiteralTypes /\ ~Huge(t.rhs[i])
                        /\ ~(field[1] = "nan" /\ t.rhs[i][1] = "nan")
                        /\ ~(field[1] = "string" /\ t.rhs[i][1] = "string" /\ t.rhs[i][2] \in DOMAIN DateText)
      OBVIOUS
    <2>1. Value(t.rhs[i]) /\ t.rhs[i][1] \in LiteralTypes
      BY DEF IsTerm, LiteralTypes
    <2>2. /\ ~Huge(t.rhs[i]) /\ ~(field[1] = "nan" /\ t.rhs[i][1] = "nan")
          /\ ~(field[1] = "string" /\ t.rhs[i][1] = "string" /\ MillisOf(t.rhs[i]) # {})
      BY DEF Parts
    <2>3. t.rhs[i][1] = "string" /\ t.rhs[i][2] \in DOMAIN DateText => MillisOf(t.rhs[i]) # {}
      BY MillisOfIs
    <2> QED
      BY <2>1, <2>2, <2>3
  <1>3. FilterTerm(t).path = t.path
    BY DEF FilterTerm
  <1>4. EvalTerm(t, doc) <=> IF t.op \in Comparisons \cup Memberships THEN EvalCompare(field, t.op, t.rhs)
                             ELSE Truthy(field)
    BY DEF EvalTerm
  <1>5. Among(left, t.rhs) <=> Equal
    <2>1. \A i \in DOMAIN t.rhs : BsonEq(left, t.rhs[i]) <=> ServerEq(field, FilterLiteral(t.rhs[i]))
      BY <1>1, <1>2, EqualReadings
    <2> HIDE DEF left, field
    <2> QED
      BY <2>1 DEF Among
  <1>6. /\ q.op = MongoOp(t.op) /\ DOMAIN q.args = DOMAIN t.rhs
        /\ \A i \in DOMAIN t.rhs : q.args[i] = FilterLiteral(t.rhs[i])
    BY DEF FilterCompare
  <1>7. t.op \in Comparisons \cup Memberships => FilterTerm(t).queries = {q}
    BY DEF FilterTerm
  <1> DEFINE some == \E i \in DOMAIN t.rhs : ServerMeets(MongoOp(t.op), field, FilterLiteral(t.rhs[i]))
  <1> HIDE DEF field, left, q
  <1>8. (\E c \in Candidates(field), i \in DOMAIN q.args : ServerMeets(q.op, c, q.args[i])) <=> some
    BY <1>1, <1>6
  <1>9. CASE t.op \in {"==", "in"}
    <2>1. MongoOp(t.op) \in {"$eq", "$in"}
      BY <1>9 DEF MongoOp
    <2>2. some <=> Equal
      BY <2>1 DEF ServerMeets
    <2>3. ServerMatches({field}, q) <=> Equal
      BY <1>6, <1>8, <2>1, <2>2 DEF ServerMatches
    <2>4. EvalCompare(field, t.op, t.rhs) <=> Among(left, t.rhs)
      BY <1>9 DEF EvalCompare, left
    <2>5. t.op \in Comparisons \cup Memberships
      BY <1>9 DEF Comparisons, Memberships
    <2> QED
      BY <1>0, <1>3, <1>4, <1>5, <1>7, <2>3, <2>4, <2>5 DEF field
  <1>10. CASE t.op \in {"!=", "not in"}
    <2>1. MongoOp(t.op) \in {"$ne", "$nin"}
      BY <1>10 DEF MongoOp
    <2>2. some <=> Equal
      BY <2>1 DEF ServerMeets
    <2>3. ServerMatches({field}, q) <=> ~Equal
      BY <1>6, <1>8, <2>1, <2>2 DEF ServerMatches
    <2>4. EvalCompare(field, t.op, t.rhs) <=> ~Among(left, t.rhs)
      BY <1>10 DEF EvalCompare, left
    <2>5. t.op \in Comparisons \cup Memberships
      BY <1>10 DEF Comparisons, Memberships
    <2> QED
      BY <1>0, <1>3, <1>4, <1>5, <1>7, <2>3, <2>4, <2>5 DEF field
  <1>11. CASE t.op \in Ranges
    <2>1. MongoOp(t.op) \in {"$gt", "$lt", "$gte", "$lte"}
      BY <1>11 DEF MongoOp, Ranges
    <2>2. t.op \in Comparisons
      BY <1>11 DEF Comparisons
    <2>3. DOMAIN t.rhs = {1}
      BY <2>2 DEF IsTerm, IsList
    <2> DEFINE v == t.rhs[1]
    <2>4. /\ Value(v) /\ v[1] \in {"int64", "double", "nan", "string"} /\ ~Huge(v)
          /\ ~(field[1] = "nan" /\ v[1] = "nan")
          /\ ~(field[1] = "string" /\ v[1] = "string")
      <3>1. v[1] \notin {"bool", "null"} /\ ~(field[1] = "string" /\ v[1] = "string")
        BY <1>11, <2>3 DEF Parts, field
      <3> QED
        BY <1>2, <2>3, <3>1 DEF LiteralTypes
    <2>5. EvalCompare(field, t.op, t.rhs)
            <=> \/ \E a \in FloatOf(left), b \in FloatOf(v) : Ordered(t.op, a, b)
                \/ \E a \in MillisOf(left), b \in MillisOf(v) : Ordered(t.op, a, b)
      BY <1>11 DEF EvalCompare, left, Ranges
    <2>6. EvalCompare(field, t.op, t.rhs) <=> ServerMeets(MongoOp(t.op), field, FilterLiteral(v))
      <3>1. Value(field)
        BY DEF field
      <3> HIDE DEF v
      <3> QED
        BY <1>1, <1>11, <2>4, <2>5, <3>1, OrderedReadings DEF left
    <2>7. some <=> ServerMeets(MongoOp(t.op), field, FilterLiteral(v))
      BY <2>3
    <2>8. ServerMatches({field}, q) <=> some
      BY <1>6, <1>8, <2>1 DEF ServerMatches
    <2> QED
      BY <1>0, <1>3, <1>4, <1>7, <2>2, <2>6, <2>7, <2>8 DEF field
  <1>12. CASE t.op \notin Comparisons \cup Memberships
    <2> DEFINE args   == <<Null, False, <<"int32", 0>>, EmptyText>>
               exists == [op |-> "$exists", args |-> <<>>]
               none   == [op |-> "$nin", args |-> args]
    <2>1. FilterTerm(t).queries = {exists, none}
      BY <1>12 DEF FilterTerm
    <2>2. ServerMatches({field}, exists) <=> field # Absent
      BY DEF ServerMatches
    <2>3. ServerMatches({field}, none) <=> ~\E v \in {Null, False, <<"int32", 0>>, EmptyText} : ServerEq(field, v)
      <3>1. ServerMatches({field}, none) <=> ~\E i \in DOMAIN args : ServerMeets("$nin", field, args[i])
        BY <1>1 DEF ServerMatches
      <3>2. \A v : ServerMeets("$nin", field, v) <=> ServerEq(field, v)
        BY DEF ServerMeets
      <3>3. DOMAIN args = 1..4 /\ args[1] = Null /\ args[2] = False /\ args[3] = <<"int32", 0>> /\ args[4] = EmptyText
        OBVIOUS
      <3> HIDE DEF args
      <3> QED
        BY <3>1, <3>2, <3>3
    <2> HIDE DEF exists, none
    <2>4. Truthy(field) <=> ServerMatches({field}, exists) /\ ServerMatches({field}, none)
      BY <1>1, <2>2, <2>3, BareReadings DEF field
    <2> QED
      BY <1>0, <1>3, <1>4, <1>12, <2>1, <2>4 DEF field
  <1> QED
    BY <1>9, <1>10, <1>11, <1>12 DEF Comparisons, Memberships

\* The conditions of every scenario, against every document of its source.
LEMMA InvReadings == MaskInv => EvalMatchesFilter
  <1> SUFFICES ASSUME MaskInv, NEW i \in DOMAIN scenario.docs, NEW w \in scenario.conditions,
                      ~ReadingsPart(w, scenario.docs[i].doc)
               PROVE  Eval(w, scenario.docs[i].doc) = ServerSelects(ToFilter(w), scenario.docs[i].doc)
    BY DEF EvalMatchesFilter
  <1> DEFINE doc == scenario.docs[i].doc
  <1>1. scenario \in Scenarios
    BY DEF MaskInv
  <1>2. \A k \in DOMAIN w : \A j \in DOMAIN w[k] :
          EvalTerm(w[k][j], doc)
            <=> \A q \in FilterTerm(w[k][j]).queries : ServerMatches(Reached(doc, FilterTerm(w[k][j]).path), q)
    <2> SUFFICES ASSUME NEW k \in DOMAIN w, NEW j \in DOMAIN w[k]
                 PROVE  EvalTerm(w[k][j], doc)
                          <=> \A q \in FilterTerm(w[k][j]).queries :
                                ServerMatches(Reached(doc, FilterTerm(w[k][j]).path), q)
      OBVIOUS
    <2> DEFINE t == w[k][j]
    <2>1. IsTerm(t)
      BY <1>1, ScenarioAssumption
    <2>2. t.path \in Looked(scenario)
      <3>1. t.path \in ConditionPaths(w)
        BY DEF ConditionPaths
      <3>2. t.path \in UNION {ConditionPaths(x) : x \in scenario.conditions}
        BY <3>1
      <3>3. UNION {ConditionPaths(x) : x \in scenario.conditions} \subseteq Looked(scenario)
        BY Zenon DEF Looked
      <3> QED
        BY <3>2, <3>3
    <2>3. Value(GetPath(doc, t.path))
      BY <1>1, <2>2, ScenarioAssumption
    <2>4. ~Parts(t, GetPath(doc, t.path)) /\ ~CrossesArray(doc, t.path)
      BY DEF ReadingsPart
    <2> QED
      BY <2>1, <2>3, <2>4, TermReadings
  <1>3. /\ DOMAIN ToFilter(w) = DOMAIN w
        /\ \A k \in DOMAIN w : /\ DOMAIN ToFilter(w)[k] = DOMAIN w[k]
                               /\ \A j \in DOMAIN w[k] : ToFilter(w)[k][j] = FilterTerm(w[k][j])
    BY DEF ToFilter
  <1> HIDE DEF doc
  <1>4. Eval(w, doc) <=> ServerSelects(ToFilter(w), doc)
    BY <1>2, <1>3 DEF Eval, ServerSelects
  <1>5. Eval(w, doc) \in BOOLEAN /\ ServerSelects(ToFilter(w), doc) \in BOOLEAN
    BY DEF Eval, ServerSelects
  <1>6. Eval(w, doc) = ServerSelects(ToFilter(w), doc)
    BY <1>4, <1>5
  <1> QED
    BY <1>6 DEF doc

\* A condition holds in memory for exactly the documents its filter selects, in
\* every run and for every condition, outside the cases ReadingsPart names (eval,
\* to_filter).
THEOREM ReadingsAgree == MaskSpec => []EvalMatchesFilter
  BY MaskInvHolds, InvReadings, PTL

-----------------------------------------------------------------------------
(***************************************************************************)
(* CustomCommand.  Answers are paired with values by order alone, so the   *)
(* invariant follows the bytes.  While a process that answers line by line *)
(* runs, the line of the value being asked is cut into consecutive pieces: *)
(* what the holder of the lock has read, what is in the output pipe, what  *)
(* the process owes and has still to read, and what is unsent.  Nothing    *)
(* else is in flight.                                                      *)
(***************************************************************************)

Calls == {"write", "read", "parse"}

\* Cells lo + 1 to hi of a value's line.
Piece(v, lo, hi) == [k \in 1..(hi - lo) |-> <<v, lo + k>>]

Empty == stdin = <<>> /\ stdout = <<>> /\ owed = <<>>

HolderCalls ==
  /\ \A w \in Workers : wpc[w] \in Calls <=> lock = w
  /\ \A w \in Workers : lock = w => Left(w)
  /\ \A w \in Workers : wpc[w] \notin Calls => resp[w] = <<>>
  /\ \A w \in Workers : wpc[w] = "write" => unsent[w] # <<>>

NothingBeforeSpawn ==
  main = "compile" =>
    /\ child = "none" /\ lock = Nobody /\ Empty
    /\ \A w \in Workers : answers[w] = <<>>

\* The cuts of the line that worker w is asking about.
Flow(w, a, b, c, d, e) ==
  LET v == Asked(w)
  IN  /\ a <= b /\ b <= c /\ c <= d /\ d <= e
      /\ resp[w]   = Piece(v, 0, a)
      /\ stdout    = Piece(v, a, b)
      /\ owed      = Piece(v, b, c)
      /\ stdin     = Piece(v, d, e)
      /\ unsent[w] = Piece(v, e, Size[v])
      /\ kind = "streams" => c = d
      /\ kind = "lines"   => (c = 0 /\ d < Size[v]) \/ c = Size[v]
      /\ wpc[w] = "write" => e < Size[v]
      /\ wpc[w] = "read"  => e = Size[v] /\ a < Size[v]
      /\ wpc[w] = "parse" => a = Size[v]

FlowOfHolder ==
  child = "running" =>
    /\ lock = Nobody => Empty
    /\ \A w \in Workers : lock = w =>
         \E a, b, c, d, e \in 0..Size[Asked(w)] : Flow(w, a, b, c, d, e)

\* After the process has died a reader gets the rest of its answer, or less.
PrefixAfterDeath ==
  child # "running" =>
    \A w \in Workers : wpc[w] \in {"read", "parse"} =>
      \E a, b \in 0..Size[Asked(w)] : /\ a <= b
                                      /\ resp[w] = Piece(Asked(w), 0, a)
                                      /\ stdout  = Piece(Asked(w), a, b)

Answerers == kind \in {"lines", "streams"}

Cells == (DOMAIN Size) \X Nat

Typed ==
  /\ load \in [Workers -> Seq(DOMAIN Size)]
  /\ wpc \in [Workers -> {"idle", "write", "read", "parse", "failed"}]
  /\ answers \in [Workers -> Seq(Seq(Cells))]
  /\ unsent \in [Workers -> Seq(Cells)]
  /\ resp \in [Workers -> Seq(Cells)]
  /\ lock \in Workers \cup {Nobody}
  /\ stdin \in Seq(Cells) /\ stdout \in Seq(Cells)
  /\ heard \in Seq(Cells) /\ owed \in Seq(Cells)
  /\ child \in {"none", "running", "exited", "killed"}
  /\ main \in {"compile", "dump", "ended"}

IInv ==
  /\ Typed
  /\ HolderCalls
  /\ NothingBeforeSpawn
  /\ Answerers => FlowOfHolder /\ PrefixAfterDeath
  /\ AnswersBelong

-----------------------------------------------------------------------------

USE PipeAssumption, SizeAssumption, LoadsAssumption, KindAssumption, NobodyAssumption

(* Pieces of a line *)

LEMMA PieceIsSeq ==
  ASSUME NEW v, NEW lo \in Nat, NEW hi \in Nat, lo <= hi
  PROVE  /\ Piece(v, lo, hi) \in Seq({v} \X Nat)
         /\ Len(Piece(v, lo, hi)) = hi - lo
         /\ \A k \in 1..(hi - lo) : Piece(v, lo, hi)[k] = <<v, lo + k>>
  BY DEF Piece

\* A piece of a line is empty exactly when its ends meet.
LEMMA PieceIsEmpty ==
  ASSUME NEW v, NEW lo \in Nat, NEW hi \in Nat, lo <= hi
  PROVE  Piece(v, lo, hi) = <<>> <=> lo = hi
  <1> DEFINE S == {v} \X Nat
             p == Piece(v, lo, hi)
  <1>1. p \in Seq(S) /\ Len(p) = hi - lo
    BY PieceIsSeq
  <1> HIDE DEF S, p
  <1>2. <<>> \in Seq(S) /\ Len(<<>>) = 0
    BY EmptySeq
  <1>3. p # <<>> => Len(p) # 0
    BY <1>1, EmptySeq
  <1>4. p = <<>> => Len(p) = 0
    BY <1>2
  <1>5. p = <<>> <=> lo = hi
    BY <1>1, <1>3, <1>4
  <1> QED
    BY <1>5 DEF p

\* A cell moves from the front of one piece to the end of the one before it.
LEMMA PieceGrows ==
  ASSUME NEW v, NEW lo \in Nat, NEW hi \in Nat, lo <= hi
  PROVE  Append(Piece(v, lo, hi), <<v, hi + 1>>) = Piece(v, lo, hi + 1)
  <1> DEFINE S == {v} \X Nat
             p == Piece(v, lo, hi)
             q == Piece(v, lo, hi + 1)
             last == <<v, hi + 1>>
  <1>1. /\ p \in Seq(S) /\ Len(p) = hi - lo
        /\ q \in Seq(S) /\ Len(q) = Len(p) + 1
        /\ last \in S
    <2>1. hi + 1 \in Nat /\ lo <= hi + 1
      OBVIOUS
    <2>2. p \in Seq(S) /\ Len(p) = hi - lo
      BY PieceIsSeq
    <2>3. q \in Seq(S) /\ Len(q) = hi + 1 - lo
      <3> DEFINE top == hi + 1
      <3>1. top \in Nat /\ lo <= top
        BY <2>1
      <3> HIDE DEF top
      <3>2. Piece(v, lo, top) \in Seq(S) /\ Len(Piece(v, lo, top)) = top - lo
        BY <3>1, PieceIsSeq
      <3> QED
        BY <3>2 DEF top
    <2> QED
      BY <2>2, <2>3
  <1>2. /\ \A k \in 1..Len(p) : p[k] = q[k]
        /\ q[Len(p) + 1] = last
    BY <1>1 DEF Piece
  <1> HIDE DEF S, p, q, last
  <1>3. /\ Append(p, last) \in Seq(S)
        /\ Len(Append(p, last)) = Len(p) + 1
        /\ \A k \in 1..Len(p) : Append(p, last)[k] = p[k]
        /\ Append(p, last)[Len(p) + 1] = last
    BY <1>1, AppendProperties
  <1>4. Len(p) \in Nat
    BY <1>1, LenProperties
  <1>5. \A k \in 1..Len(Append(p, last)) : Append(p, last)[k] = q[k]
    BY <1>2, <1>3, <1>4
  <1>6. Append(p, last) = q
    BY <1>1, <1>3, <1>5, SeqEqual
  <1> QED
    BY <1>6 DEF p, q, last

\* The first cell of a piece, and what is left behind it.
LEMMA PieceShrinks ==
  ASSUME NEW v, NEW lo \in Nat, NEW hi \in Nat, lo < hi
  PROVE  /\ Head(Piece(v, lo, hi)) = <<v, lo + 1>>
         /\ Tail(Piece(v, lo, hi)) = Piece(v, lo + 1, hi)
  <1> DEFINE S == {v} \X Nat
             p == Piece(v, lo, hi)
             q == Piece(v, lo + 1, hi)
  <1>1. /\ p \in Seq(S) /\ Len(p) = hi - lo /\ p # <<>>
        /\ q \in Seq(S) /\ Len(q) = hi - lo - 1
        /\ \A k \in 1..(hi - lo - 1) : p[k + 1] = q[k]
        /\ p[1] = <<v, lo + 1>>
    <2>1. /\ lo + 1 \in Nat /\ lo + 1 <= hi
          /\ hi - (lo + 1) = hi - lo - 1 /\ hi - lo \in Nat
      OBVIOUS
    <2>2. p \in Seq(S) /\ Len(p) = hi - lo /\ p # <<>>
      <3>1. lo <= hi /\ lo # hi
        OBVIOUS
      <3> QED
        BY <3>1, PieceIsSeq, PieceIsEmpty
    <2>3. q \in Seq(S) /\ Len(q) = hi - lo - 1
      <3> DEFINE low == lo + 1
      <3>1. low \in Nat /\ low <= hi
        BY <2>1
      <3> HIDE DEF low
      <3>2. Piece(v, low, hi) \in Seq(S) /\ Len(Piece(v, low, hi)) = hi - low
        BY <3>1, PieceIsSeq
      <3> QED
        BY <3>2 DEF low
    <2>4. p[1] = <<v, lo + 1>> /\ \A k \in 1..(hi - lo - 1) : p[k + 1] = q[k]
      BY <2>1 DEF Piece
    <2> QED
      BY <2>2, <2>3, <2>4
  <1> HIDE DEF S, p, q
  <1>2. Head(p) = p[1]
    BY <1>1
  <1>3. /\ Tail(p) \in Seq(S)
        /\ Len(Tail(p)) = Len(q)
        /\ \A k \in 1..Len(q) : Tail(p)[k] = q[k]
    BY <1>1, HeadTailProperties
  <1>4. Tail(p) = q
    BY <1>1, <1>3, SeqEqual
  <1> QED
    BY <1>1, <1>2, <1>4 DEF p, q

\* A line is the piece of it from its first cell to its newline.
LEMMA LineIsPiece == \A v \in DOMAIN Size : Line(v) = Piece(v, 0, Size[v])
  BY DEF Line, Piece

\* What is asked is a value, and its line a non-empty sequence of cells.
LEMMA AskedIsValue ==
  ASSUME Typed, NEW w \in Workers, Left(w)
  PROVE  Asked(w) \in DOMAIN Size
  <1>1. load[w] \in Seq(DOMAIN Size) /\ answers[w] \in Seq(Seq(Cells))
    BY DEF Typed
  <1>2. Len(load[w]) \in Nat /\ Len(answers[w]) \in Nat
    BY <1>1, LenProperties
  <1>3. Len(answers[w]) + 1 \in 1..Len(load[w])
    BY <1>2 DEF Left
  <1> QED
    BY <1>1, <1>3, ElementOfSeq DEF Asked

\* A line is a nonempty sequence of cells.
LEMMA LineIsSeq ==
  ASSUME NEW v \in DOMAIN Size
  PROVE  Line(v) \in Seq(Cells) /\ Len(Line(v)) = Size[v] /\ Line(v) # <<>>
  <1>1. Size[v] \in Nat /\ Size[v] # 0
    BY SizeAssumption
  <1>2. Line(v) \in [1..Size[v] -> Cells]
    BY <1>1 DEF Line, Cells
  <1>3. Line(v) \in Seq(Cells) /\ Len(Line(v)) = Size[v]
    BY <1>1, <1>2
  <1>4. Len(<<>>) = 0
    OBVIOUS
  <1> QED
    BY <1>1, <1>3, <1>4

-----------------------------------------------------------------------------

\* The inductive invariant holds at first.
THEOREM InitIInv == Init => IInv
  <1> SUFFICES ASSUME Init PROVE IInv
    OBVIOUS
  <1>1. Typed
    BY EmptySeq DEF Init, Typed
  <1>2. HolderCalls
    BY DEF Init, HolderCalls, Calls
  <1>3. NothingBeforeSpawn
    BY DEF Init, NothingBeforeSpawn, Empty
  <1>4. FlowOfHolder /\ PrefixAfterDeath
    BY DEF Init, FlowOfHolder, PrefixAfterDeath
  <1>5. AnswersBelong
    <2>1. \A w \in Workers : answers[w] = <<>>
      BY DEF Init
    <2>2. DOMAIN <<>> = {}
      OBVIOUS
    <2> QED
      BY <2>1, <2>2 DEF AnswersBelong
  <1> QED
    BY <1>1, <1>2, <1>3, <1>4, <1>5 DEF IInv

\* Every variable keeps its type, pipes and all.
LEMMA TypedStep == Typed /\ HolderCalls /\ [Next]_vars => Typed'
  <1> SUFFICES ASSUME Typed, HolderCalls, [Next]_vars PROVE Typed'
    OBVIOUS
  <1> USE DEF childVars, workerVars
  <1>1. CASE Spawn
    BY <1>1 DEF Spawn, Typed
  <1>2. CASE SpawnFails
    BY <1>2 DEF SpawnFails, Typed
  <1>3. CASE DropTransformer
    BY <1>3 DEF DropTransformer, Typed
  <1>4. ASSUME NEW w \in Workers, Acquire(w) PROVE Typed'
    <2>1. Line(Asked(w)) \in Seq(Cells)
      BY <1>4, AskedIsValue, LineIsSeq DEF Acquire
    <2> QED
      BY <1>4, <2>1 DEF Acquire, Typed
  <1>5. ASSUME NEW w \in Workers, WriteCell(w) PROVE Typed'
    <2>1. unsent[w] \in Seq(Cells) /\ unsent[w] # <<>>
      BY <1>5 DEF WriteCell, HolderCalls, Typed
    <2>2. Head(unsent[w]) \in Cells /\ Tail(unsent[w]) \in Seq(Cells)
      BY <2>1, HeadTailProperties
    <2>3. stdin' \in Seq(Cells)
      BY <1>5, <2>2, AppendProperties DEF WriteCell, Typed
    <2> QED
      BY <1>5, <2>2, <2>3 DEF WriteCell, Typed
  <1>6. ASSUME NEW w \in Workers, Fail(w) PROVE Typed'
    BY <1>6 DEF Fail, Typed
  <1>7. ASSUME NEW w \in Workers, ReadCell(w) PROVE Typed'
    <2>1. Head(stdout) \in Cells /\ Tail(stdout) \in Seq(Cells)
      BY <1>7, HeadTailProperties DEF ReadCell, Typed
    <2>2. Append(resp[w], Head(stdout)) \in Seq(Cells)
      BY <2>1, AppendProperties DEF Typed
    <2> QED
      BY <1>7, <2>1, <2>2 DEF ReadCell, Typed
  <1>8. ASSUME NEW w \in Workers, ReadEof(w) PROVE Typed'
    BY <1>8 DEF ReadEof, Typed
  <1>9. ASSUME NEW w \in Workers, Answered(w) PROVE Typed'
    <2>1. Append(answers[w], resp[w]) \in Seq(Seq(Cells))
      BY AppendProperties DEF Typed
    <2> QED
      BY <1>9, <2>1 DEF Answered, Typed
  <1>10. CASE ChildReads
    <2> DEFINE c == Head(stdin)
    <2>1. c \in Cells /\ Tail(stdin) \in Seq(Cells)
      BY <1>10, HeadTailProperties DEF ChildReads, Typed
    <2>2. Line(c[1]) \in Seq(Cells)
      BY <2>1, LineIsSeq DEF Cells
    <2> HIDE DEF c
    <2>3. Line(c[1]) \o Line(c[1]) \in Seq(Cells) /\ heard \o Line(c[1]) \in Seq(Cells)
      BY <2>2, ConcatProperties DEF Typed
    <2>4. Replies(c[1]) \in Seq(Cells)
      BY <2>2, <2>3 DEF Replies
    <2>5. <<c>> \in Seq(Cells) /\ <<>> \in Seq(Cells)
      BY <2>1
    <2>6. owed' \in Seq(Cells) /\ heard' \in Seq(Cells)
      <3>1. /\ owed' = IF kind = "streams" THEN <<c>>
                       ELSE IF IsEnd(c) THEN Replies(c[1]) ELSE <<>>
            /\ heard' = IF kind = "hoards" /\ IsEnd(c) /\ heard = <<>> THEN Line(c[1])
                        ELSE IF IsEnd(c) THEN <<>> ELSE heard
        BY <1>10 DEF ChildReads, c
      <3> QED
        BY <2>2, <2>4, <2>5, <3>1 DEF Typed
    <2> QED
      BY <1>10, <2>1, <2>6 DEF ChildReads, Typed
  <1>11. CASE ChildWrites
    <2>1. Head(owed) \in Cells /\ Tail(owed) \in Seq(Cells)
      BY <1>11, HeadTailProperties DEF ChildWrites, Typed
    <2>2. Append(stdout, Head(owed)) \in Seq(Cells)
      BY <2>1, AppendProperties DEF Typed
    <2> QED
      BY <1>11, <2>1, <2>2 DEF ChildWrites, Typed
  <1>12. CASE ChildExits
    BY <1>12 DEF ChildExits, Typed
  <1>13. CASE UNCHANGED vars
    BY <1>13 DEF vars, Typed
  <1> QED
    BY <1>1, <1>2, <1>3, <1>4, <1>5, <1>6, <1>7, <1>8, <1>9, <1>10, <1>11, <1>12, <1>13
       DEF Next, Worker, WriteFails, BadAnswer

\* The holder of the lock is in a call, nobody else is, and it stays that way.
LEMMA HolderStep == Typed /\ HolderCalls /\ [Next]_vars => HolderCalls'
  <1> SUFFICES ASSUME Typed, HolderCalls, [Next]_vars PROVE HolderCalls'
    OBVIOUS
  <1> USE DEF childVars, workerVars
  <1>1. CASE UNCHANGED <<workerVars, load>>
    BY <1>1 DEF HolderCalls, Left
  <1>2. ASSUME NEW w \in Workers, Acquire(w) PROVE HolderCalls'
    <2>1. Line(Asked(w)) # <<>>
      BY <1>2, AskedIsValue, LineIsSeq DEF Acquire
    <2> QED
      BY <1>2, <2>1 DEF Acquire, HolderCalls, Calls, Left, Typed
  <1>3. ASSUME NEW w \in Workers, WriteCell(w) PROVE HolderCalls'
    <2>1. unsent[w] \in Seq(Cells) /\ unsent[w] # <<>>
      BY <1>3 DEF WriteCell, HolderCalls, Typed
    <2>2. Len(unsent[w]) # 1 => Tail(unsent[w]) # <<>>
      <3> DEFINE n == Len(unsent[w])
                 t == Tail(unsent[w])
      <3>1. n \in Nat \ {0} /\ Len(t) = n - 1
        BY <2>1, HeadTailProperties, EmptySeq
      <3> HIDE DEF n, t
      <3>2. t = <<>> => Len(t) = 0
        OBVIOUS
      <3>3. n # 1 => t # <<>>
        BY <3>1, <3>2
      <3> QED
        BY <3>3 DEF n, t
    <2>3. wpc'[w] \in {"read", "write"} /\ (wpc'[w] = "write" => unsent'[w] # <<>>)
      BY <1>3, <2>2 DEF WriteCell, Typed
    <2>4. \A u \in Workers : u # w => wpc'[u] = wpc[u] /\ unsent'[u] = unsent[u]
      BY <1>3 DEF WriteCell, Typed
    <2>5. UNCHANGED <<load, answers, lock, resp>> /\ wpc[w] = "write"
      BY <1>3 DEF WriteCell
    <2> QED
      BY <2>3, <2>4, <2>5 DEF HolderCalls, Calls, Left
  <1>4. ASSUME NEW w \in Workers, Fail(w), wpc[w] \in Calls PROVE HolderCalls'
    BY <1>4 DEF Fail, HolderCalls, Calls, Typed
  <1>5. ASSUME NEW w \in Workers, ReadCell(w) PROVE HolderCalls'
    <2>1. wpc'[w] \in {"read", "parse"} /\ wpc[w] = "read"
      BY <1>5 DEF ReadCell, Typed
    <2>2. \A u \in Workers : u # w => wpc'[u] = wpc[u] /\ resp'[u] = resp[u]
      BY <1>5 DEF ReadCell, Typed
    <2>3. UNCHANGED <<load, answers, lock, unsent>>
      BY <1>5 DEF ReadCell
    <2> QED
      BY <2>1, <2>2, <2>3 DEF HolderCalls, Calls, Left
  <1>6. ASSUME NEW w \in Workers, ReadEof(w) PROVE HolderCalls'
    BY <1>6 DEF ReadEof, HolderCalls, Calls, Left, Typed
  <1>7. ASSUME NEW w \in Workers, Answered(w) PROVE HolderCalls'
    BY <1>7 DEF Answered, HolderCalls, Calls, Left, Typed
  <1> QED
    BY <1>1, <1>2, <1>3, <1>4, <1>5, <1>6, <1>7
       DEF Next, Worker, WriteFails, BadAnswer, Spawn, SpawnFails, DropTransformer, ChildReads,
           ChildWrites, ChildExits, vars, Calls

\* Nothing is written, heard or read before the process exists.
LEMMA BeforeSpawnStep ==
  Typed /\ HolderCalls /\ NothingBeforeSpawn /\ [Next]_vars => NothingBeforeSpawn'
  <1> SUFFICES ASSUME Typed, HolderCalls, NothingBeforeSpawn, [Next]_vars, main' = "compile"
               PROVE  NothingBeforeSpawn'
    BY DEF NothingBeforeSpawn
  <1> USE DEF childVars, workerVars
  <1>1. main = "compile"
    BY DEF Next, Worker, Acquire, WriteCell, WriteFails, ReadCell, ReadEof, Answered, BadAnswer,
           Fail, Spawn, SpawnFails, DropTransformer, ChildReads, ChildWrites, ChildExits, vars
  <1>2. child = "none" /\ \A w \in Workers : wpc[w] \notin Calls
    BY <1>1, NobodyAssumption DEF NothingBeforeSpawn, HolderCalls
  <1>3. UNCHANGED vars
    BY <1>1, <1>2
       DEF Next, Worker, Acquire, WriteCell, WriteFails, ReadCell, ReadEof, Answered, BadAnswer,
           Spawn, SpawnFails, DropTransformer, ChildReads, ChildWrites, ChildExits, Calls
  <1> QED
    BY <1>3 DEF vars, NothingBeforeSpawn, Empty

-----------------------------------------------------------------------------
(* The bytes in flight *)

\* The front cell of a piece, what is left behind it, and where it may go.
LEMMA PieceHead ==
  ASSUME NEW v, NEW lo \in Nat, NEW hi \in Nat, lo < hi
  PROVE  Head(Piece(v, lo, hi)) = <<v, lo + 1>>
  BY PieceShrinks

\* What is behind the first cell of a piece is a piece.
LEMMA PieceTail ==
  ASSUME NEW v, NEW lo \in Nat, NEW hi \in Nat, lo < hi
  PROVE  Tail(Piece(v, lo, hi)) = Piece(v, lo + 1, hi)
  BY PieceShrinks

\* A step that moves a cell along the way proves the flow by its new marks.
LEMMA FlowAfter ==
  ASSUME NEW w \in Workers, lock' = w, load' = load, answers' = answers,
         NEW a \in 0..Size[Asked(w)], NEW b \in 0..Size[Asked(w)], NEW c \in 0..Size[Asked(w)],
         NEW d \in 0..Size[Asked(w)], NEW e \in 0..Size[Asked(w)], Flow(w, a, b, c, d, e)'
  PROVE  FlowOfHolder'
  <1>1. Asked(w)' = Asked(w)
    BY DEF Asked
  <1> QED
    BY <1>1, NobodyAssumption DEF FlowOfHolder

\* The holder of a running process, its value and the cuts of its line.
LEMMA FlowBefore ==
  ASSUME Typed, HolderCalls, FlowOfHolder, child = "running", NEW w \in Workers, lock = w
  PROVE  /\ Asked(w) \in DOMAIN Size /\ Size[Asked(w)] \in Nat \ {0}
         /\ \E a, b, c, d, e \in 0..Size[Asked(w)] : Flow(w, a, b, c, d, e)
  BY AskedIsValue, SizeAssumption DEF HolderCalls, FlowOfHolder

\* While the process runs, a worker's step moves a cut of the line it asks about,
\* or begins a line on empty pipes, or ends it with them empty.
LEMMA FlowWorkerStep ==
  ASSUME Typed, HolderCalls, Answerers, FlowOfHolder, child = "running",
         NEW w \in Workers, Worker(w)
  PROVE  FlowOfHolder'
  <1> USE DEF childVars, workerVars
  <1>1. CASE Acquire(w)
    <2> DEFINE v == Asked(w)
    <2>1. v \in DOMAIN Size /\ Size[v] \in Nat \ {0}
      BY <1>1, AskedIsValue, SizeAssumption DEF Acquire
    <2>2. stdin' = <<>> /\ stdout' = <<>> /\ owed' = <<>> /\ resp'[w] = <<>>
      BY <1>1 DEF Acquire, FlowOfHolder, Empty, HolderCalls, Calls
    <2>3. lock' = w /\ load' = load /\ answers' = answers /\ kind' = kind
      BY <1>1 DEF Acquire
    <2>4. wpc'[w] = "write" /\ unsent'[w] = Piece(v, 0, Size[v])
      BY <1>1, <2>1, LineIsPiece DEF Acquire, Typed
    <2>5. Piece(v, 0, 0) = <<>>
      BY PieceIsEmpty
    <2>6. Asked(w)' = v
      BY <2>3 DEF Asked
    <2>7. Flow(w, 0, 0, 0, 0, 0)'
      <3> HIDE DEF v
      <3> QED
        BY <2>1, <2>2, <2>3, <2>4, <2>5, <2>6 DEF Flow
    <2> QED
      BY <2>1, <2>3, <2>7, FlowAfter
  <1>2. CASE wpc[w] \in Calls
    <2>1. lock = w
      BY <1>2 DEF HolderCalls
    <2> DEFINE v == Asked(w)
               n == Size[v]
    <2>2. v \in DOMAIN Size /\ n \in Nat \ {0}
      BY <2>1, FlowBefore
    <2>3. PICK a \in 0..n, b \in 0..n, c \in 0..n, d \in 0..n, e \in 0..n : Flow(w, a, b, c, d, e)
      BY <2>1, FlowBefore
    <2>4. /\ a <= b /\ b <= c /\ c <= d /\ d <= e
          /\ resp[w] = Piece(v, 0, a) /\ stdout = Piece(v, a, b) /\ owed = Piece(v, b, c)
          /\ stdin = Piece(v, d, e) /\ unsent[w] = Piece(v, e, n)
          /\ kind = "streams" => c = d
          /\ kind = "lines" => (c = 0 /\ d < n) \/ c = n
          /\ wpc[w] = "write" => e < n
          /\ wpc[w] = "read" => e = n /\ a < n
          /\ wpc[w] = "parse" => a = n
      BY <2>3 DEF Flow
    <2>5. ASSUME load' = load, answers' = answers PROVE Asked(w)' = v
      BY <2>5 DEF Asked
    <2> HIDE DEF v, n
    <2>0. a \in Nat /\ b \in Nat /\ c \in Nat /\ d \in Nat /\ e \in Nat /\ n \in Nat
      BY <2>2, <2>3
    <2>6. CASE WriteCell(w)
      <3>1. /\ lock' = lock /\ load' = load /\ answers' = answers /\ kind' = kind /\ resp' = resp
            /\ stdout' = stdout /\ owed' = owed /\ wpc[w] = "write"
            /\ stdin' = Append(stdin, Head(unsent[w])) /\ unsent'[w] = Tail(unsent[w])
            /\ wpc'[w] = IF Len(unsent[w]) = 1 THEN "read" ELSE "write"
        BY <2>6 DEF WriteCell, Typed
      <3> DEFINE f == e + 1
      <3>2. f \in Nat /\ f = e + 1 /\ d <= e /\ e < n
        BY <2>0, <2>4, <3>1
      <3> HIDE DEF f
      <3>5. Tail(unsent[w]) = Piece(v, f, n) /\ Append(stdin, Head(unsent[w])) = Piece(v, d, f)
        <4>1. Head(Piece(v, e, n)) = <<v, f>>
          BY <2>0, <3>2, PieceHead
        <4>2. Tail(Piece(v, e, n)) = Piece(v, f, n)
          BY <2>0, <3>2, PieceTail
        <4>3. Append(Piece(v, d, e), <<v, f>>) = Piece(v, d, f)
          BY <2>0, <3>2, PieceGrows
        <4> QED
          BY <2>4, <4>1, <4>2, <4>3
      <3>3. Len(unsent[w]) = n - e
        <4>1. e <= n
          BY <2>2, <2>3
        <4>2. Len(Piece(v, e, n)) = n - e
          BY <2>0, <4>1, PieceIsSeq
        <4> QED
          BY <2>4, <4>2
      <3>4. Flow(w, a, b, c, d, f)'
        BY <2>2, <2>4, <2>5, <3>1, <3>2, <3>3, <3>5 DEF Flow, n
      <3>6. f \in 0..n
        BY <2>0, <3>2
      <3> QED
        BY <2>1, <3>1, <3>4, <3>6, FlowAfter DEF n, v
    <2>7. CASE ReadCell(w)
      <3>1. /\ lock' = lock /\ load' = load /\ answers' = answers /\ kind' = kind
            /\ stdin' = stdin /\ owed' = owed /\ unsent' = unsent
            /\ wpc[w] = "read" /\ stdout # <<>>
            /\ resp'[w] = Append(resp[w], Head(stdout)) /\ stdout' = Tail(stdout)
            /\ wpc'[w] = IF IsEnd(Head(stdout)) THEN "parse" ELSE "read"
        BY <2>7 DEF ReadCell, Typed
      <3>2. a < b
        BY <2>4, <3>1, PieceIsEmpty
      <3> DEFINE f == a + 1
      <3>3. f \in Nat /\ f = a + 1 /\ f \in 0..n /\ 0 \in Nat /\ 0 <= a
        BY <2>0, <2>3, <3>2
      <3> HIDE DEF f
      <3>4. /\ Head(stdout) = <<v, f>>
            /\ stdout' = Piece(v, f, b) /\ resp'[w] = Piece(v, 0, f)
        <4>1. Head(Piece(v, a, b)) = <<v, f>>
          BY <2>0, <3>2, <3>3, PieceHead
        <4>2. Tail(Piece(v, a, b)) = Piece(v, f, b)
          BY <2>0, <3>2, <3>3, PieceTail
        <4>3. Append(Piece(v, 0, a), <<v, f>>) = Piece(v, 0, f)
          BY <2>0, <3>3, PieceGrows
        <4> QED
          BY <2>4, <3>1, <4>1, <4>2, <4>3
      <3>5. IsEnd(Head(stdout)) <=> f = n
        BY <3>4 DEF IsEnd, n
      <3>6. Flow(w, f, b, c, d, e)'
        BY <2>2, <2>4, <2>5, <3>1, <3>2, <3>3, <3>4, <3>5 DEF Flow, n
      <3> QED
        BY <2>1, <3>1, <3>3, <3>6, FlowAfter DEF n, v
    <2>8. CASE wpc[w] = "parse" /\ (Answered(w) \/ Fail(w))
      <3>1. lock' = Nobody /\ UNCHANGED <<stdin, stdout, owed>>
        BY <2>8 DEF Answered, Fail
      <3>2. b = n /\ c = n /\ d = n /\ e = n
        BY <2>2, <2>4, <2>8
      <3>3. Piece(v, n, n) = <<>>
        BY <2>2, PieceIsEmpty
      <3>4. Empty'
        BY <2>4, <2>8, <3>1, <3>2, <3>3 DEF Empty
      <3> QED
        BY <3>1, <3>4, NobodyAssumption DEF FlowOfHolder
    <2> QED
      BY <1>2, <2>6, <2>7, <2>8
         DEF Worker, Acquire, WriteFails, ReadEof, Answered, BadAnswer, Calls
  <1> QED
    BY <1>1, <1>2 DEF Worker, WriteCell, WriteFails, ReadCell, ReadEof, Answered, BadAnswer, Calls

\* The process moves the cuts between its two pipes.
LEMMA FlowChildReads ==
  ASSUME Typed, HolderCalls, Answerers, FlowOfHolder, ChildReads
  PROVE  FlowOfHolder'
  <1> USE DEF childVars, workerVars
  <1>1. /\ child = "running" /\ stdin # <<>> /\ owed = <<>>
        /\ owed' = IF kind = "streams" THEN <<Head(stdin)>>
                   ELSE IF IsEnd(Head(stdin)) THEN Replies(Head(stdin)[1]) ELSE <<>>
        /\ stdin' = Tail(stdin)
        /\ lock' = lock /\ load' = load /\ answers' = answers /\ kind' = kind /\ resp' = resp
        /\ stdout' = stdout /\ unsent' = unsent /\ wpc' = wpc
    BY DEF ChildReads
  <1>2. PICK w \in Workers : lock = w
    BY <1>1 DEF FlowOfHolder, Empty, Typed
  <1> DEFINE v == Asked(w)
             n == Size[v]
  <1>3. v \in DOMAIN Size /\ n \in Nat \ {0}
    BY <1>1, <1>2, FlowBefore
  <1>4. PICK a \in 0..n, b \in 0..n, c \in 0..n, d \in 0..n, e \in 0..n : Flow(w, a, b, c, d, e)
    BY <1>1, <1>2, FlowBefore
  <1>5. /\ a <= b /\ b <= c /\ c <= d /\ d <= e
        /\ resp[w] = Piece(v, 0, a) /\ stdout = Piece(v, a, b) /\ owed = Piece(v, b, c)
        /\ stdin = Piece(v, d, e) /\ unsent[w] = Piece(v, e, n)
        /\ kind = "streams" => c = d
        /\ kind = "lines" => (c = 0 /\ d < n) \/ c = n
        /\ wpc[w] = "write" => e < n
        /\ wpc[w] = "read" => e = n /\ a < n
        /\ wpc[w] = "parse" => a = n
    BY <1>4 DEF Flow
  <1>6. Asked(w)' = v
    BY <1>1 DEF Asked
  <1>12. Line(v) = Piece(v, 0, n)
    BY <1>3, LineIsPiece
  <1> HIDE DEF v, n
  <1>0. a \in Nat /\ b \in Nat /\ c \in Nat /\ d \in Nat /\ e \in Nat /\ n \in Nat
    BY <1>3, <1>4
  <1> DEFINE f == d + 1
  <1>7. b = c /\ d < e
    BY <1>0, <1>1, <1>5, PieceIsEmpty
  <1>8. f \in Nat /\ f = d + 1 /\ f \in 0..n
    BY <1>0, <1>4, <1>7
  <1> HIDE DEF f
  <1>9. Head(stdin) = <<v, f>> /\ stdin' = Piece(v, f, e)
    <2>1. Head(Piece(v, d, e)) = <<v, f>>
      BY <1>0, <1>7, <1>8, PieceHead
    <2>2. Tail(Piece(v, d, e)) = Piece(v, f, e)
      BY <1>0, <1>7, <1>8, PieceTail
    <2> QED
      BY <1>1, <1>5, <2>1, <2>2
  <1>10. IsEnd(Head(stdin)) <=> f = n
    BY <1>9 DEF IsEnd, n
  <1>11. CASE kind = "streams"
    <2>1. owed' = Piece(v, b, f)
      <3>1. owed' = <<Head(stdin)>>
        BY <1>1, <1>11
      <3>2. b = d
        BY <1>5, <1>7, <1>11
      <3>3. f - d = 1 /\ \A k \in 1..1 : d + k = f
        BY <1>0, <1>8
      <3>4. Piece(v, d, f) = [k \in 1..1 |-> <<v, f>>]
        BY <3>3 DEF Piece
      <3>5. [k \in 1..1 |-> <<v, f>>] = <<<<v, f>>>>
        OBVIOUS
      <3> QED
        BY <1>9, <3>1, <3>2, <3>4, <3>5
    <2>2. Flow(w, a, b, f, f, e)'
      BY <1>0, <1>1, <1>5, <1>6, <1>7, <1>8, <1>9, <1>11, <2>1 DEF Flow, n
    <2> QED
      BY <1>1, <1>2, <1>4, <1>8, <2>2, FlowAfter DEF n, v
  <1>13. CASE kind = "lines"
    <2>1. b = 0 /\ c = 0
      BY <1>0, <1>4, <1>5, <1>7, <1>13
    <2>2. CASE f = n
      <3>1. owed' = Piece(v, b, f)
        <4>1. owed' = Replies(Head(stdin)[1])
          BY <1>1, <1>10, <1>13, <2>2
        <4>2. Head(stdin)[1] = v
          BY <1>9
        <4>3. Replies(v) = Line(v)
          BY <1>13 DEF Replies
        <4> QED
          BY <1>12, <2>1, <2>2, <4>1, <4>2, <4>3
      <3>2. Flow(w, a, b, f, f, e)'
        BY <1>0, <1>1, <1>5, <1>6, <1>7, <1>8, <1>9, <1>13, <2>1, <2>2, <3>1 DEF Flow, n
      <3> QED
        BY <1>1, <1>2, <1>4, <1>8, <3>2, FlowAfter DEF n, v
    <2>3. CASE f # n
      <3>1. owed' = Piece(v, b, c)
        BY <1>1, <1>5, <1>10, <1>13, <2>3
      <3>2. Flow(w, a, b, c, f, e)'
        BY <1>0, <1>1, <1>5, <1>6, <1>7, <1>8, <1>9, <1>13, <2>1, <2>3, <3>1 DEF Flow, n
      <3> QED
        BY <1>1, <1>2, <1>4, <1>8, <3>2, FlowAfter DEF n, v
    <2> QED
      BY <2>2, <2>3
  <1> QED
    BY <1>11, <1>13 DEF Answerers

\* An answer written by the process is the continuation of the one being read.
LEMMA FlowChildWrites ==
  ASSUME Typed, HolderCalls, Answerers, FlowOfHolder, ChildWrites
  PROVE  FlowOfHolder'
  <1> USE DEF childVars, workerVars
  <1>1. /\ child = "running" /\ owed # <<>>
        /\ stdout' = Append(stdout, Head(owed)) /\ owed' = Tail(owed)
        /\ lock' = lock /\ load' = load /\ answers' = answers /\ kind' = kind /\ resp' = resp
        /\ stdin' = stdin /\ unsent' = unsent /\ wpc' = wpc
    BY DEF ChildWrites
  <1>2. PICK w \in Workers : lock = w
    BY <1>1 DEF FlowOfHolder, Empty, Typed
  <1> DEFINE v == Asked(w)
             n == Size[v]
  <1>3. v \in DOMAIN Size /\ n \in Nat \ {0}
    BY <1>1, <1>2, FlowBefore
  <1>4. PICK a \in 0..n, b \in 0..n, c \in 0..n, d \in 0..n, e \in 0..n : Flow(w, a, b, c, d, e)
    BY <1>1, <1>2, FlowBefore
  <1>5. /\ a <= b /\ b <= c /\ c <= d /\ d <= e
        /\ resp[w] = Piece(v, 0, a) /\ stdout = Piece(v, a, b) /\ owed = Piece(v, b, c)
        /\ stdin = Piece(v, d, e) /\ unsent[w] = Piece(v, e, n)
        /\ kind = "streams" => c = d
        /\ kind = "lines" => (c = 0 /\ d < n) \/ c = n
        /\ wpc[w] = "write" => e < n
        /\ wpc[w] = "read" => e = n /\ a < n
        /\ wpc[w] = "parse" => a = n
    BY <1>4 DEF Flow
  <1>6. Asked(w)' = v
    BY <1>1 DEF Asked
  <1> HIDE DEF v, n
  <1>0. a \in Nat /\ b \in Nat /\ c \in Nat /\ d \in Nat /\ e \in Nat /\ n \in Nat
    BY <1>3, <1>4
  <1> DEFINE f == b + 1
  <1>7. b < c
    BY <1>0, <1>1, <1>5, PieceIsEmpty
  <1>8. f \in Nat /\ f = b + 1 /\ f \in 0..n /\ f <= c
    BY <1>0, <1>4, <1>7
  <1> HIDE DEF f
  <1>9. owed' = Piece(v, f, c) /\ stdout' = Piece(v, a, f)
    <2>1. Head(Piece(v, b, c)) = <<v, f>>
      BY <1>0, <1>7, <1>8, PieceHead
    <2>2. Tail(Piece(v, b, c)) = Piece(v, f, c)
      BY <1>0, <1>7, <1>8, PieceTail
    <2>3. Append(Piece(v, a, b), <<v, f>>) = Piece(v, a, f)
      BY <1>0, <1>5, <1>8, PieceGrows
    <2> QED
      BY <1>1, <1>5, <2>1, <2>2, <2>3
  <1>10. Flow(w, a, f, c, d, e)'
    BY <1>0, <1>1, <1>5, <1>6, <1>8, <1>9 DEF Flow, n
  <1> QED
    BY <1>1, <1>2, <1>4, <1>8, <1>10, FlowAfter DEF n, v

\* No step loses, doubles or reorders a cell between the holder and the process.
LEMMA FlowStep ==
  Typed /\ HolderCalls /\ NothingBeforeSpawn /\ Answerers /\ FlowOfHolder /\ [Next]_vars
    => FlowOfHolder'
  <1> SUFFICES ASSUME Typed, HolderCalls, NothingBeforeSpawn, Answerers, FlowOfHolder,
                      [Next]_vars, child' = "running"
               PROVE  FlowOfHolder'
    BY DEF FlowOfHolder
  <1> USE DEF childVars, workerVars
  <1>1. CASE Spawn
    <2>1. lock' = Nobody /\ Empty'
      BY <1>1 DEF Spawn, NothingBeforeSpawn, Empty
    <2> QED
      BY <2>1, NobodyAssumption DEF FlowOfHolder
  <1>2. ASSUME NEW w \in Workers, Worker(w) PROVE FlowOfHolder'
    <2>1. child = "running"
      BY <1>2 DEF Worker, Acquire, WriteCell, WriteFails, ReadCell, ReadEof, Answered, BadAnswer,
                  Fail
    <2> QED
      BY <1>2, <2>1, FlowWorkerStep
  <1>3. CASE UNCHANGED vars
    <2>1. UNCHANGED <<load, answers, wpc, lock, unsent, resp, stdin, stdout, child, kind, owed>>
      BY <1>3 DEF vars
    <2>2. lock = Nobody => Empty'
      BY <2>1 DEF FlowOfHolder, Empty
    <2>3. ASSUME NEW w \in Workers, lock = w
          PROVE  FlowOfHolder'
      <3>1. PICK a, b, c, d, e \in 0..Size[Asked(w)] : Flow(w, a, b, c, d, e)
        BY <2>1, <2>3, FlowBefore
      <3>2. Flow(w, a, b, c, d, e)'
        BY <2>1, <3>1 DEF Flow, Asked
      <3> QED
        BY <2>1, <2>3, <3>1, <3>2, FlowAfter
    <2> QED
      BY <2>1, <2>2, <2>3, NobodyAssumption DEF FlowOfHolder, Typed
  <1> QED
    BY <1>1, <1>2, <1>3, FlowChildReads, FlowChildWrites
       DEF Next, SpawnFails, DropTransformer, ChildExits, NothingBeforeSpawn

\* What is left in the output pipe when the process dies is the rest of one answer.
LEMMA DeathStep ==
  Typed /\ HolderCalls /\ Answerers /\ FlowOfHolder /\ PrefixAfterDeath /\ [Next]_vars
    => PrefixAfterDeath'
  <1> SUFFICES ASSUME Typed, HolderCalls, Answerers, FlowOfHolder, PrefixAfterDeath, [Next]_vars,
                      child' # "running",
                      NEW w \in Workers, wpc'[w] \in {"read", "parse"}
               PROVE  (\E a, b \in 0..Size[Asked(w)] : /\ a <= b
                                                       /\ resp[w] = Piece(Asked(w), 0, a)
                                                       /\ stdout = Piece(Asked(w), a, b))'
    BY DEF PrefixAfterDeath
  <1> USE DEF childVars, workerVars
  <1>1. ASSUME UNCHANGED <<load, answers, resp, stdout>>, wpc[w] \in {"read", "parse"}
        PROVE  (\E a, b \in 0..Size[Asked(w)] : /\ a <= b
                                                /\ resp[w] = Piece(Asked(w), 0, a)
                                                /\ stdout = Piece(Asked(w), a, b))'
    <2>1. Asked(w)' = Asked(w) /\ resp'[w] = resp[w] /\ stdout' = stdout
      BY <1>1 DEF Asked
    <2>2. CASE child # "running"
      BY <1>1, <2>1, <2>2 DEF PrefixAfterDeath
    <2>3. CASE child = "running"
      <3>1. lock = w
        BY <1>1 DEF HolderCalls, Calls
      <3>2. PICK a, b, c, d, e \in 0..Size[Asked(w)] : Flow(w, a, b, c, d, e)
        BY <2>3, <3>1, FlowBefore
      <3> QED
        BY <2>1, <3>2 DEF Flow
    <2> QED
      BY <2>2, <2>3
  <1>2. CASE ReadCell(w)
    <2> DEFINE v == Asked(w)
               n == Size[v]
    <2>1. /\ child # "running" /\ wpc[w] = "read" /\ stdout # <<>>
          /\ resp'[w] = Append(resp[w], Head(stdout)) /\ stdout' = Tail(stdout)
          /\ load' = load /\ answers' = answers
      BY <1>2 DEF ReadCell, Typed
    <2>2. PICK a \in 0..n, b \in 0..n :
            a <= b /\ resp[w] = Piece(v, 0, a) /\ stdout = Piece(v, a, b)
      BY <2>1 DEF PrefixAfterDeath
    <2>3. n \in Nat
      <3>1. Left(w)
        BY <2>1 DEF HolderCalls, Calls
      <3> QED
        BY <3>1, AskedIsValue, SizeAssumption
    <2>4. Asked(w)' = v
      BY <2>1 DEF Asked
    <2> HIDE DEF v, n
    <2>0. a \in Nat /\ b \in Nat /\ 0 \in Nat /\ 0 <= a
      BY <2>2, <2>3
    <2> DEFINE f == a + 1
    <2>5. a < b
      BY <2>0, <2>1, <2>2, PieceIsEmpty
    <2>6. f \in Nat /\ f = a + 1 /\ f \in 0..n /\ f <= b
      BY <2>0, <2>2, <2>3, <2>5
    <2> HIDE DEF f
    <2>7. Head(Piece(v, a, b)) = <<v, f>>
      BY <2>0, <2>5, <2>6, PieceHead
    <2>8. Tail(Piece(v, a, b)) = Piece(v, f, b)
      BY <2>0, <2>5, <2>6, PieceTail
    <2>9. Append(Piece(v, 0, a), <<v, f>>) = Piece(v, 0, f)
      BY <2>0, <2>6, PieceGrows
    <2>10. resp'[w] = Piece(v, 0, f) /\ stdout' = Piece(v, f, b)
      BY <2>1, <2>2, <2>7, <2>8, <2>9
    <2> QED
      BY <2>2, <2>4, <2>6, <2>10 DEF n
  <1>3. CASE ReadEof(w)
    BY <1>1, <1>3 DEF ReadEof
  <1>4. ASSUME NEW u \in Workers, Worker(u), u # w
        PROVE  FALSE
    <2>1. wpc'[w] = wpc[w]
      BY <1>4 DEF Worker, Acquire, WriteCell, WriteFails, ReadCell, ReadEof, Answered, BadAnswer,
                  Fail, Typed
    <2>2. lock = w
      BY <2>1 DEF HolderCalls, Calls
    <2> QED
      BY <1>4, <2>2, NobodyAssumption
         DEF Worker, Acquire, WriteCell, WriteFails, ReadCell, ReadEof, Answered, BadAnswer,
             HolderCalls, Calls
  <1>5. CASE Worker(w) /\ ~ReadCell(w) /\ ~ReadEof(w)
    <2>1. wpc'[w] \notin {"read", "parse"}
      BY <1>5 DEF Worker, Acquire, WriteCell, WriteFails, Answered, BadAnswer, Fail, Typed
    <2> QED
      BY <2>1
  <1>6. CASE DropTransformer \/ ChildExits \/ Spawn \/ SpawnFails \/ UNCHANGED vars
    BY <1>1, <1>6 DEF DropTransformer, ChildExits, Spawn, SpawnFails, vars
  <1> QED
    BY <1>2, <1>3, <1>4, <1>5, <1>6 DEF Next, ChildReads, ChildWrites

-----------------------------------------------------------------------------
(* What a worker accepts *)

LEMMA PieceIsPrefix ==
  ASSUME NEW v \in DOMAIN Size, NEW a \in 1..Size[v], a # Size[v]
  PROVE  IsStrictPrefix(Piece(v, 0, a), Line(v))
  <1> DEFINE S == {v} \X Nat
             n == Size[v]
             p == Piece(v, 0, a)
             q == Piece(v, 0, n)
  <1>0. n \in Nat /\ a \in Nat /\ 0 \in Nat /\ 0 <= a /\ a < n /\ 0 <= n
    BY SizeAssumption
  <1>1. p \in Seq(S) /\ Len(p) = a /\ \A k \in 1..a : p[k] = <<v, k>>
    BY <1>0 DEF Piece
  <1>2. q \in Seq(S) /\ Len(q) = n /\ \A k \in 1..n : q[k] = <<v, k>>
    <2> HIDE DEF n
    <2> QED
      BY <1>0 DEF Piece
  <1>3. Line(v) = q
    BY LineIsPiece
  <1> HIDE DEF S, n, p, q
  <1>4. \A k \in 1..a : q[k] \in S /\ q[k] = p[k]
    <2> SUFFICES ASSUME NEW k \in 1..a PROVE q[k] \in S /\ q[k] = p[k]
      OBVIOUS
    <2>1. k \in 1..n
      BY <1>0
    <2>2. q[k] \in S
      BY <1>2, <2>1, ElementOfSeq
    <2> QED
      BY <1>1, <1>2, <2>1, <2>2
  <1>5. /\ SubSeq(q, 1, a) \in Seq(S)
        /\ Len(SubSeq(q, 1, a)) = a
        /\ \A k \in 1..a : SubSeq(q, 1, a)[k] = p[k]
    <2>1. /\ SubSeq(q, 1, a) \in Seq(S)
          /\ Len(SubSeq(q, 1, a)) = IF 1 <= a THEN a - 1 + 1 ELSE 0
          /\ \A k \in 1..(a - 1 + 1) : SubSeq(q, 1, a)[k] = q[1 + k - 1]
      BY <1>0, <1>4, SubSeqProperties
    <2>2. a - 1 + 1 = a /\ \A k \in 1..a : 1 + k - 1 = k
      BY <1>0
    <2> QED
      BY <1>0, <1>4, <2>1, <2>2
  <1>6. SubSeq(q, 1, a) = p
    BY <1>1, <1>5, SeqEqual
  <1>7. SubSeq(p, 1, a) = p
    BY <1>1, SubSeqFull
  <1> QED
    BY <1>0, <1>1, <1>2, <1>3, <1>6, <1>7 DEF IsStrictPrefix, IsPrefix, p

\* What parses as an answer is the whole line asked for, or what a dead process
\* left of it: all but the newline, or the beginning of a number.
LEMMA AcceptedIsAnswer ==
  ASSUME Typed, HolderCalls, Answerers, FlowOfHolder, PrefixAfterDeath,
         NEW w \in Workers, wpc[w] = "parse", Parses(resp[w])
  PROVE  \/ resp[w] = Line(Asked(w))
         \/ /\ child # "running" /\ IsStrictPrefix(resp[w], Line(Asked(w)))
            /\ Asked(w) \in Numbers \/ Len(resp[w]) = Size[Asked(w)] - 1
  <1> DEFINE v == Asked(w)
             n == Size[v]
  <1>1. lock = w /\ Left(w)
    BY DEF HolderCalls, Calls
  <1>2. v \in DOMAIN Size /\ n \in Nat \ {0}
    BY <1>1, AskedIsValue, SizeAssumption
  <1>3. Line(v) = Piece(v, 0, n)
    BY <1>2, LineIsPiece
  <1>4. CASE child = "running"
    <2>1. PICK a, b, c, d, e \in 0..n : Flow(w, a, b, c, d, e)
      BY <1>1, <1>4, FlowBefore
    <2> QED
      BY <1>3, <2>1 DEF Flow
  <1>5. CASE child # "running"
    <2>1. PICK a \in 0..n, b \in 0..n :
            a <= b /\ resp[w] = Piece(v, 0, a) /\ stdout = Piece(v, a, b)
      BY <1>5 DEF PrefixAfterDeath
    <2> HIDE DEF v, n
    <2>2. a \in Nat /\ 0 \in Nat /\ 0 <= a /\ a <= n
      BY <1>2, <2>1
    <2>3. a # 0
      BY <2>1, <2>2, PieceIsEmpty DEF Parses
    <2>4. Last(resp[w]) = <<v, a>> /\ Len(resp[w]) = a
      <3>1. Len(Piece(v, 0, a)) = a
        <4>1. Len(Piece(v, 0, a)) = a - 0
          BY <2>2, PieceIsSeq
        <4> QED
          BY <2>2, <4>1
      <3>2. Piece(v, 0, a)[a] = <<v, a>>
        BY <2>2, <2>3 DEF Piece
      <3> QED
        BY <2>1, <3>1, <3>2 DEF Last
    <2>5. CASE a = n
      BY <1>3, <2>1, <2>5 DEF v
    <2>6. CASE a # n
      <3>1. v \in Numbers \/ Len(resp[w]) = Size[v] - 1
        <4>1. a >= n - 1 \/ v \in Numbers
          BY <2>4 DEF Parses, n
        <4>2. a # n => (a >= n - 1 => a = n - 1)
          BY <1>2, <2>2
        <4> QED
          BY <2>4, <2>6, <4>1, <4>2 DEF n
      <3>2. a \in 1..Size[v] /\ a # Size[v]
        BY <1>2, <2>2, <2>3, <2>6 DEF n
      <3>3. IsStrictPrefix(Piece(v, 0, a), Line(v))
        BY <1>2, <3>2, PieceIsPrefix
      <3> QED
        BY <1>5, <2>1, <3>1, <3>3 DEF v
    <2> QED
      BY <2>5, <2>6
  <1> QED
    BY <1>4, <1>5

\* A line taken for an answer is the answer to the value that was sent.
LEMMA AnswersStep == IInv /\ [Next]_vars => AnswersBelong'
  <1> SUFFICES ASSUME IInv, [Next]_vars, kind' \in {"lines", "streams"},
                      NEW w \in Workers, NEW i \in DOMAIN answers'[w]
               PROVE  LET v == load'[w][i]
                      IN  \/ answers'[w][i] = Line(v)
                          \/ /\ child' # "running" /\ IsStrictPrefix(answers'[w][i], Line(v))
                             /\ v \in Numbers \/ Len(answers'[w][i]) = Size[v] - 1
    BY DEF AnswersBelong
  <1> USE DEF childVars, workerVars
  <1>1. kind' = kind /\ load' = load /\ Answerers
    BY DEF Next, Worker, Acquire, WriteCell, WriteFails, ReadCell, ReadEof, Answered, BadAnswer,
           Fail, Spawn, SpawnFails, DropTransformer, ChildReads, ChildWrites, ChildExits, vars,
           Answerers
  <1>2. child # "running" /\ main # "compile" => child' # "running"
    BY DEF Next, Worker, Acquire, WriteCell, WriteFails, ReadCell, ReadEof, Answered, BadAnswer,
           Fail, Spawn, SpawnFails, DropTransformer, ChildReads, ChildWrites, ChildExits, vars
  <1>3. main = "compile" => answers[w] = <<>>
    BY DEF IInv, NothingBeforeSpawn
  <1>4. CASE i \in DOMAIN answers[w] /\ answers'[w][i] = answers[w][i]
    <2>1. main # "compile"
      <3>1. DOMAIN <<>> = {}
        OBVIOUS
      <3> QED
        BY <1>3, <1>4, <3>1
    <2>2. LET v == load[w][i]
          IN  \/ answers[w][i] = Line(v)
              \/ /\ child # "running" /\ IsStrictPrefix(answers[w][i], Line(v))
                 /\ v \in Numbers \/ Len(answers[w][i]) = Size[v] - 1
      BY <1>1, <1>4 DEF IInv, AnswersBelong, Answerers
    <2> QED
      BY <1>1, <1>2, <1>4, <2>1, <2>2
  <1>5. CASE Answered(w)
    <2> DEFINE old == answers[w]
               new == resp[w]
    <2>1. answers'[w] = Append(old, new) /\ child' = child
      BY <1>5 DEF Answered, IInv, Typed
    <2>2. old \in Seq(Seq(Cells)) /\ new \in Seq(Cells)
      BY DEF IInv, Typed
    <2>3. \/ new = Line(Asked(w))
          \/ /\ child # "running" /\ IsStrictPrefix(new, Line(Asked(w)))
             /\ Asked(w) \in Numbers \/ Len(new) = Size[Asked(w)] - 1
      BY <1>1, <1>5, AcceptedIsAnswer DEF IInv, Answered
    <2>4. Asked(w) = load[w][Len(old) + 1]
      BY DEF Asked
    <2> HIDE DEF old, new
    <2>5. /\ Append(old, new) \in Seq(Seq(Cells)) /\ Len(old) \in Nat
          /\ Len(Append(old, new)) = Len(old) + 1
          /\ \A k \in 1..Len(old) : Append(old, new)[k] = old[k]
          /\ Append(old, new)[Len(old) + 1] = new
      BY <2>2, AppendProperties, LenProperties
    <2>6. i \in 1..(Len(old) + 1) /\ DOMAIN old = 1..Len(old)
      <3>1. DOMAIN Append(old, new) = 1..Len(Append(old, new)) /\ DOMAIN old = 1..Len(old)
        BY <2>2, <2>5, LenProperties
      <3> QED
        BY <2>1, <2>5, <3>1
    <2>7. CASE i = Len(old) + 1
      BY <1>1, <2>1, <2>3, <2>4, <2>5, <2>7
    <2>8. CASE i \in 1..Len(old)
      <3>1. i \in DOMAIN answers[w] /\ answers'[w][i] = answers[w][i]
        BY <2>1, <2>5, <2>6, <2>8 DEF old
      <3> QED
        BY <1>4, <3>1
    <2> QED
      BY <2>5, <2>6, <2>7, <2>8
  <1>6. CASE answers'[w] = answers[w]
    BY <1>4, <1>6
  <1>7. (\E u \in Workers : Answered(u) /\ u # w) \/ Answered(w) \/ answers' = answers
    BY DEF Next, Worker, Acquire, WriteCell, WriteFails, ReadCell, ReadEof, BadAnswer,
           Fail, Spawn, SpawnFails, DropTransformer, ChildReads, ChildWrites, ChildExits, vars
  <1>8. ASSUME NEW u \in Workers, Answered(u), u # w PROVE answers'[w] = answers[w]
    BY <1>8 DEF Answered, IInv, Typed
  <1> QED
    BY <1>5, <1>6, <1>7, <1>8

-----------------------------------------------------------------------------

\* The inductive invariant holds in every reachable state.
THEOREM Invariance == Spec => []IInv
  <1>1. IInv /\ [Next]_vars => IInv'
    <2> SUFFICES ASSUME IInv, [Next]_vars PROVE IInv'
      OBVIOUS
    <2>1. Typed' /\ HolderCalls'
      BY TypedStep, HolderStep DEF IInv
    <2>2. NothingBeforeSpawn'
      BY BeforeSpawnStep DEF IInv
    <2>3. Answerers' => Answerers
      BY DEF Answerers, Next, Worker, Acquire, WriteCell, WriteFails, ReadCell, ReadEof, Answered,
             BadAnswer, Fail, Spawn, SpawnFails, DropTransformer, ChildReads, ChildWrites,
             ChildExits, vars, childVars
    <2>4. Answerers' => FlowOfHolder' /\ PrefixAfterDeath'
      BY <2>3, FlowStep, DeathStep DEF IInv
    <2>5. AnswersBelong'
      BY AnswersStep
    <2> QED
      BY <2>1, <2>2, <2>4, <2>5 DEF IInv
  <1> QED
    BY <1>1, InitIInv, PTL DEF Spec

\* Every value gets its own answer, from any process that answers each line with
\* one line, whichever workers call it and wherever it dies (at its death, what
\* AnswersBelong says of it).
THEOREM AnswersAreOwn == Spec => []AnswersBelong
  <1>1. IInv => AnswersBelong
    BY DEF IInv
  <1> QED
    BY <1>1, Invariance, PTL
=============================================================================
