------------------------- MODULE SubsetClosureProofs -------------------------
(***************************************************************************)
(* Proofs about SubsetClosure, for any database, reference graph,          *)
(* conditions and writes made meanwhile.                                   *)
(*                                                                         *)
(* The invariant is that of a graph search, for the documents nobody has   *)
(* written: of a visited one, every reference leads to a visited one, but  *)
(* for those it still has on the stack or in hand; and as long as nothing  *)
(* was written, every visited one is in every set closed under references. *)
(***************************************************************************)
EXTENDS SubsetClosure, FiniteSetTheorems, SequenceTheorems, TLAPS

Readings == [Fields -> Values \cup {Missing, Null}]
Entries  == Docs \X Readings

\* The stack holds documents as they were read.
Stacked ==
  /\ DOMAIN db = Docs
  /\ graph \in Seq(Edges)
  /\ work \in Seq(Entries)
  /\ \A i \in DOMAIN work : work[i][1] \notin touched => work[i] = Read(work[i][1])
  /\ left # {} =>
       /\ holder \in Entries
       /\ left \subseteq EdgesFrom(holder[1][1])
       /\ holder[1] \notin touched => holder = Read(holder[1])

Present == \A d \in visited \ touched : db[d] # Absent

\* Nothing to be done about an edge of a visited document, or something left to
\* be done.
Settled(d, i) ==
  \/ Read(d) \in ToSet(work)
  \/ i \in left /\ holder = Read(d)
  \/ ReferredTo(graph[i], d, db[d]) \ touched \subseteq visited

Followed == \A d \in visited \ touched : \A i \in EdgesFrom(d[1]) : Settled(d, i)

Seeded ==
  /\ \A c \in DOMAIN conds \ pending : Matching(c) \ touched \subseteq visited
  /\ pc = "walk" => pending = {}

\* The documents the walk takes one to refer to.
Followable(d) ==
  {t \in Existing : \E i \in EdgesFrom(d[1]) : t \in ReferredTo(graph[i], d, db[d])}

Closed(S) ==
  /\ \A d \in Existing : d[1] \in DOMAIN conds /\ d[2] \in conds[d[1]] => d \in S
  /\ \A d \in S : Followable(d) \subseteq S

Minimal == touched = {} => \A S \in SUBSET Existing : Closed(S) => visited \subseteq S

\* The filters select what was visited.
Filtered ==
  /\ pc \in {"dump", "done"} /\ Referential =>
       /\ work = <<>> /\ left = {} /\ pending = {}
       /\ filters = [c \in Governed |-> IdsOf(c)]
  /\ pc \in {"start", "seed", "walk"} => todo = Collections /\ dumped = {}
  /\ pc = "done" => todo = {}

Selected(d) == d[1] \in Governed => d \in visited

Dumped ==
  Referential =>
    /\ \A d \in dumped : d[1] \notin todo /\ Selected(d) /\ (d \notin touched => db[d] # Absent)
    /\ \A d \in Docs \ touched : d[1] \notin todo /\ db[d] # Absent /\ Selected(d) => d \in dumped

IInv ==
  /\ TypeOK
  /\ Stacked
  /\ AdmittedOnce
  /\ Present
  /\ Followed
  /\ Seeded
  /\ Minimal
  /\ Filtered
  /\ Dumped

-----------------------------------------------------------------------------

USE DocsAssumption, BodiesAssumption, MissingAssumption, AbsentAssumption, ChangesAssumption

\* A sequence of the elements of a finite set, each once.
LEMMA Enumeration ==
  ASSUME NEW S, IsFiniteSet(S), NEW s \in SetToSeqs(S)
  PROVE  s \in Seq(S) /\ IsInjective(s) /\ ToSet(s) = S
  <1> DEFINE n == Cardinality(S)
  <1>1. n \in Nat
    BY FS_CardinalityType
  <1>2. s \in [1..n -> S] /\ \A i, j \in 1..n : i # j => s[i] # s[j]
    BY DEF SetToSeqs
  <1>3. s \in Injection(1..n, S)
    BY <1>2 DEF Injection, IsInjective
  <1>4. Cardinality(1..n) = n
    BY <1>1, FS_Interval
  <1>5. s \in Surjection(1..n, S)
    BY <1>3, <1>4, FS_Injection
  <1> HIDE DEF n
  <1>6. ToSet(s) = S
    BY <1>2, <1>5 DEF Surjection, ToSet
  <1>7. s \in Seq(S)
    BY <1>1, <1>2
  <1> QED
    BY <1>2, <1>6, <1>7 DEF IsInjective

\* The graph of a run is a sequence of edges.
LEMMA GraphTyped ==
  ASSUME TypeOK
  PROVE  graph \in Seq(Edges)
  BY DeclarationsAssumption DEF TypeOK

\* The edges from a collection are edges of the graph, and mention it.
LEMMA EdgeTyped ==
  ASSUME graph \in Seq(Edges), NEW c, NEW i \in EdgesFrom(c)
  PROVE  /\ i \in DOMAIN graph /\ i \in Nat /\ graph[i] \in Edges /\ graph[i].from = c
         /\ graph[i] \in ToSet(graph) /\ c \in Mentioned
  BY DEF EdgesFrom, ToSet, Mentioned

\* What a query reads of a document is an entry for it.
LEMMA ReadTyped ==
  ASSUME TypeOK, DOMAIN db = Docs, NEW d \in Docs, db[d] # Absent
  PROVE  Read(d) \in Entries /\ Read(d)[1] = d
  <1>1. db[d] \in Readings
    BY DEF TypeOK, Readings
  <1>2. [f \in Fields |-> IF f \in Projection(d[1]) THEN db[d][f] ELSE Missing] \in Readings
    BY <1>1 DEF Readings
  <1> QED
    BY <1>1, <1>2 DEF Read, Entries

\* What the walk reads of a document tells where an edge leads.
LEMMA ReadsSuffice ==
  ASSUME graph \in Seq(Edges), NEW d \in Docs, NEW i \in EdgesFrom(d[1])
  PROVE  ReferredTo(graph[i], d, Read(d)[2]) = ReferredTo(graph[i], d, db[d])
  <1> DEFINE edge == graph[i]
             body == Read(d)[2]
  <1>1. edge \in Edges /\ d[1] \in Mentioned
    BY EdgeTyped
  <1>2. body = [f \in Fields |-> IF f \in Projection(d[1]) THEN db[d][f] ELSE Missing]
    BY <1>1 DEF Read
  <1>3. ASSUME NEW f \in Names, f \in Projection(d[1])
        PROVE  ValueOf(d, body, f) = ValueOf(d, db[d], f)
    BY <1>2, <1>3 DEF ValueOf, Names
  <1>4. ValueOf(d, body, edge.field) = ValueOf(d, db[d], edge.field)
    <2>1. edge.field \in Names
      BY <1>1 DEF Edges
    <2>2. edge.field \in Projection(d[1])
      BY DEF Projection
    <2> QED
      BY <1>3, <2>1, <2>2
  <1>5. \A j \in DOMAIN edge.cases :
          ValueOf(d, body, edge.cases[j].field) = ValueOf(d, db[d], edge.cases[j].field)
    <2> SUFFICES ASSUME NEW j \in DOMAIN edge.cases
                 PROVE  ValueOf(d, body, edge.cases[j].field) = ValueOf(d, db[d], edge.cases[j].field)
      OBVIOUS
    <2>1. edge.cases[j] \in Cases /\ edge.cases[j] \in ToSet(edge.cases)
      BY <1>1 DEF Edges, ToSet
    <2>2. edge.cases[j].field \in Names
      BY <2>1 DEF Cases
    <2>3. edge.cases[j].field \in Projection(d[1])
      BY <2>1 DEF Projection
    <2> QED
      BY <1>3, <2>2, <2>3
  <1> HIDE DEF edge, body
  <1>6. Hits(edge, d, body) = Hits(edge, d, db[d])
    BY <1>5 DEF Hits
  <1>7. Resolved(edge, d, body) = Resolved(edge, d, db[d])
    BY <1>6 DEF Resolved
  <1>8. ReferredTo(edge, d, body) = ReferredTo(edge, d, db[d])
    BY <1>4, <1>7 DEF ReferredTo
  <1> QED
    BY <1>8 DEF edge, body

\* Where the cases that hold for a document are legible, the first one that
\* matches is the one that holds where no earlier one does.
LEMMA ResolvedIsSelected ==
  ASSUME NEW edge \in Edges, edge \in ToSet(graph), NEW d, edge.from = d[1], Legible(d), NEW c
  PROVE  c \in Resolved(edge, d, db[d]) <=> Selects(edge, d, c)
  <1> DEFINE matches(j) == CaseHolds(edge.cases[j], d)
  <1>1. DOMAIN edge.cases \subseteq Nat /\ \A j \in DOMAIN edge.cases : 1..j \subseteq DOMAIN edge.cases
    BY DEF Edges
  <1>2. CASE edge.cases = <<>>
    BY <1>2 DEF Resolved, Selects
  <1>3. CASE edge.cases # <<>>
    <2>0. Hits(edge, d, db[d]) = {j \in DOMAIN edge.cases : matches(j)}
      BY DEF Hits, Legible, CaseHolds, SameValue
    <2>1. c \in Resolved(edge, d, db[d]) <=>
            \E i \in DOMAIN edge.cases :
              c = edge.cases[i].to /\ matches(i)
              /\ \A k \in DOMAIN edge.cases : matches(k) => i <= k
      <3> HIDE DEF matches
      <3> QED
        BY <1>3, <2>0 DEF Resolved
    <2>2. Selects(edge, d, c) <=>
            \E i \in DOMAIN edge.cases :
              c = edge.cases[i].to /\ \A j \in 1..i : matches(j) <=> j = i
      BY <1>3 DEF Selects
    <2> HIDE DEF matches
    <2>3. ASSUME NEW i \in DOMAIN edge.cases
          PROVE  matches(i) /\ (\A k \in DOMAIN edge.cases : matches(k) => i <= k)
                   <=> \A j \in 1..i : matches(j) <=> j = i
      <3>1. i \in Nat /\ 1 <= i /\ \A k \in DOMAIN edge.cases : k \in Nat /\ 1 <= k
        BY DEF Edges
      <3>2. 1..i \subseteq DOMAIN edge.cases
        BY <1>1
      <3> QED
        BY <3>1, <3>2
    <2> QED
      BY <2>1, <2>2, <2>3
  <1> QED
    BY <1>2, <1>3

\* What the walk takes a document to refer to is what its edges, taken one by
\* one, lead to.
LEMMA FollowableByEdge ==
  ASSUME NEW d, NEW t
  PROVE  t \in Followable(d) <=> \E i \in EdgesFrom(d[1]) : t \in ReferredTo(graph[i], d, db[d])
  <1>1. ASSUME NEW i \in EdgesFrom(d[1]), t \in ReferredTo(graph[i], d, db[d])
        PROVE  t \in Existing
    BY <1>1 DEF ReferredTo, Finds, Existing
  <1> QED
    BY <1>1 DEF Followable

\* A document whose discriminators are legible refers to what the walk takes it
\* to refer to.
LEMMA LegibleIsFollowed ==
  ASSUME graph \in Seq(Edges), NEW d \in Docs, Legible(d)
  PROVE  References(d) = Followable(d)
  <1>1. ASSUME NEW t \in References(d)
        PROVE  t \in Followable(d)
    <2>1. PICK edge \in ToSet(graph) :
            /\ edge.from = d[1] /\ Selects(edge, d, t[1])
            /\ ValueOf(d, db[d], edge.field) # Missing
            /\ Finds(t, edge.toField, ValueOf(d, db[d], edge.field))
      BY <1>1 DEF References
    <2>2. PICK i \in DOMAIN graph : edge = graph[i]
      BY DEF ToSet
    <2>3. edge \in Edges /\ i \in EdgesFrom(d[1]) /\ t \in Docs
      BY <1>1, <2>1, <2>2 DEF EdgesFrom, References, Existing
    <2>4. t[1] \in Resolved(edge, d, db[d])
      BY <2>1, <2>3, ResolvedIsSelected
    <2>5. t \in ReferredTo(edge, d, db[d])
      BY <2>1, <2>3, <2>4 DEF ReferredTo
    <2> QED
      BY <2>2, <2>3, <2>5, FollowableByEdge
  <1>2. ASSUME NEW t \in Followable(d)
        PROVE  t \in References(d)
    <2>0. PICK i \in EdgesFrom(d[1]) : t \in ReferredTo(graph[i], d, db[d])
      BY FollowableByEdge
    <2> DEFINE edge == graph[i]
    <2>1. edge \in Edges /\ edge.from = d[1] /\ edge \in ToSet(graph)
      BY EdgeTyped
    <2>2. /\ t \in Docs /\ t[1] \in Resolved(edge, d, db[d])
          /\ ValueOf(d, db[d], edge.field) # Missing
          /\ Finds(t, edge.toField, ValueOf(d, db[d], edge.field))
      BY <2>0 DEF ReferredTo
    <2> HIDE DEF edge
    <2>3. Selects(edge, d, t[1])
      BY <2>1, <2>2, ResolvedIsSelected
    <2>4. t \in Existing
      BY <2>2 DEF Existing, Finds
    <2> QED
      BY <2>1, <2>2, <2>3, <2>4 DEF References
  <1> QED
    BY <1>1, <1>2 DEF References, Followable

-----------------------------------------------------------------------------

\* Sets of documents are finite.
LEMMA Finite ==
  ASSUME NEW S, S \subseteq Docs
  PROVE  IsFiniteSet(S)
  BY FS_Subset

\* What admitting an answer does: those not visited before are recorded, once,
\* and put on the stack; nothing is taken from it.
LEMMA AdmitEffect ==
  ASSUME TypeOK, Stacked, AdmittedOnce,
         NEW found, found \subseteq Existing, Admit(found)
  PROVE  /\ visited' = visited \cup found
         /\ included' \in Seq(Docs) /\ AdmittedOnce'
         /\ work' \in Seq(Entries)
         /\ ToSet(work) \subseteq ToSet(work')
         /\ \A d \in found \ visited : Read(d) \in ToSet(work')
         /\ \A i \in DOMAIN work' :
              \/ i \in DOMAIN work /\ work'[i] = work[i]
              \/ \E d \in found \ visited : work'[i] = Read(d)
  <1> DEFINE new == found \ visited
  <1>1. found \subseteq Docs /\ \A d \in found : db[d] # Absent
    BY DEF Existing
  <1>2. new \subseteq Docs /\ IsFiniteSet(new)
    BY <1>1, Finite
  <1>3. PICK docs \in SetToSeqs(new) : Put(docs)
    BY DEF Admit
  <1>4. docs \in Seq(new) /\ IsInjective(docs) /\ ToSet(docs) = new
    BY <1>2, Enumeration
  <1> DEFINE read == [i \in 1..Len(docs) |-> Read(docs[i])]
             n == Len(docs)
  <1>5. visited' = visited \cup found /\ included' = included \o docs /\ work' = work \o read
    BY <1>3 DEF Admit, Put
  <1>6. docs \in Seq(Docs) /\ included \in Seq(Docs) /\ work \in Seq(Entries) /\ DOMAIN db = Docs
    BY <1>2, <1>4 DEF TypeOK, Stacked
  <1>7. n \in Nat /\ DOMAIN docs = 1..n /\ \A i \in 1..n : docs[i] \in new
    BY <1>4
  <1>8. \A i \in 1..n : Read(docs[i]) \in Entries
    BY <1>1, <1>2, <1>6, <1>7, ReadTyped
  <1>9. read \in Seq(Entries) /\ Len(read) = n /\ \A i \in 1..n : read[i] = Read(docs[i])
    BY <1>7, <1>8
  <1>10. included' \in Seq(Docs) /\ AdmittedOnce'
    <2>1. /\ included' \in Seq(Docs)
          /\ Len(included') = Len(included) + n
          /\ \A i \in 1..(Len(included) + n) :
               included'[i] = IF i <= Len(included) THEN included[i] ELSE docs[i - Len(included)]
      BY <1>5, <1>6, ConcatProperties
    <2> DEFINE k == Len(included)
    <2>2. /\ k \in Nat /\ DOMAIN included = 1..k /\ DOMAIN included' = 1..(k + n)
      BY <1>6, <2>1
    <2> HIDE DEF k, n, new
    <2>3. \A i \in 1..k : included[i] \in visited
      BY <2>2 DEF AdmittedOnce, ToSet
    <2>4. \A i \in 1..n : docs[i] \in new /\ docs[i] \notin visited
      BY <1>7 DEF new
    <2>5. \A i, j \in 1..k : included[i] = included[j] => i = j
      BY <2>2 DEF AdmittedOnce, IsInjective
    <2>6. \A i, j \in 1..n : docs[i] = docs[j] => i = j
      BY <1>4, <1>7 DEF IsInjective
    <2>7. \A i \in 1..(k + n) : IF i <= k THEN i \in 1..k /\ included'[i] = included[i]
                                ELSE i - k \in 1..n /\ included'[i] = docs[i - k]
      BY <1>7, <2>1, <2>2 DEF k
    <2>8. IsInjective(included')
      <3> SUFFICES ASSUME NEW i \in 1..(k + n), NEW j \in 1..(k + n), included'[i] = included'[j]
                   PROVE  i = j
        BY <2>2 DEF IsInjective
      <3>1. CASE i <= k /\ j <= k
        BY <2>5, <2>7, <3>1
      <3>2. CASE ~(i <= k) /\ ~(j <= k)
        <4>1. i - k = j - k
          BY <2>6, <2>7, <3>2
        <4> QED
          BY <1>7, <2>2, <4>1
      <3>3. CASE (i <= k /\ ~(j <= k)) \/ (~(i <= k) /\ j <= k)
        BY <2>3, <2>4, <2>7, <3>3
      <3> QED
        BY <3>1, <3>2, <3>3
    <2>9. \A i \in 1..k : i \in 1..(k + n) /\ included'[i] = included[i]
      BY <1>7, <2>2, <2>7
    <2>10. \A i \in 1..n : k + i \in 1..(k + n) /\ included'[k + i] = docs[i]
      <3> SUFFICES ASSUME NEW i \in 1..n
                   PROVE  k + i \in 1..(k + n) /\ included'[k + i] = docs[i]
        OBVIOUS
      <3>1. k + i \in 1..(k + n) /\ ~(k + i <= k) /\ (k + i) - k = i
        BY <1>7, <2>2
      <3> QED
        BY <2>7, <3>1
    <2>11. ToSet(included') = visited'
      <3>1. ASSUME NEW d \in visited' PROVE d \in ToSet(included')
        <4>1. CASE d \in visited
          <5>1. PICK i \in 1..k : d = included[i]
            BY <2>2, <4>1 DEF AdmittedOnce, ToSet
          <5> QED
            BY <2>2, <2>9, <5>1 DEF ToSet
        <4>2. CASE d \in new
          <5>1. PICK i \in 1..n : d = docs[i]
            BY <1>4, <1>7, <4>2 DEF ToSet
          <5> QED
            BY <2>2, <2>10, <5>1 DEF ToSet
        <4> QED
          BY <1>5, <4>1, <4>2 DEF new
      <3>2. ASSUME NEW d \in ToSet(included') PROVE d \in visited'
        <4>1. PICK i \in 1..(k + n) : d = included'[i]
          BY <2>2 DEF ToSet
        <4> QED
          BY <1>5, <2>3, <2>4, <2>7, <4>1 DEF new
      <3> QED
        BY <3>1, <3>2
    <2> QED
      BY <2>1, <2>8, <2>11 DEF AdmittedOnce
  <1>11. /\ work' \in Seq(Entries)
         /\ ToSet(work) \subseteq ToSet(work')
         /\ \A d \in new : Read(d) \in ToSet(work')
         /\ \A i \in DOMAIN work' :
              \/ i \in DOMAIN work /\ work'[i] = work[i]
              \/ \E d \in new : work'[i] = Read(d)
    <2> DEFINE k == Len(work)
    <2> HIDE DEF read
    <2>1. /\ work' \in Seq(Entries)
          /\ Len(work') = k + n
          /\ \A i \in 1..(k + n) : work'[i] = IF i <= k THEN work[i] ELSE read[i - k]
      <3>1. work' = work \o read /\ work \in Seq(Entries) /\ read \in Seq(Entries) /\ Len(read) = n
        BY <1>5, <1>6, <1>9
      <3> HIDE DEF n
      <3> QED
        BY <3>1, ConcatProperties
    <2>2. k \in Nat /\ DOMAIN work = 1..k /\ DOMAIN work' = 1..(k + n)
      BY <1>6, <2>1
    <2> HIDE DEF k, n, new
    <2>3. \A i \in 1..k : i \in 1..(k + n) /\ work'[i] = work[i]
      BY <1>7, <2>1, <2>2
    <2>4. \A i \in 1..n : k + i \in 1..(k + n) /\ work'[k + i] = Read(docs[i])
      <3> SUFFICES ASSUME NEW i \in 1..n
                   PROVE  k + i \in 1..(k + n) /\ work'[k + i] = Read(docs[i])
        OBVIOUS
      <3>1. k + i \in 1..(k + n) /\ ~(k + i <= k) /\ (k + i) - k = i
        BY <1>7, <2>2
      <3> QED
        BY <1>9, <2>1, <3>1
    <2>5. \A i \in 1..(k + n) :
            \/ i \in 1..k /\ work'[i] = work[i]
            \/ i - k \in 1..n /\ work'[i] = Read(docs[i - k])
      BY <1>7, <1>9, <2>1, <2>2
    <2>6. \A d \in new : Read(d) \in ToSet(work')
      <3> SUFFICES ASSUME NEW d \in new PROVE Read(d) \in ToSet(work')
        OBVIOUS
      <3>1. PICK i \in 1..n : d = docs[i]
        BY <1>4, <1>7 DEF ToSet
      <3> QED
        BY <2>2, <2>4, <3>1 DEF ToSet
    <2>7. ToSet(work) \subseteq ToSet(work')
      BY <2>2, <2>3 DEF ToSet
    <2>8. \A i \in DOMAIN work' :
            \/ i \in DOMAIN work /\ work'[i] = work[i]
            \/ \E d \in new : work'[i] = Read(d)
      BY <1>7, <2>2, <2>5
    <2> QED
      BY <2>1, <2>6, <2>7, <2>8
  <1> QED
    BY <1>5, <1>10, <1>11

-----------------------------------------------------------------------------

\* The inductive invariant holds at first.
THEOREM InitIInv == Init => IInv
  <1> SUFFICES ASSUME Init PROVE IInv
    OBVIOUS
  <1> USE DEF Init
  <1>1. TypeOK
    <2>1. \A d \in Docs : db[d] \in Bodies(d[1]) \cup {Absent}
      OBVIOUS
    <2>2. included \in Seq(Docs) /\ DOMAIN filters \subseteq Governed /\ DOMAIN work = {}
      BY DEF Governed
    <2> QED
      BY <2>1, <2>2 DEF TypeOK
  <1>2. Stacked
    <2>1. graph \in Seq(Edges)
      BY <1>1, GraphTyped
    <2>2. work \in Seq(Entries) /\ DOMAIN work = {} /\ DOMAIN db = Docs
      OBVIOUS
    <2> QED
      BY <2>1, <2>2 DEF Stacked
  <1>3. AdmittedOnce
    BY DEF AdmittedOnce, IsInjective, ToSet
  <1>4. Present /\ Followed /\ Seeded /\ Minimal
    BY DEF Present, Followed, Seeded, Minimal
  <1>5. Filtered /\ Dumped
    BY DEF Filtered, Dumped, Collections
  <1> QED
    BY <1>1, <1>2, <1>3, <1>4, <1>5 DEF IInv

\* As long as the database stays the same, so does all that is read from it.
LEMMA SameDatabase ==
  ASSUME UNCHANGED <<graph, conds, db>>
  PROVE  /\ Existing' = Existing /\ Governed' = Governed /\ (Referential' <=> Referential)
         /\ \A c : EdgesFrom(c)' = EdgesFrom(c) /\ Matching(c)' = Matching(c)
         /\ \A d : Read(d)' = Read(d) /\ Followable(d)' = Followable(d)
         /\ \A edge, d, body : ReferredTo(edge, d, body)' = ReferredTo(edge, d, body)
         /\ \A S : Closed(S)' <=> Closed(S)
  <1>1. Existing' = Existing /\ Governed' = Governed /\ (Referential' <=> Referential)
    BY DEF Existing, Governed, Mentioned, Referential
  <1>2. \A c : EdgesFrom(c)' = EdgesFrom(c) /\ Matching(c)' = Matching(c)
    BY DEF EdgesFrom, Matching
  <1>3. \A c : Projection(c)' = Projection(c)
    BY DEF Projection, EdgesFrom
  <1>4. \A d : Read(d)' = Read(d)
    BY <1>3 DEF Read, Mentioned
  <1>5. \A edge, d, body : ReferredTo(edge, d, body)' = ReferredTo(edge, d, body)
    BY DEF ReferredTo, Finds
  <1>6. \A d : Followable(d)' = Followable(d)
    BY <1>1, <1>2, <1>5 DEF Followable
  <1>7. \A S : Closed(S)' <=> Closed(S)
    BY <1>1, <1>6 DEF Closed
  <1> QED
    BY <1>1, <1>2, <1>4, <1>5, <1>6, <1>7

\* Steps that only move the run on.
LEMMA Moves ==
  ASSUME IInv,
         \/ StartFails \/ SelectDatabase \/ SeedEnds \/ ReadFails \/ DumpFails \/ DumpEnds
         \/ PushConditions \/ Terminating \/ UNCHANGED vars
  PROVE  IInv'
  <1> USE DEF configVars, dbVars, walkVars, dumpVars, vars
  <1>0. /\ UNCHANGED <<graph, conds, db, touched, changes, visited, included, work, holder, left>>
        /\ UNCHANGED <<pending, todo, dumped>>
        /\ filters' = filters \/ (filters' = conds /\ pc = "start" /\ ~Referential)
    BY DEF StartFails, SelectDatabase, SeedEnds, ReadFails, DumpFails, DumpEnds, PushConditions, Terminating
  <1>1. TypeOK'
    <2>1. pc' \in {"start", "seed", "walk", "dump", "done", "failed"}
      BY DEF StartFails, SelectDatabase, SeedEnds, ReadFails, DumpFails, DumpEnds, PushConditions,
             Terminating, IInv, TypeOK
    <2>2. DOMAIN filters' \subseteq Governed'
      BY <1>0, SameDatabase DEF Governed, IInv, TypeOK
    <2> QED
      BY <1>0, <2>1, <2>2 DEF IInv, TypeOK
  <1>2. Stacked' /\ AdmittedOnce' /\ Present'
    <2>1. Stacked'
      BY <1>0, SameDatabase DEF IInv, Stacked
    <2> QED
      BY <1>0, <2>1 DEF IInv, AdmittedOnce, Present
  <1>3. Followed'
    BY <1>0, SameDatabase DEF IInv, Followed, Settled
  <1>4. Seeded'
    <2>1. pc' = "walk" => pending' = {}
      BY DEF StartFails, SelectDatabase, SeedEnds, ReadFails, DumpFails, DumpEnds, PushConditions,
             Terminating, IInv, Seeded
    <2> QED
      BY <1>0, <2>1, SameDatabase DEF IInv, Seeded
  <1>5. Minimal'
    BY <1>0, SameDatabase DEF IInv, Minimal
  <1>6. Filtered'
    <2>1. /\ pc' \in {"start", "seed", "walk"} => pc \in {"start", "seed", "walk"}
          /\ pc' = "done" => pc = "done" \/ (pc = "dump" /\ todo = {})
          /\ pc' \in {"dump", "done"} /\ Referential => pc \in {"dump", "done"} /\ filters' = filters
      BY <1>0 DEF StartFails, SelectDatabase, SeedEnds, ReadFails, DumpFails, DumpEnds, PushConditions,
             Terminating
    <2>2. \A c : IdsOf(c)' = IdsOf(c)
      BY <1>0 DEF IdsOf
    <2> QED
      BY <1>0, <2>1, <2>2, SameDatabase DEF IInv, Filtered
  <1>7. Dumped'
    BY <1>0, SameDatabase DEF IInv, Dumped, Selected
  <1> QED
    BY <1>1, <1>2, <1>3, <1>4, <1>5, <1>6, <1>7 DEF IInv

\* Before the dump nothing is dumped, and the filters are not in use.
LEMMA BeforeDump ==
  ASSUME TypeOK', pc' \in {"start", "seed", "walk"}, todo' = Collections, dumped' = {}
  PROVE  Filtered' /\ Dumped'
  <1>1. Filtered'
    BY DEF Filtered
  <1>2. \A d \in Docs : d[1] \in todo'
    BY DEF Collections
  <1> QED
    BY <1>1, <1>2 DEF Dumped

\* Admission: what is found is recorded once and put on the stack, and every
\* reference of a visited document stays settled or is being followed.
LEMMA AdmitKeeps ==
  ASSUME IInv, NEW found, found \subseteq Existing, Admit(found),
         UNCHANGED <<configVars, dbVars, pc, holder, dumpVars>>,
         pc \in {"seed", "walk"}, left' \subseteq left, pending' \subseteq pending
  PROVE  /\ TypeOK' /\ Stacked' /\ AdmittedOnce' /\ Present' /\ Filtered' /\ Dumped'
         /\ \A d \in visited' \ touched : \A i \in EdgesFrom(d[1]) :
              Settled(d, i)' \/ (i \in left \ left' /\ holder = Read(d) /\ d \in visited)
  <1> USE DEF configVars, dbVars, dumpVars
  <1>0. TypeOK /\ Stacked /\ AdmittedOnce /\ Present /\ Followed /\ Filtered
    BY DEF IInv
  <1>1. /\ visited' = visited \cup found
        /\ included' \in Seq(Docs) /\ AdmittedOnce'
        /\ work' \in Seq(Entries)
        /\ ToSet(work) \subseteq ToSet(work')
        /\ \A d \in found \ visited : Read(d) \in ToSet(work')
        /\ \A i \in DOMAIN work' :
             \/ i \in DOMAIN work /\ work'[i] = work[i]
             \/ \E d \in found \ visited : work'[i] = Read(d)
    BY <1>0, AdmitEffect
  <1>2. \A d \in found : d \in Docs /\ db[d] # Absent
    BY DEF Existing
  <1>3. \A d : Read(d)[1] = d
    BY DEF Read
  <1>4. \A i \in DOMAIN work' : work'[i][1] \in visited'
    BY <1>0, <1>1, <1>3 DEF TypeOK
  <1>5. Governed' = Governed
    BY SameDatabase
  <1>6. TypeOK'
    BY <1>0, <1>1, <1>2, <1>4, <1>5 DEF TypeOK
  <1>7. \A d : Read(d)' = Read(d)
    BY SameDatabase
  <1>8. \A i \in DOMAIN work' : work'[i][1] \notin touched => work'[i] = Read(work'[i][1])
    BY <1>0, <1>1, <1>3 DEF Stacked
  <1>9. Stacked'
    <2>1. \A c : EdgesFrom(c)' = EdgesFrom(c)
      BY SameDatabase
    <2> QED
      BY <1>0, <1>1, <1>7, <1>8, <2>1 DEF Stacked
  <1>10. Present'
    BY <1>0, <1>1, <1>2 DEF Present
  <1>11. Filtered' /\ Dumped'
    BY <1>0, <1>6, BeforeDump DEF Filtered
  <1>12. ASSUME NEW d \in visited' \ touched, NEW i \in EdgesFrom(d[1])
         PROVE  Settled(d, i)' \/ (i \in left \ left' /\ holder = Read(d) /\ d \in visited)
    <2>1. ReferredTo(graph[i], d, db[d])' = ReferredTo(graph[i], d, db[d]) /\ Read(d)' = Read(d)
      BY SameDatabase
    <2>2. CASE d \notin visited
      BY <1>1, <2>1, <2>2 DEF Settled
    <2>3. CASE d \in visited
      <3>1. Settled(d, i)
        BY <1>0, <2>3 DEF Followed
      <3> QED
        BY <1>1, <2>1, <2>3, <3>1 DEF Settled
    <2> QED
      BY <2>2, <2>3
  <1> QED
    BY <1>1, <1>6, <1>9, <1>10, <1>11, <1>12

\* Seeding keeps the invariant.
LEMMA SeedKeeps ==
  ASSUME IInv, NEW c \in Collections, Seed(c)
  PROVE  IInv'
  <1> DEFINE found == Matching(c)
  <1>1. /\ pc = "seed" /\ c \in pending /\ pending' = pending \ {c} /\ Admit(found)
        /\ UNCHANGED <<configVars, dbVars, pc, holder, left, dumpVars>>
    BY DEF Seed
  <1>2. found \subseteq Existing /\ c \in DOMAIN conds
    BY <1>1 DEF Matching, Existing, IInv, TypeOK
  <1>3. visited' = visited \cup found
    BY <1>1 DEF Admit
  <1>4. UNCHANGED <<graph, conds, db, touched, changes, filters, todo, dumped>>
    BY <1>1 DEF configVars, dbVars, dumpVars
  <1>5. /\ TypeOK' /\ Stacked' /\ AdmittedOnce' /\ Present' /\ Filtered' /\ Dumped'
        /\ \A d \in visited' \ touched : \A i \in EdgesFrom(d[1]) :
             Settled(d, i)' \/ (i \in left \ left' /\ holder = Read(d) /\ d \in visited)
    <2> HIDE DEF found
    <2> QED
      BY <1>1, <1>2, AdmitKeeps
  <1>6. Followed'
    <2>1. \A d : EdgesFrom(d[1])' = EdgesFrom(d[1])
      BY <1>4, SameDatabase
    <2> QED
      BY <1>1, <1>4, <1>5, <2>1 DEF Followed
  <1>7. Seeded'
    <2>1. \A e : Matching(e)' = Matching(e)
      BY <1>4, SameDatabase
    <2> QED
      BY <1>1, <1>3, <1>4, <2>1 DEF IInv, Seeded
  <1>8. Minimal'
    <2>1. Existing' = Existing /\ \A S : Closed(S)' <=> Closed(S)
      BY <1>4, SameDatabase
    <2>2. ASSUME NEW S, Closed(S)
          PROVE  found \subseteq S
      BY <1>2, <2>2 DEF Closed, Matching, Existing
    <2> QED
      BY <1>3, <1>4, <2>1, <2>2 DEF IInv, Minimal
  <1> QED
    BY <1>5, <1>6, <1>7, <1>8 DEF IInv

\* Following one edge of the document in hand keeps the invariant.
LEMMA FollowKeeps ==
  ASSUME IInv, NEW i, Follow(i)
  PROVE  IInv'
  <1> DEFINE h == holder[1]
             found == ReferredTo(graph[i], holder[1], holder[2])
  <1>1. /\ pc = "walk" /\ i \in left /\ left' = left \ {i} /\ Admit(found)
        /\ UNCHANGED <<configVars, dbVars, pc, pending, holder, dumpVars>>
    BY DEF Follow, NextEdge
  <1>2. found \subseteq Existing
    BY DEF ReferredTo, Finds, Existing
  <1>3. visited' = visited \cup found
    BY <1>1 DEF Admit
  <1>4. UNCHANGED <<graph, conds, db, touched, changes, filters, todo, dumped>>
    BY <1>1 DEF configVars, dbVars, dumpVars
  <1>5. graph \in Seq(Edges) /\ h \in visited /\ h \in Docs /\ i \in EdgesFrom(h[1])
        /\ (h \notin touched => holder = Read(h))
    BY <1>1 DEF IInv, TypeOK, Stacked
  <1>6. h \notin touched => found = ReferredTo(graph[i], h, db[h])
    BY <1>5, ReadsSuffice
  <1>7. /\ TypeOK' /\ Stacked' /\ AdmittedOnce' /\ Present' /\ Filtered' /\ Dumped'
        /\ \A d \in visited' \ touched : \A j \in EdgesFrom(d[1]) :
             Settled(d, j)' \/ (j \in left \ left' /\ holder = Read(d) /\ d \in visited)
    <2> HIDE DEF found, h
    <2> QED
      BY <1>1, <1>2, AdmitKeeps
  <1>8. Followed'
    <2>1. \A d : EdgesFrom(d[1])' = EdgesFrom(d[1])
      BY <1>4, SameDatabase
    <2>2. ASSUME NEW d \in visited' \ touched, NEW j \in EdgesFrom(d[1])
          PROVE  Settled(d, j)'
      <3>1. CASE j \in left \ left' /\ holder = Read(d)
        <4>1. j = i /\ h = d
          BY <1>1, <3>1 DEF Read
        <4>2. ReferredTo(graph[j], d, db[d]) \subseteq visited'
          BY <1>3, <1>6, <4>1
        <4>3. ReferredTo(graph[j], d, db[d])' = ReferredTo(graph[j], d, db[d])
          BY <1>4, SameDatabase
        <4> QED
          BY <4>2, <4>3 DEF Settled
      <3> QED
        BY <1>7, <3>1
    <2> QED
      BY <1>4, <2>1, <2>2 DEF Followed
  <1>9. Seeded'
    <2>1. \A e : Matching(e)' = Matching(e)
      BY <1>4, SameDatabase
    <2> QED
      BY <1>1, <1>3, <1>4, <2>1 DEF IInv, Seeded
  <1>10. Minimal'
    <2>1. Existing' = Existing /\ \A S : Closed(S)' <=> Closed(S)
      BY <1>4, SameDatabase
    <2>2. ASSUME touched = {}, NEW S \in SUBSET Existing, Closed(S)
          PROVE  found \subseteq S
      <3>1. h \in S
        BY <1>5, <2>2 DEF IInv, Minimal
      <3>2. found = ReferredTo(graph[i], h, db[h])
        BY <1>6, <2>2
      <3>3. found \subseteq Followable(h)
        BY <1>5, <3>2, FollowableByEdge
      <3> QED
        BY <2>2, <3>1, <3>3 DEF Closed
    <2> QED
      BY <1>3, <1>4, <2>1, <2>2 DEF IInv, Minimal
  <1> QED
    BY <1>7, <1>8, <1>9, <1>10 DEF IInv

\* Taking the next document from the stack keeps the invariant.
LEMMA PopKeeps ==
  ASSUME IInv, Pop
  PROVE  IInv'
  <1> USE DEF configVars, dbVars, dumpVars
  <1> DEFINE n == Len(work)
  <1>0. /\ pc = "walk" /\ left = {} /\ work # <<>>
        /\ holder' = Last(work) /\ work' = Front(work) /\ left' = EdgesFrom(Last(work)[1][1])
        /\ UNCHANGED <<graph, conds, db, touched, changes, pc, pending, visited, included>>
        /\ UNCHANGED <<filters, todo, dumped>>
    BY DEF Pop
  <1>1. /\ n \in Nat /\ n >= 1 /\ DOMAIN work = 1..n /\ \A i \in 1..n : work[i] \in Entries
        /\ work \in Seq(Entries)
    BY <1>0 DEF IInv, Stacked
  <1>2. holder' = work[n] /\ work[n] \in Entries
    BY <1>0, <1>1 DEF Last
  <1>3. /\ work' \in Seq(Entries) /\ DOMAIN work' = 1..(n - 1)
        /\ \A i \in 1..(n - 1) : work'[i] = work[i]
    <2>1. work' = SubSeq(work, 1, n - 1)
      BY <1>0 DEF Front
    <2> HIDE DEF n
    <2>2. \A i \in 1..(n - 1) : work[i] \in Entries
      BY <1>1
    <2>3. work' \in Seq(Entries) /\ Len(work') = n - 1
      BY <1>1, <2>1, <2>2
    <2>4. \A i \in 1..(n - 1) : work'[i] = work[i]
      BY <1>1, <2>1
    <2> QED
      BY <2>3, <2>4
  <1> HIDE DEF n
  <1>4. TypeOK'
    <2>1. \A i \in DOMAIN work' : work'[i][1] \in visited
      BY <1>1, <1>3 DEF IInv, TypeOK
    <2>2. holder'[1] \in visited
      BY <1>1, <1>2 DEF IInv, TypeOK
    <2>3. left' \in SUBSET DOMAIN graph
      BY <1>0 DEF EdgesFrom
    <2>4. Governed' = Governed
      BY <1>0, SameDatabase
    <2> QED
      BY <1>0, <2>1, <2>2, <2>3, <2>4 DEF IInv, TypeOK
  <1>5. (\A d : Read(d)' = Read(d)) /\ (\A c : EdgesFrom(c)' = EdgesFrom(c))
    BY <1>0, SameDatabase
  <1>6. Stacked'
    <2>1. \A i \in DOMAIN work' : work'[i][1] \notin touched => work'[i] = Read(work'[i][1])
      BY <1>1, <1>3 DEF IInv, Stacked
    <2>2. holder'[1] \notin touched => holder' = Read(holder'[1])
      BY <1>1, <1>2 DEF IInv, Stacked
    <2>3. left' = EdgesFrom(holder'[1][1])
      BY <1>0
    <2> QED
      BY <1>0, <1>2, <1>3, <1>5, <2>1, <2>2, <2>3 DEF IInv, Stacked
  <1>7. Followed'
    <2>1. ASSUME NEW d \in visited \ touched, NEW i \in EdgesFrom(d[1])
          PROVE  Settled(d, i)'
      <3>1. Settled(d, i)
        BY DEF IInv, Followed
      <3>2. CASE Read(d) \in ToSet(work)
        <4>1. PICK k \in 1..n : work[k] = Read(d)
          BY <1>1, <3>2 DEF ToSet
        <4>2. CASE k = n
          <5>1. holder' = Read(d) /\ i \in left'
            BY <1>0, <1>2, <4>1, <4>2 DEF Read
          <5> QED
            BY <1>5, <5>1 DEF Settled
        <4>3. CASE k # n
          <5>1. k \in 1..(n - 1)
            BY <1>1, <4>3
          <5>2. Read(d) \in ToSet(work')
            BY <1>3, <4>1, <5>1 DEF ToSet
          <5> QED
            BY <1>5, <5>2 DEF Settled
        <4> QED
          BY <4>2, <4>3
      <3>3. CASE ReferredTo(graph[i], d, db[d]) \ touched \subseteq visited
        <4>1. ReferredTo(graph[i], d, db[d])' = ReferredTo(graph[i], d, db[d])
          BY <1>0, SameDatabase
        <4> QED
          BY <1>0, <3>3, <4>1 DEF Settled
      <3> QED
        BY <1>0, <3>1, <3>2, <3>3 DEF Settled
    <2> QED
      BY <1>0, <1>5, <2>1 DEF Followed
  <1>8. AdmittedOnce' /\ Present' /\ Seeded' /\ Minimal'
    <2>1. Existing' = Existing /\ (\A S : Closed(S)' <=> Closed(S)) /\ \A e : Matching(e)' = Matching(e)
      BY <1>0, SameDatabase
    <2>2. Minimal'
      BY <1>0, <2>1 DEF IInv, Minimal
    <2> QED
      BY <1>0, <2>1, <2>2 DEF IInv, AdmittedOnce, Present, Seeded
  <1>9. Filtered' /\ Dumped'
    BY <1>0, <1>4, BeforeDump DEF IInv, Filtered
  <1> QED
    BY <1>4, <1>6, <1>7, <1>8, <1>9 DEF IInv

\* A write of another client keeps the invariant: the document is touched.
LEMMA ChangeKeeps ==
  ASSUME IInv, NEW x \in Docs, Change(x)
  PROVE  IInv'
  <1> USE DEF configVars, walkVars, dumpVars
  <1>0. /\ pc \notin {"done", "failed"} /\ changes < MaxChanges /\ changes' = changes + 1
        /\ touched' = touched \cup {x}
        /\ UNCHANGED <<graph, conds, pc, pending, visited, included, work, holder, left>>
        /\ UNCHANGED <<filters, todo, dumped>>
    BY DEF Change
  <1>1. PICK body \in Bodies(x[1]) \cup {Absent} : db' = [db EXCEPT ![x] = body]
    BY DEF Change
  <1>2. DOMAIN db = Docs /\ TypeOK
    BY DEF IInv, Stacked
  <1>3. DOMAIN db' = Docs /\ db'[x] = body /\ \A d \in Docs : d # x => db'[d] = db[d]
    BY <1>1, <1>2
  <1>4. TypeOK'
    <2>1. \A d \in Docs : db'[d] \in Bodies(d[1]) \cup {Absent}
      BY <1>1, <1>2, <1>3 DEF TypeOK
    <2>2. Governed' = Governed
      BY <1>0 DEF Governed, Mentioned
    <2>3. changes' \in 0..MaxChanges /\ touched' \in SUBSET Docs
      BY <1>0, <1>2 DEF TypeOK
    <2> QED
      BY <1>0, <1>2, <2>1, <2>2, <2>3 DEF TypeOK
  <1>5. \A d \in Docs \ {x} : Read(d)' = Read(d)
    <2>1. \A c : Projection(c)' = Projection(c)
      BY <1>0 DEF Projection, EdgesFrom
    <2> QED
      BY <1>0, <1>3, <2>1 DEF Read, Mentioned
  <1>6. \A c : EdgesFrom(c)' = EdgesFrom(c)
    BY <1>0 DEF EdgesFrom
  <1>7. Stacked'
    <2>1. \A i \in DOMAIN work : work[i][1] \in Docs
      BY <1>2 DEF TypeOK
    <2>2. \A i \in DOMAIN work : work[i][1] \notin touched' => work[i] = Read(work[i][1])'
      BY <1>0, <1>5, <2>1 DEF IInv, Stacked
    <2>3. left # {} => holder[1] \in Docs
      BY <1>2 DEF TypeOK
    <2>4. left # {} /\ holder[1] \notin touched' => holder = Read(holder[1])'
      BY <1>0, <1>5, <2>3 DEF IInv, Stacked
    <2> QED
      BY <1>0, <1>3, <1>6, <2>2, <2>4 DEF IInv, Stacked
  <1>8. AdmittedOnce' /\ Present'
    <2>1. visited \subseteq Docs
      BY <1>2 DEF TypeOK
    <2> QED
      BY <1>0, <1>3, <2>1 DEF IInv, AdmittedOnce, Present
  <1>9. Followed'
    <2>1. ASSUME NEW d \in visited \ touched', NEW i \in EdgesFrom(d[1])
          PROVE  Settled(d, i)'
      <3>1. d \in Docs /\ d # x /\ Settled(d, i)
        BY <1>0, <1>2 DEF IInv, TypeOK, Followed
      <3>2. Read(d)' = Read(d) /\ db'[d] = db[d]
        BY <1>3, <1>5, <3>1
      <3>3. ReferredTo(graph[i], d, db[d])' \ touched' \subseteq ReferredTo(graph[i], d, db[d]) \ touched
        BY <1>0, <1>3, <3>2 DEF ReferredTo, Finds
      <3> QED
        BY <1>0, <3>1, <3>2, <3>3 DEF Settled
    <2> QED
      BY <1>0, <1>6, <2>1 DEF Followed
  <1>10. Seeded'
    <2>1. \A c : Matching(c)' \ touched' \subseteq Matching(c) \ touched
      BY <1>0, <1>3 DEF Matching
    <2> QED
      BY <1>0, <2>1 DEF IInv, Seeded
  <1>11. Minimal'
    BY <1>0 DEF Minimal
  <1>12. Filtered'
    <2>1. Governed' = Governed /\ (Referential' <=> Referential) /\ \A c : IdsOf(c)' = IdsOf(c)
      BY <1>0 DEF Governed, Mentioned, Referential, IdsOf
    <2> QED
      BY <1>0, <2>1 DEF IInv, Filtered
  <1>13. Dumped'
    <2>1. Governed' = Governed /\ (Referential' <=> Referential)
      BY <1>0 DEF Governed, Mentioned, Referential
    <2>2. dumped \subseteq Docs
      BY <1>2 DEF TypeOK
    <2>3. \A d : Selected(d)' <=> Selected(d)
      BY <1>0, <2>1 DEF Selected
    <2> QED
      BY <1>0, <1>3, <2>1, <2>2, <2>3 DEF IInv, Dumped
  <1> QED
    BY <1>4, <1>7, <1>8, <1>9, <1>10, <1>11, <1>12, <1>13 DEF IInv

\* The end of the walk and the filters built from it keep the invariant.
LEMMA WalkEndsKeeps ==
  ASSUME IInv, WalkEnds
  PROVE  IInv'
  <1> USE DEF configVars, dbVars, walkVars
  <1>0. /\ pc = "walk" /\ left = {} /\ work = <<>> /\ pc' = "dump"
        /\ filters' = [c \in Governed |-> IdsOf(c)]
        /\ UNCHANGED <<graph, conds, db, touched, changes, pending, visited, included, work, holder, left>>
        /\ UNCHANGED <<todo, dumped>>
    BY DEF WalkEnds
  <1>1. Governed' = Governed /\ \A c : IdsOf(c)' = IdsOf(c)
    BY <1>0, SameDatabase DEF IdsOf
  <1>2. TypeOK'
    BY <1>0, <1>1 DEF IInv, TypeOK
  <1>3. Stacked' /\ AdmittedOnce' /\ Present'
    <2>1. Stacked'
      BY <1>0, SameDatabase DEF IInv, Stacked
    <2> QED
      BY <1>0, <2>1 DEF IInv, AdmittedOnce, Present
  <1>4. Followed'
    BY <1>0, SameDatabase DEF IInv, Followed, Settled
  <1>5. Seeded'
    BY <1>0, SameDatabase DEF IInv, Seeded
  <1>6. Minimal'
    BY <1>0, SameDatabase DEF IInv, Minimal
  <1>7. Filtered'
    BY <1>0, <1>1 DEF IInv, Filtered, Seeded
  <1>8. Dumped'
    <2>1. \A d \in Docs : d[1] \in todo'
      BY <1>0 DEF IInv, Filtered, Collections
    <2> QED
      BY <1>0, <2>1 DEF IInv, Filtered, Dumped
  <1> QED
    BY <1>2, <1>3, <1>4, <1>5, <1>6, <1>7, <1>8 DEF IInv

\* The ids of a collection say which of its documents were visited.
LEMMA IdsSayWhich ==
  ASSUME TypeOK, AdmittedOnce, NEW d \in Docs
  PROVE  d[2] \in IdsOf(d[1]) <=> d \in visited
  <1>1. visited \subseteq Docs /\ ToSet(included) = visited
    BY DEF TypeOK, AdmittedOnce
  <1>2. \A e \in Docs : e[1] = d[1] /\ e[2] = d[2] => e = d
    OBVIOUS
  <1> QED
    BY <1>1, <1>2 DEF IdsOf

\* Dumping a collection through its filter keeps the invariant.
LEMMA DumpKeeps ==
  ASSUME IInv, NEW c \in Collections, DumpCollection(c)
  PROVE  IInv'
  <1> USE DEF configVars, dbVars, walkVars
  <1> DEFINE now == {d \in Docs : /\ d[1] = c /\ db[d] # Absent
                                  /\ c \in DOMAIN filters => d[2] \in filters[c]}
  <1>0. /\ pc = "dump" /\ pc' = pc /\ c \in todo /\ todo' = todo \ {c} /\ dumped' = dumped \cup now
        /\ UNCHANGED <<graph, conds, db, touched, changes, pending, visited, included, work, holder, left>>
        /\ UNCHANGED filters
    BY DEF DumpCollection
  <1>1. Governed' = Governed /\ (Referential' <=> Referential) /\ \A e : IdsOf(e)' = IdsOf(e)
    BY <1>0, SameDatabase DEF IdsOf
  <1>2. Referential => now = {d \in Docs : d[1] = c /\ db[d] # Absent /\ Selected(d)}
    <2> SUFFICES ASSUME Referential
                 PROVE  now = {d \in Docs : d[1] = c /\ db[d] # Absent /\ Selected(d)}
      OBVIOUS
    <2>1. filters = [e \in Governed |-> IdsOf(e)]
      BY <1>0 DEF IInv, Filtered
    <2>2. \A d \in Docs : d[2] \in IdsOf(d[1]) <=> d \in visited
      BY IdsSayWhich DEF IInv
    <2>3. \A d \in Docs : d[1] = c => ((c \in DOMAIN filters => d[2] \in filters[c]) <=> Selected(d))
      BY <2>1, <2>2 DEF Selected
    <2> QED
      BY <2>3
  <1>3. now \subseteq Docs
    OBVIOUS
  <1> HIDE DEF now
  <1>4. TypeOK'
    BY <1>0, <1>1, <1>3 DEF IInv, TypeOK
  <1>5. Stacked' /\ AdmittedOnce' /\ Present'
    <2>1. Stacked'
      BY <1>0, SameDatabase DEF IInv, Stacked
    <2> QED
      BY <1>0, <2>1 DEF IInv, AdmittedOnce, Present
  <1>6. Followed'
    BY <1>0, SameDatabase DEF IInv, Followed, Settled
  <1>7. Seeded'
    BY <1>0, SameDatabase DEF IInv, Seeded
  <1>8. Minimal'
    BY <1>0, SameDatabase DEF IInv, Minimal
  <1>9. Filtered'
    BY <1>0, <1>1 DEF IInv, Filtered
  <1>10. Dumped'
    <2>1. \A d : Selected(d)' <=> Selected(d)
      BY <1>0, <1>1 DEF Selected
    <2> QED
      BY <1>0, <1>1, <1>2, <2>1 DEF IInv, Dumped
  <1> QED
    BY <1>4, <1>5, <1>6, <1>7, <1>8, <1>9, <1>10 DEF IInv

-----------------------------------------------------------------------------
(* Theorems *)

\* The inductive invariant holds in every reachable state.
THEOREM Invariance == Spec => []IInv
  <1>1. ASSUME IInv, [Next]_vars
        PROVE  IInv'
    <2>1. CASE \/ StartFails \/ SelectDatabase \/ SeedEnds \/ ReadFails \/ DumpFails \/ DumpEnds
               \/ PushConditions \/ Terminating \/ UNCHANGED vars
      BY <1>1, <2>1, Moves
    <2>2. CASE \E c \in Collections : Seed(c)
      BY <1>1, <2>2, SeedKeeps
    <2>3. CASE Pop
      BY <1>1, <2>3, PopKeeps
    <2>4. CASE \E i \in DOMAIN graph : Follow(i)
      BY <1>1, <2>4, FollowKeeps
    <2>5. CASE WalkEnds
      BY <1>1, <2>5, WalkEndsKeeps
    <2>6. CASE \E c \in Collections : DumpCollection(c)
      BY <1>1, <2>6, DumpKeeps
    <2>7. CASE \E d \in Docs : Change(d)
      BY <1>1, <2>7, ChangeKeeps
    <2> QED
      BY <1>1, <2>1, <2>2, <2>3, <2>4, <2>5, <2>6, <2>7 DEF Next, RunStep
  <1> QED
    BY InitIInv, <1>1, PTL DEF Spec

\* Every variable keeps its type.
THEOREM TypeCorrect == Spec => []TypeOK
  <1>1. IInv => TypeOK
    BY DEF IInv
  <1> QED
    BY <1>1, Invariance, PTL

\* Each document is recorded once, along however many references it is reached
\* (admit).
THEOREM RecordedOnce == Spec => []AdmittedOnce
  <1>1. IInv => AdmittedOnce
    BY DEF IInv
  <1> QED
    BY <1>1, Invariance, PTL

\* When the walk has ended, every reference of a visited document that nobody
\* wrote leads to a visited document, unless that one was written.
LEMMA WalkIsClosed ==
  ASSUME IInv, pc = "done", Referential, NEW d \in visited \ touched
  PROVE  Followable(d) \ touched \subseteq visited
  <1>1. work = <<>> /\ left = {} /\ d \in Docs /\ graph \in Seq(Edges)
    BY DEF IInv, Filtered, TypeOK, Stacked
  <1>2. ASSUME NEW t \in Followable(d) \ touched
        PROVE  t \in visited
    <2>1. PICK i \in EdgesFrom(d[1]) : t \in ReferredTo(graph[i], d, db[d])
      BY <1>1, FollowableByEdge
    <2>2. Settled(d, i)
      BY DEF IInv, Followed
    <2>3. Read(d) \notin ToSet(work)
      BY <1>1 DEF ToSet
    <2> QED
      BY <1>1, <1>2, <2>1, <2>2, <2>3 DEF Settled
  <1> QED
    BY <1>2

\* A collection is free of the subset exactly if no condition or edge mentions it.
LEMMA FreeOrGoverned ==
  ASSUME NEW c
  PROVE  Free(c) <=> c \notin Governed
  <1>1. \A edge : c \in Targets(edge) <=>
          IF edge.cases = <<>> THEN c = edge.fixed
          ELSE \E i \in DOMAIN edge.cases : c = edge.cases[i].to
    BY DEF Targets, ToSet
  <1>2. c \in Governed <=>
          c \in DOMAIN conds \/ \E edge \in ToSet(graph) : c = edge.from \/ c \in Targets(edge)
    BY DEF Governed, Mentioned
  <1> QED
    BY <1>1, <1>2 DEF Free

\* What was dumped when the run is over.
LEMMA DumpedAtEnd ==
  ASSUME IInv, pc = "done", Referential
  PROVE  /\ \A d \in dumped : d \in Docs /\ Selected(d) /\ (d \notin touched => d \in Existing)
         /\ \A d \in Existing \ touched : Selected(d) => d \in dumped
  BY DEF IInv, TypeOK, Filtered, Dumped, Existing

\* Writes made during the run leave no dangling reference between two documents
\* that nobody wrote, for any reference graph, cyclic or polymorphic, where the
\* discriminators of the document that refers are legible.
THEOREM OnlyWritesBreakReferences == Spec => []IntactUnlessTouched
  <1>1. IInv => IntactUnlessTouched
    <2> SUFFICES ASSUME IInv, pc = "done", Referential,
                        NEW d \in dumped \ touched, ~Free(d[1]), Legible(d),
                        NEW t \in References(d) \ dumped, t \notin touched
                 PROVE  FALSE
      BY DEF IntactUnlessTouched
    <2>1. d \in visited
      BY FreeOrGoverned, DumpedAtEnd DEF Selected
    <2>2. t \in visited
      <3>1. graph \in Seq(Edges) /\ d \in Docs
        BY <2>1 DEF IInv, Stacked, TypeOK
      <3> QED
        BY <2>1, <3>1, WalkIsClosed, LegibleIsFollowed
    <2>3. t \in Existing
      BY DEF References
    <2> QED
      BY <2>2, <2>3, DumpedAtEnd DEF Selected
  <1> QED
    BY <1>1, Invariance, PTL

\* Over a database that nobody writes to, and whose discriminators are legible,
\* the subset dumped is exactly the
\* closure of the matching documents under references, with the collections no
\* condition and no reference is about whole.
THEOREM SubsetIsClosure == Spec => []SubsetIsExact
  <1>1. IInv => SubsetIsExact
    <2> SUFFICES ASSUME IInv, pc = "done", Referential, touched = {},
                        \A d \in Existing : Legible(d)
                 PROVE  dumped = Closure \cup {d \in Existing : Free(d[1])}
      BY DEF SubsetIsExact
    <2>1. Closure = {d \in Existing : \A S \in SUBSET Existing : Closed(S) => d \in S}
      <3> DEFINE Seeds == {d \in Existing : d[1] \in DOMAIN conds /\ d[2] \in conds[d[1]]}
      <3>1. \A S \in SUBSET Existing :
              Closed(S) <=> Seeds \subseteq S /\ \A d \in S : References(d) \subseteq S
        <4>1. \A d \in Existing : References(d) = Followable(d)
          BY LegibleIsFollowed DEF IInv, Stacked, Existing
        <4> QED
          BY <4>1 DEF Closed
      <3> QED
        BY <3>1 DEF Closure
    <2>2. visited \subseteq Closure
      <3>1. visited \subseteq Existing
        BY DEF IInv, Present, TypeOK, Existing
      <3> QED
        BY <2>1, <3>1 DEF IInv, Minimal
    <2>3. Closure \subseteq visited
      <3>1. visited \in SUBSET Existing
        BY DEF IInv, Present, TypeOK, Existing
      <3>2. \A d \in visited : Followable(d) \subseteq visited
        BY WalkIsClosed
      <3>3. ASSUME NEW d \in Existing, d[1] \in DOMAIN conds, d[2] \in conds[d[1]]
            PROVE  d \in visited
        BY <3>3 DEF IInv, Filtered, Seeded, Matching, Existing
      <3>4. Closed(visited)
        BY <3>2, <3>3 DEF Closed
      <3> QED
        BY <2>1, <3>1, <3>4
    <2>4. \A d \in Existing : Free(d[1]) <=> d[1] \notin Governed
      BY FreeOrGoverned
    <2>5. \A d \in dumped : d \in Existing /\ (d[1] \in Governed => d \in visited)
      BY DumpedAtEnd DEF Selected
    <2>6. \A d \in Existing : (d[1] \in Governed => d \in visited) => d \in dumped
      BY DumpedAtEnd DEF Selected
    <2>7. Closure \subseteq Existing
      BY <2>1
    <2> QED
      BY <2>2, <2>3, <2>4, <2>5, <2>6, <2>7
  <1> QED
    BY <1>1, Invariance, PTL
=============================================================================
