---------------------------- MODULE SubsetClosure ----------------------------
(***************************************************************************)
(* The filters of one dump with `subset_conds` and `virtual_references`:   *)
(* resolve_dump_filters walks the reference graph over a live database,    *)
(* keeping the ids it admits, and the dump then reads every collection     *)
(* through the filters this leaves.  The database may change meanwhile.    *)
(*                                                                         *)
(* A collection is a number, in the order of the names.  A document is a   *)
(* pair <<collection, _id>>, its body a function from field names to       *)
(* values; a dotted path is one field.  A value is a pair <<type, value>>, *)
(* for the driver and the server do not call the same values equal.        *)
(***************************************************************************)
EXTENDS Integers, Sequences, FiniteSets, SequencesExt

CONSTANTS
  Docs,        \* <<collection, id>> of the documents there may be
  Fields,      \* field names other than _id
  Dotted,      \* those that are dotted paths
  Values,      \* values of fields, the ids among them
  Missing,     \* what a field that is not there has for a value
  Null,        \* the null
  Absent,      \* what a document that is not there has for a body
  Bodies(_),   \* bodies a document of a collection may have
  Declarations,  \* virtual_references: sequences of declared references
  Conditions,  \* subset_conds: functions from collections to the ids that match
  MaxChanges   \* writes to the database during the run (bound)

Kinds   == {"int32", "int64", "double", "string", "objectId"}
Numeric == {"int32", "int64", "double"}

\* The server compares numbers by value, whatever their type.
SameValue(v, w) ==
  \/ v = w
  \/ {v, w} \subseteq Values /\ {v[1], w[1]} \subseteq Numeric /\ v[2] = w[2]

ASSUME ValuesAssumption  == Values \subseteq (Kinds \X Nat)
ASSUME DottedAssumption  == Dotted \subseteq Fields
ASSUME DocsAssumption    == Docs \subseteq (Nat \X Values) /\ IsFiniteSet(Docs)
ASSUME IdsAssumption     ==  \* the unique index on _id
  \A d, e \in Docs : d[1] = e[1] /\ SameValue(d[2], e[2]) => d = e
ASSUME BodiesAssumption  ==
  \A d \in Docs : Bodies(d[1]) \subseteq [Fields -> Values \cup {Missing, Null}]
ASSUME MissingAssumption == Missing \notin Values \cup {Null} /\ Null \notin Values
ASSUME AbsentAssumption  == \A d \in Docs : Absent \notin Bodies(d[1])
ASSUME ChangesAssumption == MaxChanges \in Nat

\* A YAML integer becomes an Int64, whatever the documents hold.
YamlToBson(v) == IF v[1] = "integer" THEN <<"int64", v[2]>> ELSE v

AsEdge(r) ==
  [r EXCEPT !.cases = [i \in DOMAIN r.cases |->
                         [r.cases[i] EXCEPT !.value = YamlToBson(@)]]]

\* The edges of declared references: a polymorphic one has cases, and its fixed
\* target does not count; one with neither (0 is no target) is inert.
\* `not_null` is carried along, and read by nobody.
FromEntries(declared) ==
  LET kept == SelectSeq(declared, LAMBDA r : r.cases # <<>> \/ r.fixed # 0)
  IN  [i \in DOMAIN kept |-> AsEdge(kept[i])]

Names == Fields \cup {"_id"}
Cases == [field : Names, value : Values, to : Nat]
Edges == [from : Nat, field : Names, toField : Names, notNull : BOOLEAN, fixed : Nat,
          cases : Seq(Cases)]

ASSUME DeclarationsAssumption == \A declared \in Declarations : FromEntries(declared) \in Seq(Edges)

Collections == {d[1] : d \in Docs}

VARIABLES
  graph,     \* ReferenceGraph
  conds,     \* the conditions of the SubsetEngine
  db,        \* the body of every document, Absent if there is none
  touched,   \* documents written since the run began
  changes,
  pc,
  pending,   \* collections with a condition, yet to be seeded
  visited,   \* keys of the documents admitted
  included,  \* the documents whose _ids are kept, in the order of admission
  work,      \* the stack of documents whose references are to be followed
  holder,    \* the document popped last
  left,      \* its edges yet to be followed, as positions in the graph
  filters,   \* Dump.filters, on the collections that have one
  todo,      \* collections not dumped yet
  dumped     \* documents dumped

configVars == <<graph, conds>>
walkVars   == <<visited, included, work, holder, left>>
dbVars     == <<db, touched, changes>>
dumpVars   == <<filters, todo, dumped>>
vars       == <<configVars, dbVars, pc, pending, walkVars, dumpVars>>

-----------------------------------------------------------------------------
(* References *)

ValueOf(d, body, field) == IF field = "_id" THEN d[2] ELSE body[field]

\* A find on `field: value`; a null also finds the documents without the field.
Finds(d, field, value) ==
  /\ db[d] # Absent
  /\ \/ SameValue(ValueOf(d, db[d], field), value)
     \/ value = Null /\ ValueOf(d, db[d], field) = Missing

\* The collections an edge may point at: one if fixed, one a case if not.
Targets(edge) == IF edge.cases = <<>> THEN {edge.fixed} ELSE {c.to : c \in ToSet(edge.cases)}

\* The cases whose discriminator has their value, and their type: a top-level
\* field is looked up, so that a dotted path is never there.
Hits(edge, d, body) ==
  {i \in DOMAIN edge.cases : /\ edge.cases[i].field \notin Dotted
                             /\ ValueOf(d, body, edge.cases[i].field) = edge.cases[i].value}

\* The first case whose discriminator matches, if any.
Resolved(edge, d, body) ==
  IF edge.cases = <<>> THEN {edge.fixed}
  ELSE {edge.cases[i].to : i \in {j \in Hits(edge, d, body) :
                                    \A k \in Hits(edge, d, body) : j <= k}}

\* The documents an edge of a document refers to.
ReferredTo(edge, d, body) ==
  LET value == ValueOf(d, body, edge.field) IN
  IF value = Missing THEN {}
  ELSE {t \in Docs : t[1] \in Resolved(edge, d, body) /\ Finds(t, edge.toField, value)}

EdgesFrom(c) == {i \in DOMAIN graph : graph[i].from = c}

\* Seeded fault: the discriminators are not among the fields projected.
ProjectionBare(c) ==
  {graph[i].field : i \in EdgesFrom(c)}
    \cup {edge.toField : edge \in {e \in ToSet(graph) : c \in Targets(e)}}

\* What the walk reads of a collection the graph mentions (beside its _id).
Projection(c) ==
  {graph[i].field : i \in EdgesFrom(c)}
    \cup (UNION {{case.field : case \in ToSet(graph[i].cases)} : i \in EdgesFrom(c)})
    \cup {edge.toField : edge \in {e \in ToSet(graph) : c \in Targets(e)}}

Mentioned == UNION {{edge.from} \cup Targets(edge) : edge \in ToSet(graph)}

\* A document as the walk reads it.
Read(d) ==
  <<d, IF d[1] \in Mentioned
       THEN [f \in Fields |-> IF f \in Projection(d[1]) THEN db[d][f] ELSE Missing]
       ELSE db[d]>>

Governed == DOMAIN conds \cup Mentioned

Matching(c) == {d \in Docs : d[1] = c /\ db[d] # Absent /\ d[2] \in conds[c]}

Referential == graph # <<>> /\ conds # <<>>

-----------------------------------------------------------------------------

TypeOK ==
  /\ graph \in {FromEntries(declared) : declared \in Declarations}
  /\ conds \in Conditions
  /\ \A d \in Docs : db[d] \in Bodies(d[1]) \cup {Absent}
  /\ touched \in SUBSET Docs
  /\ changes \in 0..MaxChanges
  /\ pc \in {"start", "seed", "walk", "dump", "done", "failed"}
  /\ pending \in SUBSET DOMAIN conds
  /\ visited \in SUBSET Docs
  /\ included \in Seq(Docs)
  /\ \A i \in DOMAIN work : work[i][1] \in visited
  /\ left \in SUBSET DOMAIN graph
  /\ left # {} => holder[1] \in visited
  /\ DOMAIN filters \subseteq Governed
  /\ todo \in SUBSET Collections
  /\ dumped \in SUBSET Docs

Init ==
  /\ graph \in {FromEntries(declared) : declared \in Declarations}
  /\ conds \in Conditions
  /\ db \in {f \in [Docs -> (UNION {Bodies(c) : c \in Collections}) \cup {Absent}] :
               \A d \in Docs : f[d] \in Bodies(d[1]) \cup {Absent}}
  /\ touched = {}
  /\ changes = 0
  /\ pc = "start"
  /\ pending = DOMAIN conds
  /\ visited = {}
  /\ included = <<>>
  /\ work = <<>>
  /\ holder = <<>>
  /\ left = {}
  /\ filters = <<>>
  /\ todo = Collections
  /\ dumped = {}

-----------------------------------------------------------------------------
(* resolve_dump_filters *)

\* An unreadable section, a condition that does not parse, no list of databases;
\* with references, no database selected or more than one.
StartFails ==
  /\ pc = "start"
  /\ pc' = "failed"
  /\ UNCHANGED <<configVars, dbVars, pending, walkVars, dumpVars>>

\* Without references, or without conditions, every condition is a filter.
PushConditions ==
  /\ pc = "start" /\ ~Referential
  /\ pc' = "dump"
  /\ filters' = conds
  /\ UNCHANGED <<configVars, dbVars, pending, walkVars, todo, dumped>>

\* subset_database: the filters must leave exactly one.
SelectDatabase ==
  /\ pc = "start" /\ Referential
  /\ pc' = "seed"
  /\ UNCHANGED <<configVars, dbVars, pending, walkVars, dumpVars>>

\* A document included is put on the stack, with the body just read.
Put(docs) ==
  /\ included' = included \o docs
  /\ work' = work \o [i \in 1..Len(docs) |-> Read(docs[i])]

\* Seeded fault: the visited set is not consulted.
AdmitAgain(found) ==
  /\ visited' = visited \cup found
  /\ \E docs \in SetToSeqs(found) : Put(docs)

\* admit, for each document of an answer, which come in any order: those not
\* visited yet are included.
Admit(found) ==
  /\ visited' = visited \cup found
  /\ \E docs \in SetToSeqs(found \ visited) : Put(docs)

\* The conditions are taken in the order of a BTreeMap.
Seed(c) ==
  /\ pc = "seed"
  /\ c \in pending
  /\ \A other \in pending : c <= other
  /\ pending' = pending \ {c}
  /\ Admit(Matching(c))
  /\ UNCHANGED <<configVars, dbVars, pc, holder, left, dumpVars>>

SeedEnds ==
  /\ pc = "seed"
  /\ pending = {}
  /\ pc' = "walk"
  /\ UNCHANGED <<configVars, dbVars, pending, walkVars, dumpVars>>

\* Seeded fault: the document stays on the stack.
PopPeek ==
  /\ pc = "walk"
  /\ left = {} /\ work # <<>>
  /\ holder' = Last(work)
  /\ left' = EdgesFrom(Last(work)[1][1])
  /\ UNCHANGED <<configVars, dbVars, pc, pending, work, visited, included, dumpVars>>

Pop ==
  /\ pc = "walk"
  /\ left = {} /\ work # <<>>
  /\ holder' = Last(work)
  /\ work' = Front(work)
  /\ left' = EdgesFrom(Last(work)[1][1])
  /\ UNCHANGED <<configVars, dbVars, pc, pending, visited, included, dumpVars>>

NextEdge(i) == i \in left /\ \A j \in left : i <= j

\* Seeded fault: an edge that leads nowhere ends the document.
FollowOrBreak(i) ==
  /\ pc = "walk"
  /\ NextEdge(i)
  /\ Admit(ReferredTo(graph[i], holder[1], holder[2]))
  /\ left' = IF ReferredTo(graph[i], holder[1], holder[2]) = {} THEN {} ELSE left \ {i}
  /\ UNCHANGED <<configVars, dbVars, pc, pending, holder, dumpVars>>

\* One edge of the holder; one with no case or no value finds nothing.
Follow(i) ==
  /\ pc = "walk"
  /\ NextEdge(i)
  /\ Admit(ReferredTo(graph[i], holder[1], holder[2]))
  /\ left' = left \ {i}
  /\ UNCHANGED <<configVars, dbVars, pc, pending, holder, dumpVars>>

\* A read that fails ends the run: there are no filters and no dump.
ReadFails ==
  /\ \/ pc = "seed" /\ pending # {}
     \/ pc = "walk" /\ left # {}
  /\ pc' = "failed"
  /\ UNCHANGED <<configVars, dbVars, pending, walkVars, dumpVars>>

IdsOf(c) == {d[2] : d \in {e \in ToSet(included) : e[1] = c}}

\* id_membership_filters: `$in` the ids admitted, for every governed collection.
WalkEnds ==
  /\ pc = "walk"
  /\ left = {} /\ work = <<>>
  /\ pc' = "dump"
  /\ filters' = [c \in Governed |-> IdsOf(c)]
  /\ UNCHANGED <<configVars, dbVars, pending, walkVars, todo, dumped>>

-----------------------------------------------------------------------------
(* The dump, and the world *)

\* stream_documents, with the collection's filter if it has one.
DumpCollection(c) ==
  /\ pc = "dump"
  /\ c \in todo
  /\ todo' = todo \ {c}
  /\ dumped' = dumped \cup {d \in Docs : /\ d[1] = c /\ db[d] # Absent
                                         /\ c \in DOMAIN filters => d[2] \in filters[c]}
  /\ UNCHANGED <<configVars, dbVars, pc, pending, walkVars, filters>>

DumpFails ==
  /\ pc = "dump"
  /\ pc' = "failed"
  /\ UNCHANGED <<configVars, dbVars, pending, walkVars, dumpVars>>

DumpEnds ==
  /\ pc = "dump"
  /\ todo = {}
  /\ pc' = "done"
  /\ UNCHANGED <<configVars, dbVars, pending, walkVars, dumpVars>>

\* Another client inserts, replaces or deletes a document.
Change(d) ==
  /\ pc \notin {"done", "failed"}
  /\ changes < MaxChanges
  /\ changes' = changes + 1
  /\ touched' = touched \cup {d}
  /\ \E body \in (Bodies(d[1]) \cup {Absent}) \ {db[d]} : db' = [db EXCEPT ![d] = body]
  /\ UNCHANGED <<configVars, pc, pending, walkVars, dumpVars>>

-----------------------------------------------------------------------------

RunStep ==
  \/ StartFails \/ PushConditions \/ SelectDatabase
  \/ (\E c \in Collections : Seed(c)) \/ SeedEnds
  \/ Pop \/ (\E i \in DOMAIN graph : Follow(i)) \/ ReadFails \/ WalkEnds
  \/ (\E c \in Collections : DumpCollection(c)) \/ DumpFails \/ DumpEnds

Terminating == pc \in {"done", "failed"} /\ UNCHANGED vars

Next == RunStep \/ (\E d \in Docs : Change(d)) \/ Terminating

Spec     == Init /\ [][Next]_vars
FairSpec == Spec /\ WF_vars(RunStep)  \* every query and every call returns or fails

-----------------------------------------------------------------------------
(* Properties *)

Existing == {d \in Docs : db[d] # Absent}

\* A case holds for a document that has its value at its path, read as every
\* other reference is: by the server.
CaseHolds(case, d) == SameValue(ValueOf(d, db[d], case.field), case.value)

\* An edge selects a collection for a document: the fixed one, or that of a
\* case that holds where no earlier one does.
Selects(edge, d, c) ==
  \/ edge.cases = <<>> /\ c = edge.fixed
  \/ \E i \in DOMAIN edge.cases :
       /\ c = edge.cases[i].to
       /\ \A j \in 1..i : CaseHolds(edge.cases[j], d) <=> j = i

\* The cases that hold for a document have a top-level field of the type that
\* YAML gives the value: resolve_target sees no other.
Legible(d) ==
  \A edge \in ToSet(graph) : edge.from = d[1] =>
    \A i \in DOMAIN edge.cases :
      CaseHolds(edge.cases[i], d) =>
        /\ edge.cases[i].field \notin Dotted
        /\ ValueOf(d, db[d], edge.cases[i].field) = edge.cases[i].value

References(d) ==
  {t \in Existing : \E edge \in ToSet(graph) :
     /\ edge.from = d[1]
     /\ Selects(edge, d, t[1])
     /\ ValueOf(d, db[d], edge.field) # Missing
     /\ Finds(t, edge.toField, ValueOf(d, db[d], edge.field))}

\* A collection that no condition and no reference is about.
Free(c) ==
  c \notin DOMAIN conds
  /\ \A edge \in ToSet(graph) :
       c # edge.from /\ IF edge.cases = <<>> THEN c # edge.fixed
                        ELSE \A i \in DOMAIN edge.cases : c # edge.cases[i].to

\* The least set with the matching documents and all they refer to.
Closure ==
  LET Seeds == {d \in Existing : d[1] \in DOMAIN conds /\ d[2] \in conds[d[1]]}
      Closed == {S \in SUBSET Existing :
                   Seeds \subseteq S /\ \A d \in S : References(d) \subseteq S}
  IN {d \in Existing : \A S \in Closed : d \in S}

\* If nothing wrote to the database and every discriminator is legible, a
\* referential subset is exactly the closure of the matching documents, through
\* cycles and polymorphic references, with the collections it does not govern
\* whole and those from which nothing was admitted empty (never whole).
SubsetIsExact ==
  pc = "done" /\ Referential /\ touched = {} /\ (\A d \in Existing : Legible(d)) =>
    dumped = Closure \cup {d \in Existing : Free(d[1])}

\* Writes made during the run break references of the documents they touch,
\* and no others: the walk's reads and the dump's, taken at different moments,
\* leave no dangling reference between two documents nobody wrote, where the
\* discriminators of the one that refers are legible.
IntactUnlessTouched ==
  pc = "done" /\ Referential =>
    \A d \in dumped \ touched : ~Free(d[1]) /\ Legible(d) =>
      References(d) \ dumped \subseteq touched

\* Each document is recorded once, though it be reached along many references,
\* around a cycle, or found again after a write moved it.
AdmittedOnce == IsInjective(included) /\ ToSet(included) = visited

\* The walk ends, whatever the cycles of the reference graph.
Termination == <>(pc \in {"done", "failed"})

-----------------------------------------------------------------------------
(* What the repository's documents say and this code does not do *)

\* .spectial/features/subset.virtual-references.yaml:9: "A polymorphic reference
\* ... resolves, per document, to the collection whose case matches the
\* document's discriminator value" (resolve_target compares types too).
ReferencesFollowCases ==
  pc = "done" /\ Referential /\ touched = {} =>
    \A d \in dumped : ~Free(d[1]) => References(d) \subseteq dumped

\* docs/configuration/subsetting.md:20: a condition "narrows what a collection
\* dumps, it just doesn't (yet) pull in documents from other collections"
\* (cmd_dump follows the references, and narrows the other collections too).
EachByItsOwnCondition ==
  pc = "done" /\ touched = {} =>
    dumped = {d \in Existing : d[1] \in DOMAIN conds => d[2] \in conds[d[1]]}

\* docs/configuration/subsetting.md:35: "not_null: true  # the reference must
\* resolve" (nothing reads the flag).
RequiredReferencesResolve ==
  pc = "done" /\ Referential /\ touched = {} =>
    \A d \in dumped : \A edge \in ToSet(graph) :
      edge.from = d[1] /\ edge.notNull =>
        \E t \in dumped : /\ Selects(edge, d, t[1])
                          /\ Finds(t, edge.toField, ValueOf(d, db[d], edge.field))
=============================================================================
