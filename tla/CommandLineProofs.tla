-------------------------- MODULE CommandLineProofs --------------------------
(***************************************************************************)
(* Proofs about CommandLine, for any server, configurations, commands,     *)
(* writes of others and failures, in any number.                           *)
(*                                                                         *)
(* The invariant says, of each command, what it has established so far:    *)
(* that the file it runs under parses; that the bench's database holds     *)
(* nothing of a user's, or that the guard has seen what there is; that the *)
(* collections already compared or restored are as the report, or the      *)
(* dump, has them.                                                         *)
(***************************************************************************)
EXTENDS CommandLine, FiniteSetTheorems, SequenceTheorems, TLAPS

-----------------------------------------------------------------------------
(* The inductive invariant *)

RestoreSteps == {"clean", "ensure", "documents", "indexes"}
\* The steps at which the bench's database is its own.
OwnSteps     == {"mark", "seed", "measure", "remark", "reload", "drop"}
BenchSteps   == {"guard", "list", "decide"} \cup OwnSteps

IsStructure(s) ==
  /\ s = [indexes |-> s.indexes, validator |-> s.validator, options |-> s.options]
  /\ s.options = [k \in DOMAIN s.options |-> s.options[k]]
  /\ \A x, y \in s.indexes : x.name = y.name => x = y
  /\ \A x \in s.indexes : Capture(Built(x)) = x
  /\ IF IsView(s) THEN s.indexes = {} ELSE s.indexes = {} \/ Capture(IdIndex) \in s.indexes

IsDump(m) == IsFiniteSet(DOMAIN m) /\ \A c \in DOMAIN m : IsStructure(m[c].recorded)

TypeInv ==
  /\ \A c \in Present : IsCollection(server[c])
  /\ DOMAIN owner = Present
  /\ config \in Configs
  /\ dumps \in Seq({dumps[d] : d \in DOMAIN dumps})
  /\ \A d \in DOMAIN dumps : IsDump(dumps[d])
  /\ IsDump(made)
  /\ fresh \subseteq DOMAIN dumps
  /\ failed \in BOOLEAN /\ blurred \in BOOLEAN
  /\ writesLeft \in Nat

\* The step a command is at, and what holds once its checks have passed.
Placed ==
  /\ \/ cmd = None /\ step = "idle"
     \/ cmd \in Commands /\ step = "checks"
     \/ cmd \in Commands /\ cmd.name = "dump" /\ step = "dump"
     \/ cmd \in Commands /\ cmd.name = "restore" /\ step \in RestoreSteps
     \/ cmd \in Commands /\ cmd.name = "validate_schema" /\ step = "diff"
     \/ cmd \in Commands /\ cmd.name = "bench" /\ step \in BenchSteps
  /\ step \in {"idle", "checks"} => pending = {}
  /\ step \in RestoreSteps \cup {"diff"} => dumps # <<>> /\ todo \in Seq(DOMAIN Latest)
  /\ step \in {"ensure", "documents", "indexes"} => todo # <<>>
  /\ step \in RestoreSteps \cup BenchSteps => fresh = {}

Parsed ==
  step \notin {"idle", "checks"} /\ cmd.configured /\ ~(cmd.name = "bench" /\ cmd.uri) => ~ParseFails(Settings)

\* Nothing in the bench's database but what it may drop.
OnlySystem == \A c \in In(BenchDb) : owner[c] = "user" => c[2] = "system"

Marked ==
  /\ BenchIsRecognized
  /\ step \in {"seed", "measure", "reload", "drop"} => Marker \in Present
  /\ Marker \in Present => owner[Marker] = "restore" \/ (owner[Marker] = "bench" /\ OnlySystem)

Guarded ==
  /\ step \in OwnSteps => OnlySystem
  /\ step = "decide" =>
       /\ \A c \in In(BenchDb) : owner[c] = "user" => c[2] = "system" \/ c \in pending
       /\ Marker \in pending => Marker \in Present

AsRecorded(c) == Latest[c].recorded = ReadStructure(Live(c), FALSE)

Compared ==
  step = "diff" /\ ~blurred =>
    /\ pending = {} => \A c \in DOMAIN Latest \ ToSet(todo) : AsRecorded(c)
    /\ (\A c \in DOMAIN Latest : AsRecorded(c)) => pending = {}

\* Of what a structure without indexes says nothing about.
Telling(s) == s.indexes # {} \/ IsView(s)

\* c, made from what was recorded, with some of its indexes.
Holds(c, indexes) ==
  LET recorded == Latest[c].recorded
  IN /\ c \in Present
     /\ server[c].options = recorded.options /\ server[c].validator = recorded.validator
     /\ server[c].indexes = (IF IsView(recorded) THEN {} ELSE {IdIndex}) \cup {Built(ix) : ix \in indexes}

RestoredSoFar ==
  step \in RestoreSteps /\ ~failed /\ ~blurred /\ Whole(cmd) =>
    /\ \A c \in DOMAIN Latest \ ToSet(todo) : Telling(Latest[c].recorded) => AsRecorded(c)
    /\ step = "ensure" => Item \notin Present
    /\ step = "documents" => Holds(Item, {})
    /\ step = "indexes" => pending \subseteq Wanted(Item) /\ Holds(Item, Wanted(Item) \ pending)

Unchanged ==
  \A d \in fresh : \A c \in DOMAIN dumps[d] :
    Telling(dumps[d][c].recorded) => dumps[d][c].recorded = ReadStructure(Live(c), FALSE)

IInv == TypeInv /\ Placed /\ Parsed /\ Marked /\ Guarded /\ Compared /\ RestoredSoFar /\ Unchanged

-----------------------------------------------------------------------------
(* Structures *)

LEMMA CaptureIsBuilt ==
  ASSUME NEW ix
  PROVE  Capture(Built(Capture(ix))) = Capture(ix)
<1> DEFINE keys == [i \in DOMAIN ix.keys |-> <<ix.keys[i][1], IF ix.keys[i][2] = Other THEN 1 ELSE ix.keys[i][2]>>]
           again == [i \in DOMAIN keys |-> <<keys[i][1], IF keys[i][2] = Other THEN 1 ELSE keys[i][2]>>]
<1>1. DOMAIN keys = DOMAIN ix.keys
  OBVIOUS
<1>2. ASSUME NEW i \in DOMAIN ix.keys
      PROVE  keys[i] = <<keys[i][1], IF keys[i][2] = Other THEN 1 ELSE keys[i][2]>>
  BY DEF Other
<1>3. again = keys
  BY <1>1, <1>2, Zenon
<1>4. Capture(ix) = [name |-> ix.name, unique |-> ix.unique, keys |-> keys]
  BY DEF Capture
<1> HIDE DEF keys
<1>5. Built(Capture(ix)) = [name |-> ix.name, keys |-> keys, unique |-> ix.unique, more |-> FALSE]
  BY <1>4 DEF Built
<1>6. ASSUME NEW b, b = [name |-> ix.name, keys |-> keys, unique |-> ix.unique, more |-> FALSE]
      PROVE  Capture(b) = [name |-> ix.name, unique |-> ix.unique, keys |-> again]
  BY <1>6 DEF Capture
<1> QED
  BY <1>3, <1>4, <1>5, <1>6

\* What read_structure returns of a collection, with or without its indexes, is a
\* structure.
LEMMA ReadIsStructure ==
  ASSUME NEW c, IsCollection(c), NEW lost \in BOOLEAN
  PROVE  IsStructure(ReadStructure(c, lost))
<1> DEFINE s == ReadStructure(c, lost)
<1>1. /\ s = [indexes |-> s.indexes, validator |-> s.validator, options |-> s.options]
      /\ s.options = c.options
      /\ s.indexes = IF lost \/ IsView(c) THEN {} ELSE {Capture(ix) : ix \in c.indexes}
  BY DEF ReadStructure
<1>2. IsView(s) <=> IsView(c)
  BY <1>1 DEF IsView
<1>3. \A ix : Capture(ix).name = ix.name
  BY DEF Capture
<1>4. \A x, y \in s.indexes : x.name = y.name => x = y
  BY <1>1, <1>3 DEF IsCollection
<1>5. \A x \in s.indexes : Capture(Built(x)) = x
  BY <1>1, CaptureIsBuilt
<1>6. ~IsView(c) => s.indexes = {} \/ Capture(IdIndex) \in s.indexes
  BY <1>1 DEF IsCollection
<1>7. IsView(c) => s.indexes = {}
  BY <1>1
<1>8. s.options = [k \in DOMAIN s.options |-> s.options[k]]
  BY <1>1 DEF IsCollection
<1> HIDE DEF s
<1>9. IsStructure(s)
  BY <1>1, <1>2, <1>4, <1>5, <1>6, <1>7, <1>8 DEF IsStructure
<1> QED
  BY <1>9 DEF s

\* So is what it returns of a collection that does not exist.
LEMMA NothingIsStructure ==
  ASSUME NEW lost \in BOOLEAN
  PROVE  IsStructure(ReadStructure(Nothing, lost)) /\ ~IsView(Nothing)
<1>1. ReadStructure(Nothing, lost) = [indexes |-> {}, validator |-> {}, options |-> <<>>]
  BY DEF ReadStructure, Nothing
<1>2. <<>> = [k \in DOMAIN <<>> |-> <<>>[k]]
  OBVIOUS
<1>3. ~IsView(Nothing)
  BY DEF IsView, Nothing
<1> QED
  BY <1>1, <1>2, <1>3 DEF IsStructure, IsView

\* A report is empty exactly when both sides read alike.
LEMMA NoDrift ==
  ASSUME NEW r, NEW l, IsStructure(r), IsStructure(l)
  PROVE  DiffCollection(r, l) = {} <=> r = l
<1> DEFINE removed == {x \in r.indexes : Named(l, x.name) = {}}
           changed == {x \in r.indexes : Named(l, x.name) \notin {{}, {x}}}
           added   == {x \in l.indexes : Named(r, x.name) = {}}
           validator == {x \in {TRUE} : r.validator # l.validator}
           options == {x \in DOMAIN r.options \cup DOMAIN l.options : OptionOf(r, x) # OptionOf(l, x)}
<1>1. DiffCollection(r, l) = {} <=>
        removed = {} /\ changed = {} /\ added = {} /\ validator = {} /\ options = {}
  <2>1. {<<"index removed", x.name>> : x \in removed} = {} <=> removed = {}
    OBVIOUS
  <2>2. {<<"index changed", x.name>> : x \in changed} = {} <=> changed = {}
    OBVIOUS
  <2>3. {<<"index added", x.name>> : x \in added} = {} <=> added = {}
    OBVIOUS
  <2>4. {<<"validator changed", "">> : x \in validator} = {} <=> validator = {}
    OBVIOUS
  <2>5. {<<"option changed", k>> : k \in options} = {} <=> options = {}
    OBVIOUS
  <2>6. DiffCollection(r, l) =
          {<<"index removed", x.name>> : x \in removed} \cup {<<"index changed", x.name>> : x \in changed}
            \cup {<<"index added", x.name>> : x \in added} \cup {<<"validator changed", "">> : x \in validator}
            \cup {<<"option changed", k>> : k \in options}
    BY DEF DiffCollection
  <2> HIDE DEF removed, changed, added, validator, options
  <2> QED
    BY <2>1, <2>2, <2>3, <2>4, <2>5, <2>6
<1>2. ASSUME removed = {}, changed = {}, added = {}, validator = {}, options = {}
      PROVE  r = l
  <2>1. \A x \in r.indexes : Named(l, x.name) = {x}
    BY <1>2, Zenon
  <2>2. r.indexes \subseteq l.indexes
    BY <2>1 DEF Named
  <2>3. ASSUME NEW x \in l.indexes PROVE x \in r.indexes
    <3>1. PICK y \in r.indexes : y.name = x.name
      BY <1>2 DEF Named
    <3>2. x \in Named(l, y.name)
      BY <3>1 DEF Named
    <3> QED
      BY <2>1, <3>1, <3>2
  <2>4. r.validator = l.validator
    BY <1>2
  <2>5. \A k \in DOMAIN r.options \cup DOMAIN l.options : OptionOf(r, k) = OptionOf(l, k)
    BY <1>2
  <2>6. DOMAIN r.options = DOMAIN l.options
    BY <2>5 DEF OptionOf
  <2>7. \A k \in DOMAIN r.options : r.options[k] = l.options[k]
    BY <2>5, <2>6 DEF OptionOf
  <2>8. r.options = l.options
    BY <2>6, <2>7, Zenon DEF IsStructure
  <2> QED
    BY <2>2, <2>3, <2>4, <2>8 DEF IsStructure
<1>3. ASSUME r = l
      PROVE  removed = {} /\ changed = {} /\ added = {} /\ validator = {} /\ options = {}
  <2>1. \A x \in r.indexes : Named(r, x.name) = {x}
    BY DEF Named, IsStructure
  <2> QED
    BY <1>3, <2>1
<1> QED
  BY <1>1, <1>2, <1>3

\* create_collection with recorded options makes something the server can hold.
LEMMA CreatedIsCollection ==
  ASSUME NEW s, s.options = [k \in DOMAIN s.options |-> s.options[k]]
  PROVE  IsCollection(Created(s))
<1>1. Created(s) = [indexes |-> IF IsView(s) THEN {} ELSE {IdIndex}, validator |-> s.validator,
                    options |-> s.options, docs |-> 0]
  BY DEF Created
<1>2. IsView(Created(s)) <=> IsView(s)
  BY <1>1 DEF IsView
<1> QED
  BY <1>1, <1>2 DEF IsCollection

\* A collection stays one whatever its count of documents becomes.
LEMMA CountedIsCollection ==
  ASSUME NEW c, IsCollection(c), NEW n
  PROVE  IsCollection([c EXCEPT !.docs = n])
<1>1. [c EXCEPT !.docs = n] =
        [indexes |-> c.indexes, validator |-> c.validator, options |-> c.options, docs |-> n]
  BY DEF IsCollection
<1> QED
  BY <1>1 DEF IsCollection, IsView

\* An index that meets no other of its name adds itself and changes nothing else.
LEMMA IndexedIsCollection ==
  ASSUME NEW c, IsCollection(c), NEW ix, ~Conflicts(c, ix)
  PROVE  /\ IsCollection(WithIndex(c, ix))
         /\ WithIndex(c, ix).options = c.options /\ WithIndex(c, ix).validator = c.validator
         /\ WithIndex(c, ix).indexes = c.indexes \cup {Built(ix)}
<1>1. WithIndex(c, ix) = [indexes |-> c.indexes \cup {Built(ix)}, validator |-> c.validator,
                          options |-> c.options, docs |-> c.docs]
  BY DEF WithIndex, IsCollection
<1>2. Built(ix).name = ix.name
  BY DEF Built
<1>3. \A x \in c.indexes : x.name = Built(ix).name => x = Built(ix)
  BY <1>2 DEF Conflicts
<1> QED
  BY <1>1, <1>3 DEF IsCollection, IsView

\* A collection made implicitly is one, and is no view.
LEMMA EmptyIsCollection ==
  IsCollection(Created(Nothing)) /\ ~IsView(Created(Nothing))
<1>1. Nothing.options = [k \in DOMAIN Nothing.options |-> Nothing.options[k]]
  BY DEF Nothing
<1>2. Created(Nothing).options = <<>>
  BY DEF Created, Nothing
<1> QED
  BY <1>1, <1>2, CreatedIsCollection DEF IsView

\* What a whole restore has made of a collection reads as it was recorded.
LEMMA WholeReadsAsRecorded ==
  ASSUME NEW c, IsStructure(Latest[c].recorded), Telling(Latest[c].recorded),
         ExcludedIndexes(cmd) = {}, Holds(c, Wanted(c))
  PROVE  AsRecorded(c)
<1> DEFINE r == Latest[c].recorded
           l == server[c]
<1>1. Live(c) = l
  BY DEF Live, Holds
<1>2. /\ l.options = r.options /\ l.validator = r.validator
      /\ l.indexes = (IF IsView(r) THEN {} ELSE {IdIndex}) \cup {Built(ix) : ix \in Wanted(c)}
  BY DEF Holds
<1>3. Wanted(c) = {ix \in r.indexes : ix.name # "_id_"}
  BY DEF Wanted
<1>4. IsView(l) <=> IsView(r)
  BY <1>2 DEF IsView
<1> HIDE DEF r, l
<1>5. CASE IsView(r)
  <2>1. r.indexes = {}
    BY <1>5 DEF IsStructure, r
  <2>2. ReadStructure(l, FALSE) = [indexes |-> {}, validator |-> r.validator, options |-> r.options]
    BY <1>2, <1>4, <1>5 DEF ReadStructure
  <2> QED
    BY <1>1, <2>1, <2>2 DEF AsRecorded, IsStructure, r
<1>6. CASE ~IsView(r)
  <2>1. Capture(IdIndex) \in r.indexes /\ Capture(IdIndex).name = "_id_"
    BY <1>6 DEF IsStructure, Telling, Capture, IdIndex, r
  <2>2. r.indexes = {Capture(IdIndex)} \cup Wanted(c)
    BY <1>3, <2>1 DEF IsStructure, r
  <2>3. \A ix \in r.indexes : Capture(Built(ix)) = ix
    BY DEF IsStructure, r
  <2>4. {Capture(x) : x \in l.indexes} = r.indexes
    BY <1>2, <1>6, <2>2, <2>3
  <2>5. ReadStructure(l, FALSE) = [indexes |-> r.indexes, validator |-> r.validator, options |-> r.options]
    BY <1>2, <1>4, <1>6, <2>4 DEF ReadStructure
  <2> QED
    BY <1>1, <2>5 DEF AsRecorded, IsStructure, r
<1> QED
  BY <1>5, <1>6

-----------------------------------------------------------------------------
(* Sequences *)

\* The queue of a finite set's elements.
LEMMA Queued ==
  ASSUME NEW S, IsFiniteSet(S)
  PROVE  SetToSeq(S) \in Seq(S) /\ ToSet(SetToSeq(S)) = S
<1> DEFINE n == Cardinality(S)
           s == SetToSeq(S)
<1>1. n \in Nat /\ Bijection(1..n, S) # {}
  BY FS_CardinalityType DEF ExistsBijection
<1>2. PICK g \in Bijection(1..n, S) : TRUE
  BY <1>1
<1>3. g \in [1..n -> S] /\ IsInjective(g)
  BY <1>2 DEF Bijection, Injection
<1>4. s \in [1..n -> S] /\ IsInjective(s)
  BY <1>3 DEF SetToSeq
<1>5. s \in Injection(1..n, S) /\ Cardinality(1..n) = n
  BY <1>1, <1>4, FS_Interval DEF Injection
<1>6. s \in Surjection(1..n, S)
  BY <1>5, FS_Injection
<1> HIDE DEF n, s
<1>7. ToSet(s) = S
  BY <1>4, <1>6 DEF Surjection, ToSet
<1>8. s \in Seq(S)
  BY <1>1, <1>4
<1> QED
  BY <1>7, <1>8 DEF s

\* The head of a queue is one of its members; its tail has the others.
LEMMA Dequeued ==
  ASSUME NEW S, NEW s \in Seq(S), s # <<>>
  PROVE  /\ Head(s) \in ToSet(s) /\ Head(s) \in S
         /\ Tail(s) \in Seq(S)
         /\ ToSet(s) = ToSet(Tail(s)) \cup {Head(s)}
<1>1. /\ Len(s) \in Nat \ {0} /\ DOMAIN s = 1..Len(s) /\ Head(s) = s[1]
      /\ Tail(s) \in Seq(S) /\ Len(Tail(s)) = Len(s) - 1 /\ DOMAIN Tail(s) = 1..Len(s)-1
      /\ \A i \in 1..Len(s)-1 : Tail(s)[i] = s[i + 1]
  OBVIOUS
<1>2. ASSUME NEW i \in DOMAIN s PROVE s[i] \in ToSet(Tail(s)) \cup {Head(s)}
  <2>1. CASE i = 1
    BY <1>1, <2>1
  <2>2. CASE i # 1
    <3>1. i - 1 \in DOMAIN Tail(s) /\ Tail(s)[i - 1] = s[i]
      BY <1>1, <2>2
    <3> QED
      BY <3>1 DEF ToSet
  <2> QED
    BY <2>1, <2>2
<1>3. ASSUME NEW i \in DOMAIN Tail(s) PROVE Tail(s)[i] \in ToSet(s)
  <2>1. i + 1 \in DOMAIN s /\ Tail(s)[i] = s[i + 1]
    BY <1>1
  <2> QED
    BY <2>1 DEF ToSet
<1>4. Head(s) \in ToSet(s)
  <2>1. 1 \in DOMAIN s
    BY <1>1
  <2> QED
    BY <1>1, <2>1 DEF ToSet
<1> QED
  BY <1>1, <1>2, <1>3, <1>4 DEF ToSet

\* An empty queue has no members.
LEMMA NothingQueued == ToSet(<<>>) = {}
<1>1. DOMAIN <<>> = {}
  OBVIOUS
<1> QED
  BY <1>1 DEF ToSet

\* A sequence of whatever it holds.
LEMMA Appended ==
  ASSUME NEW s, s \in Seq({s[i] : i \in DOMAIN s}), NEW e
  PROVE  LET t == Append(s, e)
         IN /\ t \in Seq({t[i] : i \in DOMAIN t})
            /\ DOMAIN t = DOMAIN s \cup {Len(s) + 1}
            /\ \A i \in DOMAIN s : t[i] = s[i]
            /\ t[Len(s) + 1] = e
<1> DEFINE S == {s[i] : i \in DOMAIN s}
           t == Append(s, e)
           T == {t[i] : i \in DOMAIN t}
<1>1. s \in Seq(S \cup {e})
  OBVIOUS
<1> HIDE DEF S
<1>2. /\ t \in Seq(S \cup {e}) /\ Len(t) = Len(s) + 1 /\ Len(s) \in Nat
      /\ DOMAIN t = 1..Len(s)+1 /\ DOMAIN s = 1..Len(s)
      /\ \A i \in 1..Len(s) : t[i] = s[i]
      /\ t[Len(s) + 1] = e
  BY <1>1
<1> HIDE DEF t
<1>3. t \in Seq(T)
  <2>1. t = [i \in 1..Len(t) |-> t[i]]
    BY <1>2
  <2>2. \A i \in 1..Len(t) : t[i] \in T
    BY <1>2
  <2> HIDE DEF T
  <2>3. t \in [1..Len(t) -> T]
    BY <2>1, <2>2
  <2> QED
    BY <1>2, <2>3
<1>4. DOMAIN t = DOMAIN s \cup {Len(s) + 1}
  BY <1>2
<1> QED
  BY <1>2, <1>3, <1>4 DEF t

\* `latest` is the last dump, with a structure for each of its collections.
LEMMA LatestIsRecorded ==
  ASSUME TypeInv, dumps # <<>>
  PROVE  /\ Len(dumps) \in DOMAIN dumps /\ Latest = dumps[Len(dumps)]
         /\ IsFiniteSet(DOMAIN Latest)
         /\ \A c \in DOMAIN Latest : IsStructure(Latest[c].recorded)
<1>1. Len(dumps) \in DOMAIN dumps
  BY DEF TypeInv
<1> QED
  BY <1>1 DEF TypeInv, IsDump, Latest, Last

\* What `validate --schema` reads of the target is a structure.
LEMMA LiveIsCollection ==
  ASSUME TypeInv, NEW c, NEW lost \in BOOLEAN
  PROVE  IsStructure(ReadStructure(Live(c), lost))
<1>1. CASE c \in Present
  BY <1>1, ReadIsStructure DEF Live, TypeInv
<1>2. CASE c \notin Present
  BY <1>2, NothingIsStructure DEF Live
<1> QED
  BY <1>1, <1>2

-----------------------------------------------------------------------------
(* Checks *)

CheckNames ==
  {"locate", "load", "storage", "uri", "restore", "restore filters", "dump", "flags", "registry",
   "transformation", "references", "plan", "dump filters", "conditions"}

\* Lists of checks can be joined; what either contains, the whole contains.
LEMMA Joined ==
  ASSUME NEW s \in Seq(CheckNames), NEW t \in Seq(CheckNames)
  PROVE  s \o t \in Seq(CheckNames) /\ ToSet(s \o t) = ToSet(s) \cup ToSet(t)
<1>1. /\ Len(s) \in Nat /\ Len(t) \in Nat /\ s \o t \in Seq(CheckNames)
      /\ DOMAIN s = 1..Len(s) /\ DOMAIN t = 1..Len(t) /\ DOMAIN (s \o t) = 1..(Len(s) + Len(t))
      /\ \A i \in 1..Len(s) : (s \o t)[i] = s[i]
      /\ \A i \in (Len(s) + 1)..(Len(s) + Len(t)) : (s \o t)[i] = t[i - Len(s)]
  OBVIOUS
<1>2. ASSUME NEW i \in DOMAIN (s \o t) PROVE (s \o t)[i] \in ToSet(s) \cup ToSet(t)
  <2>1. CASE i \in 1..Len(s)
    BY <1>1, <2>1 DEF ToSet
  <2>2. CASE i \in (Len(s) + 1)..(Len(s) + Len(t))
    <3>1. i - Len(s) \in DOMAIN t /\ (s \o t)[i] = t[i - Len(s)]
      BY <1>1, <2>2
    <3> QED
      BY <3>1 DEF ToSet
  <2> QED
    BY <1>1, <2>1, <2>2
<1>3. ASSUME NEW i \in DOMAIN t PROVE t[i] \in ToSet(s \o t)
  <2>1. Len(s) + i \in DOMAIN (s \o t) /\ (s \o t)[Len(s) + i] = t[i]
    BY <1>1
  <2> QED
    BY <2>1 DEF ToSet
<1>4. ASSUME NEW i \in DOMAIN s PROVE s[i] \in ToSet(s \o t)
  <2>1. i \in DOMAIN (s \o t) /\ (s \o t)[i] = s[i]
    BY <1>1
  <2> QED
    BY <2>1 DEF ToSet
<1> QED
  BY <1>1, <1>2, <1>3, <1>4 DEF ToSet

\* Every command that opens the storage, and a bench, loads the configuration.
LEMMA ConfigIsLoaded ==
  /\ OpenStorage \in Seq(CheckNames) /\ "load" \in ToSet(OpenStorage)
  /\ "load" \in ToSet(<<"load", "uri">>)
<1>1. RequireConfig \in Seq(CheckNames) /\ "load" \in ToSet(RequireConfig)
  <2>1. RequireConfig = <<"locate", "load">>
    BY DEF RequireConfig
  <2>2. 2 \in DOMAIN RequireConfig /\ RequireConfig[2] = "load"
    BY <2>1
  <2> QED
    BY <2>1, <2>2 DEF ToSet, CheckNames
<1>2. OpenStorage = RequireConfig \o <<"storage">> /\ <<"storage">> \in Seq(CheckNames)
  BY DEF OpenStorage, CheckNames
<1>3. "load" \in ToSet(<<"load", "uri">>)
  <2>1. 1 \in DOMAIN <<"load", "uri">> /\ <<"load", "uri">>[1] = "load"
    OBVIOUS
  <2> QED
    BY <2>1 DEF ToSet
<1> HIDE DEF RequireConfig
<1> QED
  BY <1>1, <1>2, <1>3, Joined

\* A command that is not refused has a dump to work on, and a file that parses.
LEMMA ChecksAreMade ==
  ASSUME NEW c, ~Refused(c)
  PROVE  /\ c.name \in {"restore", "validate_schema"} => dumps # <<>>
         /\ /\ c.name \in {"dump", "restore", "validate_schema", "bench"}
            /\ ~(c.name = "bench" /\ c.uri)
            => ~(c.configured /\ ParseFails(Settings))
<1>1. \A check \in ToSet(Checks(c)) : ~Fails(c, check)
  BY DEF Refused, ToSet
<1>2. ASSUME NEW rest \in Seq(CheckNames)
      PROVE  /\ "load" \in ToSet(OpenStorage \o rest)
             /\ ToSet(rest) \subseteq ToSet(OpenStorage \o rest)
  BY ConfigIsLoaded, Joined
<1>3. ASSUME c.name = "restore" PROVE "dump" \in ToSet(Checks(c)) /\ "load" \in ToSet(Checks(c))
  <2> DEFINE rest == <<"uri", "restore", "restore filters", "dump">>
  <2>1. Checks(c) = OpenStorage \o rest
    BY <1>3 DEF Checks, RestoreChecks
  <2>2. rest \in Seq(CheckNames) /\ 4 \in DOMAIN rest /\ rest[4] = "dump"
    BY DEF CheckNames
  <2> HIDE DEF rest
  <2>3. "dump" \in ToSet(rest)
    BY <2>2 DEF ToSet
  <2> QED
    BY <1>2, <2>1, <2>2, <2>3
<1>4. ASSUME c.name = "validate_schema" PROVE "dump" \in ToSet(Checks(c)) /\ "load" \in ToSet(Checks(c))
  <2> DEFINE rest == <<"uri", "dump">>
  <2>1. Checks(c) = OpenStorage \o rest
    BY <1>4 DEF Checks, ValidateSchemaChecks
  <2>2. rest \in Seq(CheckNames) /\ 2 \in DOMAIN rest /\ rest[2] = "dump"
    BY DEF CheckNames
  <2> HIDE DEF rest
  <2>3. "dump" \in ToSet(rest)
    BY <2>2 DEF ToSet
  <2> QED
    BY <1>2, <2>1, <2>2, <2>3
<1>5. ASSUME c.name = "dump" PROVE "load" \in ToSet(Checks(c))
  <2> DEFINE rest == <<"uri", "registry", "transformation", "references", "plan", "dump filters", "conditions">>
  <2>1. Checks(c) = OpenStorage \o rest
    BY <1>5 DEF Checks, DumpChecks
  <2>2. rest \in Seq(CheckNames)
    BY DEF CheckNames
  <2> QED
    BY <1>2, <2>1, <2>2
<1>6. ASSUME c.name = "bench", ~c.uri PROVE "load" \in ToSet(Checks(c))
  <2>1. Checks(c) = <<"flags">> \o <<"load", "uri">>
    BY <1>6 DEF Checks, BenchChecks
  <2>2. <<"flags">> \in Seq(CheckNames) /\ <<"load", "uri">> \in Seq(CheckNames)
    BY DEF CheckNames
  <2> QED
    BY <2>1, <2>2, ConfigIsLoaded, Joined
<1>7. (Fails(c, "dump") <=> dumps = <<>>) /\ (Fails(c, "load") <=> c.configured /\ ParseFails(Settings))
  BY DEF Fails
<1> QED
  BY <1>1, <1>3, <1>4, <1>5, <1>6, <1>7

-----------------------------------------------------------------------------
(* What a step does to the server *)

SameServer == server' = server /\ owner' = owner

Owned == DOMAIN owner' = Present' /\ \A c \in Present' : IsCollection(server'[c])

\* At most c is made or changed.
Grown(c) ==
  /\ Owned
  /\ Present' = Present \cup {c}
  /\ \A x \in Present : owner'[x] = owner[x]
  /\ c \notin Present => owner'[c] = cmd.name
  /\ \A x \in Present \ {c} : server'[x] = server[x]

Shrunk(cs) ==
  /\ Owned
  /\ Present' = Present \ cs
  /\ \A x \in Present' : server'[x] = server[x] /\ owner'[x] = owner[x]

\* Writing one collection leaves every other as it was, and its owner.
LEMMA PutEffect ==
  ASSUME TypeInv, NEW c, NEW value, IsCollection(value), Put(c, value)
  PROVE  Grown(c) /\ server'[c] = value
<1>1. server' = [y \in DOMAIN server \cup {c} |-> IF y = c THEN value ELSE server[y]]
  BY DEF Put, Bind
<1>2. owner' = IF c \in Present THEN owner
               ELSE [y \in DOMAIN owner \cup {c} |-> IF y = c THEN cmd.name ELSE owner[y]]
  BY DEF Put, Bind
<1> QED
  BY <1>1, <1>2 DEF Grown, Owned, TypeInv, Present

\* Dropping collections leaves the others as they were.
LEMMA DropEffect ==
  ASSUME TypeInv, NEW cs, DropAll(cs)
  PROVE  Shrunk(cs)
<1>1. /\ server' = [y \in Present \ cs |-> server[y]]
      /\ owner' = [y \in Present \ cs |-> owner[y]]
  BY DEF DropAll, Restrict
<1> QED
  BY <1>1 DEF Shrunk, Owned, TypeInv, Present

\* ensure_collection makes the collection if it is missing, as described, and
\* otherwise leaves it alone.
LEMMA EnsureEffect ==
  ASSUME TypeInv, NEW c, NEW s, s.options = [k \in DOMAIN s.options |-> s.options[k]], Ensure(c, s)
  PROVE  Grown(c) /\ (c \notin Present => server'[c] = Created(s))
<1>1. CASE c \in Present
  BY <1>1 DEF Ensure, Grown, Owned, TypeInv, Present
<1>2. CASE c \notin Present
  <2>1. Put(c, Created(s)) /\ IsCollection(Created(s))
    BY <1>2, CreatedIsCollection DEF Ensure
  <2> QED
    BY <1>2, <2>1, PutEffect
<1> QED
  BY <1>1, <1>2

\* `--clean` drops the item's collection and nothing else.
LEMMA CleanEffect ==
  ASSUME TypeInv, Clean
  PROVE  \/ SameServer /\ (Cleans(cmd) => Item \notin Present)
         \/ /\ Owned /\ Item \in Present
            /\ Present' = Present \ {Item}
            /\ \A x \in Present' :
                 server'[x] = server[x] /\ owner'[x] = IF owner[x] = "bench" THEN "restore" ELSE owner[x]
<1>1. CASE Cleans(cmd) /\ Item \in Present
  <2>1. /\ server' = [x \in Present \ {Item} |-> server[x]]
        /\ owner' = [x \in Present \ {Item} |-> IF owner[x] = "bench" THEN "restore" ELSE owner[x]]
    BY <1>1 DEF Clean, Restrict
  <2> QED
    BY <1>1, <2>1 DEF Owned, TypeInv, Present
<1>2. CASE ~(Cleans(cmd) /\ Item \in Present)
  BY <1>2 DEF Clean, SameServer
<1> QED
  BY <1>1, <1>2

\* Documents inserted, or refused, leave the structure of an existing collection.
LEMMA InsertEffect ==
  ASSUME TypeInv, InsertDocuments
  PROVE  \/ SameServer
         \/ /\ Grown(Item)
            /\ Item \in Present =>
                 /\ server'[Item].options = server[Item].options
                 /\ server'[Item].validator = server[Item].validator
                 /\ server'[Item].indexes = server[Item].indexes
<1> DEFINE target == Target
           docs   == Latest[Item].docs
<1>1. CASE docs = 0
  BY <1>1 DEF InsertDocuments, SameServer
<1>2. CASE docs # 0
  <2>1. IsCollection(target)
    BY EmptyIsCollection DEF TypeInv, Target
  <2>2. Put(Item, [target EXCEPT !.docs = docs])
    BY <1>2 DEF InsertDocuments
  <2>3. target = [indexes |-> target.indexes, validator |-> target.validator,
                  options |-> target.options, docs |-> target.docs]
    BY <2>1 DEF IsCollection
  <2>4. Item \in Present => target = server[Item]
    BY DEF Target
  <2> HIDE DEF target, docs
  <2>5. IsCollection([target EXCEPT !.docs = docs])
    BY <2>1, CountedIsCollection
  <2>6. Grown(Item) /\ server'[Item] = [target EXCEPT !.docs = docs]
    BY <2>2, <2>5, PutEffect
  <2> QED
    BY <2>3, <2>4, <2>6
<1> QED
  BY <1>1, <1>2

\* An index created is taken off the pending ones and added to its collection only.
LEMMA IndexEffect ==
  ASSUME TypeInv, CreateIndex
  PROVE  \E ix \in pending :
           /\ Grown(Item) /\ pending' = pending \ {ix}
           /\ Item \in Present =>
                /\ server'[Item].options = server[Item].options
                /\ server'[Item].validator = server[Item].validator
                /\ server'[Item].indexes = server[Item].indexes \cup {Built(ix)}
<1>1. PICK ix \in pending : ~Conflicts(Target, ix) /\ Put(Item, WithIndex(Target, ix)) /\ pending' = pending \ {ix}
  BY DEF CreateIndex
<1>2. IsCollection(Target) /\ (Item \in Present => Target = server[Item])
  BY EmptyIsCollection DEF TypeInv, Target
<1> DEFINE value == WithIndex(Target, ix)
<1>3. /\ IsCollection(value)
      /\ value.options = Target.options /\ value.validator = Target.validator
      /\ value.indexes = Target.indexes \cup {Built(ix)}
  BY <1>1, <1>2, IndexedIsCollection
<1>4. Put(Item, value)
  BY <1>1
<1> HIDE DEF value
<1>5. Grown(Item) /\ server'[Item] = value
  BY <1>3, <1>4, PutEffect
<1> QED
  BY <1>1, <1>2, <1>3, <1>5

\* Another client writes one collection, never the marker, and is its owner then.
LEMMA UserEffect ==
  ASSUME TypeInv, UserWrite
  PROVE  \E w \in UserWrites :
           /\ Owned
           /\ Present \ {w.at} \subseteq Present' /\ Present' \subseteq Present \cup {w.at}
           /\ \A x \in Present \ {w.at} : server'[x] = server[x] /\ owner'[x] = owner[x]
           /\ w.at \in Present' =>
                owner'[w.at] = IF w.at[1] = BenchDb /\ (Marker \in Present \/ cmd.name = "bench")
                               THEN "stray" ELSE "user"
<1>1. PICK w \in UserWrites :
        IF w.to = {} THEN DropAll({w.at})
        ELSE /\ server' = Bind(server, w.at, CHOOSE x \in w.to : TRUE)
             /\ owner' = Bind(owner, w.at, IF w.at[1] = BenchDb /\ (Marker \in Present \/ cmd.name = "bench")
                                           THEN "stray" ELSE "user")
  BY DEF UserWrite
<1>2. CASE w.to = {}
  BY <1>1, <1>2, DropEffect DEF Shrunk
<1>3. CASE w.to # {}
  <2> DEFINE value == CHOOSE x \in w.to : TRUE
             by == IF w.at[1] = BenchDb /\ (Marker \in Present \/ cmd.name = "bench") THEN "stray" ELSE "user"
  <2>1. IsCollection(value)
    BY <1>3, UserWritesAssumption
  <2>2. server' = Bind(server, w.at, value) /\ owner' = Bind(owner, w.at, by)
    BY <1>1, <1>3
  <2> HIDE DEF value, by
  <2>3. /\ server' = [y \in DOMAIN server \cup {w.at} |-> IF y = w.at THEN value ELSE server[y]]
        /\ owner' = [y \in DOMAIN owner \cup {w.at} |-> IF y = w.at THEN by ELSE owner[y]]
    BY <2>2 DEF Bind
  <2>4. /\ Owned
        /\ Present' = Present \cup {w.at}
        /\ \A x \in Present \ {w.at} : server'[x] = server[x] /\ owner'[x] = owner[x]
        /\ owner'[w.at] = by
    BY <2>1, <2>3 DEF Owned, TypeInv, Present
  <2> QED
    BY <2>4 DEF by
<1> QED
  BY <1>2, <1>3

-----------------------------------------------------------------------------
(* Every step keeps the invariant *)

USE BoundsAssumption, CommandsAssumption

\* The dump of an empty database is a dump.
LEMMA EmptyDump == IsDump(<<>>)
<1>1. DOMAIN <<>> = {}
  OBVIOUS
<1> QED
  BY <1>1, FS_EmptySet DEF IsDump

\* The inductive invariant holds at first.
LEMMA InitIInv == Init => IInv
<1> SUFFICES ASSUME Init PROVE IInv
  OBVIOUS
<1>1. server \in Servers /\ owner = [c \in DOMAIN server |-> "user"] /\ Marker \notin Present
  BY ServersAssumption DEF Init, Present
<1>2. dumps = <<>> /\ fresh = {} /\ cmd = None /\ step = "idle" /\ pending = {}
  BY DEF Init
<1>3. TypeInv
  <2>1. \A c \in Present : IsCollection(server[c])
    BY <1>1, ServersAssumption DEF Present
  <2>2. dumps \in Seq({dumps[d] : d \in DOMAIN dumps}) /\ \A d \in DOMAIN dumps : IsDump(dumps[d])
    BY <1>2
  <2> QED
    BY <1>1, <1>2, <2>1, <2>2, EmptyDump DEF Init, TypeInv, Present
<1>4. Placed
  BY <1>2 DEF Placed, RestoreSteps, BenchSteps, OwnSteps
<1>5. Marked /\ Guarded
  BY <1>1, <1>2 DEF Marked, Guarded, OwnSteps, BenchIsRecognized, In, Present
<1>6. Parsed /\ Compared /\ RestoredSoFar /\ Unchanged
  BY <1>2 DEF Parsed, Compared, RestoredSoFar, RestoreSteps, Unchanged
<1> QED
  BY <1>3, <1>4, <1>5, <1>6 DEF IInv

\* The actions that leave the server and the dumps as they are.
LEMMA TypeFrame ==
  ASSUME TypeInv, SameServer, UNCHANGED <<config, dumps>>, IsDump(made'), fresh' \subseteq DOMAIN dumps',
         failed' \in BOOLEAN, blurred' \in BOOLEAN, writesLeft' \in Nat
  PROVE  TypeInv'
  BY DEF TypeInv, SameServer, Present

\* The actions that change the server, and nothing else that has a type.
LEMMA TypeChange ==
  ASSUME TypeInv, Owned, UNCHANGED <<config, dumps, made, failed>>, fresh' \subseteq DOMAIN dumps',
         blurred' \in BOOLEAN, writesLeft' \in Nat
  PROVE  TypeInv'
  BY DEF TypeInv, Owned, Present

\* During a restore the item is one of the latest dump, with its structure.
LEMMA RecordedHasOptions ==
  ASSUME TypeInv, Placed, step \in {"ensure", "documents", "indexes"}
  PROVE  /\ todo \in Seq(DOMAIN Latest) /\ todo # <<>> /\ Item \in DOMAIN Latest /\ Item \in ToSet(todo)
         /\ IsStructure(Latest[Item].recorded)
         /\ Latest[Item].recorded.options
              = [k \in DOMAIN Latest[Item].recorded.options |-> Latest[Item].recorded.options[k]]
<1>1. dumps # <<>> /\ todo \in Seq(DOMAIN Latest) /\ todo # <<>>
  BY DEF Placed, RestoreSteps
<1>2. Item \in DOMAIN Latest /\ Item \in ToSet(todo)
  BY <1>1, Dequeued DEF Item
<1> QED
  BY <1>1, <1>2, LatestIsRecorded DEF IsStructure

\* A restore makes a missing collection from what was recorded of it.
LEMMA EnsureCollectionEffect ==
  ASSUME TypeInv, Placed, EnsureCollection
  PROVE  Grown(Item) /\ (Item \notin Present => server'[Item] = Created(Latest[Item].recorded))
<1>1. step = "ensure" /\ Ensure(Item, Latest[Item].recorded)
  BY DEF EnsureCollection
<1> QED
  BY <1>1, RecordedHasOptions, EnsureEffect

\* mark_bench_database touches the marker only.
LEMMA MarkEffect ==
  ASSUME TypeInv, Mark \/ Remark
  PROVE  Grown(Marker)
<1>1. Ensure(Marker, Nothing)
  BY DEF Mark, Remark
<1>2. Nothing.options = [k \in DOMAIN Nothing.options |-> Nothing.options[k]]
  BY DEF Nothing
<1> QED
  BY <1>1, <1>2, EnsureEffect

\* Seeding and reloading touch the bench's own collection only.
LEMMA SeedEffect ==
  ASSUME TypeInv, Seed \/ Reload
  PROVE  Grown(Clients)
<1>1. Put(Clients, [Created(Nothing) EXCEPT !.docs = Head(todo)])
  BY DEF Seed, Reload
<1> QED
  BY <1>1, EmptyIsCollection, CountedIsCollection, PutEffect

\* Every drop of a bench stays within the bench's database.
LEMMA DropsEffect ==
  ASSUME TypeInv, GuardDrops \/ Measure \/ (SizeDone /\ ~cmd.keep)
  PROVE  Shrunk(In(BenchDb))
  BY DropEffect DEF GuardDrops, Measure, SizeDone

\* No step breaks the types of the strengthened invariant.
LEMMA TypeStep == TypeInv /\ Placed /\ [Next]_vars => TypeInv'
<1> SUFFICES ASSUME TypeInv, Placed, [Next]_vars PROVE TypeInv'
  OBVIOUS
<1> USE DEF worldVars, localVars, bounds
<1>1. fresh \subseteq DOMAIN dumps /\ failed \in BOOLEAN /\ blurred \in BOOLEAN /\ writesLeft \in Nat /\ IsDump(made)
  BY DEF TypeInv
<1>2. Exit => IsDump(made') /\ failed' \in BOOLEAN /\ blurred' \in BOOLEAN
  BY EmptyDump DEF Exit
<1>3. CASE Begin
  BY <1>1, <1>3, TypeFrame DEF Begin, SameServer
<1>4. CASE Refuse \/ Report \/ GuardRefuses \/ FinishBench \/ FinishValidate \/ Interrupted
  BY <1>1, <1>2, <1>4, TypeFrame
     DEF Refuse, Report, GuardRefuses, FinishBench, FinishValidate, Interrupted, SameServer
<1>5. CASE StartDump \/ StartRestore \/ StartValidate \/ StartBench \/ ListDatabases \/ ListCollections
  BY <1>1, <1>5, TypeFrame
     DEF StartDump, StartRestore, StartValidate, StartBench, ListDatabases, ListCollections, SameServer
<1>6. CASE DumpItem
  <2>1. PICK isLost \in BOOLEAN :
          made' = Bind(made, Head(todo),
                       [recorded |-> ReadStructure(IF cmd.noIndexes THEN Nothing ELSE Live(Head(todo)), isLost),
                        docs |-> Live(Head(todo)).docs, there |-> Live(Head(todo))])
    BY <1>6 DEF DumpItem
  <2> DEFINE read == ReadStructure(IF cmd.noIndexes THEN Nothing ELSE Live(Head(todo)), isLost)
             entry == [recorded |-> read, docs |-> Live(Head(todo)).docs, there |-> Live(Head(todo))]
  <2>2. IsStructure(entry.recorded)
    BY LiveIsCollection, NothingIsStructure
  <2>3. made' = Bind(made, Head(todo), entry)
    BY <2>1
  <2> HIDE DEF entry
  <2>4. made' = [c \in DOMAIN made \cup {Head(todo)} |-> IF c = Head(todo) THEN entry ELSE made[c]]
    BY <2>3 DEF Bind
  <2>5. IsFiniteSet(DOMAIN made \cup {Head(todo)})
    BY <1>1, FS_AddElement DEF IsDump
  <2>6. IsDump(made')
    BY <1>1, <2>2, <2>4, <2>5 DEF IsDump
  <2> QED
    BY <1>1, <1>6, <2>6, TypeFrame DEF DumpItem, SameServer
<1>7. CASE FinishDump
  <2>1. dumps' = Append(dumps, made) /\ SameServer /\ UNCHANGED <<config, fresh, writesLeft>>
    BY <1>7 DEF FinishDump, SameServer
  <2>2. /\ dumps' \in Seq({dumps'[d] : d \in DOMAIN dumps'})
        /\ \A d \in DOMAIN dumps' : IsDump(dumps'[d])
        /\ DOMAIN dumps \subseteq DOMAIN dumps'
    BY <1>1, <2>1, Appended DEF TypeInv
  <2> QED
    BY <1>1, <1>2, <1>7, <2>1, <2>2 DEF TypeInv, FinishDump, SameServer, Present
<1>8. CASE Clean
  BY <1>1, <1>8, CleanEffect, TypeFrame, TypeChange DEF Clean
<1>9. CASE EnsureCollection
  BY <1>1, <1>9, EnsureCollectionEffect, TypeChange DEF EnsureCollection, Grown
<1>10. CASE InsertDocuments
  BY <1>1, <1>10, InsertEffect, TypeFrame, TypeChange DEF InsertDocuments, Grown
<1>11. CASE InsertRefused \/ IndexRefused \/ ItemRestored
  BY <1>1, <1>11, TypeFrame DEF InsertRefused, IndexRefused, ItemRestored, SameServer
<1>12. CASE CreateIndex
  BY <1>1, <1>12, IndexEffect, TypeChange DEF CreateIndex, Grown
<1>13. CASE FinishRestore
  <2>1. fresh' \in {{}, {Len(dumps)}}
    BY <1>13 DEF FinishRestore
  <2>2. dumps # <<>>
    BY <1>13 DEF FinishRestore, Placed, RestoreSteps
  <2>3. fresh' \subseteq DOMAIN dumps
    BY <2>1, <2>2, LatestIsRecorded
  <2> QED
    BY <1>1, <1>2, <1>13, <2>3, TypeFrame DEF FinishRestore, SameServer
<1>14. CASE DiffItem
  BY <1>1, <1>14, TypeFrame DEF DiffItem, SameServer
<1>15. CASE GuardDrops \/ Measure
  BY <1>1, <1>15, DropsEffect, TypeChange DEF GuardDrops, Measure, BenchStep, Shrunk
<1>16. CASE Mark \/ Remark
  BY <1>1, <1>16, MarkEffect, TypeChange DEF Mark, Remark, BenchStep, Grown
<1>17. CASE Seed \/ Reload
  BY <1>1, <1>17, SeedEffect, TypeChange DEF Seed, Reload, BenchStep, Grown
<1>18. CASE SizeDone
  BY <1>1, <1>18, DropsEffect, TypeFrame, TypeChange DEF SizeDone, Shrunk, SameServer
<1>19. CASE UserWrite
  <2>1. writesLeft' \in Nat /\ blurred' \in BOOLEAN /\ fresh' = {} /\ UNCHANGED <<dumps, config, made, failed>>
    BY <1>1, <1>19 DEF UserWrite
  <2> QED
    BY <1>19, <2>1, UserEffect, TypeChange
<1>20. CASE UNCHANGED vars
  BY <1>20 DEF TypeInv, vars, Present
<1> QED
  BY <1>3, <1>4, <1>5, <1>6, <1>7, <1>8, <1>9, <1>10, <1>11, <1>12, <1>13, <1>14, <1>15, <1>16, <1>17, <1>18,
     <1>19, <1>20 DEF Next, Bench

\* A command that exits leaves nothing in hand.
LEMMA ExitPlaces ==
  ASSUME Exit, fresh' = fresh \/ step' = "idle"
  PROVE  Placed'
  BY DEF Exit, Placed, None, RestoreSteps, BenchSteps, OwnSteps

\* `latest` changes only when a dump completes.
LEMMA LatestStays == dumps' = dumps => Latest' = Latest
  BY DEF Latest

\* Each step leads to a place its command can be in.
LEMMA PlacedStep == TypeInv /\ Placed /\ [Next]_vars => Placed'
<1> SUFFICES ASSUME TypeInv, Placed, [Next]_vars PROVE Placed'
  OBVIOUS
<1> USE DEF worldVars, localVars, bounds
<1>0. cmd # None => cmd.name \in {"dump", "restore", "validate_schema", "validate_data", "bench",
                                  "list_transformers", "list_dumps"} /\ cmd \in Commands
  BY DEF Placed
<1>1. None.name = "none"
  BY DEF None
<1>2. CASE Begin
  BY <1>0, <1>1, <1>2 DEF Begin, Placed, RestoreSteps, BenchSteps, OwnSteps
<1>3. CASE Refuse \/ Report \/ GuardRefuses \/ FinishBench \/ FinishValidate \/ Interrupted \/ FinishDump \/ FinishRestore
  <2>1. Exit
    BY <1>3 DEF Refuse, Report, GuardRefuses, FinishBench, FinishValidate, Interrupted, FinishDump, FinishRestore
  <2> QED
    BY <2>1, ExitPlaces DEF Exit
<1>4. CASE StartDump
  BY <1>0, <1>1, <1>4 DEF StartDump, Placed, RestoreSteps, BenchSteps, OwnSteps
<1>5. CASE StartRestore
  <2>1. dumps # <<>>
    BY <1>5, ChecksAreMade DEF StartRestore
  <2>2. todo' \in Seq(DOMAIN Latest')
    BY <1>5, <2>1, LatestIsRecorded, LatestStays, Queued DEF StartRestore
  <2> QED
    BY <1>0, <1>1, <1>5, <2>1, <2>2 DEF StartRestore, Placed, RestoreSteps, BenchSteps, OwnSteps
<1>6. CASE StartValidate
  <2>1. dumps # <<>>
    BY <1>6, ChecksAreMade DEF StartValidate
  <2>2. todo' \in Seq(DOMAIN Latest')
    BY <1>6, <2>1, LatestIsRecorded, LatestStays, Queued DEF StartValidate
  <2> QED
    BY <1>0, <1>1, <1>6, <2>1, <2>2 DEF StartValidate, Placed, RestoreSteps, BenchSteps, OwnSteps
<1>7. CASE StartBench
  BY <1>0, <1>1, <1>7 DEF StartBench, Placed, RestoreSteps, BenchSteps, OwnSteps
<1>8. CASE DumpItem
  BY <1>8 DEF DumpItem, Placed, RestoreSteps, BenchSteps, OwnSteps
<1>9. CASE DiffItem
  <2>1. todo' \in Seq(DOMAIN Latest')
    BY <1>9, LatestStays, Dequeued DEF DiffItem, Placed
  <2> QED
    BY <1>9, <2>1 DEF DiffItem, Placed, RestoreSteps, BenchSteps, OwnSteps
<1>10. CASE Clean \/ EnsureCollection \/ InsertDocuments \/ CreateIndex
  <2>1. /\ UNCHANGED <<cmd, todo, dumps, fresh>> /\ Latest' = Latest
        /\ step \in RestoreSteps /\ step' \in {"ensure", "documents", "indexes"} /\ todo # <<>>
    BY <1>10, LatestStays DEF Clean, EnsureCollection, InsertDocuments, CreateIndex, Placed, RestoreSteps
  <2> QED
    BY <2>1 DEF Placed, RestoreSteps, BenchSteps, OwnSteps
<1>11. CASE InsertRefused \/ IndexRefused \/ ItemRestored
  <2>1. /\ UNCHANGED <<cmd, dumps, fresh>> /\ step' = "clean" /\ todo' = Tail(todo)
        /\ step \in {"documents", "indexes"}
    BY <1>11 DEF InsertRefused, IndexRefused, ItemRestored, NextItem
  <2>2. todo' \in Seq(DOMAIN Latest')
    BY <2>1, LatestStays, Dequeued DEF Placed, RestoreSteps
  <2> QED
    BY <2>1, <2>2 DEF Placed, RestoreSteps, BenchSteps, OwnSteps
<1>12. CASE ListDatabases \/ ListCollections \/ GuardDrops \/ Mark \/ Seed \/ Measure \/ Remark \/ Reload \/ SizeDone
  <2>1. UNCHANGED <<cmd, dumps, fresh>> /\ step \in BenchSteps /\ step' \in BenchSteps
    BY <1>12 DEF ListDatabases, ListCollections, GuardDrops, Mark, Seed, Measure, Remark, Reload, SizeDone,
                 BenchStep, BenchSteps, OwnSteps
  <2> QED
    BY <2>1 DEF Placed, RestoreSteps, BenchSteps, OwnSteps
<1>13. CASE UserWrite
  <2>1. UNCHANGED <<cmd, step, todo, dumps, pending>> /\ fresh' = {} /\ Latest' = Latest
    BY <1>13, LatestStays DEF UserWrite
  <2> QED
    BY <2>1 DEF Placed
<1>14. CASE UNCHANGED vars
  <2>1. UNCHANGED <<cmd, step, todo, dumps, pending, fresh>> /\ Latest' = Latest
    BY <1>14, LatestStays DEF vars
  <2> QED
    BY <2>1 DEF Placed
<1> QED
  BY <1>2, <1>3, <1>4, <1>5, <1>6, <1>7, <1>8, <1>9, <1>10, <1>11, <1>12, <1>13, <1>14 DEF Next, Bench

\* A command's file does not change under it.
LEMMA ParsedStep == Placed /\ Parsed /\ [Next]_vars => Parsed'
<1> SUFFICES ASSUME Placed, Parsed, [Next]_vars PROVE Parsed'
  OBVIOUS
<1> USE DEF worldVars, localVars, bounds
<1>1. config' = config => Settings' = Settings
  BY DEF Settings
<1>2. CASE StartDump \/ StartRestore \/ StartValidate \/ StartBench
  <2>1. UNCHANGED <<config, cmd>> /\ ~Refused(cmd) /\ cmd.name \in {"dump", "restore", "validate_schema", "bench"}
    BY <1>2 DEF StartDump, StartRestore, StartValidate, StartBench
  <2> QED
    BY <1>1, <2>1, ChecksAreMade DEF Parsed
<1>3. CASE Begin \/ Refuse \/ Report \/ GuardRefuses \/ FinishBench \/ FinishValidate \/ Interrupted \/ FinishDump \/ FinishRestore
  <2>1. step' \in {"idle", "checks"}
    BY <1>3 DEF Begin, Exit, Refuse, Report, GuardRefuses, FinishBench, FinishValidate, Interrupted, FinishDump, FinishRestore
  <2> QED
    BY <2>1 DEF Parsed
<1>4. CASE \/ DumpItem \/ DiffItem \/ Clean \/ EnsureCollection \/ InsertDocuments \/ CreateIndex
           \/ InsertRefused \/ IndexRefused \/ ItemRestored
           \/ ListDatabases \/ ListCollections \/ GuardDrops
           \/ Mark \/ Seed \/ Measure \/ Remark \/ Reload \/ SizeDone
  <2>1. UNCHANGED <<config, cmd>> /\ step \notin {"idle", "checks"}
    BY <1>4 DEF DumpItem, DiffItem, Clean, EnsureCollection, InsertDocuments, CreateIndex,
                InsertRefused, IndexRefused, ItemRestored, ListDatabases, ListCollections, GuardDrops,
                Mark, Seed, Measure, Remark, Reload, SizeDone, BenchStep
  <2> QED
    BY <1>1, <2>1 DEF Parsed
<1>5. CASE UserWrite \/ UNCHANGED vars
  <2>1. UNCHANGED <<config, cmd, step>>
    BY <1>5 DEF UserWrite, vars
  <2> QED
    BY <1>1, <2>1 DEF Parsed
<1> QED
  BY <1>2, <1>3, <1>4, <1>5 DEF Next, Bench

-----------------------------------------------------------------------------
(* The bench *)

LEMMA SameServerMarks ==
  ASSUME Marked, SameServer, step' \in {"seed", "measure", "reload", "drop"} => Marker \in Present
  PROVE  Marked'
  BY DEF Marked, BenchIsRecognized, OnlySystem, SameServer, In, Present

\* Writing one collection keeps the bench's leftovers marked, if a bench writes
\* only where the marker is.
LEMMA GrownMarks ==
  ASSUME Marked, NEW c, Grown(c), cmd.name \in {"restore", "bench"},
         cmd.name = "bench" => Marker \in Present',
         c = Marker => cmd.name = "restore" \/ OnlySystem,
         step' \in {"seed", "measure", "reload", "drop"} => Marker \in Present'
  PROVE  Marked' /\ (OnlySystem => OnlySystem')
<1>1. /\ Present' = Present \cup {c}
      /\ \A x \in Present : owner'[x] = owner[x]
      /\ c \notin Present => owner'[c] = cmd.name
  BY DEF Grown
<1>2. OnlySystem => OnlySystem'
  BY <1>1 DEF OnlySystem, In
<1>3. BenchIsRecognized'
  BY <1>1 DEF Marked, BenchIsRecognized, In
<1>4. Marker \in Present' => owner'[Marker] = "restore" \/ (owner'[Marker] = "bench" /\ OnlySystem')
  BY <1>1, <1>2 DEF Marked
<1> QED
  BY <1>2, <1>3, <1>4 DEF Marked

\* Dropping the bench's database leaves nothing that would need a marker.
LEMMA ShrunkMarks ==
  ASSUME Shrunk(In(BenchDb)), step' \notin {"seed", "measure", "reload", "drop"}
  PROVE  Marked' /\ OnlySystem'
<1>1. In(BenchDb)' = {}
  BY DEF Shrunk, In
<1>2. Marker \notin Present'
  BY <1>1 DEF In, Marker
<1> QED
  BY <1>1, <1>2 DEF Marked, BenchIsRecognized, OnlySystem

\* Another client's write never leaves a bench's collection without its marker.
LEMMA UserMarks ==
  ASSUME TypeInv, Marked, Guarded, UserWrite
  PROVE  /\ Marked'
         /\ step \in BenchSteps /\ cmd.name = "bench" => Guarded'
<1>1. PICK w \in UserWrites :
           /\ Owned
           /\ Present \ {w.at} \subseteq Present' /\ Present' \subseteq Present \cup {w.at}
           /\ \A x \in Present \ {w.at} : server'[x] = server[x] /\ owner'[x] = owner[x]
           /\ w.at \in Present' =>
                owner'[w.at] = IF w.at[1] = BenchDb /\ (Marker \in Present \/ cmd.name = "bench")
                               THEN "stray" ELSE "user"
  BY UserEffect
<1>2. w.at # Marker
  BY UserWritesAssumption
<1>3. UNCHANGED <<step, cmd, pending>>
  BY DEF UserWrite
<1>4. Marker \in Present <=> Marker \in Present'
  BY <1>1, <1>2
<1>5. Marker \in Present => owner'[Marker] = owner[Marker]
  BY <1>1, <1>2
<1>6. (Marker \in Present \/ cmd.name = "bench") /\ OnlySystem => OnlySystem'
  BY <1>1 DEF OnlySystem, In
<1>7. BenchIsRecognized'
  BY <1>1, <1>4 DEF Marked, BenchIsRecognized, In
<1>8. Marked'
  BY <1>3, <1>4, <1>5, <1>6, <1>7 DEF Marked
<1>9. ASSUME cmd.name = "bench" PROVE Guarded'
  <2>1. step = "decide" =>
          \A c \in In(BenchDb)' : owner'[c] = "user" => c[2] = "system" \/ c \in pending
    BY <1>1, <1>9 DEF Guarded, In
  <2> QED
    BY <1>3, <1>4, <1>6, <1>9, <2>1 DEF Guarded
<1> QED
  BY <1>8, <1>9

\* No bench is at work.
LEMMA Elsewhere ==
  ASSUME step' \notin BenchSteps
  PROVE  Guarded'
  BY DEF Guarded, BenchSteps, OwnSteps

\* No step leaves a collection of a bench in a database without the marker, and
\* none takes from the guard what it has seen.
LEMMA MarkedStep == TypeInv /\ Placed /\ Marked /\ Guarded /\ [Next]_vars => Marked' /\ Guarded'
<1> SUFFICES ASSUME TypeInv, Placed, Marked, Guarded, [Next]_vars PROVE Marked' /\ Guarded'
  OBVIOUS
<1> USE DEF worldVars, localVars, bounds
<1>1. CASE \/ Begin \/ Refuse \/ Report \/ GuardRefuses \/ FinishBench \/ FinishValidate \/ Interrupted
           \/ FinishDump \/ FinishRestore \/ StartDump \/ StartRestore \/ StartValidate \/ StartBench
           \/ DumpItem \/ DiffItem \/ InsertRefused \/ IndexRefused \/ ItemRestored
  <2>1. SameServer /\ step' \notin {"seed", "measure", "reload", "drop", "decide"} \cup OwnSteps
    BY <1>1 DEF Begin, Exit, Refuse, Report, GuardRefuses, FinishBench, FinishValidate, Interrupted,
                FinishDump, FinishRestore, StartDump, StartRestore, StartValidate, StartBench, DumpItem,
                DiffItem, InsertRefused, IndexRefused, ItemRestored, NextItem, SameServer, OwnSteps
  <2>2. Guarded'
    BY <2>1 DEF Guarded
  <2> QED
    BY <2>1, <2>2, SameServerMarks
<1>2. CASE ListDatabases
  <2>1. SameServer /\ step' \in {"mark", "list"} /\ (step' = "mark" => In(BenchDb) = {})
    BY <1>2 DEF ListDatabases, SameServer
  <2>2. In(BenchDb)' = In(BenchDb)
    BY <2>1 DEF SameServer, In, Present
  <2>3. Guarded'
    BY <2>1, <2>2 DEF Guarded, OnlySystem, OwnSteps
  <2> QED
    BY <2>1, <2>3, SameServerMarks
<1>3. CASE ListCollections
  <2>1. SameServer /\ step' = "decide" /\ pending' = Listed \cap In(BenchDb)
    BY <1>3 DEF ListCollections, SameServer
  <2>2. In(BenchDb)' = In(BenchDb) /\ Present' = Present
    BY <2>1 DEF SameServer, In, Present
  <2>3. Guarded'
    BY <2>1, <2>2 DEF Guarded, OwnSteps, Listed, In, SameServer
  <2> QED
    BY <2>1, <2>3, SameServerMarks
<1>4. CASE Clean
  <2>1. step' = "ensure"
    BY <1>4 DEF Clean
  <2>2. CASE SameServer
    BY <2>1, <2>2, Elsewhere, SameServerMarks DEF BenchSteps, OwnSteps
  <2>3. CASE ~SameServer
    <3>1. /\ Present' = Present \ {Item}
          /\ \A x \in Present' : owner'[x] = IF owner[x] = "bench" THEN "restore" ELSE owner[x]
      BY <1>4, <2>3, CleanEffect
    <3>2. Marked'
      BY <2>1, <3>1 DEF Marked, BenchIsRecognized, In
    <3> QED
      BY <2>1, <3>2, Elsewhere DEF BenchSteps, OwnSteps
  <2> QED
    BY <2>2, <2>3
<1>5. CASE EnsureCollection \/ InsertDocuments \/ CreateIndex
  <2>1. cmd.name = "restore" /\ step' \in RestoreSteps
    BY <1>5 DEF EnsureCollection, InsertDocuments, CreateIndex, Placed, RestoreSteps, BenchSteps, OwnSteps, None
  <2>2. SameServer \/ Grown(Item)
    BY <1>5, EnsureCollectionEffect, InsertEffect, IndexEffect
  <2>3. Guarded'
    BY <2>1, Elsewhere DEF BenchSteps, OwnSteps, RestoreSteps
  <2>4. step' \notin {"seed", "measure", "reload", "drop"}
    BY <2>1 DEF RestoreSteps
  <2> QED
    BY <2>1, <2>2, <2>3, <2>4, SameServerMarks, GrownMarks
<1>6. CASE GuardDrops \/ Measure
  <2>1. Marked' /\ OnlySystem'
    BY <1>6, DropsEffect, ShrunkMarks DEF GuardDrops, Measure, BenchStep
  <2> QED
    BY <1>6, <2>1 DEF GuardDrops, Measure, BenchStep, Guarded
<1>7. CASE Mark \/ Remark
  <2>1. step \in OwnSteps /\ cmd.name = "bench" /\ step' \in OwnSteps
    BY <1>7 DEF Mark, Remark, BenchStep, OwnSteps
  <2>2. Grown(Marker) /\ Marker \in Present' /\ OnlySystem
    BY <1>7, <2>1, MarkEffect DEF Grown, Guarded
  <2>3. Marked' /\ OnlySystem'
    BY <2>1, <2>2, GrownMarks
  <2> QED
    BY <2>1, <2>3 DEF Guarded, OwnSteps
<1>8. CASE Seed \/ Reload
  <2>1. step \in {"seed", "reload"} /\ cmd.name = "bench" /\ step' \in OwnSteps
    BY <1>8 DEF Seed, Reload, BenchStep, OwnSteps
  <2>2. Grown(Clients) /\ Marker \in Present' /\ OnlySystem
    BY <1>8, <2>1, SeedEffect DEF Grown, Guarded, Marked, OwnSteps
  <2>3. Marked' /\ OnlySystem'
    BY <2>1, <2>2, GrownMarks
  <2> QED
    BY <2>1, <2>3 DEF Guarded, OwnSteps
<1>9. CASE SizeDone
  <2>1. step' = "guard" /\ Guarded'
    BY <1>9 DEF SizeDone, Guarded, OwnSteps
  <2>2. CASE cmd.keep
    BY <1>9, <2>1, <2>2, SameServerMarks DEF SizeDone, SameServer
  <2>3. CASE ~cmd.keep
    BY <1>9, <2>1, <2>3, DropsEffect, ShrunkMarks
  <2> QED
    BY <2>1, <2>2, <2>3
<1>10. CASE UserWrite
  <2>1. CASE step \in BenchSteps
    <3>1. cmd.name = "bench"
      BY <2>1 DEF Placed, RestoreSteps, BenchSteps, OwnSteps
    <3> QED
      BY <1>10, <2>1, <3>1, UserMarks
  <2>2. CASE step \notin BenchSteps
    BY <1>10, <2>2, UserMarks, Elsewhere DEF UserWrite
  <2> QED
    BY <2>1, <2>2
<1>11. CASE UNCHANGED vars
  <2>1. SameServer /\ UNCHANGED <<step, pending>>
    BY <1>11 DEF vars, SameServer
  <2>2. Guarded'
    BY <2>1 DEF Guarded, OnlySystem, In, Present, SameServer
  <2> QED
    BY <2>1, <2>2, SameServerMarks DEF Marked
<1> QED
  BY <1>1, <1>2, <1>3, <1>4, <1>5, <1>6, <1>7, <1>8, <1>9, <1>10, <1>11 DEF Next, Bench

-----------------------------------------------------------------------------
(* What is compared, and what is restored *)

LEMMA SomebodyRuns == Placed /\ step # "idle" => cmd # None
  BY DEF Placed, None

\* Nothing that a collection is judged by has changed.
LEMMA SameReading ==
  ASSUME UNCHANGED dumps, NEW c, c \in Present' <=> c \in Present, c \in Present => server'[c] = server[c]
  PROVE  AsRecorded(c)' <=> AsRecorded(c)
<1>1. Live(c)' = Live(c) /\ Latest' = Latest
  BY LatestStays DEF Live
<1> QED
  BY <1>1 DEF AsRecorded

\* The report so far is empty exactly if the collections compared so far agree.
LEMMA ComparedStep == TypeInv /\ Placed /\ Compared /\ [Next]_vars => Compared'
<1> SUFFICES ASSUME TypeInv, Placed, Compared, [Next]_vars PROVE Compared'
  OBVIOUS
<1> USE DEF worldVars, localVars, bounds
<1>1. CASE step' # "diff"
  BY <1>1 DEF Compared
<1>2. CASE StartValidate
  <2>1. pending' = {} /\ dumps # <<>> /\ todo' = SetToSeq(DOMAIN Latest) /\ Latest' = Latest
    BY <1>2, ChecksAreMade, LatestStays DEF StartValidate, Placed
  <2>2. ToSet(todo') = DOMAIN Latest'
    BY <2>1, LatestIsRecorded, Queued
  <2> QED
    BY <2>1, <2>2 DEF Compared
<1>3. CASE DiffItem
  <2>1. PICK isLost \in BOOLEAN :
          /\ blurred' = (blurred \/ isLost)
          /\ pending' = pending \cup DiffCollection(Latest[Item].recorded, ReadStructure(Live(Item), isLost))
    BY <1>3 DEF DiffItem
  <2>2. /\ step = "diff" /\ todo # <<>> /\ todo' = Tail(todo) /\ SameServer
        /\ UNCHANGED dumps /\ Latest' = Latest
    BY <1>3, LatestStays DEF DiffItem, SameServer
  <2>3. dumps # <<>> /\ todo \in Seq(DOMAIN Latest)
    BY <2>2 DEF Placed
  <2>4. Item \in DOMAIN Latest /\ ToSet(todo) = ToSet(todo') \cup {Item}
    BY <2>2, <2>3, Dequeued DEF Item
  <2>5. IsStructure(Latest[Item].recorded) /\ IsStructure(ReadStructure(Live(Item), FALSE))
    BY <2>3, <2>4, LatestIsRecorded, LiveIsCollection
  <2>6. \A c : AsRecorded(c)' <=> AsRecorded(c)
    BY <2>2, SameReading DEF SameServer, Present
  <2>7. ASSUME ~blurred'
        PROVE  pending' = {} <=> pending = {} /\ AsRecorded(Item)
    <3> DEFINE drift == DiffCollection(Latest[Item].recorded, ReadStructure(Live(Item), FALSE))
    <3>1. isLost = FALSE
      BY <2>1, <2>7
    <3>2. pending' = pending \cup drift
      BY <2>1, <3>1
    <3>3. drift = {} <=> AsRecorded(Item)
      BY <2>5, NoDrift DEF AsRecorded
    <3> HIDE DEF drift
    <3> QED
      BY <3>2, <3>3
  <2>8. ~blurred' => ~blurred
    BY <2>1
  <2> QED
    BY <2>2, <2>4, <2>6, <2>7, <2>8 DEF Compared
<1>4. CASE UserWrite /\ step = "diff"
  <2>1. blurred' = TRUE
    BY <1>4, SomebodyRuns DEF UserWrite
  <2> QED
    BY <2>1 DEF Compared
<1>5. CASE UNCHANGED vars
  <2>1. SameServer /\ UNCHANGED <<step, blurred, pending, todo, dumps>> /\ Latest' = Latest
    BY <1>5, LatestStays DEF vars, SameServer
  <2>2. \A c : AsRecorded(c)' <=> AsRecorded(c)
    BY <2>1, SameReading DEF SameServer, Present
  <2> QED
    BY <2>1, <2>2 DEF Compared
<1>6. CASE \/ Begin \/ Refuse \/ Report \/ GuardRefuses \/ FinishBench \/ FinishValidate \/ Interrupted
           \/ FinishDump \/ FinishRestore \/ StartDump \/ StartRestore \/ StartBench
  <2>1. step' # "diff"
    BY <1>6 DEF Begin, Exit, Refuse, Report, GuardRefuses, FinishBench, FinishValidate, Interrupted,
                FinishDump, FinishRestore, StartDump, StartRestore, StartBench
  <2> QED
    BY <1>1, <2>1
<1>7. CASE \/ DumpItem \/ InsertRefused \/ IndexRefused \/ ItemRestored \/ Clean \/ EnsureCollection
           \/ InsertDocuments \/ CreateIndex \/ ListDatabases \/ ListCollections \/ GuardDrops
           \/ Mark \/ Seed \/ Measure \/ Remark \/ Reload \/ SizeDone
  <2>1. step' # "diff"
    BY <1>7 DEF DumpItem, InsertRefused, IndexRefused, ItemRestored, NextItem, Clean, EnsureCollection,
                InsertDocuments, CreateIndex, ListDatabases, ListCollections, GuardDrops,
                Mark, Seed, Measure, Remark, Reload, SizeDone, BenchStep
  <2> QED
    BY <1>1, <2>1
<1>8. UserWrite => step' = step
  BY DEF UserWrite
<1> QED
  BY <1>1, <1>2, <1>3, <1>4, <1>5, <1>6, <1>7, <1>8 DEF Next, Bench

\* A restore under way, whose end would be called whole.
Faithful == ~failed /\ ~blurred /\ Whole(cmd)

Kept == \A c \in DOMAIN Latest \ ToSet(todo) : Telling(Latest[c].recorded) => AsRecorded(c)

\* What a restore wants depends only on the command, the file and the dump.
LEMMA SameOptions ==
  ASSUME UNCHANGED <<config, cmd, dumps>>
  PROVE  /\ Whole(cmd)' = Whole(cmd) /\ ExcludedIndexes(cmd)' = ExcludedIndexes(cmd)
         /\ Latest' = Latest /\ \A c : Wanted(c)' = Wanted(c)
<1>1. Settings' = Settings /\ Latest' = Latest
  BY DEF Settings, Latest
<1> QED
  BY <1>1 DEF Whole, Cleans, ExcludedIndexes, Wanted

\* The others stay as they were made.
LEMMA KeptBeside ==
  ASSUME Kept, UNCHANGED <<dumps, todo>>, Item \in ToSet(todo),
         \A x : x # Item => (x \in Present' <=> x \in Present) /\ (x \in Present => server'[x] = server[x])
  PROVE  Kept'
<1>1. \A c \in DOMAIN Latest \ ToSet(todo) : AsRecorded(c)' <=> AsRecorded(c)
  BY SameReading
<1>2. Latest' = Latest
  BY LatestStays
<1> QED
  BY <1>1, <1>2 DEF Kept

\* What a whole restore has finished of each collection reads as recorded.
LEMMA RestoredStep == TypeInv /\ Placed /\ RestoredSoFar /\ [Next]_vars => RestoredSoFar'
<1> SUFFICES ASSUME TypeInv, Placed, RestoredSoFar, [Next]_vars, step' \in RestoreSteps, Faithful'
             PROVE  /\ Kept'
                    /\ step' = "ensure" => (Item \notin Present)'
                    /\ step' = "documents" => Holds(Item, {})'
                    /\ step' = "indexes" =>
                         (pending \subseteq Wanted(Item) /\ Holds(Item, Wanted(Item) \ pending))'
  BY DEF RestoredSoFar, Faithful, Kept
<1> USE DEF worldVars, localVars, bounds
<1>1. step \in RestoreSteps /\ Faithful => Kept
  BY DEF RestoredSoFar, Faithful, Kept
<1>2. CASE StartRestore
  <2>1. dumps # <<>> /\ todo' = SetToSeq(DOMAIN Latest) /\ Latest' = Latest /\ step' = "clean"
    BY <1>2, ChecksAreMade, LatestStays DEF StartRestore
  <2>2. ToSet(todo') = DOMAIN Latest'
    BY <2>1, LatestIsRecorded, Queued
  <2> QED
    BY <2>1, <2>2 DEF Kept
<1>3. CASE Clean
  <2>1. /\ UNCHANGED <<config, cmd, dumps, todo, failed, blurred>> /\ step = "clean" /\ step' = "ensure"
        /\ todo # <<>>
    BY <1>3 DEF Clean
  <2>2. Faithful /\ Cleans(cmd) /\ Item' = Item
    BY <2>1, SameOptions DEF Faithful, Whole, Item
  <2>3. Item \in ToSet(todo)
    BY <2>1, Dequeued DEF Placed, RestoreSteps, Item
  <2>4. /\ Item \notin Present'
        /\ \A x : x # Item => (x \in Present' <=> x \in Present) /\ (x \in Present => server'[x] = server[x])
    BY <1>3, <2>2, CleanEffect DEF SameServer, Present
  <2>5. Kept'
    BY <1>1, <2>1, <2>2, <2>3, <2>4, KeptBeside DEF RestoreSteps
  <2> QED
    BY <2>1, <2>2, <2>4, <2>5
<1>4. CASE EnsureCollection
  <2>1. UNCHANGED <<config, cmd, dumps, todo, failed, blurred>> /\ step = "ensure" /\ step' = "documents"
    BY <1>4 DEF EnsureCollection
  <2>2. Faithful /\ Item' = Item /\ Latest' = Latest
    BY <2>1, SameOptions DEF Faithful, Item
  <2>3. Item \notin Present /\ Item \in ToSet(todo)
    BY <2>1, <2>2, RecordedHasOptions DEF RestoredSoFar, Faithful, RestoreSteps
  <2>4. Grown(Item) /\ server'[Item] = Created(Latest[Item].recorded)
    BY <1>4, <2>3, EnsureCollectionEffect
  <2>5. Kept'
    BY <1>1, <2>1, <2>2, <2>3, <2>4, KeptBeside DEF RestoreSteps, Grown
  <2>6. Holds(Item, {})'
    BY <2>2, <2>4 DEF Holds, Created, Grown
  <2> QED
    BY <2>1, <2>5, <2>6
<1>5. CASE InsertDocuments
  <2>1. /\ UNCHANGED <<config, cmd, dumps, todo, failed, blurred>> /\ step = "documents" /\ step' = "indexes"
        /\ pending' = Wanted(Item)
    BY <1>5 DEF InsertDocuments
  <2>2. Faithful /\ Item' = Item /\ Latest' = Latest /\ Wanted(Item)' = Wanted(Item)
    BY <2>1, SameOptions DEF Faithful, Item
  <2>3. Holds(Item, {}) /\ Item \in ToSet(todo)
    BY <2>1, <2>2, RecordedHasOptions DEF RestoredSoFar, Faithful, RestoreSteps
  <2>4. /\ Item \in Present /\ Item \in Present'
        /\ \A x : x # Item => (x \in Present' <=> x \in Present) /\ (x \in Present => server'[x] = server[x])
        /\ server'[Item].options = server[Item].options
        /\ server'[Item].validator = server[Item].validator
        /\ server'[Item].indexes = server[Item].indexes
    BY <1>5, <2>3, InsertEffect DEF Holds, SameServer, Present, Grown
  <2>5. Kept'
    BY <1>1, <2>1, <2>2, <2>3, <2>4, KeptBeside DEF RestoreSteps
  <2>6. Holds(Item, {})'
    BY <2>2, <2>3, <2>4 DEF Holds
  <2>7. Wanted(Item)' \ pending' = {}
    BY <2>1, <2>2
  <2> QED
    BY <2>1, <2>2, <2>5, <2>6, <2>7
<1>6. CASE CreateIndex
  <2>1. UNCHANGED <<config, cmd, dumps, todo, failed, blurred>> /\ step = "indexes" /\ step' = "indexes"
    BY <1>6 DEF CreateIndex
  <2>2. Faithful /\ Item' = Item /\ Latest' = Latest /\ Wanted(Item)' = Wanted(Item)
    BY <2>1, SameOptions DEF Faithful, Item
  <2>3. pending \subseteq Wanted(Item) /\ Holds(Item, Wanted(Item) \ pending) /\ Item \in ToSet(todo)
    BY <2>1, <2>2, RecordedHasOptions DEF RestoredSoFar, Faithful, RestoreSteps
  <2>4. Item \in Present
    BY <2>3 DEF Holds
  <2>5. PICK ix \in pending :
          /\ Grown(Item) /\ pending' = pending \ {ix}
          /\ server'[Item].options = server[Item].options
          /\ server'[Item].validator = server[Item].validator
          /\ server'[Item].indexes = server[Item].indexes \cup {Built(ix)}
    BY <1>6, <2>4, IndexEffect
  <2>6. Kept'
    BY <1>1, <2>1, <2>2, <2>3, <2>5, KeptBeside DEF RestoreSteps, Grown
  <2>7. Wanted(Item) \ pending' = (Wanted(Item) \ pending) \cup {ix}
    BY <2>3, <2>5
  <2> DEFINE made0 == {Built(x) : x \in Wanted(Item) \ pending}
             made1 == {Built(x) : x \in Wanted(Item) \ pending'}
  <2>8. made1 = made0 \cup {Built(ix)}
    BY <2>7
  <2>9. Holds(Item, Wanted(Item) \ pending)'
    <3>1. server[Item].indexes = (IF IsView(Latest[Item].recorded) THEN {} ELSE {IdIndex}) \cup made0
      BY <2>3 DEF Holds
    <3>2. server'[Item].indexes = (IF IsView(Latest[Item].recorded) THEN {} ELSE {IdIndex}) \cup made1
      BY <2>5, <2>8, <3>1
    <3>3. Item \in Present'
      BY <2>5 DEF Grown
    <3> QED
      BY <2>2, <2>3, <2>5, <3>2, <3>3 DEF Holds
  <2> QED
    BY <2>1, <2>2, <2>3, <2>5, <2>6, <2>9
<1>7. CASE InsertRefused \/ IndexRefused
  BY <1>7 DEF InsertRefused, IndexRefused, Faithful
<1>8. CASE ItemRestored
  <2>1. /\ UNCHANGED <<config, cmd, dumps, failed, blurred>> /\ SameServer
        /\ step = "indexes" /\ step' = "clean" /\ pending = {} /\ todo' = Tail(todo)
    BY <1>8 DEF ItemRestored, NextItem, SameServer
  <2>2. Faithful /\ Latest' = Latest /\ ExcludedIndexes(cmd) = {}
    BY <2>1, SameOptions DEF Faithful, Whole
  <2>3. Holds(Item, Wanted(Item))
    <3>1. Holds(Item, Wanted(Item) \ {})
      BY <2>1, <2>2 DEF RestoredSoFar, Faithful, RestoreSteps
    <3>2. Wanted(Item) \ {} = Wanted(Item)
      OBVIOUS
    <3> QED
      BY <3>1, <3>2
  <2>4. todo \in Seq(DOMAIN Latest) /\ todo # <<>> /\ IsStructure(Latest[Item].recorded)
    BY <2>1, RecordedHasOptions
  <2>5. Telling(Latest[Item].recorded) => AsRecorded(Item)
    BY <2>2, <2>3, <2>4, WholeReadsAsRecorded
  <2>6. ToSet(todo) = ToSet(todo') \cup {Item}
    BY <2>1, <2>4, Dequeued DEF Item
  <2>7. \A c : AsRecorded(c)' <=> AsRecorded(c)
    BY <2>1, SameReading DEF SameServer, Present
  <2>8. Kept'
    BY <1>1, <2>1, <2>2, <2>5, <2>6, <2>7 DEF Kept, RestoreSteps
  <2> QED
    BY <2>1, <2>8
<1>9. CASE UserWrite
  <2>1. step \in RestoreSteps /\ blurred' = (cmd # None)
    BY <1>9 DEF UserWrite
  <2> QED
    BY <2>1, SomebodyRuns DEF Faithful, RestoreSteps
<1>10. CASE UNCHANGED vars
  <2>1. SameServer /\ UNCHANGED <<config, cmd, dumps, todo, failed, blurred, step, pending>>
    BY <1>10 DEF vars, SameServer
  <2>2. Faithful /\ Item' = Item /\ Latest' = Latest /\ Wanted(Item)' = Wanted(Item)
    BY <2>1, SameOptions DEF Faithful, Item
  <2>3. \A c : AsRecorded(c)' <=> AsRecorded(c)
    BY <2>1, SameReading DEF SameServer, Present
  <2>4. Present' = Present /\ server' = server
    BY <2>1 DEF SameServer, Present
  <2>5. Kept'
    BY <1>1, <2>1, <2>2, <2>3 DEF Kept
  <2> QED
    BY <2>1, <2>2, <2>4, <2>5 DEF RestoredSoFar, Faithful, Holds
<1>11. CASE \/ Begin \/ Refuse \/ Report \/ GuardRefuses \/ FinishBench \/ FinishValidate \/ Interrupted
            \/ FinishDump \/ FinishRestore \/ StartDump \/ StartValidate \/ StartBench
  BY <1>11 DEF Begin, Exit, Refuse, Report, GuardRefuses, FinishBench, FinishValidate, Interrupted,
               FinishDump, FinishRestore, StartDump, StartValidate, StartBench, RestoreSteps
<1>12. CASE \/ DumpItem \/ DiffItem \/ ListDatabases \/ ListCollections \/ GuardDrops
            \/ Mark \/ Seed \/ Measure \/ Remark \/ Reload \/ SizeDone
  BY <1>12 DEF DumpItem, DiffItem, ListDatabases, ListCollections, GuardDrops,
               Mark, Seed, Measure, Remark, Reload, SizeDone, BenchStep, RestoreSteps
<1> QED
  BY <1>2, <1>3, <1>4, <1>5, <1>6, <1>7, <1>8, <1>9, <1>10, <1>11, <1>12 DEF Next, Bench

\* After a successful restore its collections read as recorded until somebody writes.
LEMMA UnchangedStep == TypeInv /\ Placed /\ RestoredSoFar /\ Unchanged /\ [Next]_vars => Unchanged'
<1> SUFFICES ASSUME TypeInv, Placed, RestoredSoFar, Unchanged, [Next]_vars PROVE Unchanged'
  OBVIOUS
<1> USE DEF worldVars, localVars, bounds
<1>1. ASSUME SameServer PROVE \A c : Live(c)' = Live(c)
  BY <1>1 DEF SameServer, Live, Present
<1>2. CASE SameServer /\ UNCHANGED dumps /\ fresh' \subseteq fresh
  BY <1>1, <1>2 DEF Unchanged
<1>3. CASE fresh' = {}
  BY <1>3 DEF Unchanged
<1>4. CASE FinishDump
  <2>1. dumps' = Append(dumps, made) /\ SameServer /\ fresh' = fresh
    BY <1>4 DEF FinishDump, SameServer
  <2>2. \A d \in fresh : dumps'[d] = dumps[d]
    BY <2>1, Appended DEF TypeInv
  <2>3. ASSUME NEW d \in fresh', NEW c \in DOMAIN dumps'[d], Telling(dumps'[d][c].recorded)
        PROVE  dumps'[d][c].recorded = ReadStructure(Live(c)', FALSE)
    BY <1>1, <2>1, <2>2, <2>3 DEF Unchanged
  <2> QED
    BY <2>3 DEF Unchanged, Telling
<1>5. CASE FinishRestore
  <2>1. /\ step = "clean" /\ todo = <<>> /\ SameServer /\ UNCHANGED dumps
        /\ fresh' = IF Faithful THEN {Len(dumps)} ELSE {}
    BY <1>5 DEF FinishRestore, SameServer, Faithful
  <2>2. CASE ~Faithful
    BY <1>3, <2>1, <2>2
  <2>3. CASE Faithful
    <3>1. Latest = dumps[Len(dumps)]
      BY <2>1, LatestIsRecorded DEF Placed, RestoreSteps
    <3>2. DOMAIN Latest \ ToSet(todo) = DOMAIN Latest
      BY <2>1, NothingQueued
    <3>3. \A c \in DOMAIN Latest : Telling(Latest[c].recorded) => AsRecorded(c)
      BY <2>1, <2>3, <3>2 DEF RestoredSoFar, Faithful, RestoreSteps
    <3> QED
      BY <1>1, <2>1, <2>3, <3>1, <3>3 DEF Unchanged, AsRecorded
  <2> QED
    BY <2>2, <2>3
<1>6. CASE \/ Clean \/ EnsureCollection \/ InsertDocuments \/ CreateIndex \/ GuardDrops
           \/ Mark \/ Seed \/ Measure \/ Remark \/ Reload \/ SizeDone
  <2>1. fresh' = fresh /\ step \in RestoreSteps \cup BenchSteps
    BY <1>6 DEF Clean, EnsureCollection, InsertDocuments, CreateIndex, GuardDrops,
                Mark, Seed, Measure, Remark, Reload, SizeDone, BenchStep, RestoreSteps, BenchSteps, OwnSteps
  <2> QED
    BY <1>3, <2>1 DEF Placed
<1>7. CASE StartRestore \/ StartBench \/ UserWrite
  BY <1>3, <1>7 DEF StartRestore, StartBench, UserWrite
<1>8. CASE \/ Begin \/ Refuse \/ Report \/ GuardRefuses \/ FinishBench \/ FinishValidate \/ Interrupted
           \/ StartDump \/ StartValidate \/ DumpItem \/ DiffItem
           \/ InsertRefused \/ IndexRefused \/ ItemRestored \/ ListDatabases \/ ListCollections
           \/ UNCHANGED vars
  BY <1>2, <1>8 DEF Begin, Refuse, Report, GuardRefuses, FinishBench, FinishValidate, Interrupted,
                    StartDump, StartValidate, DumpItem, DiffItem, InsertRefused, IndexRefused, ItemRestored,
                    ListDatabases, ListCollections, SameServer, vars
<1> QED
  BY <1>4, <1>5, <1>6, <1>7, <1>8 DEF Next, Bench

-----------------------------------------------------------------------------
(* Theorems *)

\* The invariant: whatever a command has established still holds, at every step
\* of it and across failures, interruptions and the writes of others.
THEOREM Invariance == Spec => []IInv
<1>1. IInv /\ [Next]_vars => IInv'
  BY TypeStep, PlacedStep, ParsedStep, MarkedStep, ComparedStep, RestoredStep, UnchangedStep DEF IInv
<1> QED
  BY <1>1, InitIInv, PTL DEF Spec

\* TypeOK, of a server, configurations and commands of any size.
THEOREM TypeCorrect == Spec => []TypeOK
<1>1. IInv => TypeOK
  BY DEF IInv, TypeInv, Placed, TypeOK
<1> QED
  BY <1>1, Invariance, PTL

\* A database in which anything of a bench is left bears the marker, whichever
\* step the bench was interrupted at (src/bench.rs, mark_bench_database).
THEOREM BenchLeavesItsMarker == Spec => []BenchIsRecognized
<1>1. IInv => BenchIsRecognized
  BY DEF IInv, Marked
<1> QED
  BY <1>1, Invariance, PTL

\* A whole restore that reports success leaves what `validate --schema` finds no
\* drift in, as long as nobody else writes (src/restore/database.rs and
\* src/validate/schema_diff.rs agree on what a structure is).
THEOREM RestoreIsFaithful == Spec => []RestoredAsRecorded
<1>1. ASSUME IInv, NEW d \in fresh, NEW c \in DOMAIN dumps[d], Telling(dumps[d][c].recorded)
      PROVE  DiffCollection(dumps[d][c].recorded, ReadStructure(Live(c), FALSE)) = {}
  <2>1. dumps[d][c].recorded = ReadStructure(Live(c), FALSE)
    BY <1>1 DEF IInv, Unchanged
  <2>2. IsStructure(ReadStructure(Live(c), FALSE))
    BY <1>1, LiveIsCollection DEF IInv
  <2> QED
    BY <2>1, <2>2, NoDrift
<1>2. IInv => RestoredAsRecorded
  BY <1>1 DEF RestoredAsRecorded, Telling
<1> QED
  BY <1>2, Invariance, PTL

\* A recorded collection reads as recorded if it is there with that structure, or
\* is gone and nothing was recorded of it.
LEMMA RecordedOrGone ==
  ASSUME NEW c, IsStructure(Latest[c].recorded)
  PROVE  AsRecorded(c) <=>
           IF c \in Present THEN Latest[c].recorded = ReadStructure(server[c], FALSE)
           ELSE /\ Latest[c].recorded.indexes = {} /\ Latest[c].recorded.validator = {}
                /\ Latest[c].recorded.options = <<>>
<1> DEFINE recorded == Latest[c].recorded
<1>1. CASE c \in Present
  BY <1>1 DEF AsRecorded, Live
<1>2. CASE c \notin Present
  <2>1. ReadStructure(Live(c), FALSE) = [indexes |-> {}, validator |-> {}, options |-> <<>>]
    BY <1>2 DEF Live, ReadStructure, Nothing
  <2>2. recorded = [indexes |-> recorded.indexes, validator |-> recorded.validator, options |-> recorded.options]
    BY DEF IsStructure
  <2>3. ASSUME NEW r, NEW i, NEW v, NEW o, r = [indexes |-> i, validator |-> v, options |-> o]
        PROVE  r = [indexes |-> {}, validator |-> {}, options |-> <<>>]
                 <=> r.indexes = {} /\ r.validator = {} /\ r.options = <<>>
    BY <2>3
  <2>4. recorded = [indexes |-> {}, validator |-> {}, options |-> <<>>]
          <=> recorded.indexes = {} /\ recorded.validator = {} /\ recorded.options = <<>>
    BY <2>2, <2>3
  <2> QED
    BY <1>2, <2>1, <2>4 DEF AsRecorded
<1> QED
  BY <1>1, <1>2

\* The report of `validate --schema` is empty exactly when every collection of
\* the dump reads as it was recorded (src/validate/schema_diff.rs, for which a
\* collection that is gone has an empty structure).
THEOREM ReportIsExact == Spec => []DriftIsExact
<1>1. ASSUME IInv, step = "diff", todo = <<>>, ~blurred
      PROVE  pending = {} <=> \A c \in DOMAIN Latest : AsRecorded(c)
  <2>1. DOMAIN Latest \ ToSet(todo) = DOMAIN Latest
    BY <1>1, NothingQueued
  <2> QED
    BY <1>1, <2>1 DEF IInv, Compared
<1>2. ASSUME IInv, step = "diff", NEW c \in DOMAIN Latest
      PROVE  IsStructure(Latest[c].recorded)
  BY <1>2, LatestIsRecorded DEF IInv, Placed
<1>3. IInv => DriftIsExact
  BY <1>1, <1>2, RecordedOrGone DEF DriftIsExact, IInv
<1> QED
  BY <1>3, Invariance, PTL

\* Every key of a file that parses is one that somebody reads, or no text.
LEMMA ParsedIsRead ==
  ASSUME config \in Configs, ~ParseFails(Settings), NEW p \in DOMAIN config.file
  PROVE  IsRead(p) \/ Last(p) = NotText
<1>1. p \in DOMAIN Settings
  BY DEF Settings, InterpolateEnv
<1>2. p \in Seq(STRING) /\ Len(p) \in {1, 2}
  BY ConfigsAssumption
<1>3. CASE p[1] \notin {"dump", "restore"}
  BY <1>1, <1>3 DEF ParseFails, DecodeFails, Decoded, IsRead, ReadPaths
<1>4. CASE p[1] \in {"dump", "restore"} /\ Len(p) = 1
  <2>1. p = <<p[1]>>
    BY <1>2, <1>4
  <2> QED
    BY <1>4, <2>1 DEF RawPaths, IsRead, ReadPaths
<1>5. CASE p[1] \in {"dump", "restore"} /\ Len(p) = 2
  <2>1. p = <<p[1], p[2]>> /\ Last(p) = p[2]
    BY <1>2, <1>5 DEF Last
  <2>2. CASE p[2] = NotText
    BY <2>1, <2>2
  <2>3. CASE p[2] # NotText
    <3>1. ~UnknownKeys(Settings)
      BY DEF ParseFails
    <3>2. (p[1] = "dump" => p[2] \in DumpKeys) /\ (p[1] = "restore" => p[2] \in RestoreKeys)
      BY <1>1, <1>5, <2>3, <3>1 DEF UnknownKeys
    <3>3. CASE p[1] = "dump"
      <4>1. p[2] \in TransformationKeys \cup SubsetKeys \cup DumpFilterKeys
        BY <3>2, <3>3 DEF DumpKeys, TransformationKeys, SubsetKeys, DumpFilterKeys
      <4> QED
        BY <2>1, <3>3, <4>1 DEF IsRead, ReadPaths
    <3>4. CASE p[1] = "restore"
      <4>1. p[2] \in RestoreSectionKeys \cup RestoreFilterKeys
        BY <3>2, <3>4 DEF RestoreKeys, RestoreSectionKeys, RestoreFilterKeys
      <4> QED
        BY <2>1, <3>4, <4>1 DEF IsRead, ReadPaths
    <3> QED
      BY <1>5, <3>3, <3>4
  <2> QED
    BY <2>2, <2>3
<1> QED
  BY <1>2, <1>3, <1>4, <1>5

\* No command that reads the file starts its work with a key in it that nobody
\* reads, but for keys that are no text, which check_section_keys passes over
\* (src/config.rs, deny_unknown_fields and check_section_keys).  `bench --uri`
\* reads no file.
THEOREM UnknownKeysStop == Spec => []MisspeltKeyStops
<1>1. ASSUME IInv, cmd # None, step # "checks", ReadsFile(cmd)
      PROVE  config \in Configs /\ ~ParseFails(Settings)
  <2>1. step # "idle"
    BY <1>1 DEF IInv, Placed, RestoreSteps, BenchSteps, OwnSteps
  <2> QED
    BY <1>1, <2>1 DEF IInv, Parsed, TypeInv, ReadsFile
<1>2. IInv => MisspeltKeyStops
  BY <1>1, ParsedIsRead DEF MisspeltKeyStops
<1> QED
  BY <1>2, Invariance, PTL

-----------------------------------------------------------------------------

\* Only these steps of a bench drop anything.
LEMMA BenchDrops ==
  ASSUME IInv, [Next]_vars, cmd.name = "bench", writesLeft' = writesLeft, Present \ Present' # {}
  PROVE  GuardDrops \/ Measure \/ SizeDone
<1> USE DEF worldVars, localVars, bounds
<1>1. TypeInv /\ Placed
  BY DEF IInv
<1>2. ~SameServer
  BY DEF SameServer, Present
<1>3. ~UserWrite
  BY <1>1 DEF UserWrite, TypeInv
<1>4. step \notin RestoreSteps
  BY <1>1 DEF Placed, RestoreSteps, BenchSteps, OwnSteps, None
<1>5. ~(Clean \/ EnsureCollection \/ InsertDocuments \/ CreateIndex)
  BY <1>4 DEF Clean, EnsureCollection, InsertDocuments, CreateIndex, RestoreSteps
<1>6. ~(Mark \/ Remark \/ Seed \/ Reload)
  BY <1>1, MarkEffect, SeedEffect DEF Grown
<1>7. ~(\/ Begin \/ Refuse \/ Report \/ GuardRefuses \/ FinishBench \/ FinishValidate \/ Interrupted
        \/ FinishDump \/ FinishRestore \/ StartDump \/ StartRestore \/ StartValidate \/ StartBench
        \/ DumpItem \/ DiffItem \/ InsertRefused \/ IndexRefused \/ ItemRestored
        \/ ListDatabases \/ ListCollections \/ UNCHANGED vars)
  BY <1>2 DEF Begin, Refuse, Report, GuardRefuses, FinishBench, FinishValidate, Interrupted,
              FinishDump, FinishRestore, StartDump, StartRestore, StartValidate, StartBench, DumpItem,
              DiffItem, InsertRefused, IndexRefused, ItemRestored, ListDatabases, ListCollections, SameServer, vars
<1> QED
  BY <1>3, <1>5, <1>6, <1>7 DEF Next, Bench

\* A bench drops nothing that others had put into its database before it came,
\* whatever benches and interruptions went before (src/bench.rs, the guard).
THEOREM BenchIsHarmless == Spec => BenchSparesOthers
<1> DEFINE Spares ==
      (cmd.name = "bench" /\ writesLeft' = writesLeft
         /\ ~(Marker \in Present /\ owner[Marker] = "restore")) =>
         \A c \in Present \ DOMAIN server' : owner[c] # "user" \/ c[2] = "system"
<1>1. IInv /\ [Next]_vars => Spares
  <2> SUFFICES ASSUME IInv, [Next]_vars, cmd.name = "bench", writesLeft' = writesLeft,
                      ~(Marker \in Present /\ owner[Marker] = "restore"),
                      NEW c \in Present \ DOMAIN server', owner[c] = "user"
               PROVE  c[2] = "system"
    OBVIOUS
  <2>1. c \notin Present'
    BY DEF Present
  <2>2. GuardDrops \/ Measure \/ (SizeDone /\ ~cmd.keep)
    <3>1. SizeDone /\ cmd.keep => server' = server
      BY DEF SizeDone
    <3> QED
      BY <2>1, <3>1, BenchDrops DEF Present
  <2>3. c \in In(BenchDb)
    BY <2>1, <2>2, DropsEffect DEF Shrunk, IInv
  <2>4. CASE Measure \/ SizeDone
    <3>1. step \in OwnSteps
      BY <2>4 DEF Measure, SizeDone, BenchStep, OwnSteps
    <3> QED
      BY <2>3, <3>1 DEF IInv, Guarded, OnlySystem
  <2>5. CASE GuardDrops
    <3>1. step = "decide" /\ (pending = {} \/ Marker \in pending)
      BY <2>5 DEF GuardDrops
    <3>2. CASE pending = {}
      BY <2>3, <3>1, <3>2 DEF IInv, Guarded
    <3>3. CASE Marker \in pending
      BY <2>3, <3>1, <3>3 DEF IInv, Guarded, Marked, OnlySystem
    <3> QED
      BY <3>1, <3>2, <3>3
  <2> QED
    BY <2>2, <2>4, <2>5
<1>2. Spec => [][Spares]_vars
  BY <1>1, Invariance, PTL DEF Spec
<1> QED
  BY <1>2 DEF BenchSparesOthers
=============================================================================
