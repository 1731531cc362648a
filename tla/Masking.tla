------------------------------- MODULE Masking -------------------------------
(***************************************************************************)
(* A dump's documents on their way through the transformation plan: the    *)
(* plan is compiled once, then every document the server's filter lets     *)
(* through is kept or left out by its collection's query, transformed and  *)
(* written (cmd_dump, dump_collection).                                    *)
(***************************************************************************)
EXTENDS TransformPlan

CONSTANT
  Scenarios  \* records of a configuration `configs`, the declared references
             \* `edges`, the pushed-down conditions `filters` by collection, the
             \* source's documents `docs` as [collection, doc] in read order,
             \* and the `conditions` and `paths` the properties look at

IsList(s) == Len(s) \in Nat /\ s = [i \in 1..Len(s) |-> s[i]]
IsPath(p) == IsList(p) /\ Len(p) > 0

IsTerm(t) ==
  /\ IsPath(t.path) /\ IsList(t.rhs)
  /\ \A i \in DOMAIN t.rhs : Value(t.rhs[i]) /\ t.rhs[i][1] \in {"null", "bool", "int64", "double", "nan", "string"}
  /\ t.op \in Comparisons => Len(t.rhs) = 1

IsRule(r) ==
  /\ IsPath(r.field)
  /\ \A p \in DOMAIN r.params : Value(r.params[p])
  /\ \A p \in DOMAIN r.dynamic : IsPath(r.dynamic[p])

IsEntry(e) ==
  /\ e = [collection |-> e.collection, when |-> e.when, query |-> e.query, rules |-> e.rules]
  /\ IsList(e.rules) /\ \A j \in DOMAIN e.rules : IsRule(e.rules[j])

\* The paths of a document that rules and conditions read.
RulePaths(r)      == {r.field} \cup {r.dynamic[p] : p \in DOMAIN r.dynamic}
ConditionPaths(w) == UNION {{w[i][j].path : j \in DOMAIN w[i]} : i \in DOMAIN w}

Looked(s) ==
  (UNION {UNION {RulePaths(e.rules[j]) : j \in DOMAIN e.rules} : e \in {s.configs[i] : i \in DOMAIN s.configs}})
  \cup (UNION {ConditionPaths(w) : w \in s.conditions})

ASSUME ScenarioAssumption ==
  \A s \in Scenarios :
    /\ IsList(s.configs) /\ \A i \in DOMAIN s.configs : IsEntry(s.configs[i])
    /\ IsList(s.edges) /\ \A i \in DOMAIN s.edges : IsPath(s.edges[i].field) /\ IsPath(s.edges[i].to)
    /\ IsList(s.docs)
    /\ \A w \in s.conditions : \A i \in DOMAIN w : \A j \in DOMAIN w[i] : IsTerm(w[i][j])
    /\ \A path \in s.paths : IsPath(path)
    /\ \A i \in DOMAIN s.docs : \A path \in Looked(s) : Value(GetPath(s.docs[i].doc, path))

\* hash_u64 gives an unsigned integer for whatever a rule may be given.
ASSUME DigestAssumption ==
  \A s \in Scenarios : \A i \in DOMAIN s.docs : \A path \in Looked(s), kind \in ParamTypes :
    LET v == GetPath(s.docs[i].doc, path)
    IN Digest(HashableBytes(BsonToTyped(IF v = Absent THEN Null ELSE v, kind))) \in Nat

VARIABLES
  scenario,
  plan,      \* the compiled plan
  next,      \* the document to read next
  written,   \* what was written: [source, out]
  pc

maskVars == <<scenario, plan, next, written, pc>>

MaskInit ==
  /\ scenario \in Scenarios
  /\ plan = <<>>
  /\ next = 1
  /\ written = <<>>
  /\ pc = "compile"

MaskTypeOK ==
  /\ next \in 1..(Len(scenario.docs) + 1)
  /\ \A i \in DOMAIN written : written[i].source \in 1..(next - 1)
  /\ pc \in {"compile", "stream", "done", "refused", "failed"}

-----------------------------------------------------------------------------

\* Nothing is read before the whole configuration has compiled.
CompileRefused ==
  /\ pc = "compile"
  /\ ~Compiles(Expand(scenario.configs, scenario.edges))
  /\ pc' = "refused"
  /\ UNCHANGED <<scenario, plan, next, written>>

CompileOk ==
  /\ pc = "compile"
  /\ Compiles(Expand(scenario.configs, scenario.edges))
  /\ plan' = Compile(Expand(scenario.configs, scenario.edges))
  /\ pc' = "stream"
  /\ UNCHANGED <<scenario, next, written>>

Reading == pc = "stream" /\ next <= Len(scenario.docs)
Current == scenario.docs[next]

\* The server's filter lets the document through and the collection's `query`
\* keeps it.
Kept(s) ==
  /\ s.collection \in DOMAIN scenario.filters
       => ServerSelects(ToFilter(scenario.filters[s.collection]), s.doc)
  /\ ShouldInclude(plan, s.collection, s.doc)

Skip ==
  /\ Reading
  /\ ~Kept(Current)
  /\ next' = next + 1
  /\ UNCHANGED <<scenario, plan, written, pc>>

Write ==
  /\ Reading
  /\ Kept(Current)
  /\ LET out == TransformDocument(plan, Current.collection, Current.doc)
     IN /\ out # Error
        /\ written' = Append(written, [source |-> next, out |-> out])
  /\ next' = next + 1
  /\ UNCHANGED <<scenario, plan, pc>>

\* A transformer's error ends the collection, and with it the dump.
TransformFails ==
  /\ Reading
  /\ Kept(Current)
  /\ TransformDocument(plan, Current.collection, Current.doc) = Error
  /\ pc' = "failed"
  /\ UNCHANGED <<scenario, plan, next, written>>

Finish ==
  /\ pc = "stream"
  /\ next > Len(scenario.docs)
  /\ pc' = "done"
  /\ UNCHANGED <<scenario, plan, next, written>>

Terminating == pc \in {"done", "refused", "failed"} /\ UNCHANGED maskVars

MaskNext == CompileRefused \/ CompileOk \/ Skip \/ Write \/ TransformFails \/ Finish \/ Terminating

MaskSpec == MaskInit /\ [][MaskNext]_maskVars

-----------------------------------------------------------------------------
(* Properties *)

Original(w)     == scenario.docs[w.source]
Before(w, path) == GetPath(Original(w).doc, path)
After(w, path)  == GetPath(w.out, path)
Writes          == {written[i] : i \in DOMAIN written}

Entries(c) == {i \in DOMAIN scenario.configs : scenario.configs[i].collection = c}
Rules(i)   == {scenario.configs[i].rules[j] : j \in DOMAIN scenario.configs[i].rules}
RulesOf(c) == UNION {Rules(i) : i \in Entries(c)}
Edges      == {scenario.edges[i] : i \in DOMAIN scenario.edges}

\* Writing one of the two paths changes what is at the other.
Overlap(p, q) == \A i \in DOMAIN p \cap DOMAIN q : p[i] = q[i]

\* The fields of a collection that a rule, or a reference, governs.
Governed(c) == {r.field : r \in RulesOf(c)} \cup {e.field : e \in {x \in Edges : x.from = c}}
Alone(c, f) == \A g \in Governed(c) \ {f} : ~Overlap(f, g)

\* A condition holds in memory, where it decides what is masked, for exactly the
\* documents it selects on the server: eval and to_filter are written apart.
\* The exceptions are those of ReadingsPart.
EvalMatchesFilter ==
  \A i \in DOMAIN scenario.docs, w \in scenario.conditions :
    LET doc == scenario.docs[i].doc
    IN Eval(w, doc) # ServerSelects(ToFilter(w), doc) => ReadingsPart(w, doc)

\* A field whose rule generates its value is never dumped as it was read, when
\* the conditions of the rule and of its entry hold and no other rule writes to
\* the field.  Exempt is an entry that a later one of its collection replaces.
NothingLeaks ==
  \A w \in Writes, i \in DOMAIN scenario.configs : \A r \in Rules(i) :
    LET entry == scenario.configs[i]
        doc   == Original(w).doc
    IN /\ entry.collection = Original(w).collection
       /\ i = Max(Entries(entry.collection))
       /\ r.name \in Derived /\ Alone(entry.collection, r.field)
       /\ {s \in Rules(i) : s.field = r.field} = {r}
       /\ Holds(entry.when, doc) /\ Holds(r.when, doc)
       => After(w, r.field)[1] = "masked"

\* What a rule or a reference does not govern is dumped as it was read.
UngovernedIsUntouched ==
  \A w \in Writes : \A path \in scenario.paths :
    (\A g \in Governed(Original(w).collection) : ~Overlap(path, g))
      => After(w, path) = Before(w, path)

\* What it takes for a reference to survive masking: the field it points at has
\* one rule, unconditional, on the value as stored, with parameters and output
\* independent of the document; the holder has no rule for the field, its
\* transformation is unconditional, and no other marked rule reaches it.
Propagates(r) ==
  r.refs /\ r.when = {} /\ r.type = {} /\ DOMAIN r.dynamic = {} /\ r.name # "template"

Plain(c) == \A i, j \in Entries(c) : i = j /\ scenario.configs[i].when = {}

Marked(c, f) == {r \in RulesOf(c) : r.refs /\ r.field = f}

Survives(e, c) ==
  /\ Plain(e.from) /\ Plain(c)
  /\ {r \in RulesOf(c) : r.field = e.to} = {r \in Marked(c, e.to) : Propagates(r)}
  /\ \E r \in Marked(c, e.to) : Marked(c, e.to) = {r}
  /\ Alone(c, e.to) /\ Alone(e.from, e.field)
  /\ ~\E r \in RulesOf(e.from) : r.field = e.field
  /\ \A x \in Edges, d \in {scenario.configs[i].collection : i \in DOMAIN scenario.configs} :
       x.from = e.from /\ x.field = e.field /\ d \in x.targets /\ Marked(d, x.to) # {}
         => d = c /\ x.to = e.to

\* "Rewritten to the same value as the field it references": where Survives
\* says so, a holder whose value was that of the target still has the target's.
ReferencesFollow ==
  \A w, v \in Writes, e \in Edges :
    LET c == Original(v).collection
    IN /\ Original(w).collection = e.from /\ c \in e.targets /\ Survives(e, c)
       /\ Before(w, e.field) = Before(v, e.to)
       => After(w, e.field) = After(v, e.to)

\* Generated and perturbed integers and dates stay within i64, and a generated
\* integer within the bounds its parameters give, also when those are read from
\* the document.
NumbersInRange ==
  \A w \in Writes : \A r \in RulesOf(Original(w).collection) :
    LET c   == Original(w).collection
        out == After(w, r.field)
        p   == Resolve(r, Original(w).doc)
    IN /\ Plain(c) /\ Alone(c, r.field) /\ {s \in RulesOf(c) : s.field = r.field} = {r}
       /\ r.when = {} /\ r.name \in {"random_int", "noise_int", "noise_date"}
       => /\ out[2] \in MinInt..MaxInt
          /\ r.name = "random_int" /\ p.min[2] <= p.max[2] => out[2] \in p.min[2]..p.max[2]

-----------------------------------------------------------------------------
(* What the repository's documents say and this code does not do *)

\* .spectial/features/transform.apply-transformations.yaml: "a malformed
\* condition fails before the dump touches data".
WellFormed(w) ==
  w # Blank /\ \A i \in DOMAIN w : \A j \in DOMAIN w[i] :
    w[i][j].op \in Comparisons \cup Memberships \cup {"bare"}

MalformedStops ==
  written # <<>> => \A i \in DOMAIN scenario.configs : \A r \in Rules(i) : \A w \in r.when : WellFormed(w)
=============================================================================
