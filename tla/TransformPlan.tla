---------------------------- MODULE TransformPlan ----------------------------
(***************************************************************************)
(* The transformation plan of src/transform/apply.rs: what the             *)
(* `dump.transformation` entries compile to once the rules inherited       *)
(* through the reference graph are added (inheritance.rs), and what the    *)
(* plan does to a document, with parameters read from the document         *)
(* (dynamic.rs).                                                           *)
(*                                                                         *)
(* An entry is [collection, when, query, rules], a rule [field, name,      *)
(* params, when, dynamic, refs, type]; `when`, `query` and `type` are sets *)
(* of at most one element.  An edge of the graph is [from, field, to,      *)
(* targets]: `field` of collection `from` holds values of field `to` of    *)
(* one of `targets`.                                                       *)
(***************************************************************************)
EXTENDS Builtins, FiniteSetsExt

Entry(collection, rules) == [collection |-> collection, when |-> {}, query |-> {}, rules |-> rules]

-----------------------------------------------------------------------------
(* Inheritance *)

\* Name and parameters are copied, and nothing else of the rule.
InheritedRule(rule, field) ==
  [field |-> field, name |-> rule.name, params |-> rule.params, when |-> {},
   dynamic |-> <<>>, refs |-> FALSE, type |-> {}]

\* Seeded fault: an edge to several collections is not one to each.
PointsAtOnly(edge, collection, rule) == edge.to = rule.field /\ edge.targets = {collection}

PointsAt(edge, collection, rule) == edge.to = rule.field /\ collection \in edge.targets

HasExplicit(configs, collection, field) ==
  \E i \in DOMAIN configs : /\ configs[i].collection = collection
                            /\ \E j \in DOMAIN configs[i].rules : configs[i].rules[j].field = field

HasInherited(out, collection, field) ==
  \E k \in DOMAIN out : out[k].collection = collection /\ out[k].rule.field = field

\* The holder inherits unless it has a rule of its own or has inherited already.
Inherit(configs, collection, rule, edge, out) ==
  IF /\ PointsAt(edge, collection, rule)
     /\ ~HasExplicit(configs, edge.from, edge.field)
     /\ ~HasInherited(out, edge.from, edge.field)
  THEN Append(out, [collection |-> edge.from, rule |-> InheritedRule(rule, edge.field)])
  ELSE out

\* The loops: entries, their marked rules, the edges of the graph.
InheritRule(configs, edges, collection, rule, before) ==
  LET out[n \in 0..Len(edges)] ==
        IF n = 0 THEN before ELSE Inherit(configs, collection, rule, edges[n], out[n - 1])
  IN out[Len(edges)]

InheritEntry(configs, edges, entry, before) ==
  LET out[n \in 0..Len(entry.rules)] ==
        IF n = 0 THEN before
        ELSE IF entry.rules[n].refs
             THEN InheritRule(configs, edges, entry.collection, entry.rules[n], out[n - 1])
             ELSE out[n - 1]
  IN out[Len(entry.rules)]

ExpandInherited(configs, edges) ==
  LET out[n \in 0..Len(configs)] ==
        IF n = 0 THEN <<>> ELSE InheritEntry(configs, edges, configs[n], out[n - 1])
  IN out[Len(configs)]

\* An inherited rule joins the first entry of its collection, under that
\* entry's own `when`, or gets an entry.
PushRule(configs, t) ==
  LET own == {i \in DOMAIN configs : configs[i].collection = t.collection}
  IN IF own = {} THEN Append(configs, Entry(t.collection, <<t.rule>>))
     ELSE [configs EXCEPT ![Min(own)].rules = Append(@, t.rule)]

PushRules(configs, inherited) ==
  LET out[n \in 0..Len(inherited)] ==
        IF n = 0 THEN configs ELSE PushRule(out[n - 1], inherited[n])
  IN out[Len(inherited)]

Expand(configs, edges) == PushRules(configs, ExpandInherited(configs, edges))

-----------------------------------------------------------------------------
(* Compilation *)

\* A dynamic parameter must be declared.
DynamicCompiles(r) == DOMAIN r.dynamic \subseteq DOMAIN Declared[r.name]

\* Only rules without dynamic parameters are built now.
RuleCompiles(r) ==
  /\ r.name \in DOMAIN Declared
  /\ ~StaticFails(r.name, r.params)
  /\ \A w \in r.when : ~ParseFails(w)
  /\ r.type \subseteq ParamTypes
  /\ DynamicCompiles(r)
  /\ DOMAIN r.dynamic = {} => ~BuildFails(r.name, StaticParams(r.name, r.params))

EntryCompiles(entry) ==
  /\ \A w \in entry.when : ~ParseFails(w)
  /\ \A q \in entry.query : q[1] = "document"
  /\ \A i \in DOMAIN entry.rules : RuleCompiles(entry.rules[i])

Compiles(configs) == \A i \in DOMAIN configs : EntryCompiles(configs[i])

\* The map from collections: a later entry of a collection replaces an earlier.
Compile(configs) ==
  LET Of(c) == {i \in DOMAIN configs : configs[i].collection = c}
  IN [c \in {configs[i].collection : i \in DOMAIN configs} |-> configs[Max(Of(c))]]

-----------------------------------------------------------------------------
(* Running the plan *)

\* Equality of type and value, which NaN has with nothing; the names in a query
\* are paths.
MatchesQuery(doc, query) ==
  \A path \in Names(query) : GetPath(doc, path) = query[2][path] /\ query[2][path] # NaN

ShouldInclude(plan, collection, doc) ==
  collection \in DOMAIN plan => \A q \in plan[collection].query : MatchesQuery(doc, q)

Holds(when, doc) == \A w \in when : Eval(w, doc)

\* Parameters read from the document lie over the static ones.
DynamicValue(r, doc, p) ==
  LET raw == GetPath(doc, r.dynamic[p])
  IN IF raw = Absent THEN Error ELSE BsonToTyped(raw, Declared[r.name][p].kind)

Resolve(r, doc) ==
  [p \in DOMAIN r.dynamic \cup DOMAIN Declared[r.name] |->
     IF p \in DOMAIN r.dynamic THEN DynamicValue(r, doc, p)
     ELSE StaticValue(Declared[r.name], r.params, p)]

\* The field's new value, or Error.  Every rule reads the original document; an
\* absent field is presented as null.
RuleResult(r, doc) ==
  LET field  == GetPath(doc, r.field)
      value  == IF field = Absent THEN Null ELSE field
      input  == IF r.type = {} THEN value ELSE BsonToTyped(value, CHOOSE t \in r.type : TRUE)
      params == Resolve(r, doc)
  IN IF input = Error \/ (\E p \in DOMAIN params : params[p] = Error) \/ BuildFails(r.name, params)
     THEN Error
     ELSE Transform(r.name, params, input, doc)

\* Seeded fault: a rule starts from the document that was read.
ApplyRuleAnew(r, doc, out) ==
  IF out = Error \/ ~Holds(r.when, doc) THEN out
  ELSE LET result == RuleResult(r, doc)
       IN IF result = Error THEN Error ELSE SetPath(doc, r.field, result)

ApplyRule(r, doc, out) ==
  IF out = Error \/ ~Holds(r.when, doc) THEN out
  ELSE LET result == RuleResult(r, doc)
       IN IF result = Error THEN Error ELSE SetPath(out, r.field, result)

ApplyRules(rules, doc) ==
  LET out[n \in 0..Len(rules)] == IF n = 0 THEN doc ELSE ApplyRule(rules[n], doc, out[n - 1])
  IN out[Len(rules)]

TransformDocument(plan, collection, doc) ==
  IF collection \notin DOMAIN plan \/ ~Holds(plan[collection].when, doc) THEN doc
  ELSE ApplyRules(plan[collection].rules, doc)
=============================================================================
