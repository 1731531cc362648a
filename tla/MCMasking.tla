------------------------------ MODULE MCMasking ------------------------------
(***************************************************************************)
(* Scenarios for Masking: one family per hazard, each a product of the     *)
(* choices that matter to it.                                              *)
(***************************************************************************)
EXTENDS Masking, TLC

I32(n) == <<"int32", n>>
I64(n) == <<"int64", n>>
Text(n) == <<"string", n>>
Date(n) == <<"datetime", n>>

\* Text 1 is "3", texts 2 and 4 are dates and text 3 is an object id.
MCMinInt   == -8
MCIntText  == 1 :> 3
MCDateText == 2 :> 5 @@ 4 :> 2
MCIdText   == 3 :> 9

MCDigest(bytes) == IF bytes[1] \in {"document", "array", "rendered"} THEN 21 ELSE (bytes[2] * 5 + 23) % 32

Rule(field, name, params) ==
  [field |-> field, name |-> name, params |-> params, when |-> {}, dynamic |-> <<>>,
   refs |-> FALSE, type |-> {}]

Term(field, op, rhs) == [path |-> <<field>>, op |-> op, rhs |-> rhs]
One(field, op, value) == <<<<Term(field, op, <<value>>)>>>>

Scenario(configs, edges, docs) ==
  [configs |-> configs, edges |-> edges, docs |-> docs, filters |-> <<>>, conditions |-> {},
   paths |-> {<<"id">>, <<"user">>, <<"note">>, <<"age">>, <<"a">>, <<"a", "b">>, <<"a", "c">>}]

User(fields)  == [collection |-> "users", doc |-> Document(fields)]
Order(fields) == [collection |-> "orders", doc |-> Document(fields)]

-----------------------------------------------------------------------------
(* A reference from orders.user to users.id, and what may be configured on     *)
(* either side of it                                                           *)

Adult == One("age", ">=", I64(3))

IdRules ==
  {[Rule(<<"id">>, name, <<>>) EXCEPT !.when = when, !.refs = refs, !.type = type, !.dynamic = dynamic] :
     name \in {"hash", "template"}, when \in {{}, {Adult}}, refs \in BOOLEAN,
     type \in {{}, {"string"}}, dynamic \in {<<>>, [length |-> <<"age">>]}}

ParamsOf(r) == IF r.name = "template" THEN [r EXCEPT !.params = [template |-> Text(3)]] ELSE r

MarkedNotes == [Rule(<<"note">>, "set_null", <<>>) EXCEPT !.refs = TRUE]

OrderEntries ==
  {<<>>, <<Entry("orders", <<Rule(<<"note">>, "masking", <<>>)>>)>>,
   <<[Entry("orders", <<MarkedNotes>>) EXCEPT !.when = {One("note", "==", Text(3))}]>>,
   <<Entry("orders", <<Rule(<<"user">>, "set_null", <<>>)>>)>>,
   <<Entry("orders", <<>>), Entry("orders", <<Rule(<<"note">>, "random_email", <<>>)>>)>>}

UserRef(targets) == [from |-> "orders", field |-> <<"user">>, to |-> <<"id">>, targets |-> targets]
BossRef == [from |-> "users", field |-> <<"boss">>, to |-> <<"id">>, targets |-> {"users"}]
NoteRef == [from |-> "orders", field |-> <<"user">>, to |-> <<"note">>, targets |-> {"orders"}]

Graphs == {<<>>, <<UserRef({"users", "shops"}), BossRef>>, <<NoteRef, UserRef({"users"})>>}

References ==
  {Scenario(<<[Entry("users", <<ParamsOf(r)>>) EXCEPT !.when = when]>> \o orders, edges,
            <<User([id |-> id, age |-> I32(age), boss |-> id]), Order([user |-> user, note |-> Text(3)])>>) :
     r \in {x \in IdRules : x.name = "template" => DOMAIN x.dynamic = {}},
     when \in {{}, {Adult}}, orders \in OrderEntries, edges \in Graphs,
     id \in {I32(3), Text(1)}, user \in {I32(3), I64(3), Text(1)}, age \in {2, 4}}

-----------------------------------------------------------------------------
(* Every operator against every kind of field and literal                      *)

Fields ==
  <<Absent, Null, True, False, I32(0), I32(3), I64(5), I64(6), I64(7), <<"double", 3>>, <<"decimal128", 3>>, NaN,
    Date(5), Date(2), Text(0), Text(1), Text(2), Text(3), <<"array", <<I32(3), Text(3)>>>>,
    Document([y |-> I32(1)]), Document([y |-> <<"array", <<I64(3)>>>>]),
    <<"array", <<Document([y |-> I64(3)]), Document([y |-> Text(2)]), I64(3)>>>>>>

Literals == {Null, True, I64(0), I64(3), I64(5), I64(6), I64(7), Text(0), Text(2), Text(3), NaN}

Terms ==
  {Term("x", op, <<v>>) : op \in Comparisons, v \in Literals}
  \cup {Term("x", op, vs) : op \in Memberships, vs \in {<<>>, <<I64(3), Null>>, <<Text(2), Text(3)>>}}
  \cup {Term("x", op, <<>>) : op \in {"bare", "="}}
  \cup {[t EXCEPT !.path = <<"x", "y">>] :
          t \in {Term("x", op, <<I64(3)>>) : op \in Comparisons} \cup {Term("x", "bare", <<>>)}}

Junctions ==
  {<<<<t>>>> : t \in Terms}
  \cup {<<<<t, Term("z", "==", <<True>>)>>, <<Term("x", "bare", <<>>)>>>> : t \in Terms}

WithField(v) == IF v = Absent THEN User([z |-> True]) ELSE User([x |-> v, z |-> True])

ConditionFamily ==
  {[Scenario(<<Entry("users", <<[Rule(<<"x">>, "hash", <<>>) EXCEPT !.when = {w}]>>)>>, <<>>,
             [i \in DOMAIN Fields |-> WithField(Fields[i])])
     EXCEPT !.conditions = {w}, !.filters = IF pushed THEN [users |-> w] ELSE <<>>] :
     w \in Junctions, pushed \in BOOLEAN}

-----------------------------------------------------------------------------
(* Generated and perturbed numbers at the bounds of i64                        *)

NumberRules ==
  {Rule(<<"x">>, "random_int", [min |-> I64(min), max |-> I64(max)]) :
     min \in {MinInt, -1, 3}, max \in {-1, 4, MaxInt}}
  \cup {[Rule(<<"x">>, "random_int", [min |-> I64(-2), max |-> I64(2)])
          EXCEPT !.dynamic = [max |-> <<"top">>]]}
  \cup {Rule(<<"x">>, name, [ratio |-> I64(n)]) : name \in {"noise_int", "noise_float"}, n \in {0, 1, 3}}
  \cup {Rule(<<"x">>, "noise_date", [max_days |-> I64(n)]) : n \in {MinInt, -2, 0, 3, MaxInt}}

Numbers ==
  {Scenario(<<Entry("users", <<r>>)>>, <<>>, <<User([x |-> v, top |-> top])>>) :
     r \in NumberRules,
     v \in {I32(n) : n \in MinInt..MaxInt} \cup {Date(n) : n \in {MinInt, 0, MaxInt}} \cup {Text(1), Text(3)},
     top \in {I32(-8), I64(7), Text(1), Text(3)}}

-----------------------------------------------------------------------------
(* Nested paths, queries, and configurations that must not compile             *)

Nested ==
  {Scenario(<<Entry("users", <<Rule(p, "hash", <<>>), Rule(q, "masking", <<>>)>>)>>, <<>>, <<User([a |-> a, id |-> I32(3)])>>) :
     p \in {<<"a">>, <<"a", "b">>}, q \in {<<"a", "b">>, <<"a", "c">>, <<"note">>},
     a \in {I32(3), Null, Document([b |-> Text(3)]), Document([b |-> Text(3), c |-> I32(3)])}}

Queries ==
  {Scenario(<<[Entry("users", <<>>) EXCEPT !.query = {query}]>>, <<>>, <<User([id |-> id])>>) :
     query \in {Document(<<"id">> :> I64(3)), Document(<<"id">> :> Text(3)), Text(3)}, id \in {I32(3), I64(3), Text(3)}}

Dubious ==
  {Rule(<<"id">>, "no_such", <<>>), Rule(<<"id">>, "random_int", [min |-> I64(1)]),
   Rule(<<"id">>, "random_int", [min |-> I64(1), max |-> Text(3)]),
   [Rule(<<"id">>, "hash", <<>>) EXCEPT !.when = {Blank}],
   [Rule(<<"id">>, "hash", <<>>) EXCEPT !.type = {"uuid"}],
   [Rule(<<"id">>, "hash", <<>>) EXCEPT !.type = {"objectId"}],
   [Rule(<<"id">>, "hash", <<>>) EXCEPT !.type = {"decimal128"}],
   [Rule(<<"id">>, "hash", <<>>) EXCEPT !.type = {"bytes"}],
   [Rule(<<"id">>, "hash", <<>>) EXCEPT !.dynamic = [size |-> <<"id">>]],
   [Rule(<<"id">>, "hash", <<>>) EXCEPT !.dynamic = [length |-> <<"size">>]],
   [Rule(<<"id">>, "regexp_replace", [regexp |-> Text(3), replace |-> Text(0)]) EXCEPT !.dynamic = <<>>],
   [Rule(<<"id">>, "regexp_replace", [regexp |-> Text(1), replace |-> Text(0)]) EXCEPT !.dynamic = [regexp |-> <<"note">>]]}

Refused ==
  {Scenario(<<Entry("users", <<r>>)>>, <<>>, <<User([id |-> id, note |-> note])>>) :
     r \in Dubious, id \in {I32(3), Text(3)}, note \in {Text(1), Text(3), Null}}

MCScenarios == References \cup ConditionFamily \cup Numbers \cup Nested \cup Queries \cup Refused
=============================================================================
