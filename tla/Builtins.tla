------------------------------ MODULE Builtins ------------------------------
(***************************************************************************)
(* The transformers: what each declares, how its static parameters are     *)
(* validated (src/toolkit.rs), and what it makes of a value                *)
(* (src/transform/builtin.rs over the engine of src/hash.rs).  Text it     *)
(* generates is a "masked" value that names all it depends on.             *)
(***************************************************************************)
EXTENDS Conditions

CONSTANTS
  Digest(_),    \* hash_u64 under the run's salt: the same for the same bytes
  DayMillis,    \* 86 400 000
  BadPatterns   \* texts that are no regular expression

ASSUME DayAssumption == DayMillis \in Nat

Parameter(kind, required, default) == [kind |-> kind, required |-> required, default |-> default]
Required(kind)          == Parameter(kind, TRUE, Null)
Optional(kind, default) == Parameter(kind, FALSE, default)

\* Generated from the parameters and the input's bytes alone.
Derived == {"hash", "random_float", "random_email", "random_company", "random_person",
            "random_object_id", "random_bytes"}

Transformers ==
  Derived \cup {"random_int", "noise_int", "noise_float", "noise_date", "masking",
                "regexp_replace", "replace", "set_null", "template"}

\* A default of Null stands for a text written in the factory.
Declared ==
  [name \in Transformers |->
     CASE name \in {"hash", "random_bytes"} -> [length |-> Optional("int", <<"int64", 16>>)]
       [] name \in {"noise_int", "noise_float"} -> [ratio |-> Optional("float", <<"double", 1>>)]
       [] name = "random_int" -> [min |-> Required("int"), max |-> Required("int")]
       [] name = "random_float" -> [min |-> Required("float"), max |-> Required("float")]
       [] name = "noise_date" -> [max_days |-> Optional("int", <<"int64", 30>>)]
       [] name = "masking" -> [char |-> Optional("string", Null)]
       [] name = "random_email" -> [domain |-> Optional("string", Null)]
       [] name = "regexp_replace" -> [regexp |-> Required("string"), replace |-> Required("string")]
       [] name = "replace" -> [value |-> Required("any")]
       [] name = "template" -> [template |-> Required("string")]
       [] OTHER -> <<>>]

-----------------------------------------------------------------------------
(* Static parameters *)

\* What a declared parameter gets.  A configured name nobody declared is not
\* looked at.
StaticValue(defs, provided, p) ==
  IF p \in DOMAIN provided THEN YamlToTyped(provided[p], defs[p].kind)
  ELSE IF defs[p].required THEN Error ELSE defs[p].default

StaticParams(name, provided) ==
  [p \in DOMAIN Declared[name] |-> StaticValue(Declared[name], provided, p)]

StaticFails(name, provided) ==
  \E p \in DOMAIN Declared[name] : StaticParams(name, provided)[p] = Error

\* The factory refuses parameters that passed their cast.
BuildFails(name, params) == name = "regexp_replace" /\ params.regexp[2] \in BadPatterns

-----------------------------------------------------------------------------
(* Transformers *)

\* Seeded fault: the width is one too many.
RangedPast(digest, min, max) == IF max <= min THEN min ELSE min + (digest % (max - min + 2))

Ranged(digest, min, max) == IF max <= min THEN min ELSE min + (digest % (max - min + 1))

\* `-n` in a release build.
Negated(n) == IF n = MinInt THEN MinInt ELSE -n

\* A fraction of the value itself, up to `ratio`, in the direction the digest says.
NoiseInt(v, ratio) ==
  LET base  == ToI64(v)
      delta == AsFloat(base[2]) * ratio * ((Digest(HashableBytes(v)) % 3) - 1)
  IN IF base = Error THEN Error ELSE <<"int64", Clamp(base[2] + Clamp(delta))>>

NoiseFloat(v, ratio) ==
  LET base == ToF64(v)
  IN IF base = Error THEN Error
     ELSE IF NaN \in {base, ratio} THEN NaN
     ELSE <<"double", base[2] + base[2] * ratio[2] * ((Digest(HashableBytes(v)) % 3) - 1)>>

NoiseDate(v, maxDays) ==
  LET shift == Ranged(Digest(HashableBytes(v)), Negated(maxDays), maxDays)
  IN IF v[1] # "datetime" THEN Error
     ELSE <<"datetime", Clamp(v[2] + Clamp(shift * DayMillis))>>

Transform(name, params, v, doc) ==
  CASE name \in Derived -> <<"masked", <<name, params, HashableBytes(v)>>>>
    [] name = "random_int" ->
         <<"int64", Ranged(Digest(HashableBytes(v)), params.min[2], params.max[2])>>
    [] name = "noise_int" -> NoiseInt(v, params.ratio[2])
    [] name = "noise_float" -> NoiseFloat(v, params.ratio)
    [] name = "noise_date" -> NoiseDate(v, params.max_days[2])
    [] name = "masking" ->
         IF v[1] = "string" /\ v # EmptyText THEN <<"masked", <<"stars", params, v[2]>>>> ELSE EmptyText
    [] name = "regexp_replace" ->
         IF v[1] = "string" THEN <<"masked", <<"replaced", params, v[2]>>>> ELSE EmptyText
    [] name = "replace" -> params.value
    [] name = "set_null" -> Null
    [] name = "template" -> <<"masked", <<"rendered", params, doc>>>>
=============================================================================
