------------------------------- MODULE Filter -------------------------------
(***************************************************************************)
(* Filter (crates/dbshell-core/src/filter.rs).  A row is a function from   *)
(* the columns it has to JSON values [type, n]; n is a number's value or a *)
(* string's place among strings.  A filter is [op, field, values, parts];  *)
(* a Like is known by the strings it is true of, which like_match decides. *)
(***************************************************************************)
EXTENDS Integers, Sequences

CONSTANTS
    Filters,  \* those in use, with their parts
    Exact,    \* 2^53: past it an f64 holds even numbers only
    None      \* of an Option

ASSUME ExactAssumption == Exact \in Nat

ASSUME FiltersAssumption ==
    \A f \in Filters : \A i \in DOMAIN f.parts : f.parts[i] \in Filters

IsNumber(v) == v.type \in {"int", "float"}

\* as_f64(), for integers up to 2 * Exact: ties go to a multiple of four.
AsF64(v) ==
    IF v.type = "float" \/ v.n <= Exact \/ v.n % 2 = 0 THEN v.n
    ELSE 4 * ((v.n + 2) \div 4)

Sign(n) == IF n > 0 THEN 1 ELSE IF n < 0 THEN -1 ELSE 0

\* Numbers by value, strings by text, anything else is Equal.
CmpJsonValues(a, b) ==
    IF IsNumber(a) /\ IsNumber(b) THEN Sign(AsF64(a) - AsF64(b))
    ELSE IF a.type = "string" /\ b.type = "string" THEN Sign(a.n - b.n)
    ELSE 0

Has(row, field) == field \in DOMAIN row

\* The orderings a comparison accepts; the slip takes >= for >.
SlipAccepted(op) ==
    CASE op \in {"Gt", "Gte"} -> {1} [] op = "Lt" -> {-1} [] op = "Lte" -> {0, -1}
Accepted(op) ==
    CASE op = "Gt" -> {1} [] op = "Gte" -> {0, 1} [] op = "Lt" -> {-1} [] op = "Lte" -> {0, -1}

CmpField(row, field, target, op) ==
    Has(row, field) /\ CmpJsonValues(row[field], target) \in Accepted(op)

MatchesFilter(row, filter) ==
    LET holds[f \in Filters] ==
            LET is(v) == Has(row, f.field) /\ row[f.field] = v
                some(test(_)) == \E i \in DOMAIN f.parts : test(f.parts[i])
            IN  CASE f.op = "All"     -> TRUE
                  [] f.op = "Eq"      -> is(f.values[1])
                  [] f.op = "Ne"      -> ~is(f.values[1])
                  [] f.op \in {"Gt", "Gte", "Lt", "Lte"} ->
                        CmpField(row, f.field, f.values[1], f.op)
                  [] f.op = "Between" -> /\ CmpField(row, f.field, f.values[1], "Gte")
                                         /\ CmpField(row, f.field, f.values[2], "Lte")
                  [] f.op = "In"      -> \E i \in DOMAIN f.values : is(f.values[i])
                  [] f.op = "Like"    -> \E i \in DOMAIN f.values :
                                            f.values[i].type = "string" /\ is(f.values[i])
                  [] f.op = "IsNull"  -> Has(row, f.field) => row[f.field].type = "null"
                  [] f.op = "And"     -> ~some(LAMBDA part : ~holds[part])
                  [] f.op = "Or"      -> some(LAMBDA part : holds[part])
                  [] f.op = "Not"     -> ~holds[f.parts[1]]
    IN  holds[filter]
=============================================================================
