----------------------------- MODULE CelValues -----------------------------
(***************************************************************************)
(* celvalues (pkg/celvalues): the expressions in the values.yaml of a      *)
(* chart, evaluated for a claim.                                           *)
(*                                                                         *)
(* Values are functions from the paths of leaves, as in ChartSchemas; an   *)
(* empty table is a leaf.  An expression <<"expr", p>> yields what values  *)
(* has at p, a leaf or a table, and fails if there is nothing.             *)
(* <<"broken">> stands for all that New refuses: an expression that is     *)
(* empty, does not compile, stands in a list or in a key, or whose prefix  *)
(* is misspelt.                                                            *)
(***************************************************************************)
EXTENDS ChartSchemas

New(chart) == \A p \in DOMAIN chart.leaf : chart.leaf[p][1] # "broken"

EmptyTable == "{}"

Below(p, t) == IsPrefix(t, p) /\ p # t

\* The plain values scan leaves as defaults.  A table stays, even if all it had were
\* expressions.
defaults(chart) ==
    LET plain == DOMAIN chart.leaf \ Exprs(chart)
        tables == UNION {{SubSeq(p, 1, n) : n \in 1 .. Len(p) - 1} : p \in DOMAIN chart.leaf}
        hollow == {t \in tables : \A q \in plain \cup tables : ~Below(q, t)}
    IN  [p \in plain \cup hollow |->
            IF p \in hollow \/ chart.leaf[p] = <<"empty">> THEN EmptyTable ELSE "default"]

\* helmutil.CoalesceTables: what dst has stays, and src does not go below a leaf of
\* dst nor puts one above its tables, but fills those that are empty.  (Claims hold no
\* null.)
CoalesceInto(dst, src) ==
    LET new == {p \in DOMAIN src : \A q \in DOMAIN dst :
                   Comparable(p, q) => dst[q] = EmptyTable /\ Below(p, q)}
        stay == {q \in DOMAIN dst : \A p \in new : ~Below(p, q)}
    IN  [p \in stay \cup new |-> IF p \in new THEN src[p] ELSE dst[p]]

\* Eval and jsonValue: the values below p, by the rest of their paths.
Eval(vars, p) ==
    [rest \in {SubSeq(q, Len(p) + 1, Len(q)) : q \in {r \in DOMAIN vars : IsPrefix(p, r)}} |->
        vars[p \o rest]]

\* Something that is not a table sits on the way.
pathConflict(out, path) == \E q \in DOMAIN out : Below(path, q) /\ out[q] # EmptyTable

SetNestedField(out, path, val) ==
    LET stay == {q \in DOMAIN out : ~Comparable(path, q)}
    IN  [q \in stay \cup {path \o rest : rest \in DOMAIN val} |->
            IF q \in stay THEN out[q] ELSE val[SubSeq(q, Len(path) + 1, Len(q))]]

Failed == [p \in {<<>>} |-> "error"]

\* Mutant: an expression sees what those before it have written.
WriteSeen(chart, vars, out, path) ==
    LET val == Eval(CoalesceInto(out, vars), chart.leaf[path][2])
    IN  IF out = Failed \/ val = <<>> \/ pathConflict(out, path) THEN Failed
        ELSE SetNestedField(out, path, val)

\* One turn of the loop over the expressions.
WriteResult(chart, vars, out, path) ==
    LET val == Eval(vars, chart.leaf[path][2])
    IN  IF out = Failed \/ val = <<>> \/ pathConflict(out, path) THEN Failed
        ELSE SetNestedField(out, path, val)

\* Apply, with the expressions in the order given.
Apply(chart, claimValues, order) ==
    LET vars == CoalesceInto(claimValues, defaults(chart))
    IN  FoldLeft(LAMBDA out, path : WriteResult(chart, vars, out, path), claimValues, order)
=============================================================================
