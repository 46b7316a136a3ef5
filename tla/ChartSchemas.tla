---------------------------- MODULE ChartSchemas ----------------------------
(***************************************************************************)
(* schemagen (pkg/schemagen): the schema of spec.values that is generated  *)
(* from the values.yaml of a chart.                                        *)
(*                                                                         *)
(* A values.yaml is the function from the paths of its leaves to what is   *)
(* there, so that a table is a path that others go on from, or a leaf      *)
(* <<"empty">>.  The hints that matter here are export, type (a leaf of    *)
(* kind "typed"), and items and properties (what a table is made of).      *)
(***************************************************************************)
EXTENDS Integers, SequencesExt

\* leaf: the values; export: the export hints that are set, by path; items: the type
\* that an items hint gives to the entries of a table, by its path; shape: the leaves
\* that a properties hint gives to a table, by its path.
NoChart == [leaf |-> <<>>, export |-> <<>>, items |-> <<>>, shape |-> <<>>]

\* In a schema this stands for a key of any name (additionalProperties).
AnyKey == "*"
IsEntry(path) == \E i \in DOMAIN path : path[i] = AnyKey

Comparable(p, q) == IsPrefix(p, q) \/ IsPrefix(q, p)

\* <<"expr", p>> is an expression, and so is <<"unmarked", p>>, where the value or its
\* hint is an alias, so that a pass over the nodes of the file does not recognise it.
Exprs(chart) == {p \in DOMAIN chart.leaf : chart.leaf[p][1] \in {"expr", "unmarked"}}
Marked(chart) == {p \in Exprs(chart) : chart.leaf[p][1] = "expr"}

\* Mutant: an explicit export hint is left as it is.
PreprocessUnlessHinted(chart) ==
    [p \in DOMAIN chart.export \cup Marked(chart) |->
        IF p \in DOMAIN chart.export THEN chart.export[p] ELSE FALSE]

\* PreprocessYAML: the export hints, with that of an expression set to false
\* whatever it was.
PreprocessYAML(chart) ==
    [p \in DOMAIN chart.export \cup Marked(chart) |->
        IF p \in Marked(chart) THEN FALSE ELSE chart.export[p]]

\* The hint of a path or of the nearest table around it.
exported(hints, path) ==
    LET marked == {q \in DOMAIN hints : IsPrefix(q, path)}
    IN  \A q \in marked : (\A r \in marked : IsPrefix(r, q)) => hints[q]

\* The type in the hint, or what the value looks like; "" if neither tells.
guessType(leaf) ==
    CASE leaf[1] = "typed" -> "integer"
      [] leaf[1] \in {"text", "expr", "unmarked"} -> "string"
      [] OTHER -> ""

\* The tables in the values that a hint replaces; what is in them does not count.
Replaced(chart) ==
    LET hinted == DOMAIN chart.items \cup DOMAIN chart.shape
    IN  {t \in hinted :
            /\ \E p \in DOMAIN chart.leaf :
                  IsPrefix(t, p) /\ (p = t => chart.leaf[p] = <<"empty">>)
            /\ \A s \in hinted : IsPrefix(s, t) => s = t}

\* Of two hints items counts.
Maps(chart) == Replaced(chart) \cap DOMAIN chart.items

\* The leaves of the schema, with their types.  What a hint gives to a table is exported
\* as the table is.
SchemaLeaves(chart) ==
    LET hints == PreprocessYAML(chart)
        plain == {p \in DOMAIN chart.leaf :
                     /\ \A t \in Replaced(chart) : ~IsPrefix(t, p)
                     /\ guessType(chart.leaf[p]) # ""
                     /\ exported(hints, p)}
        entries == {Append(t, AnyKey) : t \in {u \in Maps(chart) : exported(hints, u)}}
        given == UNION {chart.shape[t] : t \in Replaced(chart) \ Maps(chart)}
    IN  [p \in plain \cup entries \cup given |->
            IF p \in plain THEN guessType(chart.leaf[p])
            ELSE IF p \in entries THEN chart.items[Front(p)]
            ELSE "string"]

\* A table with a shape that is not exported comes out as nil, which is dereferenced.
Generates(chart) ==
    \A t \in Replaced(chart) \ Maps(chart) : exported(PreprocessYAML(chart), t)

\* valuesSchema: the properties at every path; a table without any is left out, a map
\* stays, whatever its entries.
valuesSchema(chart) ==
    LET leaves == SchemaLeaves(chart)
        nodes == UNION {{SubSeq(p, 1, n) : n \in 1 .. Len(p)} : p \in DOMAIN leaves \cup Maps(chart)}
    IN  [p \in nodes |-> IF p \in DOMAIN leaves THEN leaves[p] ELSE "object"]

\* GenerateCRD: besides the schema, what names the kind (here the major version).
GenerateCRD(chart, major) == [group |-> major, schema |-> valuesSchema(chart)]
=============================================================================
