------------------------- MODULE BreakageDetection -------------------------
(***************************************************************************)
(* breakagedetection (pkg/breakagedetection): what keeps a generated CRD   *)
(* from replacing the one in the cluster.  A schema is as in ChartSchemas. *)
(***************************************************************************)
EXTENDS ChartSchemas

\* What is looked at: not the entries of a map.
Properties(schema) == {p \in DOMAIN schema : ~IsEntry(p)}

\* Mutant: properties are compared, their types are not.
checkSchemaPropertyNames(original, updated) == Properties(original) \ Properties(updated)

\* Every property that is gone or has another type.  Below one of another type
\* nothing is compared.
checkSchemaProperties(original, updated) ==
    LET differs(p) == p \in DOMAIN updated /\ original[p] # updated[p]
    IN  {p \in Properties(original) :
            /\ p \notin DOMAIN updated \/ differs(p)
            /\ \A n \in 1 .. Len(p) - 1 : SubSeq(p, 1, n) \in DOMAIN updated
                                            /\ ~differs(SubSeq(p, 1, n))}

\* The errors: of the group and names first, else of the schema.
Check(original, updated) ==
    IF original.group # updated.group THEN {"Group has changed"}
    ELSE checkSchemaProperties(original.schema, updated.schema)
=============================================================================
