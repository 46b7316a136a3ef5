---------------------------- MODULE Translations ----------------------------
(***************************************************************************)
(* The parts that translate: config maps to platform values, a chart to    *)
(* the CRD and to the values of a claim, tags to the versions on offer,    *)
(* and the requests of an operator to those the API server gets.  They     *)
(* share no state with each other, and a behaviour is about one of them.   *)
(***************************************************************************)
EXTENDS PlatformValues, ScopingProxy

CONSTANTS
    Path,           \* paths in the values.yaml of charts that are released
    Leaf,           \* what may be there, as in ChartSchemas and CelValues
    Hinted,         \* those that may have an export hint
    Mapped,         \* tables that may have an items hint
    Entry,          \* the types that those give to the entries
    Shape,          \* properties hints: sets of leaves of a table, by its path
    CelPath,        \* paths in values.yaml and claims where expressions are evaluated
    Version,        \* versions of charts
    MaxTags         \* bound: lines of tags.txt

\* A properties hint of a table gives it leaves of its own.  No key has the name that
\* stands for any key.
ASSUME PathAssumption ==
    /\ Path \cup Mapped \cup DOMAIN Shape \subseteq Seq(STRING)
    /\ \A t \in DOMAIN Shape : \A p \in Shape[t] : p \in Seq(STRING) /\ IsPrefix(t, p) /\ p # t
    /\ \A p \in Path \cup Mapped \cup UNION {Shape[t] : t \in DOMAIN Shape} :
          \A i \in DOMAIN p : p[i] # "*"

Cel == INSTANCE CelValues
Schemas == INSTANCE BreakageDetection
Versions == INSTANCE ChartVersions

VARIABLES
    part,           \* which part it is
    chart,          \* the chart of the CRD in the cluster
    crd,            \* that CRD
    claim,          \* the values of a claim of its kind: types, by path
    discovery       \* the last tags, chart version and enum

chartVars == <<chart, crd, claim, discovery>>
vars == <<part, cms, proxyVars, chartVars>>

-----------------------------------------------------------------------------

\* Functions from paths of which none goes on from another.
Trees(space, values) ==
    UNION {[paths -> values] : paths \in {ps \in SUBSET space :
               \A p, q \in ps : p # q => ~IsPrefix(p, q)}}

Charts(kinds) ==
    {[leaf |-> l, export |-> e, items |-> i, shape |-> s] :
        l \in Trees(Path, kinds), e \in UNION {[H -> BOOLEAN] : H \in SUBSET Hinted},
        i \in UNION {[M -> Entry] : M \in SUBSET Mapped}, s \in {<<>>, Shape}}

\* The charts that compile, each with what is generated from it.
Releases ==
    {[chart |-> c, crd |-> Schemas!GenerateCRD(c, 1)] :
        c \in {new \in Charts(Leaf) : Cel!New(new) /\ Schemas!Generates(new)}}

\* A chart is released; its CRD is applied if that breaks nothing.
Publish ==
    /\ part = "chart"
    /\ \E new \in Releases :
          /\ Schemas!Check(crd, new.crd) = {}
          /\ chart' = new.chart
          /\ crd' = new.crd
    /\ UNCHANGED <<part, cms, proxyVars, claim, discovery>>

\* A user writes the claim; the API server prunes it to the leaves of the schema.
WriteClaim ==
    /\ part = "chart"
    /\ \E paths \in SUBSET {p \in DOMAIN crd.schema : crd.schema[p] # "object"} :
          claim' = [p \in paths |-> crd.schema[p]]
    /\ UNCHANGED <<part, cms, proxyVars, chart, crd, discovery>>

\* A revision is calculated, for any chart and any claim: the claim may have been
\* made for another version.
Calculate ==
    /\ part = "cel" /\ chart = Schemas!NoChart /\ claim = <<>>
    /\ \E leaves \in Trees(CelPath, {<<"text">>, <<"empty">>} \cup {<<"expr", p>> : p \in CelPath}) :
          chart' = [Schemas!NoChart EXCEPT !.leaf = leaves]
    /\ claim' \in Trees(CelPath, {"claimed", Cel!EmptyTable})
    /\ UNCHANGED <<part, cms, proxyVars, crd, discovery>>

\* The tags are read for a chart; with the wrong digest nothing comes of it.
Discover ==
    /\ part = "tags" /\ discovery.lines = <<>>
    /\ \E n \in 0 .. MaxTags : \E lines \in [1 .. n -> Version \cup {<<>>}], v \in Version :
          discovery' = [lines |-> lines, chart |-> v, enum |-> Versions!versionEnum(lines, v)]
    /\ UNCHANGED <<part, cms, proxyVars, chart, crd, claim>>

TInit ==
    /\ part \in {"config maps", "proxy", "chart", "cel", "tags"}
    /\ Init
    /\ ProxyInit /\ (part # "proxy" => injection = Unset)
    /\ chart = Schemas!NoChart
    /\ crd = Schemas!GenerateCRD(Schemas!NoChart, 1)
    /\ claim = <<>>
    /\ discovery = [lines |-> <<>>, chart |-> <<0, 0>>, enum |-> <<>>]

ConfigMaps == part = "config maps" /\ Next /\ UNCHANGED <<part, proxyVars, chartVars>>
Proxy == part = "proxy" /\ ProxyNext /\ UNCHANGED <<part, cms, chartVars>>

TNext == ConfigMaps \/ Proxy \/ Publish \/ WriteClaim \/ Calculate \/ Discover

TSpec == TInit /\ [][TNext]_vars

-----------------------------------------------------------------------------

Fits(p) == p \in DOMAIN crd.schema /\ crd.schema[p] = claim[p]

\* What a claim has set stays settable, with the type it had, through all the
\* releases that are let through: no later chart drops or retypes it.  This is so of
\* properties, those next to and around maps included.  It is not so of the entries of
\* a map, which the property leaves out: their schema, additionalProperties, is not
\* compared (breakagedetection.go:73-117), so that a chart may give them another type
\* or make properties of them although "errors indicate breaking changes" (line 14).
StoredClaimsFit ==
    part = "chart" => \A p \in DOMAIN claim : ~Schemas!IsEntry(p) => Fits(p)

\* What a claim sets at q is the value at p, or above or below it.
Meets(q, p) == \A i \in DOMAIN p \cap DOMAIN q : q[i] \in {p[i], Schemas!AnyKey}

\* The claim sets what is computed at p.  An entry of what was a map and is no more is
\* pruned.
Settable(p) ==
    \E q \in DOMAIN claim : Meets(q, p) /\ (Schemas!IsEntry(q) => q \in DOMAIN crd.schema)

\* A claim, whenever it was written, sets nothing on, above or below a value that the
\* chart now computes, so that no result overwrites it or finds no place.  The comment
\* at preprocess.go:83-85 says so of every expression; it is so of those that
\* PreprocessYAML recognises, outside of tables that a hint replaces, and only of these.
\* In a table with an items or a properties hint a claim can set the key of any
\* expression (schemagen.go:347-374), and where the value or its hint is an alias the
\* expression is exported as if it were text (preprocess.go:86, 88).
ComputedIsNotSettable ==
    part = "chart" =>
        \A p \in Schemas!Marked(chart) :
            (\A t \in Schemas!Replaced(chart) : ~IsPrefix(t, p)) => ~Settable(p)

\* "They never see each other's results" (celvalues.go:12): in whatever order the
\* expressions are evaluated, each yields what the claim over the defaults has, the
\* rest is the claim's own, without defaults, and it fails only where the claim has
\* a leaf on the way or the expression itself finds nothing.
ResultsAreIndependent ==
    part = "cel" =>
        LET seen == Cel!CoalesceInto(claim, Cel!defaults(chart))
            exprs == Cel!Exprs(chart)
            read(p) == Cel!Eval(seen, chart.leaf[p][2])
            fails == \E p \in exprs : read(p) = <<>> \/ Cel!pathConflict(claim, p)
        IN  \A order \in SetToSeqs(exprs) :
               LET out == Cel!Apply(chart, claim, order)
               IN  IF fails THEN out = Cel!Failed
                   ELSE /\ \A p \in exprs : Cel!Eval(out, p) = read(p)
                        /\ \A q \in DOMAIN out \cup DOMAIN claim :
                              (\A p \in exprs : ~Cel!Comparable(p, q)) =>
                                 q \in DOMAIN out /\ q \in DOMAIN claim /\ out[q] = claim[q]

\* The versions on offer are the tags of the chart's major version up to its own,
\* as many times as they are listed, newest first: the first, which claims without
\* a version take, is the newest.
NewestIsOffered ==
    LET d == discovery
        fits == {i \in DOMAIN d.lines : /\ d.lines[i] # <<>>
                                        /\ d.lines[i][1] = d.chart[1] /\ d.lines[i][2] <= d.chart[2]}
    IN  /\ Len(d.enum) = Cardinality(fits)
        /\ \A i \in fits : \E j \in DOMAIN d.enum : d.enum[j] = d.lines[i]
        /\ \A i, j \in DOMAIN d.enum : i < j => d.enum[i][2] >= d.enum[j][2]
=============================================================================
