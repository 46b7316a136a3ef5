--------------------------- MODULE ChartVersions ---------------------------
(***************************************************************************)
(* Version discovery (controllers/claimdefinition_controller_manager.go):  *)
(* which versions of a chart a claim may ask for, from the tags that the   *)
(* image reflector has found.  A version is a pair of major and minor,     *)
(* without prerelease; <<>> is a tag that is no version.                   *)
(***************************************************************************)
EXTENDS Integers, SequencesExt

Older(v, w) == v[1] < w[1] \/ (v[1] = w[1] /\ v[2] < w[2])

\* The lines of tags.txt that are versions, newest first.
parseTagsTxt(lines) ==
    SortSeq(SelectSeq(lines, LAMBDA line : line # <<>>), LAMBDA v, w : Older(w, v))

\* Mutant: the constraint on the major version is left out.
constraintUpTo(chartVersion, v) == ~Older(chartVersion, v)

\* The constraint "<= chart version, ~major".
versionConstraint(chartVersion, v) == ~Older(chartVersion, v) /\ v[1] = chartVersion[1]

\* The enum of spec.version.
versionEnum(lines, chartVersion) ==
    SelectSeq(parseTagsTxt(lines), LAMBDA v : versionConstraint(chartVersion, v))
=============================================================================
