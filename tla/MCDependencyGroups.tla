------------------------- MODULE MCDependencyGroups -------------------------
(* DependencyGroups on small instances.                                    *)
EXTENDS DependencyGroups, TLC

\* CRD names are only compared for equality.
CRDSymmetry == Permutations(CRD)
=============================================================================
