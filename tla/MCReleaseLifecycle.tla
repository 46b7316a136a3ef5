------------------------- MODULE MCReleaseLifecycle -------------------------
(* ReleaseLifecycle on small instances.                                    *)
EXTENDS ReleaseLifecycle, TLC

\* Values are only compared for equality.
ValuesSymmetry == Permutations(Values)
=============================================================================
