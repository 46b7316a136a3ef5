-------------------------- MODULE MCClaimRevisions --------------------------
(* ClaimRevisions on small instances.                                      *)
EXTENDS ClaimRevisions, TLC

\* Values are only compared for equality.
ValuesSymmetry == Permutations(Values)
=============================================================================
