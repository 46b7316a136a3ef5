------------------------------ MODULE MCKinds ------------------------------
(* Kinds on a small instance.                                              *)
EXTENDS Kinds

\* Definitions that compete for a group; charts that follow each other; a CRD that
\* is deleted under a claim; the operator disturbed meanwhile.
MCScenario ==
    {"define" :> 2,
     "define" :> 1 @@ "delete crd" :> 1,
     "publish" :> 1 @@ "interrupt" :> 1,
     "delete crd" :> 1 @@ "claim" :> 1 @@ "interrupt" :> 1}
=============================================================================
