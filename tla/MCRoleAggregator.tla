-------------------------- MODULE MCRoleAggregator --------------------------
(* RoleAggregator on a small instance.                                     *)
EXTENDS RoleAggregator, TLC

\* Kinds come, change and go while applies fail or the operator restarts.
MCScenario == {"write" :> 4 @@ "fail" :> 2, "write" :> 3 @@ "fail" :> 1 @@ "restart" :> 1}
=============================================================================
