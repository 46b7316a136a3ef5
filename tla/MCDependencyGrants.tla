------------------------- MODULE MCDependencyGrants -------------------------
(* DependencyGrants on a small instance.                                   *)
EXTENDS DependencyGrants
=============================================================================
