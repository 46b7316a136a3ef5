---------------------------- MODULE MCOperators ----------------------------
(* Operators on a small instance.                                          *)
EXTENDS Operators, TLC

\* Harnesses that move, follow and displace each other, with accounts and pods that
\* come and go; labels, groups and accounts that change; and disturbances of each.
MCScenario ==
    {"move" :> 1 @@ "create" :> 1,
     "delete" :> 1 @@ "recreate" :> 1,
     "edit" :> 1 @@ "pod" :> 1,
     "move" :> 1 @@ "pod" :> 1,
     "move" :> 1 @@ "account" :> 1,
     "edit" :> 1 @@ "interrupt" :> 1,
     "label" :> 1 @@ "account" :> 1,
     "group" :> 1 @@ "account" :> 1,
     "group" :> 1 @@ "interrupt" :> 1}
=============================================================================
