--------------------------- MODULE ServiceAccounts ---------------------------
(***************************************************************************)
(* The service accounts that operators run as.  Charts create and delete   *)
(* them, OperatorHarnessManager writes a scope on them, and                *)
(* DependencyRBACManager binds them to roles.                              *)
(***************************************************************************)
EXTENDS Informer, FiniteSets

CONSTANTS
    Namespace,
    AccountName,
    Harness         \* names of OperatorHarnesses, each the name of its scope as well

Account == Namespace \X AccountName

VARIABLE accounts   \* window of the accounts: Absent, Unscoped or the scope annotation

Absent == "absent"
Unscoped == "unscoped"

Exist(state) == {a \in Account : state[a] # Absent}
In(state, n) == {a \in Exist(state) : a[1] = n}

\* A write that changes nothing makes no event.
Wrote(window, state) == IF Stored(window) = state THEN window ELSE Written(window, state)
=============================================================================
