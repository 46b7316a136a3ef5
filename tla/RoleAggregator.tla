--------------------------- MODULE RoleAggregator ---------------------------
(***************************************************************************)
(* DynamicCRDsRBACAggregatorManager                                        *)
(* (controllers/dynamic_crds_rbac_aggregator_controller.go): it keeps      *)
(* three ClusterRoles, which are aggregated into admin, edit and view,     *)
(* with a rule for every generated CRD.                                    *)
(*                                                                         *)
(* One worker takes names of CRDs off a queue.  Whatever the name, it      *)
(* lists the CRDs in the informer cache and applies the three roles one    *)
(* after the other, the later ones also when an earlier one fails.         *)
(***************************************************************************)
EXTENDS Naturals, Sequences, Informer

CONSTANTS
    Kind,           \* names of CRDs
    Scenario,       \* bound: the events that may happen, and how often, in each of
                    \*        the scenarios of this instance
    MaxLag          \* bound: CRDs are not written further ahead of the cache than
                    \*        this many changes

\* CRDs written by definitions, users and the API server; applies that fail, and
\* restarts of the operator.
ASSUME ScenarioAssumption ==
    \A s \in Scenario :
        /\ DOMAIN s \subseteq {"write", "fail", "restart"}
        /\ \A event \in DOMAIN s : s[event] \in Nat
ASSUME LagAssumption == MaxLag \in Nat

VARIABLES
    crds,       \* window of the CRDs: for each name its version, 0 if there is none
    queue,      \* the workqueue
    work,       \* the reconcile in progress
    roles,      \* for each role, the kinds it has a rule for
    budget      \* what is left of the scenario

vars == <<crds, queue, work, roles, budget>>

Role == {"admin", "edit", "view"}

\* The order of the applies.
RoleAt == <<"admin", "edit", "view">>

Existing(state) == {k \in Kind : state[k] # 0}

\* kinds is the list, next the role to apply, failed whether an apply has failed.
Idle == [busy |-> FALSE, name |-> {}, kinds |-> {}, next |-> 1, failed |-> FALSE]

Spend(what) ==
    /\ what \in DOMAIN budget /\ budget[what] > 0
    /\ budget' = [budget EXCEPT ![what] = @ - 1]

-----------------------------------------------------------------------------
(* Reconcile.                                                              *)

\* List the CRDs.  The name is of no importance but for the retry.
List ==
    \E k \in queue :
        /\ ~work.busy
        /\ queue' = queue \ {k}
        /\ work' = [busy |-> TRUE, name |-> {k}, kinds |-> Existing(Cached(crds)),
                    next |-> 1, failed |-> FALSE]
        /\ UNCHANGED <<crds, roles, budget>>

Applying == work.busy /\ work.next <= Len(RoleAt)
Applied == [roles EXCEPT ![RoleAt[work.next]] = work.kinds]

Apply ==
    /\ Applying
    /\ roles' = Applied
    /\ work' = [work EXCEPT !.next = @ + 1]
    /\ UNCHANGED <<crds, queue, budget>>

\* An apply that fails, or whose answer is lost.  The others are tried all the same.
ApplyFails ==
    /\ Applying
    /\ Spend("fail")
    /\ roles' \in {roles, Applied}
    /\ work' = [work EXCEPT !.next = @ + 1, !.failed = TRUE]
    /\ UNCHANGED <<crds, queue>>

\* One error is enough to have the workqueue try again.
Conclude ==
    /\ work.busy /\ ~Applying
    /\ queue' = IF work.failed THEN queue \cup work.name ELSE queue
    /\ work' = Idle
    /\ UNCHANGED <<crds, roles, budget>>

-----------------------------------------------------------------------------
(* Watches, and what happens around them.                                  *)

\* Mutant: the deletion of a CRD is no event.
WatchCRDsThatExist ==
    LET delivered == Delivered(crds)
    IN  /\ Lagging(crds)
        /\ crds' = delivered
        /\ queue' = queue \cup {k \in Existing(delivered[1]) : delivered[1][k] # crds[1][k]}
        /\ UNCHANGED <<work, roles, budget>>

\* Every event of a CRD enqueues it, its deletion included.
WatchCRDs ==
    LET delivered == Delivered(crds)
    IN  /\ Lagging(crds)
        /\ crds' = delivered
        /\ queue' = queue \cup {k \in Kind : delivered[1][k] # crds[1][k]}
        /\ UNCHANGED <<work, roles, budget>>

\* A CRD is made, changed or deleted by others.
WriteCRD(k) ==
    /\ Spend("write") /\ Len(crds) <= MaxLag
    /\ \/ crds' = Written(crds, [Stored(crds) EXCEPT ![k] = @ + 1])
       \/ /\ Stored(crds)[k] # 0
          /\ crds' = Written(crds, [Stored(crds) EXCEPT ![k] = 0])
    /\ UNCHANGED <<queue, work, roles>>

\* The operator restarts: it reports the CRDs that it finds.
Restart ==
    /\ Spend("restart")
    /\ crds' = Synced(Stored(crds))
    /\ queue' = Existing(Stored(crds))
    /\ work' = Idle
    /\ UNCHANGED roles

-----------------------------------------------------------------------------

\* The first installation.
Init ==
    /\ crds = Synced([k \in Kind |-> 0])
    /\ queue = {} /\ work = Idle
    /\ roles = [r \in Role |-> {}]
    /\ budget \in Scenario

Reconcile == List \/ Apply \/ Conclude

Next ==
    \/ Reconcile \/ ApplyFails
    \/ WatchCRDs \/ Restart
    \/ \E k \in Kind : WriteCRD(k)

Spec == Init /\ [][Next]_vars

\* The worker and the informer keep running.
FairSpec == Spec /\ WF_vars(Reconcile) /\ WF_vars(WatchCRDs)

-----------------------------------------------------------------------------
(* Properties.                                                             *)

\* Once nothing more is written, the three roles name exactly the kinds that exist,
\* although each is applied on its own from a list that may be old, and whichever
\* of the applies have failed.  What starts it are the events of the CRDs alone, so
\* there is one exception: an operator that restarts and finds no CRD has no event
\* and leaves the roles as they were (SetupWithManager,
\* dynamic_crds_rbac_aggregator_controller.go:87-93).
RolesFollowKinds ==
    <>[](Existing(Stored(crds)) # {} \/ "restart" \notin DOMAIN budget =>
            \A r \in Role : roles[r] = Existing(Stored(crds)))
=============================================================================
