-------------------------- MODULE DependencyAccess --------------------------
(***************************************************************************)
(* DependencyRBACManager (controllers/dependency_rbac_controller.go) gives *)
(* the service accounts of a namespace that manages a DependencyGroup      *)
(* their rights, cluster-wide and in the namespaces that require it;       *)
(* DependencyNetworkPolicyManager (dependency_netpol_controller.go) lets   *)
(* their pods in.  Both reconcile namespaces.                              *)
(***************************************************************************)
EXTENDS ServiceAccounts

CONSTANT Group

VARIABLES
    namespaces,     \* window of the labels of the namespaces
    rules,          \* window of the DependencyGroups: the version of its rules, 0 for none
    provided,       \* for each namespace, its two ClusterRoles and their bindings
    access,         \* for each consumer, provider and group, the Role and its binding
    policies,       \* for each namespace, the groups whose managers its policy lets in
    policyQueue, accessQueue,
    accessWork      \* the reconcile in progress

accessVars == <<namespaces, rules, provided, access, policies, policyQueue, accessQueue, accessWork>>

-----------------------------------------------------------------------------

\* The label of a group is its key.  ReleaseController gives it no value, others may:
\* valued are the groups that the namespace manages by a label with a value.
LabelSet == [managed : BOOLEAN, manages : SUBSET Group, valued : SUBSET Group,
             requires : SUBSET Group]
Labels == {labels \in LabelSet : labels.valued \subseteq labels.manages}
NoLabels == [managed |-> FALSE, manages |-> {}, valued |-> {}, requires |-> {}]

\* A role with the rules of some groups, and who it is bound to.
Grant == [rules : SUBSET (Group \X Nat), subjects : SUBSET Account]
NoGrant == [rules |-> {}, subjects |-> {}]

Kind == {"scopedlist", "clusterscoped"}

AccessIdle == [stage |-> "idle", name |-> "none", manages |-> {}, requires |-> {}]

AccessTo(stage) == accessWork' = [accessWork EXCEPT !.stage = stage] /\ UNCHANGED accessQueue

-----------------------------------------------------------------------------

\* The groups of those names that can be found, with their rules.
dependencyGroupsForNames(names) == {<<g, Cached(rules)[g]>> : g \in {x \in names : Cached(rules)[x] # 0}}

\* Get the namespace and load the groups it manages and requires.
AccessGet ==
    \E n \in accessQueue :
        LET ns == Cached(namespaces)[n]
        IN  /\ accessWork.stage = "idle"
            /\ accessQueue' = accessQueue \ {n}
            /\ accessWork' = [stage |-> "scopedlist", name |-> n,
                              manages |-> dependencyGroupsForNames(ns.manages),
                              requires |-> dependencyGroupsForNames(ns.requires)]
            /\ UNCHANGED <<accounts, namespaces, rules, provided, access, policies, policyQueue>>

\* A role and its binding are applied one after the other, whatever becomes of the
\* first; parts are those that are applied.
Provide(kind, parts) ==
    provided' = [provided EXCEPT ![accessWork.name][kind] =
        [rules |-> IF "role" \in parts THEN accessWork.manages ELSE @.rules,
         subjects |-> IF "binding" \in parts THEN In(Cached(accounts), accessWork.name)
                      ELSE @.subjects]]

ensureScopedListPermissions ==
    /\ accessWork.stage = "scopedlist"
    /\ Provide("scopedlist", {"role", "binding"})
    /\ AccessTo("clusterscoped")
    /\ UNCHANGED <<accounts, namespaces, rules, access, policies, policyQueue>>

ensureClusterScopedRules ==
    /\ accessWork.stage = "clusterscoped"
    /\ Provide("clusterscoped", {"role", "binding"})
    /\ AccessTo("requires")
    /\ UNCHANGED <<accounts, namespaces, rules, access, policies, policyQueue>>

\* Mutant: the role of the first provider found has to do.
NeededRolesOfOne ==
    LET Providers(g) == {p \in Namespace : g \in Cached(namespaces)[p].manages}
    IN  {at \in DOMAIN access :
            /\ at[1] = accessWork.name /\ at[2] \in Providers(at[3])
            /\ at[2] = CHOOSE p \in Providers(at[3]) : TRUE
            /\ \E r \in accessWork.requires : r[1] = at[3]}

\* The roles that the namespace needs, one for every namespace that manages a group
\* it requires: those with the label of the group, if it has no value.
NeededRoles == {at \in DOMAIN access :
            /\ at[1] = accessWork.name
            /\ at[3] \in Cached(namespaces)[at[2]].manages \ Cached(namespaces)[at[2]].valued
            /\ \E r \in accessWork.requires : r[1] = at[3]}

\* Some of the roles and of their bindings are applied.  Roles of those that no longer
\* manage the group stay.
Grants(roles, bindings) ==
    access' = [at \in DOMAIN access |->
        [rules |-> IF at \in roles THEN {r \in accessWork.requires : r[1] = at[3]}
                   ELSE access[at].rules,
         subjects |-> IF at \in bindings THEN In(Cached(accounts), at[2])
                      ELSE access[at].subjects]]

ensureRequiresRules ==
    /\ accessWork.stage = "requires"
    /\ Grants(NeededRoles, NeededRoles)
    /\ accessWork' = AccessIdle
    /\ UNCHANGED <<accounts, namespaces, rules, provided, policies, policyQueue, accessQueue>>

\* A call fails.  What was applied before it is, one role perhaps without its binding
\* or the other way round.
AccessFails ==
    /\ accessWork.stage # "idle"
    /\ \/ /\ accessWork.stage \in Kind
          /\ \E parts \in SUBSET {"role", "binding"} : Provide(accessWork.stage, parts)
          /\ UNCHANGED access
       \/ /\ accessWork.stage = "requires"
          /\ \E roles, bindings \in SUBSET NeededRoles :
                /\ Cardinality((roles \cup bindings) \ (roles \cap bindings)) <= 1
                /\ Grants(roles, bindings)
          /\ UNCHANGED provided
    /\ accessWork' = AccessIdle
    /\ accessQueue' = accessQueue \cup {accessWork.name}
    /\ UNCHANGED <<accounts, namespaces, rules, policies, policyQueue>>

AccessProgress ==
    AccessGet \/ ensureScopedListPermissions \/ ensureClusterScopedRules \/ ensureRequiresRules

\* DependencyNetworkPolicyManager.Reconcile.
ReconcilePolicy ==
    \E n \in policyQueue :
        /\ policyQueue' = policyQueue \ {n}
        /\ policies' = [policies EXCEPT ![n] = Cached(namespaces)[n].requires]
        /\ UNCHANGED <<accounts, namespaces, rules, provided, access, accessQueue, accessWork>>

-----------------------------------------------------------------------------
(* Watches: SetupWithManager of both.                                      *)

Managed == {n \in Namespace : Cached(namespaces)[n].managed}

\* Only namespaces with the label chrysopoeia.io/managed count.
WatchNamespaces ==
    LET changed == {n \in Namespace : namespaces[1][n] # namespaces[2][n] /\ namespaces[2][n].managed}
    IN  /\ Lagging(namespaces)
        /\ namespaces' = Delivered(namespaces)
        /\ accessQueue' = accessQueue \cup changed
        /\ policyQueue' = policyQueue \cup changed
        /\ UNCHANGED <<accounts, rules, provided, access, policies, accessWork>>

mapToManagedNamespaces == Managed

\* An event of a group enqueues all namespaces.
WatchGroups ==
    /\ Lagging(rules)
    /\ rules' = Delivered(rules)
    /\ accessQueue' = accessQueue \cup mapToManagedNamespaces
    /\ UNCHANGED <<accounts, namespaces, provided, access, policies, policyQueue, accessWork>>

\* An event of an account enqueues the namespace that has the name of the account.
mapToManagedNamespace(a) == {a[2]} \cap Managed

\* The informers report all they hold again from time to time.
ResyncNamespaces ==
    /\ accessQueue' = accessQueue \cup Managed
    /\ policyQueue' = policyQueue \cup Managed
    /\ UNCHANGED <<accounts, namespaces, rules, provided, access, policies, accessWork>>
=============================================================================
