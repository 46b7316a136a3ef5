----------------------------- MODULE Operators -----------------------------
(***************************************************************************)
(* What is set up around the operators that instances deploy: the harness  *)
(* of OperatorHarnesses and the rights of DependencyAccess, which meet in  *)
(* the service accounts of the operators' namespaces.  Users (and charts,  *)
(* and ReleaseController on behalf of users) edit harnesses, labels,       *)
(* groups and accounts meanwhile, and pods come up.                        *)
(***************************************************************************)
EXTENDS OperatorHarnesses, DependencyAccess

CONSTANTS
    FirstHarness, Home,     \* a harness, and the namespace it is for at first
    Scenario,               \* bound: the events that may happen, and how often, in each
                            \*        of the scenarios of this instance
    MaxUid,                 \* bound: how often a harness is created
    MaxLag                  \* bound: nobody runs further ahead of a cache than this

ASSUME HomeAssumption == FirstHarness \in Harness /\ Home \in Namespace
ASSUME ScenarioAssumption ==
    \A s \in Scenario :
        /\ DOMAIN s \subseteq {"create", "recreate", "move", "edit", "delete", "account", "pod",
                            "label", "group", "interrupt"}
        /\ \A event \in DOMAIN s : s[event] \in Nat

VARIABLES
    pods,       \* for each account, how its newest pod reaches the API server
    budget      \* what is left of the scenario

vars == <<accounts, harnessVars, accessVars, pods, budget>>

Spend(what) ==
    /\ what \in DOMAIN budget /\ budget[what] > 0
    /\ budget' = [budget EXCEPT ![what] = @ - 1]

-----------------------------------------------------------------------------
(* Users.                                                                  *)

Applied(h, next) ==
    /\ Len(harnesses) <= MaxLag
    /\ harnesses' = Written(harnesses, [Stored(harnesses) EXCEPT ![h] = next])
    /\ UNCHANGED <<accounts, scopeRoles, cas, hooks, harnessQueue, harnessWork, accessVars, pods>>

CreateHarness(h) ==
    LET old == Stored(harnesses)[h]
    IN  /\ Spend(IF old.uid = 0 THEN "create" ELSE "recreate")
        /\ ~old.live /\ old.uid < MaxUid
        /\ \E n \in Namespace :
              Applied(h, [NoHarness EXCEPT !.live = TRUE, !.uid = old.uid + 1, !.generation = 1,
                                           !.namespace = n, !.inject = TRUE])

MoveHarness(h) ==
    LET old == Stored(harnesses)[h]
    IN  /\ Spend("move") /\ old.live
        /\ \E n \in Namespace \ {old.namespace} :
              Applied(h, [old EXCEPT !.namespace = n, !.generation = @ + 1])

\* Change whom it is for, or switch the injection.
EditHarness(h) ==
    LET old == Stored(harnesses)[h]
    IN  /\ Spend("edit") /\ old.live
        /\ \/ \E names \in (SUBSET AccountName) \ {old.names} :
                 Applied(h, [old EXCEPT !.names = names, !.generation = @ + 1])
           \/ Applied(h, [old EXCEPT !.inject = ~@, !.generation = @ + 1])

DeleteHarness(h) ==
    /\ Spend("delete") /\ Stored(harnesses)[h].live
    /\ Applied(h, [NoHarness EXCEPT !.uid = Stored(harnesses)[h].uid])

EditAccount(a) ==
    /\ Spend("account") /\ Len(accounts) <= MaxLag
    /\ accounts' = Written(accounts, [Stored(accounts) EXCEPT ![a] = IF @ = Absent THEN Unscoped ELSE Absent])
    /\ UNCHANGED <<harnessVars, accessVars, pods>>

CreatePod(a) ==
    /\ Spend("pod") /\ a \in Exist(Stored(accounts))
    /\ pods' = [pods EXCEPT ![a] = Handle(a)]
    /\ UNCHANGED <<accounts, harnessVars, accessVars>>

EditLabels(n) ==
    /\ Spend("label") /\ Len(namespaces) <= MaxLag
    /\ \E labels \in Labels \ {Stored(namespaces)[n]} :
          namespaces' = Written(namespaces, [Stored(namespaces) EXCEPT ![n] = labels])
    /\ UNCHANGED <<accounts, harnessVars, rules, provided, access, policies,
                   policyQueue, accessQueue, accessWork, pods>>

\* A group is edited, or withdrawn.
EditGroup(g) ==
    /\ Spend("group") /\ Len(rules) <= MaxLag
    /\ \E version \in {0, Stored(rules)[g] + 1} \ {Stored(rules)[g]} :
          rules' = Written(rules, [Stored(rules) EXCEPT ![g] = version])
    /\ UNCHANGED <<accounts, harnessVars, namespaces, provided, access, policies,
                   policyQueue, accessQueue, accessWork, pods>>

Users ==
    \/ \E h \in Harness : CreateHarness(h) \/ MoveHarness(h) \/ EditHarness(h) \/ DeleteHarness(h)
    \/ \E a \in Account : EditAccount(a) \/ CreatePod(a)
    \/ \E n \in Namespace : EditLabels(n)
    \/ \E g \in Group : EditGroup(g)

-----------------------------------------------------------------------------

CachesFollow == Len(accounts') <= MaxLag + 1 /\ Len(cas') <= MaxLag + 1 /\ Len(hooks') <= MaxLag + 1

HarnessStep == HarnessProgress /\ CachesFollow /\ UNCHANGED <<accessVars, pods, budget>>
Collect == CollectHarnessed /\ CachesFollow /\ UNCHANGED <<accessVars, pods, budget>>
AccessStep == AccessProgress /\ UNCHANGED <<harnessVars, pods, budget>>
PolicyStep == ReconcilePolicy /\ UNCHANGED <<harnessVars, pods, budget>>

DeliverHarness == WatchHarnesses /\ UNCHANGED <<accessVars, pods, budget>>
DeliverCA == WatchCAs /\ UNCHANGED <<accessVars, pods, budget>>
DeliverHook == WatchHooks /\ UNCHANGED <<accessVars, pods, budget>>
DeliverNamespace == WatchNamespaces /\ UNCHANGED <<harnessVars, pods, budget>>
DeliverGroup == WatchGroups /\ UNCHANGED <<harnessVars, pods, budget>>

\* Both managers watch the accounts.
DeliverAccount ==
    /\ Lagging(accounts)
    /\ accounts' = Delivered(accounts)
    /\ harnessQueue' = harnessQueue \cup HarnessesOfAccounts
    /\ accessQueue' = accessQueue \cup UNION {mapToManagedNamespace(a) : a \in Changed(accounts)}
    /\ UNCHANGED <<harnesses, scopeRoles, cas, hooks, harnessWork, namespaces, rules, provided,
                   access, policies, policyQueue, accessWork, pods, budget>>

HarnessesIdle == harnessQueue = {} /\ harnessWork = HarnessIdle
AccessAtRest == accessQueue = {} /\ accessWork = AccessIdle /\ policyQueue = {}
Synchronous == \A window \in {accounts, harnesses, cas, hooks, namespaces, rules} : ~Lagging(window)

\* The informers report all they hold again every ten hours (bound: when nothing
\* else is going on).
Resync ==
    /\ Synchronous /\ HarnessesIdle /\ AccessAtRest
    /\ ResyncNamespaces
    /\ harnessQueue' = {h \in Harness : Cached(harnesses)[h].live}
    /\ UNCHANGED <<harnesses, scopeRoles, cas, hooks, harnessWork, pods, budget>>

Failure ==
    /\ Spend("interrupt")
    /\ \/ HarnessFails /\ UNCHANGED accessVars
       \/ AccessFails /\ UNCHANGED harnessVars
    /\ UNCHANGED pods

\* The operator restarts and lists everything afresh.
Restart ==
    /\ Spend("interrupt")
    /\ accounts' = Synced(Stored(accounts)) /\ harnesses' = Synced(Stored(harnesses))
    /\ cas' = Synced(Stored(cas)) /\ hooks' = Synced(Stored(hooks))
    /\ namespaces' = Synced(Stored(namespaces)) /\ rules' = Synced(Stored(rules))
    /\ harnessQueue' = {h \in Harness : Stored(harnesses)[h].live}
    /\ accessQueue' = {n \in Namespace : Stored(namespaces)[n].managed}
    /\ policyQueue' = {n \in Namespace : Stored(namespaces)[n].managed}
    /\ harnessWork' = HarnessIdle /\ accessWork' = AccessIdle
    /\ UNCHANGED <<scopeRoles, provided, access, policies, pods>>

\* Scenarios about labels and groups start with namespaces that manage and require
\* each other's groups, the others with a harness.
AboutAccess == {"label", "group"} \cap DOMAIN budget # {}

Init ==
    /\ budget \in Scenario
    /\ accounts = Synced([a \in Account |-> Unscoped])
    /\ harnesses = Synced([h \in Harness |->
          IF h = FirstHarness /\ ~AboutAccess
          THEN [NoHarness EXCEPT !.live = TRUE, !.uid = 1, !.generation = 1,
                                 !.namespace = Home, !.inject = TRUE]
          ELSE NoHarness])
    /\ scopeRoles = [h \in Harness |-> NoRole]
    /\ cas = Synced([n \in Namespace |-> NoOwner])
    /\ hooks = Synced([h \in Harness |-> NoHook])
    /\ harnessQueue = {h \in Harness : Cached(harnesses)[h].live}
    /\ harnessWork = HarnessIdle
    /\ namespaces = Synced([n \in Namespace |->
          IF AboutAccess THEN [managed |-> TRUE, manages |-> IF n = Home THEN Group ELSE {},
                               valued |-> {}, requires |-> IF n = Home THEN {} ELSE Group]
          ELSE NoLabels])
    /\ rules = Synced([g \in Group |-> 1])
    /\ provided = [n \in Namespace |-> [k \in Kind |-> NoGrant]]
    /\ access = [at \in Namespace \X Namespace \X Group |-> NoGrant]
    /\ policies = [n \in Namespace |-> {}]
    /\ accessQueue = Managed /\ policyQueue = Managed
    /\ accessWork = AccessIdle
    /\ pods = [a \in Account |-> "none"]

Next ==
    \/ HarnessStep \/ AccessStep \/ PolicyStep \/ Collect
    \/ DeliverHarness \/ DeliverCA \/ DeliverHook \/ DeliverNamespace \/ DeliverGroup
    \/ DeliverAccount \/ Resync \/ Restart \/ Failure \/ Users

Spec == Init /\ [][Next]_vars

\* The workers, the informers and the garbage collector keep running.
FairSpec ==
    /\ Spec
    /\ WF_vars(HarnessStep) /\ WF_vars(AccessStep) /\ WF_vars(PolicyStep) /\ WF_vars(Collect)
    /\ WF_vars(DeliverHarness) /\ WF_vars(DeliverCA) /\ WF_vars(DeliverHook)
    /\ WF_vars(DeliverNamespace) /\ WF_vars(DeliverGroup) /\ WF_vars(DeliverAccount)
    /\ WF_vars(Resync)

-----------------------------------------------------------------------------
(* Properties.                                                             *)

TypeOK ==
    /\ \A i \in 1 .. Len(accounts) : accounts[i] \in [Account -> {Absent, Unscoped} \cup Harness]
    /\ \A i \in 1 .. Len(harnesses) : harnesses[i] \in [Harness -> HarnessObject]
    /\ \A h \in Harness : scopeRoles[h].subjects \subseteq Account
    /\ harnessQueue \subseteq Harness /\ accessQueue \cup policyQueue \subseteq Namespace
    /\ provided \in [Namespace -> [Kind -> Grant]]
    /\ \A at \in DOMAIN access : access[at] \in Grant
    /\ pods \in [Account -> {"none", "direct", "proxied"}]

\* While a harness says it is ready, no pod of an account it is for comes up that
\* talks to the API server directly: the webhook, which works from a cache, has the
\* harness in it, and the API server has the webhook.
ReadyIsInjected ==
    [][\A a \in Account :
          pods'[a] # pods[a] /\ pods'[a] = "direct" =>
              \A h \in Harness :
                  LET harness == Stored(harnesses)[h]
                  IN  ~(/\ harness.live /\ harness.inject /\ harness.ready = harness.generation
                        /\ harnessesServiceAccount(harness, a))]_vars

\* The harness that has its namespace for itself.  Two in one namespace take the
\* ConfigMap and the accounts from each other for ever.
Alone(h) ==
    LET state == Stored(harnesses)
    IN  /\ state[h].live
        /\ \A g \in Harness \ {h} : state[g].live => state[g].namespace # state[h].namespace

\* Such a harness is ready, the accounts it is for have its scope, they and no others
\* the right to it, and the proxy's configuration is in its namespace and no other.
HarnessInPlace(h) ==
    LET harness == Stored(harnesses)[h]
        mine == {a \in Exist(Stored(accounts)) : harnessesServiceAccount(harness, a)}
    IN  /\ harness.ready = harness.generation
        /\ \A a \in mine : Stored(accounts)[a] = h
        /\ scopeRoles[h] = [owner |-> OwnedBy(h, harness), subjects |-> mine]
        /\ \A n \in Namespace :
              (Stored(cas)[n] = OwnedBy(h, harness)) <=> (harness.inject /\ n = harness.namespace)
        /\ Stored(hooks)[h] = IF harness.inject
                              THEN [owner |-> OwnedBy(h, harness), namespace |-> harness.namespace]
                              ELSE NoHook

NothingOrphaned ==
    /\ \A h \in Harness : ~Gone(scopeRoles[h].owner) /\ ~Gone(Stored(hooks)[h].owner)
    /\ \A n \in Namespace : ~Gone(Stored(cas)[n])

\* Once users stop, every harness that is alone in its namespace is in place and
\* nothing is left of the ones that are gone, although status errors are dropped.
HarnessesSettle == <>[](NothingOrphaned /\ \A h \in Harness : Alone(h) => HarnessInPlace(h))

\* As long as no call fails, the watches are enough for that: a worker at rest has
\* left nothing to the next resync, not even after one harness has pruned what
\* another had just made.
RestIsSettled ==
    "interrupt" \notin DOMAIN budget /\ Synchronous /\ HarnessesIdle =>
        \A h \in Harness : Alone(h) => HarnessInPlace(h)

\* The groups that are there of some, with their rules.
Current(names) == {<<g, Stored(rules)[g]>> : g \in {x \in names : Stored(rules)[x] # 0}}

\* What a provider p of a group has in a namespace that requires it.
HasAccess(n, p, g) ==
    Stored(rules)[g] # 0 =>
        access[<<n, p, g>>] = [rules |-> Current({g}), subjects |-> In(Stored(accounts), p)]

\* Once users stop, the accounts of every namespace that manages a group have the
\* rights of the group, cluster-wide and where it is required, and are let in there,
\* whichever of accounts, labels and groups came last, and whichever role or binding
\* could not be applied at first.  It rests on the resync of the informers: an account
\* that comes after its namespace is no event of that namespace, since
\* mapToManagedNamespace takes the name of the account for that of the namespace
\* (dependency_rbac_controller.go:168, against the comment at 165), and a namespace that
\* begins to manage a group is none of those that require it.  It leaves out providers
\* whose label has a value: they never get their role, since line 93 looks for labels
\* without one, although lines 331 to 339, and the network policy, go by the key.
AccessSettles ==
    <>[](\A n \in Namespace :
            LET ns == Stored(namespaces)[n]
            IN  ns.managed =>
                  /\ policies[n] = ns.requires
                  /\ \A kind \in Kind : provided[n][kind] =
                        [rules |-> Current(ns.manages), subjects |-> In(Stored(accounts), n)]
                  /\ \A p \in Namespace :
                        LET provider == Stored(namespaces)[p]
                        IN  \A g \in ns.requires \cap (provider.manages \ provider.valued) :
                               HasAccess(n, p, g))
=============================================================================
