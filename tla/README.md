# TLA+ models of the chrysopoeia controllers

chrysopoeia is a set of Kubernetes controllers that offers Helm charts as custom
resources.  A `ClaimDefinition` names a chart; chrysopoeia generates a CRD from
it; users create *claims* (instances of that CRD); each version of a claim
becomes a `ClaimRevision`; the newest approved revision is deployed by Flux in a
namespace of its own.  Charts that are operators are confined by a proxy and an
`OperatorHarness`, and share CRDs through `DependencyGroup`s.

This directory holds TLA+ models of the controllers, TLC configurations that
check them on small instances and TLAPS proofs of what matters most for
instances of any size.  `PROJECT.json` lists the runs, the source lines behind
every definition, the mutants that show that each property can fail, the hazards
and the findings.

## How the system runs, and what the models take from it

Every controller is a controller-runtime reconciler with one worker.  The
workqueue holds each name once, a reconcile that returns an error is retried, and
a name that arrives during its own reconcile is processed again afterwards.  From
this follow the points the models have in common:

- **A reconcile is not atomic.**  It is a sequence of API calls.  `Get` and `List`
  read an informer cache, writes go to the API server, and other controllers,
  users, Flux and Kubernetes act between any two of them.  A model has one action
  per API call that matters and a `work` record with the stage reached and what
  was read so far.  Code between two calls belongs to the action of the first.
- **Caches lag.**  Each kind has a watch of its own: its events arrive in order,
  but the kinds are independent.  `Informer` represents the objects of a kind by
  the *window* of states from the cached one to the stored one; a write appends, a
  delivery drops the first.
- **Writes differ.**  `Update` and `Status().Update` carry the resource version that
  was read and are refused if the object has changed.  `Apply` is server-side apply:
  it touches only the fields it names and is refused on fields of another manager
  unless forced.  Patches of a claim's finalizers carry its uid, the status patch of
  the release carries nothing.  Each is modelled the way it is used.
- **The operator restarts.**  Queue and reconcile are lost, the caches are filled from
  the API server and every object found is reported as created.
- **Informers resync.**  Every ten hours (the default, which the code does not change) an informer
  reports all it holds again.  Two models use this, and say where something rests on it alone.
- **Whole seconds.**  `creationTimestamp` and `approvedAt` have a resolution of one
  second, so the clock of the models may stand still between two writes.

Leader election is off by default; the models have one process.

## Inventory

| Part (file under `src/`) | State it keeps | Operations | Reads / writes |
| --- | --- | --- | --- |
| `DependencyGroupManager` (`controllers/dependencygroup_controller.go`) | verdict in the status of a group | `Reconcile`, `enqueueAllGroups` | reads all groups; its verdict is read by `ReleaseController` |
| `RevisionManager` (`controllers/revision_controller.go`) | revisions; `latestRevision` and `ValuesResolved` of a claim; OCIRepositories | `Reconcile`, watches of revisions, OCIRepositories and platform config maps | claim, CRD schema, config maps → revision, status |
| `AutomaticApprovalManager` (`controllers/automatic_approval_controller.go`) | `approvedAt` of revisions | `Reconcile` | claim status, revisions → revision |
| `ReleaseController` (`controllers/release_controller.go`) | finalizer of a claim, namespace, roles, HelmRelease, harness, `appliedRevision` | `Reconcile`, `cleanupRelease`, `ensureRelease`, watches of five kinds | revisions, groups → Flux objects, claim status |
| `DynamicReconcilerManager` (`controllers/dynamic_reconciler_manager.go`) | running controllers per claim kind, finalizer of the CRD | start, stop | CRDs → the three controllers above |
| `ClaimDefinitionManager` (`controllers/claimdefinition_controller_manager.go`, `chartfetch.go`) | generated CRD, its version enum, conditions | `Reconcile`, tag discovery, conflict detection | chart → CRD |
| `OperatorHarnessManager` (`controllers/operatorharness_controller.go`) | webhook, scoped RBAC, proxy CA | `Reconcile`, pruning | harness → cluster objects |
| Pod proxy injection (`controllers/pod_proxy_injection_webhook.go`) | none | `Handle` | harness → pod |
| `DependencyRBACManager`, `DependencyNetworkPolicyManager` (`controllers/dependency_*_controller.go`) | roles, bindings and policies per namespace | `Reconcile` | labels of namespaces, groups, service accounts → RBAC |
| `DynamicCRDsRBACAggregatorManager` | three roles for all CRDs | `Reconcile` | CRDs → roles |
| Scoping proxy (`proxy/proxy.go`) | none; a cache of service accounts | `Rewrite`, label injection | API requests |
| `breakagedetection`, `celvalues`, `schemagen` (`pkg/`) | none | pure algorithms on schemas and values | called by the controllers |
| Commands, types, generated code | none | – | – |

### What is hard, and what makes the parts correct

- *DependencyGroups.*  Verdicts are computed one group at a time from a cached list
  that other reconciles, users and deletions make stale, and every status write is an
  event that enqueues all groups again.  When it is quiet, no CRD may have two accepted
  groups, no group may be rejected for a reason that is gone, and it must become quiet.
- *Revisions.*  A reconcile takes seconds (a chart is fetched).  Its result must not land
  on a claim that was edited or replaced meanwhile, must not name a revision that was
  never made, and must not disturb an approval.  After any mix of edits, failures and
  restarts the status must catch up.
- *Approval.*  It decides on two caches that lag differently, at a resolution of one
  second, next to users who approve by hand.
- *Release.*  Objects are created and taken down in an order that matters (uninstalling
  needs the namespace's roles and the harness), in many reconciles, on five caches.
  Nothing may be left behind, and a deleted claim must go at last.
- *Kinds.*  A definition becomes a CRD, the CRD its controllers, and each step is taken on a cache
  of the one before.  CRDs are deleted under their claims, whose finalizers only the controllers
  that are being stopped can remove.  Statuses are written in deferred calls whose errors are only
  logged.  Of definitions that provide the same group exactly one may stay.
- *Operators.*  Harnesses move between namespaces and share names for what they make; the webhook
  decides on a cache; service accounts appear after the harness, groups after the namespaces that
  use them.  What a harness reports as ready must be in place, and rights must follow.
- *Translations.*  A claim that was written under one chart has to fit every later one that is let
  through, what a chart computes must not be settable, expressions must not see each other, the
  proxy must not show an operator what is outside its scope nor hide what is inside.

The hazards are listed one by one, with their lines, in `PROJECT.json`.

## Modules

| Module | Models | Notes |
| --- | --- | --- |
| `Informer` | API server and caches | external, operators only |
| `DependencyGroups` | `DependencyGroupManager` | state machine of its own |
| `DependencyGrants` | `resolveGroupCRDs` and the provider role of `ensureRelease` | extends `DependencyGroups` |
| `ClaimApi` | claims, revisions, approval order | shared state of the claim controllers |
| `RevisionManager` | `RevisionManager` | actions on `ClaimApi` |
| `AutomaticApproval` | `AutomaticApprovalManager` | actions on `ClaimApi` |
| `ClaimRevisions` | both of them, users, garbage collector, Flux sources, restarts | composition |
| `ReleaseController` | `ReleaseController` | actions on `ClaimApi` and three more kinds |
| `ReleaseLifecycle` | it, with users, Flux, namespace termination, restarts | composition |
| `Deployment` | what the release of a claim promises, without caches and workers | abstract specification, implemented by `ReleaseLifecycle` |
| `ClaimDefinitions` | `ClaimDefinitionManager` | actions on definitions, charts and CRDs |
| `DynamicReconcilers` | `DynamicReconcilerManager` | extends `ClaimDefinitions`, with which it shares the CRDs |
| `Kinds` | both, with users, Flux, the API server, the claims of a kind, restarts | composition |
| `RoleAggregator` | `DynamicCRDsRBACAggregatorManager` | state machine of its own, the CRDs are written by others |
| `ServiceAccounts` | the accounts that the next two share | state only |
| `OperatorHarnesses` | `OperatorHarnessManager`, `PodProxyInjector` | actions |
| `DependencyAccess` | `DependencyRBACManager`, `DependencyNetworkPolicyManager` | actions |
| `Operators` | the last two, with users, the garbage collector, pods, restarts | composition |
| `PlatformValues` | `platformValues` | pure, against a definition by priorities |
| `ScopingProxy` | `proxy/proxy.go` | one exchange of request and answer at a time |
| `ChartSchemas`, `BreakageDetection`, `CelValues`, `ChartVersions` | `schemagen`, `breakagedetection`, `celvalues`, version discovery | pure operators |
| `Translations` | the last six as one specification, a behaviour of which is about one of them | composition |
| `InformerProofs`, `ClaimApiProofs` | – | lemmas about windows, claims and revisions that the proofs share |
| `DependencyGroupsProofs`, `ClaimRevisionsProofs`, `ReleaseLifecycleProofs`, `KindsProofs`, `OperatorsProofs`, `TranslationsProofs` | – | proofs about the module of that name |
| `MC*` | – | symmetry sets for TLC; the `.cfg` files give the constants |

Definitions with the comment *Mutant* are not part of a specification.  Each is a
plausible mistake in the definition after it, and some property fails when it takes
that definition's place.

### Correspondence with the code

**DependencyGroups.**  `Start` is the `Get` of `Reconcile` (a group that is gone or being
deleted ends it), `Validate` the `List`, `conflictingClaims`, and the comparison that skips
the write, `UpdateStatus` the `Status().Update` with its conflict.  `Deliver` updates the
cache and serves the `For` handler, `enqueueAllGroups` is the handler of the second watch,
which lists the cache at a later moment.  Of the `Accepted` condition the model keeps what
`SetStatusCondition` compares: the observed generation and the message, as the set of
conflicts in it.  Names are numbers, so that `<` is the order of strings.

**ClaimApi, RevisionManager, AutomaticApproval, ClaimRevisions.**  One claim, known by its
name, that may be deleted and created again (`uid`).  A revision is identified by what its
name is a hash of.  `RevGet`, `RevVersion`, `RevResolve`, `RevApply` and `RevFlush` are the phases
of `Reconcile`: read the claim; read version and platform values; ensure the OCIRepository and
resolve the values; apply the revision; write the status if it differs from what was read.  `RevFetchFails` and `RevApplyFails` are its
error returns.  `ApprGet` and `ApprApprove` are the two reads of the approval controller, the
second together with the apply.  The effect of `cel:` expressions is reduced to whether they
evaluate (`Unresolvable`); chart contents, URLs and pull secrets are left out.

**ReleaseController, ReleaseLifecycle.**  The stages follow `Reconcile`: for a deleted claim
HelmRelease, namespace, harness, finalizer; for a live one finalizer, choice of the revision,
harness, namespace, HelmRelease, report.  `Put` leaves out writes that change nothing, as
server-side apply does.  In a namespace that is terminating nothing can be created, but what is still
there can be applied.  The service account, the roles inside the namespace and the
OCIRepository are one step with the HelmRelease, since they fail in the same case and live
and die with the namespace.  `RelFails` lets any call fail.  Flux may or may not have put its
finalizer on a HelmRelease when it is deleted (`Deleted`).

`Deployment` is the contract behind it: a claim starts with nothing left over, is deployed only in
complete surroundings and only with what was approved for it, and is taken down in reverse after it
is deleted.  `Contract` in `ReleaseLifecycle` gives the refinement mapping (stored states only; a
HelmRelease counts as deployed until it is gone), and `KeepsItsPromise` is the abstract
specification as a property of the detailed one.

**ClaimDefinitions, DynamicReconcilers, Kinds.**  `DefGet` reads the definition and the others (a
conflict ends the reconcile), `DefLoad` everything that comes from Flux, `DefApply` compares with the
cached CRD and applies, `DefFlush` is the deferred status update.  The OCIRepository and the
ImageRepository of a definition are one window.  Names that arrive together, all of them when one
definition changes or the operator starts, are queued in any order (`Enqueued`), since the cache's
list has none.  A chart is the set of its fields; those in `Uncompilable` end in an error however often they are tried
(expressions that do not compile, values or a version that are not valid), while other errors pass.
`DynGet` decides
by the cached CRD; `removeFinalizer` is the merge patch that empties the list, `addFinalizer` the
update with its conflict.  `Serve` stands for the controllers of a kind: the finalizer goes on a claim
and off a deleted one.  The API server establishes CRDs, deletes the claims of a deleted one, and
waits for them unless its finalizer has been taken away; claims that are left behind turn up again
when the CRD is made anew.

**RoleAggregator.**  The worker takes a name off its queue, lists the CRDs in the cache (`List`) and applies
the three roles one by one (`Apply`, `ApplyFails`), going on after an error; `Conclude` returns the joined
error, upon which the queue has the name again.  The events of CRDs are all that starts it.

**OperatorHarnesses, DependencyAccess, Operators.**  One stage per object that `Reconcile` ensures.  Names
follow the code: the CA ConfigMap has one name per namespace, webhook configuration and role one per
harness, and owner references carry the uid.  `Handle` is the webhook: it is called if a stored
configuration selects the namespace, and decides on the cached harnesses.  A harness is its scope.
All accounts of a harness are patched in one step, and the API server calls the webhook as soon as its
configuration is stored.  Of the label of a group, `manages` has the key and `valued` whether it has a
value, which only one of its readers asks about.  A failure in `DependencyAccess` leaves any of the roles
and bindings that precede it applied.  Namespaces that are being deleted are not modelled.

**ScopingProxy.**  `exchange` holds the request that was just answered.  `Read`, `Write` and `Review` are the
three paths through `Rewrite` and `ModifyResponse`, with every call they make allowed to fail.

**ChartSchemas, BreakageDetection, CelValues, ChartVersions.**  A values.yaml is a function from the paths of
its leaves, so recursion over trees becomes a condition on prefixes.  An empty table is a leaf; a table
whose leaves are all expressions is left empty in the defaults.  An expression reads one path.  One
that is written through an alias, or has an alias for its hint, is `unmarked`: it is evaluated, but
`PreprocessYAML` does not see it.  An `items` hint makes a map of a table, whose schema is an entry under the
key `AnyKey` (`additionalProperties`); a `properties` hint gives it other leaves.  Both replace what is in
the table (`Replaced`), and are exported as the table is.  The mapping from YAML to such functions,
hints within hints and hints inside lists are left out.

**PlatformValues.**  Every config map holds its own name under its keys, so a merged table
says whose value won.  `CoalesceTables` is helm's; nested tables and null values, which it
treats specially, are not modelled.

## Runs

| Run | What it shows | Bounds |
| --- | --- | --- |
| `dependency_groups` | accepted groups are disjoint, rejections are justified, no verdict is written onto a version it was not computed from, and the controller comes to rest | 2 groups, 1 CRD, 3 user writes or restarts, 2 seconds |
| `grants_withdrawn` (violation) | the provider role survives the rejection of the group | as above, 2 writes |
| `claim_safety` | the latest revision exists and belongs to this claim and spec, approvals survive | 2 values, 2 versions, 2 claims of one name, 2 writes, 1 restart |
| `claim_liveness` | status and approval catch up after edits, platform changes, deleted revisions, a first version that is published late, failures and a restart | 2 values (one that does not resolve), 2 platform values, 2 writes |
| `approval_ties` (violation) | two approvals in one second stay tied | 2 values, 2 writes |
| `version_sticky` (violation) | an unpinned claim is moved to the newest version on a stale cache | 2 versions, 2 writes |
| `release_safety` | no orphans, uninstall before anything it needs goes, only approved revisions; implements `Deployment` | 1 value, 2 claims of one name, 2 writes, 1 failure or restart |
| `release_liveness` | the newest approved revision is deployed and reported, a deleted claim goes | 2 values, 2 writes (approvals, deletion of the namespace), no failures |
| `translations` | the algorithms, each against what it is for | 3 config maps with 2 keys and 2 priorities; charts with 3 paths, a table of two leaves that may be a map or have a shape, 6 kinds of leaves and 2 export hints; expressions on 5 paths; 3 tags of 3 versions; 2 scopes and 1 object at the proxy |
| `kinds` | definitions settle with a true status, kinds are served, no controller outlives its kind | 2 definitions, 2 fields, one of the charts does not compile, 4 scenarios of at most 3 events, each cache at most 1 behind when others write |
| `role_aggregator` | the three roles name the kinds that exist in the end | 2 kinds, 4 writes and 2 failures, or 3 writes, 1 failure and 1 restart, cache at most 2 behind |
| `operators` | harnesses are in place when they say so and in the end, rights follow accounts, labels and groups | 2 namespaces, 2 account names, 2 harnesses, 1 group, 9 scenarios of 2 events |

**Why these bounds.**  Two groups and one CRD have all the situations of the pairwise
relation `claimPrecedes`: same second and different seconds, creation in either order, a
winner that is edited, deleted with and without a finalizer, and created again.  The proofs
remove this bound.  Two writes on a claim reach every race of one stale reconcile with one
change, a revert included (the way an older revision becomes the latest again); two claims of
one name reach everything that depends on the uid.  `MaxLag` bounds how many changes a cache
misses when a *user* writes; the controllers' own writes are not bounded.  The revisions of the last claim that
`MaxUid` allows are not collected in `ReleaseLifecycle`, since nothing would ask for them.  In
`release_liveness` the claim's deletion is not among the two writes, so that a revision can be
approved, replaced and taken down.  In `kinds` and `operators` a
`Scenario` names the events of a behaviour and how often each may happen; each scenario is a race
that one of the hazards is about (definitions that compete; a CRD deleted under a claim with a
disturbance; a harness that moves while another is made in its place), which is cheaper than all
events together.  Charts are one table with two leaves, which may be
a leaf itself: so there is something above, below and beside a computed value, a hint or a property that
is dropped, which is what prefixes can tell apart, and the proofs take any paths.  Claims, whose merge is
not proved about, have tables within tables.  Deadlock is not checked in runs whose system may come to rest
for good when its users stop.

**Fairness.**  The workers and the informers run for ever: weak fairness on the steps of a
reconcile and on deliveries.  Flux and Kubernetes make progress: weak fairness on `Fetch` and
`Cluster`.  `claim_liveness` lets the fetch of a chart and the apply of a revision fail any
number of times; strong fairness on their success says that a call that is retried for ever
with backoff succeeds at some point, without which no retry loop can promise anything.
`kinds` and `operators` assume weak fairness of the workers, the deliveries, the API server and the
resync, and let calls fail once.  `QuietIsSettled` and `RestIsSettled` show what does *not* need the
resync: without failed calls, definitions (whose CRDs nobody deletes) and harnesses settle on events
alone.  A definition whose CRD is deleted, and a lost status update, do need it, and so do rights
of accounts that appear after their namespace and of namespaces that begin to manage a
group that others require (see the observations).  `role_aggregator` does not need it either.
Nothing is assumed of users or of the clock.  Restarts are bounded, as are user writes:
the liveness properties are of the form "from some time on", which says what becomes of a
system that is left alone.

**What the liveness properties leave out.**  `LatestGetsApproved` exempts revisions whose
`approvedAt` is owned by a user: the controller's apply is not forced and fails on those for
good.  `RevisionsConverge` is about claims that have a version to run.  `HarnessesSettle` is about
harnesses that have their namespace to themselves: two in one take its ConfigMap and its accounts
from each other for ever.  `KindsAreServed` supposes that controllers start.
`AccessSettles` is about labels without a value.  `RolesFollowKinds` leaves out an operator
that restarts and finds no CRD, which then has no event: the rules it leaves are about kinds that are gone.

## Findings

1. `version_sticky`: `currentVersion` takes a latest revision that is not in the cache for a claim
   without a revision and falls back to the newest version, although a comment says that only
   a write to `status.version` moves an instance.
2. `approval_ties`: approvals in one second compare as equal in an unstable sort; neither controller
   ever resolves the tie, although the documentation speaks of *the* most recent approval.
3. `grants_withdrawn`: the reconcile of an instance whose group was rejected fails before it
   reaches the role that grants the group's CRDs, which therefore stays as it was.

### Observations

Met while modelling, without a run of their own; TLC gives a behaviour for each of the first five when
what they go against is stated as a property:

- `mapToManagedNamespace` (`controllers/dependency_rbac_controller.go:168`) looks up the namespace by the
  *name* of the service account, where its comment (line 165) speaks of the object's namespace, and an
  event of a namespace does not enqueue those that require what it manages.  Accounts that a chart
  creates after its namespace get their rights with the next event of a group or the next resync;
  `AccessSettles` holds for that reason only.
- `ensureRequiresRules` looks up the providers of a group by their label with an empty value
  (`controllers/dependency_rbac_controller.go:93`), while `extractPrefixedLabel` and the network policy go by
  the key.  A provider whose label has a value never gets the role that the comment at line 59 promises
  it; `AccessSettles` leaves such providers out.  `ReleaseController` gives the label no value.
- The breakage detection does not compare `additionalProperties` (`pkg/breakagedetection/breakagedetection.go:73`):
  a chart may give the entries of a map another type, or turn them into properties, under the claims that
  set them.  `StoredClaimsFit` leaves the entries of maps out.
- A value that the chart computes is settable where a hint replaces the table around it (`items`,
  `properties`; `pkg/schemagen/schemagen.go:347`), or where the value or its hint is an alias
  (`pkg/schemagen/parser/preprocess.go:86`, `88`), against the comment at `preprocess.go:83`.
  `ComputedIsNotSettable` is about the other expressions.
- The CRD that a new one is compared with comes from a cache
  (`controllers/claimdefinition_controller_manager.go:340`), so that a chart which follows another within
  its lag takes a field away without an error.
- `README.md:42` says that of equal priorities the later name is authoritative; the code, and its test, make it
  the earlier one.
- Rights are never withdrawn when labels go (roles of former providers stay), nor is the scope
  annotation of accounts that a harness has moved away from.
- `removeFinalizer` of the dynamic controllers empties the list of finalizers: the API server then drops
  the CRD without waiting for its claims, which stay behind until the CRD is made anew.
- `clusterScopedOnly` of the proxy's label injector is stored and never read: both modes behave alike.
- A SelfSubjectAccessReview of a path that is answered no makes `ModifyResponse` dereference nil
  resource attributes (`proxy/proxy.go:239`).
- A `properties` hint on a table that is not exported makes `GenerateCRD` dereference a nil schema
  (`pkg/schemagen/schemagen.go:370`); `Generates` leaves such charts out.
- `ensureOperatorHarness` relies on the CRD to allow one managed group only; the definition's own type does
  (`api/v1/claimdefinition_types.go:43`), the generated claim CRD sets no such limit.

## Proofs

All theorems hold for any values of the constants that satisfy the named assumptions next to their
declarations: sets of definitions, groups and names are sets of numbers, that of definitions is finite
(`DefinitionAssumption`), bounds are numbers, the marks for nothing are no names
(`PlaceholderAssumption`), the first harness and its namespace are some (`HomeAssumption`), a chart
to start with and a platform exist (`FirstChartAssumption`, `PlatformAssumption`), charts have
versions (`VersionAssumption`), paths are sequences of names, `AnyKey` not among them, and a properties
hint is about what is below its table (`PathAssumption`).  The bounds on lag, edits, failures and restarts may have any value.

| Theorem | States | Module |
| --- | --- | --- |
| `TypeCorrect` | `Spec => []TypeOK` | `DependencyGroupsProofs`, `ClaimRevisionsProofs`, `ReleaseLifecycleProofs`, `KindsProofs`, `OperatorsProofs` |
| `NoGroupForgotten` | `Spec => []IInv` | `DependencyGroupsProofs` |
| `AcceptedDisjoint`, `RejectionJustified` | `AcceptedAreDisjoint`, `RejectedForAReason` | `DependencyGroupsProofs` |
| `VerdictsAreOfTheirVersion` | `VerdictOfItsVersion` (action property) | `DependencyGroupsProofs` |
| `LatestFollowsSpec`, `ApprovalsAreKept` | `LatestIsOfThisSpec`, `ApprovalsSurvive` (action properties) | `ClaimRevisionsProofs` |
| `LatestIsThere` | `LatestExists`, if no user deletes a revision | `ClaimRevisionsProofs` |
| `NothingIsOrphaned`, `OnlyApprovedIsDeployed` | `NoOrphans`, `DeploysApproved` | `ReleaseLifecycleProofs` |
| `ReportsAreTrue` | `ReportsWhatIsDeployed` (action property) | `ReleaseLifecycleProofs` |
| `HelmReleaseGoesFirst` | `UninstallIsServed`, if no user deletes the namespace | `ReleaseLifecycleProofs` |
| `ImplementsDeployment` | `KeepsItsPromise`: `Spec` implements `Deployment`, under the same condition | `ReleaseLifecycleProofs` |
| `ControllersAreHeld` | `RunningIsHeld` | `KindsProofs` |
| `QuietMeansSettled` | `QuietIsSettled` | `KindsProofs` |
| `ReadyMeansInjected` | `ReadyIsInjected` (action property) | `OperatorsProofs` |
| `AtRestSettled` | `RestIsSettled` | `OperatorsProofs` |
| `StaysInScope`, `ReviewsAgree`, `OwnAreSeen` | `NothingOutOfScope`, `ReviewMatchesList`, `OwnObjectsAreSeen` of `ProxySpec` | `TranslationsProofs` |
| `ClaimsStayValid`, `ComputedStaysHidden` | `StoredClaimsFit`, `ComputedIsNotSettable` of `TSpec` | `TranslationsProofs` |

The two conditions on users are necessary and are those of the runs: a user who deletes a revision
breaks `LatestExists` until the next reconcile, and one who deletes the namespace takes it from under
the HelmRelease.  They are hypotheses of the theorems (`"delete revision" \notin UserMay`,
`"delete namespace" \notin UserMay`) and not assumptions of the modules.  Every inductive invariant
was checked with TLC on an instance of the corresponding run before it was proved.

**Windows.**  `InformerProofs` has the facts about windows: what a write, a delivery and a restart
leave of the states in one, and how a relation between every state in a window and the later ones
(`Forward`) is kept.  The invariants below say with it how an object can have changed between what
a worker sees and what is there.

**DependencyGroups.**  `AcceptedAreDisjoint` speaks of settled states only and is not inductive:
nothing in it says why a state that has just become settled has the right verdicts.  `IInv` supplies
that.  `EveryGroupCovered` says that a live group already has the verdict that the cache dictates, or
something is under way that will make the worker look at it: a lagging cache, a pending
handler, its name on the queue, or a reconcile of it.  `WorkIsCurrent` says that a reconcile
under way works on what the cache still holds, or its group will be looked at again; it is
needed for the step that ends a reconcile and thereby takes away one of the reasons in
`EveryGroupCovered`.  The proof has a lemma per group of actions (`ReconcileStep`, `WatchStep`,
`RestartStep`, `UserStep`).  In a settled state all the reasons are gone and every live group
has its verdict (`SettledVerdicts`); `PrecedenceTotal` and `OneOfTwoConflicts` then give that
of two groups with a common CRD one is rejected.

`VerdictOfItsVersion` speaks of the step that writes a status: the verdict, accepted or rejected, is one on
exactly the version that it is written onto.  It has an invariant of its own, `VersionInv`: every copy
of a group, in a cache or read by the worker, carries a resource version that was given out, and is the
stored group if that version is the stored one (`CopiesCarryVersions`); the verdict under way has been
reached on the copy read (`VerdictIsOnSnap`).  The conflict check of `Status().Update` then does the rest.

**ClaimRevisions.**  `IInv` says of the claim that copies identify it by resource version
(`CurrentIfSameVersion`) and that a live one has values and names a revision of its own uid
(`WellFormed`); of a reconcile that it has read a live claim and edits nothing but the status of it
(`SnapSide`), and that the revision it has made is one that the copy asks for (`WorkSide`, `MadeFrom`).
Types are proved together with it, since the values of a revision come from the copy read, which has
values only because it was live.  `LatestIsOfThisSpec` follows since the status is written only
onto the claim that the copy still equals.  `ApprovalsSurvive` needs that no approval is dated
after the clock (`ApprovedByNow`).  `LatestExists` needs `RevisionIsMade`: while the copy is current, the
revision about to be named exists; the garbage collector only takes those of another uid.

**ReleaseLifecycle.**  The first part of the module proves the types and sums up in one lemma per action what
happens to the stored objects and the worker, which is all the invariants speak of.  `NoOrphans`
is not inductive for two reasons.  A reconcile with an old claim might create objects for it: so
`WorkIsOfClaim` says that one that creates does so for the claim that is there, with finalizer, and one
that cleans up has nothing of a later claim before it.  This in turn rests on `HeldIsKnown`, a claim
that has the finalizer is known to the cache, so that a worker does not take it for its predecessor,
and on the way claims of one name develop (`Onward`).  And `releaseClaim` lets go of a claim on
what earlier steps have found: `CleanupInOrder` says that what is gone stays gone.  For
`DeploysApproved`, `RevisionSide` carries an approval from the cache that `pickRevision` reads to the
stored revisions: revisions of the present claim are not collected, so approvals in the
window are still there.  `ReportsWhatIsDeployed` adds `ReportIsCurrent`.  `UninstallIsServed` adds `Orderly`:
what is being taken down belongs to a deleted claim, and the harness is there before the rest.

`ImplementsDeployment` shows, from `IInv` and `Orderly`, that the initial state maps to one of `Deployment`
and that every action maps to a step of it or leaves its variables alone (`ContractInit`,
`ContractStep`, one case per action).  Both are needed: a step of the contract that creates
requires a live or deleted claim of that uid (`ClaimSide`), deploying requires complete surroundings
(`HarnessedFirst`), and taking down requires that the claim is deleted (`TakenDownIfDeleted`).

**Kinds.**  The worker starts controllers by a cached CRD and takes the finalizer off whatever CRD has the
name.  `CrdOnward` says how a CRD can have changed since: one that is made anew lacks our finalizer, one
that is being deleted is not revived, one that had the finalizer while live has kept it.  `WorkSide`
holds the copy of the worker to that relation and says that controllers are stopped before the finalizer
goes and started after it is on.

For the types of the queue of definitions, `ListOfSet` says that an order of a finite set's members lists
each of them and nothing else, and `EnqueuedQueue` that names put on the queue are then on it.

`QuietIsSettled` speaks of states in which nothing is left to do, and is not inductive; `QInv` adds to `IInv`,
for behaviours without failures and without users who delete CRDs (`Calm`, the condition of the
property), why a status that nobody is about to look at is right.  `Covered` says that a definition has
the `Right` status, or is being worked on, or an event of its source is to come, or it is `Deferred`: on
the queue, in a cache that lags, or gone.  `WorkIsCurrent` says that what the reconcile in
progress has read and found still holds, or the definition is looked at again.  `NoneDeleted` says that no
CRD is being deleted, so that an apply leaves a live one.  As every write to a
definition enqueues all of them, only writes that change nothing and events of charts need an
argument.  That a kind has exactly one provider that is not in conflict is `OneComesFirst`: of finitely
many claimants one is the first by age and name (`Smallest`).

**Operators.**  `ReadyIsInjected` is about the webhook, which decides on cached harnesses, while the harness
that says it is ready is the stored one.  `ReadyInv` connects them.  Every state of a harness that somebody
still holds develops into the stored one (`Ordered` for the cache, `Sourced` for the worker; `Onward` says
how).  The webhook configuration that a reconcile has made is there until a newer
specification is (`Hooked`).  Hence a ready harness is known to cache and worker with the specification
it has, and is injected (`ReadyKnown`): nobody holds an older one, so nobody undoes it.

`RestIsSettled` is proved like `NoGroupForgotten`, with six things to account for in place of one verdict.
`RestInv` says of each of them (readiness, scope of accounts, role, CA, nothing left in other
namespaces, webhook configuration) that it is in place, or the worker has it still before it, or
something is bound to bring the harness back to the worker: its name on the queue, or a state in some
cache's window that differs from the stored one (`Covered`).  `WorkCurrent` says that the worker has the
harness as it is, or sees it again.  Two harnesses of one namespace take its CA ConfigMap from each other;
`Lost` is the event by which the one that had it learns of it.  All of it holds while nothing fails (`Undisturbed`), which is the property's condition: after a failure
or a restart it is the retry or the resync that sees to the rest, and `HarnessesSettle` is checked for that.

**ScopingProxy.**  `StaysInScope` and `ReviewsAgree` are about single steps and hold in any state,
reachable or not: what `Rewrite` lets through has passed every early return (`OwnIsGranted`), and a review
that is answered comes from a caller for whom a list is forbidden exactly when it is not granted
(`AnsweredAsListed`).  `OwnObjectsAreSeen` needs that an object on record exists (`MadeAreThere`): without
it, a write by others could bring a recorded object into being without its label.

**Charts and claims.**  `ChartInv` says that the CRD is the one generated from the chart and that the claim
fits it, its entries of maps aside, and sets no tables.  `StoredClaimsFit` rests on `NothingBreaks`: the
breakage detection skips what is below a property it has reported, so a property that is gone need not be
reported itself; but the shortest path to it with a change is (`Smallest`, from the library's
well-foundedness of the numbers), so if nothing is reported nothing is gone.  The entries of maps are on
no such path (`EntriesAreBelow`), and the property does not extend to them.  For
`ComputedIsNotSettable`, what is in a schema is an exported leaf, an entry of a map or from a shape
(`LeavesComeFrom`).  Leaves of a values.yaml are never below each other, and the hint of an expression
that is recognised is overwritten (`ExpressionsAreHidden`); a map or a shape is where values are, so
that around a computed value it is a table that is replaced, which the property excludes, and below one
it would make the value a leaf above another (`ComputedIsHidden`).

### Model-checked only

- Liveness: `ENABLED` and fairness are outside what the proof system can do.
- `HighestPriorityWins`, `OnlyItsOwnKeys`, `ResultsAreIndependent` and `NewestIsOffered`: what a fold
  computes for every input is an induction over data, and the sort that precedes it (`SortSeq`) has no
  definition that the prover could use.
- `RoleAggregator`: its one property is a liveness property.

All other invariants and action properties of the passing runs are proved.

## Not modelled

Commands, generated code and development tools have no logic to model.  Of the modelled parts the
following are left out: the order of the conflicts in a condition's message (with two or more of them
two reconciles may write different messages in turn, which the set of conflicts hides; one CRD and two
groups have one at most); the time the API server takes to learn of a webhook configuration; namespaces
that are deleted under the dependency controllers; roles and bindings of an
instance other than what the provider role grants, and that they are never deleted; two claims that
manage one scope, beyond what becomes of their harnesses; controllers whose caches fail to sync;
nested tables in the merge of platform values, nulls in the values of claims;
prereleases in version constraints; the defaults and annotations of generated CRDs, lists and
descriptions in schemas; the variables and volumes of an injected pod; encodings, size limits and
resources without list in the proxy; more than one replica of the operator.

## Plan

1. *Done:* `Informer`, `DependencyGroups` with proofs, `DependencyGrants`, the claim controllers,
   the release controller and its refinement, kinds, operators, translations.
2. *Done:* the proofs above, of all safety properties but those listed as model-checked only.
3. `ClaimPipeline`: the three claim controllers together.  Two claims with one scope.
