------------------------------- MODULE Kinds -------------------------------
(***************************************************************************)
(* How kinds of claims come and go: ClaimDefinitionManager applies a CRD,  *)
(* DynamicReconcilerManager runs its controllers, and the API server       *)
(* establishes it, deletes it with the claims of the kind, and keeps the   *)
(* claims it could not delete.  Users edit definitions, publish charts and *)
(* delete CRDs meanwhile.                                                  *)
(***************************************************************************)
EXTENDS DynamicReconcilers

CONSTANTS
    Published,      \* definitions whose OCIRepository exists
    FirstChart,     \* the chart in it at first
    Scenario,       \* bound: the events that may happen, and how often, in each of
                    \*        the scenarios of this instance
    MaxUid,         \* bound: how often a definition or a CRD is created
    MaxLag          \* bound: others do not run further ahead of a cache than this

ASSUME PublishedAssumption == Published \subseteq Definition
\* Edits of definitions, charts published, CRDs deleted and claims made by users,
\* and interruptions: calls that fail and restarts of the operator.
ASSUME ScenarioAssumption ==
    \A s \in Scenario :
        /\ DOMAIN s \subseteq {"define", "publish", "delete crd", "claim", "interrupt"}
        /\ \A event \in DOMAIN s : s[event] \in Nat
ASSUME FirstChartAssumption == FirstChart \in Chart

VARIABLES
    claims,     \* for each kind, the claim of that kind
    budget      \* what is left of the scenario

vars == <<defVars, crds, dynVars, claims, budget>>

\* held: it has the finalizer of ReleaseController, which has deployed it.
ClaimPhase == {"none", "live", "held", "deleting"}

-----------------------------------------------------------------------------
(* Users.  The definitions of Published are there from the beginning.      *)

Spend(what) ==
    /\ what \in DOMAIN budget /\ budget[what] > 0
    /\ budget' = [budget EXCEPT ![what] = @ - 1]

NewDef(uid, second) ==
    [NoDef EXCEPT !.live = TRUE, !.uid = uid, !.created = second, !.provides = TRUE, !.generation = 1]

\* Definitions may be made in the same second.
CreateDefinition(d) ==
    /\ Spend("define") /\ Len(defs) <= MaxLag
    /\ ~Stored(defs)[d].live /\ Stored(defs)[d].uid < MaxUid
    /\ \E second \in {1, 2} : PutDef(d, NewDef(Stored(defs)[d].uid + 1, second))
    /\ UNCHANGED <<oci, defQueue, defWork, crds, dynVars, claims>>

EditDefinition(d) ==
    /\ Spend("define") /\ Len(defs) <= MaxLag
    /\ Stored(defs)[d].live
    /\ \/ PutDef(d, [Stored(defs)[d] EXCEPT !.provides = ~@, !.generation = @ + 1])
       \/ PutDef(d, [NoDef EXCEPT !.uid = Stored(defs)[d].uid])
    /\ UNCHANGED <<oci, defQueue, defWork, crds, dynVars, claims>>

\* Flux stores another chart.
Publish(d) ==
    /\ Spend("publish") /\ d \in Published /\ Len(oci) <= MaxLag
    /\ \E chart \in Chart \ {Stored(oci)[d]} :
          oci' = Written(oci, [Stored(oci) EXCEPT ![d] = chart])
    /\ UNCHANGED <<defs, defQueue, defWork, crds, dynVars, claims>>

DeleteCrd(d) ==
    /\ Spend("delete crd") /\ Len(crds) <= MaxLag
    /\ Stored(crds)[d].phase = "live" /\ Stored(crds)[d].uid < MaxUid
    /\ PutCrd(d, [Stored(crds)[d] EXCEPT !.phase = "deleting", !.cleanup = TRUE])
    /\ UNCHANGED <<defVars, dynVars, claims>>

CreateClaim(d) ==
    /\ Spend("claim")
    /\ Stored(crds)[d].phase = "live" /\ Stored(crds)[d].established
    /\ claims[d] = "none"
    /\ claims' = [claims EXCEPT ![d] = "live"]
    /\ UNCHANGED <<defVars, crds, dynVars>>

-----------------------------------------------------------------------------
(* The API server, and the controllers of a kind (ReleaseLifecycle).       *)

Establish(d) ==
    /\ Len(crds) <= MaxLag
    /\ Stored(crds)[d].phase = "live" /\ ~Stored(crds)[d].established
    /\ PutCrd(d, [Stored(crds)[d] EXCEPT !.established = TRUE])
    /\ UNCHANGED <<defVars, dynVars, claims>>

\* The claims of a kind that is deleted are deleted, and the API server lets the
\* CRD go when there are none left.
FinalizeKind(d) ==
    /\ Len(crds) <= MaxLag
    /\ Stored(crds)[d].phase = "deleting" /\ Stored(crds)[d].cleanup
    /\ \/ /\ claims[d] \in {"live", "held"}
          /\ claims' = [claims EXCEPT ![d] = IF @ = "held" THEN "deleting" ELSE "none"]
          /\ UNCHANGED crds
       \/ /\ claims[d] = "none"
          /\ PutCrd(d, Released([Stored(crds)[d] EXCEPT !.cleanup = FALSE]))
          /\ UNCHANGED claims
    /\ UNCHANGED <<defVars, dynVars>>

Serve(d) ==
    /\ d \in controllers /\ Stored(crds)[d].phase # "absent"
    /\ \/ claims[d] = "live" /\ claims' = [claims EXCEPT ![d] = "held"]
       \/ claims[d] = "deleting" /\ claims' = [claims EXCEPT ![d] = "none"]
    /\ UNCHANGED <<defVars, crds, dynVars>>

-----------------------------------------------------------------------------

\* The operator restarts: the controllers, the queues and the reconciles are gone,
\* the informers list afresh and report all they find.
Restart ==
    /\ Spend("interrupt")
    /\ defs' = Synced(Stored(defs))
    /\ oci' = Synced(Stored(oci))
    /\ crds' = Synced(Stored(crds))
    /\ defQueue' \in Enqueued(<<>>, {d \in Definition : Stored(defs)[d].live})
    /\ dynQueue' = {d \in Definition : Stored(crds)[d].phase # "absent"}
    /\ defWork' = DefIdle
    /\ dynWork' = DynIdle
    /\ controllers' = {}
    /\ UNCHANGED claims

Init ==
    /\ oci = Synced([d \in Definition |-> IF d \in Published THEN FirstChart ELSE NoChart])
    /\ defs = Synced([d \in Definition |-> IF d \in Published THEN NewDef(1, 1) ELSE NoDef])
    /\ crds = Synced([d \in Definition |-> NoCrd])
    /\ defQueue \in SetToSeqs(Published) /\ defWork = DefIdle
    /\ controllers = {} /\ dynQueue = {} /\ dynWork = DynIdle
    /\ claims = [d \in Definition |-> "none"]
    /\ budget \in Scenario

DefinitionsProgress == DefProgress /\ UNCHANGED <<dynVars, claims, budget>>
KindsProgress == DynProgress /\ UNCHANGED <<defVars, claims, budget>>

Failure ==
    /\ Spend("interrupt")
    /\ \/ DefFails /\ UNCHANGED dynVars
       \/ DynFails /\ UNCHANGED defVars
    /\ UNCHANGED claims

DeliverDefinition == WatchDefinitions /\ UNCHANGED <<crds, dynVars, claims, budget>>
DeliverSource == WatchSources /\ UNCHANGED <<crds, dynVars, claims, budget>>
DeliverCRD == WatchCRDs /\ UNCHANGED <<defVars, claims, budget>>

Resync == ResyncDefinitions /\ UNCHANGED <<dynVars, claims, budget>>

Users ==
    \E d \in Definition : \/ CreateDefinition(d) \/ EditDefinition(d) \/ Publish(d)
                          \/ DeleteCrd(d) \/ CreateClaim(d)

Cluster ==
    /\ \E d \in Definition : Establish(d) \/ FinalizeKind(d) \/ Serve(d)
    /\ UNCHANGED budget

Next ==
    \/ DefinitionsProgress \/ KindsProgress \/ Failure
    \/ DeliverDefinition \/ DeliverSource \/ DeliverCRD
    \/ Resync \/ Restart \/ Users \/ Cluster

Spec == Init /\ [][Next]_vars

\* The workers, the informers and the API server keep running, and the informers
\* resync, every ten hours by default (the liveness of the kinds does not rest on
\* theirs).  Users may stop.
FairSpec ==
    /\ Spec
    /\ WF_vars(DefinitionsProgress) /\ WF_vars(KindsProgress)
    /\ WF_vars(DeliverDefinition) /\ WF_vars(DeliverSource)
    /\ WF_vars(DeliverCRD) /\ WF_vars(Resync) /\ WF_vars(Cluster)

-----------------------------------------------------------------------------
(* Properties.                                                             *)

TypeOK ==
    /\ \A i \in 1 .. Len(defs) : defs[i] \in [Definition -> Def]
    /\ \A i \in 1 .. Len(crds) : crds[i] \in [Definition -> Crd]
    /\ defQueue \in Seq(Definition) /\ defWork \in DefWork
    /\ controllers \cup dynQueue \subseteq Definition
    /\ dynWork \in DynWork
    /\ claims \in [Definition -> ClaimPhase]

\* The controllers of a kind run only while its CRD is there and cannot go without
\* them: none is left behind on a kind that does not exist, and none serves a CRD
\* that was made anew without its finalizer on it.
RunningIsHeld == \A d \in controllers : Stored(crds)[d].phase # "absent" /\ Stored(crds)[d].ours

\* Once users stop, the claims of every kind that exists are served: its
\* controllers run and no claim is stuck in deletion, one left over from before
\* the CRD was deleted included.
KindsAreServed ==
    <>[](\A d \in Definition :
            /\ Stored(crds)[d].phase # "deleting"
            /\ Stored(crds)[d].phase = "live" => d \in controllers /\ claims[d] \notin {"live", "deleting"})

\* Every definition reports on its present specification, one that is ready has the
\* CRD of its present chart, one that is in error has a chart that does not compile,
\* and of those that provide the group all but one are in
\* conflict.
Settled ==
    LET state == Stored(defs)
        live == {d \in Definition : state[d].live}
        Fits(d) == ~Breaks(Stored(crds)[d].fields, Stored(oci)[d])
    IN  /\ \A d \in live :
              /\ state[d].observed = state[d].generation
              /\ CASE state[d].reason = "conflict" -> state[d].provides
                   [] state[d].reason = "waiting" -> Stored(oci)[d] = NoChart
                   [] state[d].reason = "error" -> Stored(oci)[d] \in Uncompilable
                   [] state[d].reason = "breaking" ->
                        Stored(oci)[d] \notin Uncompilable \cup {NoChart} /\ ~Fits(d)
                   [] state[d].reason = "ready" ->
                        /\ Stored(crds)[d].phase = "live"
                        /\ Stored(crds)[d].fields = Stored(oci)[d]
                        /\ state[d].applied = Stored(oci)[d]
                   [] OTHER -> FALSE
        /\ (\E d \in live : state[d].provides) =>
              \E first \in live :
                 /\ state[first].provides
                 /\ \A other \in live :
                       state[other].provides => (state[other].reason = "conflict" <=> other # first)

\* Once users stop, the definitions settle, deleted CRDs are made anew, although the
\* error of a status update is dropped and nothing watches the CRDs on their behalf.
DefinitionsSettle == <>[]Settled

\* As long as no call fails and no CRD is deleted the definitions settle on the events
\* alone: a worker with nothing left to do has not left one to the next resync, one
\* that another had to give way to included.
QuietIsSettled ==
    (/\ {"interrupt", "delete crd"} \cap DOMAIN budget = {}
     /\ Len(defs) = 1 /\ Len(oci) = 1
     /\ defQueue = <<>> /\ defWork = DefIdle) => Settled
=============================================================================
