-------------------------- MODULE ReleaseController --------------------------
(***************************************************************************)
(* ReleaseController (controllers/release_controller.go): it deploys the   *)
(* newest approved revision of a claim as a HelmRelease in a namespace of  *)
(* the claim's own, and takes all of it down, in order, before it lets a   *)
(* deleted claim go.                                                       *)
(*                                                                         *)
(* The claim, the revisions, the namespace, the HelmRelease and the        *)
(* OperatorHarness are read from five caches; every write goes to the API  *)
(* server, and any call may fail in between.                               *)
(***************************************************************************)
EXTENDS ClaimApi

CONSTANT Manages        \* the claim manages a DependencyGroup, its operator is harnessed

ASSUME ManagesAssumption == Manages \in BOOLEAN

VARIABLES
    ns,         \* window of the instance namespace
    hr,         \* window of the HelmRelease in it
    harness,    \* window of the OperatorHarness of the claim's scope
    relQueue,   \* the claim is on the workqueue
    relWork     \* the reconcile in progress

instanceVars == <<ns, hr, harness>>
releaseVars == <<ns, hr, harness, relQueue, relWork>>

-----------------------------------------------------------------------------

\* What the annotations of the objects tell: the claim and, for the HelmRelease,
\* the revision.  ready: Flux has installed this very revision.
Namespace == [phase : {"absent", "live", "terminating"}, uid : Nat]
HelmRelease == [phase : {"absent", "live", "deleting"},
                revision : Revision \cup {NoRevision}, ready : BOOLEAN]
Harness == [phase : {"absent", "live"}, uid : Nat]

NoNamespace == [phase |-> "absent", uid |-> 0]
NoHelmRelease == [phase |-> "absent", revision |-> NoRevision, ready |-> FALSE]
NoHarness == [phase |-> "absent", uid |-> 0]

RelWork == [stage : {"idle", "uninstall", "delete ns", "delete harness", "release",
                     "finalizer", "list", "harness", "namespace",
                     "helmrelease", "status"},
            uid : Nat,                                  \* of the claim as read
            revision : Revision \cup {NoRevision},      \* to be deployed
            nsGone : BOOLEAN]                           \* nsDelDone

RelIdle == [stage |-> "idle", uid |-> 0, revision |-> NoRevision, nsGone |-> FALSE]

\* A write of one of the objects; one that changes nothing causes no event.
Put(window, obj) == IF Stored(window) = obj THEN window ELSE Written(window, obj)

\* The HelmRelease after a Delete: it stays, marked, if Flux has put its finalizer
\* on it, and goes at once otherwise.
Deleted(release) ==
    {[release EXCEPT !.phase = "deleting"]} \cup
    (IF release.phase = "live" THEN {NoHelmRelease} ELSE {})

To(stage) == relWork' = [relWork EXCEPT !.stage = stage]
Done == relWork' = RelIdle /\ UNCHANGED relQueue
Retry == relWork' = RelIdle /\ relQueue' = TRUE

-----------------------------------------------------------------------------
(* Reconcile.                                                              *)

\* Get the claim; one that is being deleted is cleaned up.
RelGet ==
    LET c == Cached(claim)
    IN  /\ relQueue
        /\ relWork.stage = "idle"
        /\ relQueue' = FALSE
        /\ relWork' = IF c.phase = "absent" THEN RelIdle
                      ELSE [RelIdle EXCEPT !.uid = c.uid,
                              !.stage = IF c.phase = "deleting" THEN "uninstall" ELSE "finalizer"]
        /\ UNCHANGED <<apiVars, instanceVars>>

\* Mutant: the HelmRelease is deleted but not waited for.
cleanupHelmReleaseInBackground ==
    /\ relWork.stage = "uninstall"
    /\ \/ /\ Stored(hr).phase = "absent"
          /\ UNCHANGED hr
       \/ /\ Stored(hr).phase # "absent"
          /\ \E release \in Deleted(Stored(hr)) : hr' = Put(hr, release)
    /\ To("delete ns")
    /\ UNCHANGED <<apiVars, ns, harness, relQueue>>

\* cleanupRelease: delete the HelmRelease and wait until it is gone, ...
cleanupHelmRelease ==
    /\ relWork.stage = "uninstall"
    /\ \/ /\ Stored(hr).phase = "absent"
          /\ To("delete ns")
          /\ UNCHANGED <<hr, relQueue>>
       \/ /\ Stored(hr).phase # "absent"
          /\ \E release \in Deleted(Stored(hr)) : hr' = Put(hr, release)
          /\ Done
    /\ UNCHANGED <<apiVars, ns, harness>>

\* Mutant: the namespace is treated like an object with a finalizer.
cleanupNamespaceAsObject ==
    /\ relWork.stage = "delete ns"
    /\ relWork' = [relWork EXCEPT !.stage = "delete harness",
                                  !.nsGone = (Stored(ns).phase = "absent")]
    /\ ns' = IF Stored(ns).phase = "absent" THEN ns
             ELSE Put(ns, [Stored(ns) EXCEPT !.phase = "deleting"])
    /\ UNCHANGED <<apiVars, hr, harness, relQueue>>

\* Mutant: that the namespace is not found is not taken for done.
cleanupNamespaceForEver ==
    /\ relWork.stage = "delete ns"
    /\ To("delete harness")
    /\ ns' = IF Stored(ns).phase = "absent" THEN ns
             ELSE Put(ns, [Stored(ns) EXCEPT !.phase = "terminating"])
    /\ UNCHANGED <<apiVars, hr, harness, relQueue>>

\* ... delete the namespace, ...
cleanupNamespace ==
    /\ relWork.stage = "delete ns"
    /\ relWork' = [relWork EXCEPT !.stage = "delete harness",
                                  !.nsGone = (Stored(ns).phase = "absent")]
    /\ ns' = IF Stored(ns).phase = "absent" THEN ns
             ELSE Put(ns, [Stored(ns) EXCEPT !.phase = "terminating"])
    /\ UNCHANGED <<apiVars, hr, harness, relQueue>>

\* ... and the harness.
cleanupHarness ==
    /\ relWork.stage = "delete harness"
    /\ To("release")
    /\ harness' = Put(harness, NoHarness)
    /\ UNCHANGED <<apiVars, ns, hr, relQueue>>

\* The uid in the patch keeps it off a claim other than the one that was read.
PatchRefused == Stored(claim).phase = "absent" \/ Stored(claim).uid # relWork.uid

\* Mutant: the claim is let go while the namespace terminates.
releaseClaimEarly ==
    /\ relWork.stage = "release"
    /\ IF PatchRefused
       THEN Retry /\ UNCHANGED <<claim, rv>>
       ELSE Done /\ PutClaim([NoClaim EXCEPT !.uid = Stored(claim).uid])
    /\ UNCHANGED <<revs, now, instanceVars>>

\* When the namespace was gone and the cache shows no harness, take the
\* finalizer off, which lets the claim go.
releaseClaim ==
    /\ relWork.stage = "release"
    /\ \/ /\ ~(relWork.nsGone /\ Cached(harness).phase = "absent")
          /\ Done
          /\ UNCHANGED <<claim, rv>>
       \/ /\ relWork.nsGone /\ Cached(harness).phase = "absent"
          /\ PatchRefused
          /\ Retry
          /\ UNCHANGED <<claim, rv>>
       \/ /\ relWork.nsGone /\ Cached(harness).phase = "absent"
          /\ ~PatchRefused
          /\ PutClaim([NoClaim EXCEPT !.uid = Stored(claim).uid])
          /\ Done
    /\ UNCHANGED <<revs, now, instanceVars>>

\* Mutant: the finalizer is left for a later reconcile.
addFinalizerLater ==
    /\ relWork.stage = "finalizer"
    /\ IF PatchRefused
       THEN Retry
       ELSE To("list") /\ UNCHANGED relQueue
    /\ UNCHANGED <<apiVars, instanceVars>>

\* Before anything is created, the finalizer goes onto the claim.  It may be on
\* it already, also if the claim has been deleted since it was read.
addFinalizer ==
    /\ relWork.stage = "finalizer"
    /\ \/ /\ PatchRefused
          /\ Retry
          /\ UNCHANGED <<claim, rv>>
       \/ /\ ~PatchRefused
          /\ To("list")
          /\ IF Stored(claim).finalizer THEN UNCHANGED <<claim, rv>>
             ELSE PutClaim([Stored(claim) EXCEPT !.finalizer = TRUE])
          /\ UNCHANGED relQueue
    /\ UNCHANGED <<revs, now, instanceVars>>

\* Mutant: the first revision is released, approved or not.
pickAnyRevision ==
    LET newest == NewestFirst(relWork.uid, Cached(revs))
    IN  /\ relWork.stage = "list"
        /\ \/ /\ Cached(ns).phase = "terminating" \/ newest = {}
              /\ Retry
           \/ /\ Cached(ns).phase # "terminating"
              /\ \E r \in newest :
                    relWork' = [relWork EXCEPT !.stage = "harness", !.revision = r]
              /\ UNCHANGED relQueue
        /\ UNCHANGED <<apiVars, instanceVars>>

\* A namespace on its way out is waited for.  Otherwise the newest approved of
\* the revisions in the cache is released.
pickRevision ==
    LET newest == NewestFirst(relWork.uid, Cached(revs))
    IN  /\ relWork.stage = "list"
        /\ \/ /\ Cached(ns).phase = "terminating"
              /\ Retry
           \/ /\ Cached(ns).phase # "terminating"
              /\ \A r \in newest : Cached(revs)[r].at = 0
              /\ Done
           \/ /\ Cached(ns).phase # "terminating"
              /\ \E r \in newest :
                    /\ Cached(revs)[r].at # 0
                    /\ relWork' = [relWork EXCEPT !.stage = "harness", !.revision = r]
              /\ UNCHANGED relQueue
        /\ UNCHANGED <<apiVars, instanceVars>>

-----------------------------------------------------------------------------
(* ensureRelease.                                                          *)

ensureOperatorHarness ==
    /\ relWork.stage = "harness"
    /\ To("namespace")
    /\ harness' = IF Manages
                  THEN Put(harness, [phase |-> "live", uid |-> relWork.uid])
                  ELSE harness
    /\ UNCHANGED <<apiVars, ns, hr, relQueue>>

\* The CRDs of the groups, the cluster-wide provider role (a group that is not
\* accepted is an error, RelFails) and the namespace.  The apply succeeds on a
\* namespace that is terminating too.
ensureNamespace ==
    /\ relWork.stage = "namespace"
    /\ To("helmrelease")
    /\ ns' = Put(ns, [phase |-> IF Stored(ns).phase = "terminating" THEN "terminating" ELSE "live",
                      uid |-> relWork.uid])
    /\ UNCHANGED <<apiVars, hr, harness, relQueue>>

\* Mutant: the HelmRelease is created but never updated.
ensureHelmReleaseOnce ==
    /\ relWork.stage = "helmrelease"
    /\ \/ /\ Stored(ns).phase # "live"
          /\ Retry
          /\ UNCHANGED hr
       \/ /\ \/ Stored(ns).phase = "live"
             \/ Stored(ns).phase = "terminating" /\ Stored(hr).phase # "absent"
          /\ To("status")
          /\ hr' = IF Stored(hr).phase # "absent" THEN hr
                   ELSE Put(hr, [phase |-> "live", revision |-> relWork.revision, ready |-> FALSE])
          /\ UNCHANGED relQueue
    /\ UNCHANGED <<apiVars, ns, harness>>

\* The service account, its roles, the OCIRepository and the HelmRelease.  None of
\* them can be created in a namespace that is terminating or gone; while they are
\* still there, they can be applied.
ensureHelmRelease ==
    LET release == Stored(hr)
    IN  /\ relWork.stage = "helmrelease"
        /\ \/ /\ Stored(ns).phase # "live"
              /\ Retry
              /\ UNCHANGED hr
           \/ /\ \/ Stored(ns).phase = "live"
                 \/ Stored(ns).phase = "terminating" /\ release.phase # "absent"
              /\ To("status")
              /\ hr' = IF release.phase # "absent" /\ release.revision = relWork.revision
                       THEN hr
                       ELSE Put(hr, [phase |-> IF release.phase = "absent" THEN "live" ELSE release.phase,
                                     revision |-> relWork.revision, ready |-> FALSE])
              /\ UNCHANGED relQueue
        /\ UNCHANGED <<apiVars, ns, harness>>

\* Mutant: what the cached HelmRelease carries is reported, current or not.
reportCachedRelease ==
    LET release == Cached(hr)
        c == Stored(claim)
    IN  /\ relWork.stage = "status"
        /\ IF release.phase = "absent" \/ c.phase = "absent"
           THEN UNCHANGED <<claim, rv>>
           ELSE PutClaim([c EXCEPT !.applied = release.revision, !.ready = release.ready])
        /\ Done
        /\ UNCHANGED <<revs, now, instanceVars>>

\* Report the release, once the cache shows it with this revision.  The status
\* patch names no uid; it finds no claim to go onto if the claim is gone.
reportRelease ==
    LET release == Cached(hr)
        c == Stored(claim)
    IN  /\ relWork.stage = "status"
        /\ \/ /\ release.phase = "absent" \/ release.revision # relWork.revision
              /\ Done
              /\ UNCHANGED <<claim, rv>>
           \/ /\ release.phase # "absent" /\ release.revision = relWork.revision
              /\ c.phase = "absent"
              /\ Retry
              /\ UNCHANGED <<claim, rv>>
           \/ /\ release.phase # "absent" /\ release.revision = relWork.revision
              /\ c.phase # "absent"
              /\ IF c.applied = relWork.revision /\ c.ready = release.ready
                 THEN UNCHANGED <<claim, rv>>
                 ELSE PutClaim([c EXCEPT !.applied = relWork.revision, !.ready = release.ready])
              /\ Done
        /\ UNCHANGED <<revs, now, instanceVars>>

\* Any call can fail; what the reconcile has done so far stays.
RelFails ==
    /\ relWork.stage # "idle"
    /\ Retry
    /\ UNCHANGED <<apiVars, instanceVars>>

cleanupRelease == cleanupHelmRelease \/ cleanupNamespace \/ cleanupHarness

ensureRelease == ensureOperatorHarness \/ ensureNamespace \/ ensureHelmRelease

RelProgress ==
    \/ RelGet
    \/ cleanupRelease
    \/ releaseClaim
    \/ addFinalizer
    \/ pickRevision
    \/ ensureRelease
    \/ reportRelease

RelReconcile == RelProgress \/ RelFails
=============================================================================
