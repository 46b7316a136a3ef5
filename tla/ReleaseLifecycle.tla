-------------------------- MODULE ReleaseLifecycle --------------------------
(***************************************************************************)
(* The life of a claim's release: ReleaseController next to users who      *)
(* create, delete and recreate the claim and approve revisions of it, Flux *)
(* which installs and uninstalls, Kubernetes which terminates namespaces   *)
(* and collects garbage, and restarts of the operator.                     *)
(***************************************************************************)
EXTENDS ReleaseController

CONSTANTS
    UserMay,        \* what users do in this instance
    MaxUid,         \* bound: how often the claim is created
    MaxEdits,       \* bound: revisions made or approved and namespaces deleted
    MaxLag,         \* bound: the others do not run further ahead of a cache
                    \*        than this many changes
    MaxInterruptions    \* bound: calls that fail and restarts of the operator

ASSUME UserMayAssumption == UserMay \subseteq {"delete claim", "delete namespace"}

VARIABLES edits, interruptions

boundVars == <<edits, interruptions>>
vars == <<apiVars, releaseVars, boundVars>>

-----------------------------------------------------------------------------
(* Watches: every event of the five kinds enqueues the claim.              *)

DeliverClaim == Lagging(claim) /\ claim' = Delivered(claim) /\ UNCHANGED <<revs, instanceVars>>
DeliverRevision == Lagging(revs) /\ revs' = Delivered(revs) /\ UNCHANGED <<claim, instanceVars>>
DeliverNamespace == Lagging(ns) /\ ns' = Delivered(ns) /\ UNCHANGED <<claim, revs, hr, harness>>
DeliverHelmRelease == Lagging(hr) /\ hr' = Delivered(hr) /\ UNCHANGED <<claim, revs, ns, harness>>
DeliverHarness == Lagging(harness) /\ harness' = Delivered(harness) /\ UNCHANGED <<claim, revs, ns, hr>>

Watched(deliver) ==
    /\ deliver
    /\ relQueue' = TRUE
    /\ UNCHANGED <<rv, now, relWork, boundVars>>

\* The operator restarts: the worker and the queue are lost, the informers list
\* afresh and report what they find.
Restart ==
    /\ interruptions < MaxInterruptions
    /\ interruptions' = interruptions + 1
    /\ claim' = Synced(Stored(claim))
    /\ revs' = Synced(Stored(revs))
    /\ ns' = Synced(Stored(ns))
    /\ hr' = Synced(Stored(hr))
    /\ harness' = Synced(Stored(harness))
    /\ relQueue' = (Stored(claim).phase # "absent" \/ DOMAIN Stored(revs) # {}
                    \/ Stored(ns).phase # "absent" \/ Stored(hr).phase # "absent"
                    \/ Stored(harness).phase # "absent")
    /\ relWork' = RelIdle
    /\ UNCHANGED <<rv, now, edits>>

-----------------------------------------------------------------------------
(* Users and the other controllers of the claim.                           *)

CreateClaim ==
    /\ Stored(claim).phase = "absent"
    /\ Stored(claim).uid < MaxUid /\ Len(claim) <= MaxLag
    /\ PutClaim([NoClaim EXCEPT !.phase = "live", !.uid = Stored(claim).uid + 1, !.generation = 1])
    /\ UNCHANGED <<revs, now, releaseVars, boundVars>>

\* A claim without the finalizer is gone at once.
DeleteClaim ==
    /\ "delete claim" \in UserMay
    /\ Stored(claim).phase = "live" /\ Len(claim) <= MaxLag
    /\ PutClaim(IF Stored(claim).finalizer
                THEN [Stored(claim) EXCEPT !.phase = "deleting"]
                ELSE [NoClaim EXCEPT !.uid = Stored(claim).uid])
    /\ UNCHANGED <<revs, now, releaseVars, boundVars>>

DeleteNamespace ==
    /\ "delete namespace" \in UserMay
    /\ edits < MaxEdits /\ Len(ns) <= MaxLag
    /\ edits' = edits + 1
    /\ Stored(ns).phase = "live"
    /\ ns' = Put(ns, [Stored(ns) EXCEPT !.phase = "terminating"])
    /\ UNCHANGED <<apiVars, hr, harness, relQueue, relWork, interruptions>>

\* A revision of the claim is made, approved, or approved again, each approval
\* at a time of its own (ClaimRevisions is about those that are not).
Approve ==
    /\ edits < MaxEdits /\ Len(revs) <= MaxLag
    /\ edits' = edits + 1
    /\ Stored(claim).phase = "live"
    /\ \E v \in Values, p \in Platform, approved \in BOOLEAN :
          LET r == [uid |-> Stored(claim).uid, version |-> 1, digest |-> 2,
                    values |-> v, platform |-> p]
          IN  /\ approved \/ r \notin DOMAIN Stored(revs)
              /\ PutRevision(r, IF approved THEN [at |-> now, by |-> "user"] ELSE Unapproved)
              /\ now' = IF approved THEN now + 1 ELSE now
    /\ UNCHANGED <<claim, rv, releaseVars, interruptions>>

-----------------------------------------------------------------------------
(* Flux and Kubernetes.                                                    *)

Installed ==
    /\ Stored(hr).phase = "live" /\ ~Stored(hr).ready /\ Len(hr) <= MaxLag
    /\ hr' = Put(hr, [Stored(hr) EXCEPT !.ready = TRUE])
    /\ UNCHANGED <<apiVars, ns, harness, relQueue, relWork, boundVars>>

Uninstalled ==
    /\ Stored(hr).phase = "deleting" /\ Len(hr) <= MaxLag
    /\ hr' = Put(hr, NoHelmRelease)
    /\ UNCHANGED <<apiVars, ns, harness, relQueue, relWork, boundVars>>

\* A namespace that terminates takes what is in it along, and goes when nothing
\* is left.
Terminate ==
    /\ Stored(ns).phase = "terminating"
    /\ \/ /\ Stored(hr).phase = "live" /\ Len(hr) <= MaxLag
          /\ \E release \in Deleted(Stored(hr)) : hr' = Put(hr, release)
          /\ UNCHANGED ns
       \/ /\ Stored(hr).phase = "absent" /\ Len(ns) <= MaxLag
          /\ ns' = Put(ns, NoNamespace)
          /\ UNCHANGED hr
    /\ UNCHANGED <<apiVars, harness, relQueue, relWork, boundVars>>

\* Revisions whose owner is gone are collected (bound: not those of the last
\* claim, which nobody asks for any more).
GarbageCollect ==
    /\ Len(revs) <= MaxLag
    /\ \E r \in DOMAIN Stored(revs) :
          /\ r.uid < MaxUid
          /\ r.uid # Stored(claim).uid \/ Stored(claim).phase = "absent"
          /\ revs' = Written(revs, [q \in DOMAIN Stored(revs) \ {r} |-> Stored(revs)[q]])
    /\ UNCHANGED <<claim, rv, now, releaseVars, boundVars>>

-----------------------------------------------------------------------------

Init ==
    /\ claim = Synced(NoClaim)
    /\ revs = Synced([r \in {} |-> Unapproved])
    /\ rv = 0
    /\ now = 1
    /\ ns = Synced(NoNamespace)
    /\ hr = Synced(NoHelmRelease)
    /\ harness = Synced(NoHarness)
    /\ relQueue = FALSE
    /\ relWork = RelIdle
    /\ edits = 0
    /\ interruptions = 0

Progress == RelProgress /\ UNCHANGED boundVars

Failure ==
    /\ interruptions < MaxInterruptions
    /\ interruptions' = interruptions + 1
    /\ RelFails
    /\ UNCHANGED edits

Watches ==
    \/ Watched(DeliverClaim)
    \/ Watched(DeliverRevision)
    \/ Watched(DeliverNamespace)
    \/ Watched(DeliverHelmRelease)
    \/ Watched(DeliverHarness)

Users == CreateClaim \/ DeleteClaim \/ DeleteNamespace \/ Approve

Cluster == Installed \/ Uninstalled \/ Terminate \/ GarbageCollect

Next == Progress \/ Failure \/ Watches \/ Restart \/ Users \/ Cluster

Spec == Init /\ [][Next]_vars

\* The worker keeps running, and so do the informers, and Flux and Kubernetes,
\* each of them as a whole.  Users may stop.
FairSpec == Spec /\ WF_vars(Progress) /\ WF_vars(Watches) /\ WF_vars(Cluster)

-----------------------------------------------------------------------------
(* Properties.                                                             *)

TypeOK ==
    /\ \A i \in 1 .. Len(claim) : claim[i] \in Claim
    /\ \A i \in 1 .. Len(revs) : /\ DOMAIN revs[i] \subseteq Revision
                                 /\ \A r \in DOMAIN revs[i] : revs[i][r] \in Approval
    /\ \A i \in 1 .. Len(ns) : ns[i] \in Namespace
    /\ \A i \in 1 .. Len(hr) : hr[i] \in HelmRelease
    /\ \A i \in 1 .. Len(harness) : harness[i] \in Harness
    /\ relQueue \in BOOLEAN
    /\ relWork \in RelWork

\* Whatever exists of a release belongs to the claim that exists under its name,
\* and that claim has the finalizer: no namespace, HelmRelease or harness outlives
\* its claim or is handed on to a later claim of the same name, with any call
\* failing, the operator restarting and every cache lagging.
NoOrphans ==
    LET c == Stored(claim)
        Owned(uid) == uid = c.uid /\ c.phase # "absent" /\ c.finalizer
    IN  /\ Stored(ns).phase # "absent" => Owned(Stored(ns).uid)
        /\ Stored(hr).phase # "absent" => Owned(Stored(hr).revision.uid)
        /\ Stored(harness).phase # "absent" => Owned(Stored(harness).uid)

\* "The HelmRelease has to go first" (release_controller.go:205): as long as there
\* is one, installed or being uninstalled, its namespace is not terminating and
\* the operator it deploys has its harness (if no user deletes the namespace).
UninstallIsServed ==
    Stored(hr).phase # "absent" =>
        /\ Stored(ns).phase = "live"
        /\ Manages => Stored(harness).phase = "live"

\* Only an approved revision of the claim itself is ever deployed, and what the
\* claim reports as applied is one of its own revisions too.
DeploysApproved ==
    LET c == Stored(claim)
        release == Stored(hr)
    IN  /\ release.phase # "absent" =>
              /\ release.revision \in DOMAIN Stored(revs)
              /\ Stored(revs)[release.revision].at > 0
        /\ c.phase # "absent" /\ c.applied # NoRevision => c.applied.uid = c.uid

\* What a user is promised: the caches, the retries and the order of the steps left
\* aside, the release lives and dies as in Deployment.  In particular nothing of a
\* live claim is ever taken down, and what is deployed is so in complete
\* surroundings (if no user deletes the namespace).
Contract ==
    INSTANCE Deployment WITH
        Harnessed <- Manages,
        phase <- Stored(claim).phase,
        uid <- Stored(claim).uid,
        approved <- {r \in DOMAIN Stored(revs) : Stored(revs)[r].at > 0},
        footprint <- (IF Stored(ns).phase = "absent" THEN {} ELSE {"namespace"}) \cup
                     (IF Stored(harness).phase = "absent" THEN {} ELSE {"harness"}),
        deployed <- IF Stored(hr).phase = "absent" THEN NoRevision ELSE Stored(hr).revision

KeepsItsPromise == Contract!Spec

\* The claim never reports a revision when the HelmRelease carries another one by
\* then, although the release it reports on is the cached one.
ReportsWhatIsDeployed ==
    [][Stored(claim)'.applied \notin {Stored(claim).applied, NoRevision} =>
          Stored(hr).revision \in {Stored(claim)'.applied, NoRevision}]_vars

\* A deleted claim goes at last, and its release with it: no claim is left with
\* its deletion pending.
CleanupCompletes == <>[](Stored(claim).phase # "deleting")

\* When users stop, the newest approved revision of the claim is deployed and
\* reported as ready.
NewestIsDeployed ==
    <>[](LET c == Stored(claim)
             newest == NewestFirst(c.uid, Stored(revs))
         IN  /\ c.phase = "live"
             /\ \E r \in newest : Stored(revs)[r].at > 0
             => /\ Stored(hr).phase = "live"
                /\ Stored(hr).revision \in newest
                /\ c.applied = Stored(hr).revision
                /\ c.ready)
=============================================================================
