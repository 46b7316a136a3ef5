----------------------- MODULE ReleaseLifecycleProofs -----------------------
(***************************************************************************)
(* Proofs about ReleaseLifecycle, for any revisions, any number of claims  *)
(* of the name, any lag of the caches, and any number of failed calls and  *)
(* restarts.                                                               *)
(***************************************************************************)
EXTENDS ReleaseLifecycle, ClaimApiProofs, TLAPS

-----------------------------------------------------------------------------
(* Types.                                                                  *)

\* TypeOK, with windows that are never empty.
Typed ==
    /\ ApiTyped
    /\ ns \in Seq(Namespace) /\ ns # <<>>
    /\ hr \in Seq(HelmRelease) /\ hr # <<>>
    /\ harness \in Seq(Harness) /\ harness # <<>>
    /\ relQueue \in BOOLEAN
    /\ relWork \in RelWork

\* The two ends of the windows.
LEMMA InstanceEnds ==
    ASSUME Typed
    PROVE  /\ Stored(ns) \in Namespace /\ Cached(ns) \in Namespace
           /\ Stored(hr) \in HelmRelease /\ Cached(hr) \in HelmRelease
           /\ Stored(harness) \in Harness /\ Cached(harness) \in Harness
  BY WindowEnds DEF Typed

\* A write that may change nothing.
LEMMA PutWindow ==
    ASSUME NEW S, NEW w \in Seq(S), w # <<>>, NEW s \in S
    PROVE  /\ Put(w, s) \in Seq(S) /\ Put(w, s) # <<>>
           /\ Stored(Put(w, s)) = s
  BY WrittenWindow DEF Put

LEMMA IdleType == RelIdle \in RelWork
  BY DEF RelIdle, RelWork

LEMMA NothingType == NoNamespace \in Namespace /\ NoHelmRelease \in HelmRelease /\ NoHarness \in Harness
  BY DEF NoNamespace, Namespace, NoHelmRelease, HelmRelease, NoHarness, Harness

LEMMA NothingIsAbsent ==
    NoNamespace.phase = "absent" /\ NoHelmRelease.phase = "absent" /\ NoHarness.phase = "absent"
  BY DEF NoNamespace, NoHelmRelease, NoHarness

LEMMA DeletedType ==
    ASSUME NEW release \in HelmRelease, NEW d \in Deleted(release)
    PROVE  d \in HelmRelease
  BY NothingType DEF Deleted, HelmRelease

LEMMA TypedWork ==
    ASSUME Typed
    PROVE  /\ relWork.uid \in Nat
           /\ relWork.revision \in Revision \cup {NoRevision}
           /\ \A s \in {"idle", "uninstall", "delete ns", "delete harness", "release", "finalizer",
                        "list", "harness", "namespace", "helmrelease", "status"} :
                 [relWork EXCEPT !.stage = s] \in RelWork
  BY DEF Typed, RelWork

\* The steps of the worker that change nothing but its own state.
LEMMA ReadingTyped ==
    ASSUME Typed, RelGet \/ pickRevision \/ RelFails
    PROVE  Typed'
  <1>1. UNCHANGED <<apiVars, instanceVars>>
    BY DEF RelGet, pickRevision, RelFails
  <1>2. ApiTyped'
    BY <1>1 DEF Typed, ApiTyped, apiVars
  <1>3. relQueue' \in BOOLEAN
    BY DEF RelGet, pickRevision, RelFails, Done, Retry, Typed
  <1>4. CASE RelGet
    <2>1. Cached(claim).uid \in Nat
      BY ApiEnds DEF Typed, Claim
    <2>2. relWork' \in RelWork
      BY <1>4, <2>1, IdleType DEF RelGet, RelWork, RelIdle
    <2> QED
      BY <1>1, <1>2, <1>3, <2>2 DEF Typed, instanceVars
  <1>5. CASE pickRevision
    <2>1. ASSUME NEW r \in NewestFirst(relWork.uid, Cached(revs))
          PROVE  [relWork EXCEPT !.stage = "harness", !.revision = r] \in RelWork
      <3>1. r \in Revision
        BY ApiEnds, NewestIsOwned, ApprovalsType DEF Typed
      <3> QED
        BY <3>1 DEF Typed, RelWork
    <2>2. relWork' \in RelWork
      BY <1>5, <2>1, IdleType DEF pickRevision, Done, Retry
    <2> QED
      BY <1>1, <1>2, <1>3, <2>2 DEF Typed, instanceVars
  <1>6. CASE RelFails
    BY <1>1, <1>2, <1>3, <1>6, IdleType DEF RelFails, Retry, Typed, instanceVars
  <1> QED
    BY <1>4, <1>5, <1>6

\* The claim after a write of the controller.
LEMMA ClaimWriteTyped ==
    ASSUME Typed
    PROVE  /\ [NoClaim EXCEPT !.uid = Stored(claim).uid] \in Claim
           /\ [Stored(claim) EXCEPT !.finalizer = TRUE] \in Claim
           /\ [Stored(claim) EXCEPT !.phase = "deleting"] \in Claim
           /\ [NoClaim EXCEPT !.phase = "live", !.uid = Stored(claim).uid + 1, !.generation = 1] \in Claim
           /\ [Stored(claim) EXCEPT !.applied = relWork.revision, !.ready = Cached(hr).ready] \in Claim
  <1>1. Stored(claim) \in Claim
    BY ApiEnds DEF Typed
  <1>2. Stored(claim).uid \in Nat /\ Stored(claim).uid + 1 \in Nat
    BY <1>1 DEF Claim
  <1>3. Cached(hr).ready \in BOOLEAN
    BY InstanceEnds DEF HelmRelease
  <1>4. relWork.revision \in Revision \cup {NoRevision}
    BY TypedWork
  <1>5. \A n \in Nat : [NoClaim EXCEPT !.phase = "live", !.uid = n, !.generation = 1] \in Claim
    BY NoClaimType DEF Claim
  <1>6. \A n \in Nat : [NoClaim EXCEPT !.uid = n] \in Claim
    BY NoClaimType DEF Claim
  <1>7. [Stored(claim) EXCEPT !.finalizer = TRUE] \in Claim /\ [Stored(claim) EXCEPT !.phase = "deleting"] \in Claim
    BY <1>1 DEF Claim
  <1>8. [Stored(claim) EXCEPT !.applied = relWork.revision, !.ready = Cached(hr).ready] \in Claim
    BY <1>1, <1>3, <1>4 DEF Claim
  <1> QED
    BY <1>2, <1>5, <1>6, <1>7, <1>8

\* The steps of the worker that may write the claim.
LEMMA ClaimStepTyped ==
    ASSUME Typed, releaseClaim \/ addFinalizer \/ reportRelease
    PROVE  Typed'
  <1>1. UNCHANGED <<revs, now, instanceVars>>
    BY DEF releaseClaim, addFinalizer, reportRelease
  <1>2. relQueue' \in BOOLEAN /\ relWork' \in RelWork
    BY IdleType, TypedWork DEF releaseClaim, addFinalizer, reportRelease, Done, Retry, To, Typed
  <1>3. \/ UNCHANGED <<claim, rv>>
        \/ PutClaim([NoClaim EXCEPT !.uid = Stored(claim).uid])
        \/ PutClaim([Stored(claim) EXCEPT !.finalizer = TRUE])
        \/ PutClaim([Stored(claim) EXCEPT !.applied = relWork.revision, !.ready = Cached(hr).ready])
    BY DEF releaseClaim, addFinalizer, reportRelease
  <1>4. claim' \in Seq(Claim) /\ claim' # <<>> /\ rv' \in Nat
    BY <1>3, ClaimWriteTyped, PutClaimWindow DEF Typed, ApiTyped
  <1> QED
    BY <1>1, <1>2, <1>4 DEF Typed, ApiTyped, instanceVars

\* The steps of the worker that write the namespace, the HelmRelease or the harness.
LEMMA InstanceStepTyped ==
    ASSUME Typed, cleanupRelease \/ ensureRelease
    PROVE  Typed'
  <1>1. UNCHANGED apiVars /\ ApiTyped'
    BY DEF cleanupRelease, cleanupHelmRelease, cleanupNamespace, cleanupHarness, ensureRelease,
           ensureOperatorHarness, ensureNamespace, ensureHelmRelease, Typed, ApiTyped, apiVars
  <1>2. CASE cleanupHelmRelease
    <2>1. \A release \in Deleted(Stored(hr)) : release \in HelmRelease
      BY InstanceEnds, DeletedType
    <2>2. hr' \in Seq(HelmRelease) /\ hr' # <<>>
      BY <1>2, <2>1, PutWindow DEF cleanupHelmRelease, Typed
    <2> QED
      BY <1>1, <1>2, <2>2, IdleType, TypedWork DEF cleanupHelmRelease, Done, To, Typed
  <1>3. CASE cleanupNamespace
    <2>1. [Stored(ns) EXCEPT !.phase = "terminating"] \in Namespace
      BY InstanceEnds DEF Namespace
    <2>2. ns' \in Seq(Namespace) /\ ns' # <<>>
      BY <1>3, <2>1, PutWindow DEF cleanupNamespace, Typed
    <2>3. relWork' \in RelWork
      BY <1>3 DEF cleanupNamespace, Typed, RelWork
    <2> QED
      BY <1>1, <1>3, <2>2, <2>3 DEF cleanupNamespace, Typed
  <1>4. CASE cleanupHarness
    <2>1. harness' \in Seq(Harness) /\ harness' # <<>>
      BY <1>4, PutWindow, NothingType DEF cleanupHarness, Typed
    <2> QED
      BY <1>1, <1>4, <2>1, TypedWork DEF cleanupHarness, To, Typed
  <1>5. CASE ensureOperatorHarness
    <2>1. [phase |-> "live", uid |-> relWork.uid] \in Harness
      BY TypedWork DEF Harness
    <2>2. harness' \in Seq(Harness) /\ harness' # <<>>
      BY <1>5, <2>1, PutWindow DEF ensureOperatorHarness, Typed
    <2> QED
      BY <1>1, <1>5, <2>2, TypedWork DEF ensureOperatorHarness, To, Typed
  <1>6. CASE ensureNamespace
    <2>1. [phase |-> IF Stored(ns).phase = "terminating" THEN "terminating" ELSE "live",
           uid |-> relWork.uid] \in Namespace
      BY TypedWork DEF Namespace
    <2>2. ns' \in Seq(Namespace) /\ ns' # <<>>
      BY <1>6, <2>1, PutWindow DEF ensureNamespace, Typed
    <2> QED
      BY <1>1, <1>6, <2>2, TypedWork DEF ensureNamespace, To, Typed
  <1>7. CASE ensureHelmRelease
    <2>1. [phase |-> IF Stored(hr).phase = "absent" THEN "live" ELSE Stored(hr).phase,
           revision |-> relWork.revision, ready |-> FALSE] \in HelmRelease
      BY TypedWork, InstanceEnds DEF HelmRelease
    <2>2. hr' \in Seq(HelmRelease) /\ hr' # <<>>
      BY <1>7, <2>1, PutWindow DEF ensureHelmRelease, Typed
    <2> QED
      BY <1>1, <1>7, <2>2, IdleType, TypedWork DEF ensureHelmRelease, To, Retry, Typed
  <1> QED
    BY <1>2, <1>3, <1>4, <1>5, <1>6, <1>7 DEF cleanupRelease, ensureRelease

\* Deliveries and restarts.
LEMMA WatchesTyped ==
    ASSUME Typed, Watches \/ Restart
    PROVE  Typed'
  <1>1. CASE Watched(DeliverClaim)
    BY <1>1, DeliverClaimWindow DEF Watched, DeliverClaim, Typed, ApiTyped, instanceVars
  <1>2. CASE Watched(DeliverRevision)
    BY <1>2, DeliverRevisionWindow DEF Watched, DeliverRevision, Typed, ApiTyped, instanceVars
  <1>3. CASE Watched(DeliverNamespace)
    BY <1>3, DeliveredWindow DEF Watched, DeliverNamespace, Typed, ApiTyped
  <1>4. CASE Watched(DeliverHelmRelease)
    BY <1>4, DeliveredWindow DEF Watched, DeliverHelmRelease, Typed, ApiTyped
  <1>5. CASE Watched(DeliverHarness)
    BY <1>5, DeliveredWindow DEF Watched, DeliverHarness, Typed, ApiTyped
  <1>6. CASE Restart
    <2>1. ApiTyped'
      BY <1>6, RelistWindows DEF Restart, Typed, ApiTyped
    <2>2. /\ ns' \in Seq(Namespace) /\ ns' # <<>>
          /\ hr' \in Seq(HelmRelease) /\ hr' # <<>>
          /\ harness' \in Seq(Harness) /\ harness' # <<>>
      BY <1>6, InstanceEnds, SyncedWindow DEF Restart
    <2> QED
      BY <1>6, <2>1, <2>2, IdleType DEF Restart, Typed
  <1> QED
    BY <1>1, <1>2, <1>3, <1>4, <1>5, <1>6 DEF Watches

\* What users approve is a revision of the claim.
LEMMA UserRevisionType ==
    ASSUME Typed, NEW v \in Values, NEW p \in Platform
    PROVE  [uid |-> Stored(claim).uid, version |-> 1, digest |-> 2, values |-> v, platform |-> p] \in Revision
  <1>1. Stored(claim).uid \in Nat
    BY ApiEnds DEF Typed, Claim
  <1>2. 1 \in Version /\ 2 \in Nat
    BY VersionAssumption DEF Version
  <1> QED
    BY <1>1, <1>2 DEF Revision

LEMMA UsersTyped ==
    ASSUME Typed, Users
    PROVE  Typed'
  <1>1. CASE CreateClaim
    BY <1>1, ClaimWriteTyped, PutClaimWindow DEF CreateClaim, releaseVars, Typed, ApiTyped
  <1>2. CASE DeleteClaim
    <2>1. claim' \in Seq(Claim) /\ claim' # <<>> /\ rv' \in Nat
      BY <1>2, ClaimWriteTyped, PutClaimWindow DEF DeleteClaim, Typed
    <2> QED
      BY <1>2, <2>1 DEF DeleteClaim, releaseVars, Typed, ApiTyped
  <1>3. CASE DeleteNamespace
    <2>1. [Stored(ns) EXCEPT !.phase = "terminating"] \in Namespace
      BY InstanceEnds DEF Namespace
    <2>2. ns' \in Seq(Namespace) /\ ns' # <<>>
      BY <1>3, <2>1, PutWindow DEF DeleteNamespace, Typed
    <2> QED
      BY <1>3, <2>2 DEF DeleteNamespace, Typed, ApiTyped, apiVars
  <1>4. CASE Approve
    <2>1. PICK v \in Values, p \in Platform, approved \in BOOLEAN :
             LET r == [uid |-> Stored(claim).uid, version |-> 1, digest |-> 2, values |-> v, platform |-> p]
             IN  /\ PutRevision(r, IF approved THEN [at |-> now, by |-> "user"] ELSE Unapproved)
                 /\ now' = IF approved THEN now + 1 ELSE now
      BY <1>4 DEF Approve
    <2> DEFINE a == IF approved THEN [at |-> now, by |-> "user"] ELSE Unapproved
    <2>2. a \in Approval /\ now' \in Nat \ {0}
      BY <2>1 DEF Typed, ApiTyped, Approval, Unapproved
    <2> HIDE DEF a
    <2>3. revs' \in Seq(Approvals) /\ revs' # <<>>
      BY <2>1, <2>2, UserRevisionType, PutRevisionWindow DEF Typed, a
    <2> QED
      BY <1>4, <2>2, <2>3 DEF Approve, releaseVars, Typed, ApiTyped
  <1> QED
    BY <1>1, <1>2, <1>3, <1>4 DEF Users

LEMMA ClusterTyped ==
    ASSUME Typed, Cluster
    PROVE  Typed'
  <1>1. CASE Installed
    <2>1. [Stored(hr) EXCEPT !.ready = TRUE] \in HelmRelease
      BY InstanceEnds DEF HelmRelease
    <2>2. hr' \in Seq(HelmRelease) /\ hr' # <<>>
      BY <1>1, <2>1, PutWindow DEF Installed, Typed
    <2> QED
      BY <1>1, <2>2 DEF Installed, Typed, ApiTyped, apiVars
  <1>2. CASE Uninstalled
    <2>1. hr' \in Seq(HelmRelease) /\ hr' # <<>>
      BY <1>2, NothingType, PutWindow DEF Uninstalled, Typed
    <2> QED
      BY <1>2, <2>1 DEF Uninstalled, Typed, ApiTyped, apiVars
  <1>3. CASE Terminate
    <2>1. \A release \in Deleted(Stored(hr)) : release \in HelmRelease
      BY InstanceEnds, DeletedType
    <2>2. /\ hr' \in Seq(HelmRelease) /\ hr' # <<>>
          /\ ns' \in Seq(Namespace) /\ ns' # <<>>
      BY <1>3, <2>1, NothingType, PutWindow DEF Terminate, Typed
    <2> QED
      BY <1>3, <2>2 DEF Terminate, Typed, ApiTyped, apiVars
  <1>4. CASE GarbageCollect
    <2>1. PICK r : revs' = Written(revs, [q \in DOMAIN Stored(revs) \ {r} |-> Stored(revs)[q]])
      BY <1>4 DEF GarbageCollect
    <2>2. revs' \in Seq(Approvals) /\ revs' # <<>>
      BY <2>1, DropRevisionWindow DEF Typed
    <2> QED
      BY <1>4, <2>2 DEF GarbageCollect, releaseVars, Typed, ApiTyped
  <1> QED
    BY <1>1, <1>2, <1>3, <1>4 DEF Cluster

LEMMA TypedStep == Typed /\ [Next]_vars => Typed'
  <1> SUFFICES ASSUME Typed, [Next]_vars PROVE Typed'
    OBVIOUS
  <1>1. CASE Progress
    BY <1>1, ReadingTyped, ClaimStepTyped, InstanceStepTyped DEF Progress, RelProgress
  <1>2. CASE Failure
    BY <1>2, ReadingTyped DEF Failure
  <1>3. CASE UNCHANGED vars
    BY <1>3 DEF vars, apiVars, releaseVars, Typed, ApiTyped
  <1> QED
    BY <1>1, <1>2, <1>3, WatchesTyped, UsersTyped, ClusterTyped DEF Next

LEMMA TypedInit == Init => Typed
  <1> SUFFICES ASSUME Init PROVE Typed
    OBVIOUS
  <1>1. [r \in {} |-> Unapproved] \in Approvals
    BY DEF Approvals
  <1>2. ApiTyped
    BY <1>1, NoClaimType, SyncedWindow DEF Init, ApiTyped
  <1> QED
    BY <1>2, NothingType, IdleType, SyncedWindow DEF Init, Typed

LEMMA TypedIsTypeOK == Typed => TypeOK
  <1> SUFFICES ASSUME Typed PROVE TypeOK
    OBVIOUS
  <1>1. \A i \in 1 .. Len(revs) : revs[i] \in Approvals
    BY DEF Typed, ApiTyped
  <1> QED
    BY <1>1, ApprovalsType DEF Typed, ApiTyped, TypeOK

\* Every variable of the release controller and of the objects around it keeps its
\* type.
THEOREM TypeCorrect == Spec => []TypeOK
  BY TypedInit, TypedStep, TypedIsTypeOK, PTL DEF Spec

-----------------------------------------------------------------------------
(* The steps of the worker.                                                *)

\* The stored objects after a write.
LEMMA PutObjects ==
    ASSUME Typed
    PROVE  /\ \A n \in Namespace : Stored(Put(ns, n)) = n
           /\ \A h \in HelmRelease : Stored(Put(hr, h)) = h
           /\ \A h \in Harness : Stored(Put(harness, h)) = h
  BY PutWindow DEF Typed

\* A write of the claim changes nothing but its resource version besides.
LEMMA PutClaimMeans ==
    ASSUME Typed, NEW c \in Claim, PutClaim(c)
    PROVE  /\ Stored(claim').uid = c.uid /\ Stored(claim').phase = c.phase
           /\ Stored(claim').finalizer = c.finalizer /\ Stored(claim').applied = c.applied
  <1>1. Stored(claim') = [c EXCEPT !.rv = rv + 1]
    BY PutClaimWindow DEF Typed
  <1> QED
    BY <1>1 DEF Claim

\* The worker moves on.
LEMMA ToMeans ==
    ASSUME Typed, NEW stage, To(stage)
    PROVE  /\ relWork'.stage = stage /\ relWork'.uid = relWork.uid
           /\ relWork'.revision = relWork.revision /\ relWork'.nsGone = relWork.nsGone
  BY DEF To, Typed, RelWork

\* Where the steps of the worker lead.
LEMMA NextStage ==
    ASSUME Typed
    PROVE  /\ RelGet => relWork'.stage \in {"idle", "uninstall", "finalizer"}
           /\ RelFails => relWork'.stage = "idle"
           /\ cleanupHelmRelease => relWork'.stage \in {"idle", "delete ns"}
           /\ releaseClaim => relWork'.stage = "idle"
           /\ reportRelease => relWork'.stage = "idle"
           /\ pickRevision => relWork'.stage \in {"idle", "harness"}
           /\ addFinalizer => relWork'.stage \in {"idle", "list"}
           /\ ensureOperatorHarness => relWork'.stage = "namespace"
           /\ ensureNamespace => relWork'.stage = "helmrelease"
           /\ ensureHelmRelease => relWork'.stage \in {"idle", "status"}
  <1>1. RelGet => relWork'.stage \in {"idle", "uninstall", "finalizer"}
    BY DEF RelGet, RelIdle
  <1>2. RelIdle.stage = "idle"
    BY DEF RelIdle
  <1>3. RelFails => relWork'.stage = "idle"
    BY <1>2 DEF RelFails, Retry
  <1>4. pickRevision => relWork'.stage \in {"idle", "harness"}
    BY <1>2 DEF pickRevision, Done, Retry, Typed, RelWork
  <1>5. addFinalizer => relWork' = RelIdle \/ To("list")
    BY DEF addFinalizer, Retry
  <1>6. ensureOperatorHarness => To("namespace")
    BY DEF ensureOperatorHarness
  <1>7. ensureNamespace => To("helmrelease")
    BY DEF ensureNamespace
  <1>8. ensureHelmRelease => relWork' = RelIdle \/ To("status")
    BY DEF ensureHelmRelease, Retry
  <1>9. cleanupHelmRelease => relWork' = RelIdle \/ To("delete ns")
    BY DEF cleanupHelmRelease, Done
  <1>10. (releaseClaim => relWork' = RelIdle) /\ (reportRelease => relWork' = RelIdle)
    BY DEF releaseClaim, reportRelease, Done, Retry
  <1> QED
    BY <1>1, <1>2, <1>3, <1>4, <1>5, <1>6, <1>7, <1>8, <1>9, <1>10, ToMeans

-----------------------------------------------------------------------------
(* The effects of the steps on what the API server holds.                  *)

Approved(approvals) == {r \in DOMAIN approvals : approvals[r].at > 0}

LEMMA ReadingEffect ==
    ASSUME RelGet \/ RelFails \/ pickRevision
    PROVE  UNCHANGED <<claim, revs, ns, hr, harness>>
  BY DEF RelGet, RelFails, pickRevision, apiVars, instanceVars

LEMMA DeletedEffect ==
    ASSUME Typed, NEW release \in Deleted(Stored(hr)), hr' = Put(hr, release)
    PROVE  \/ Stored(hr') = NoHelmRelease /\ Stored(hr).phase = "live"
           \/ Stored(hr').phase = "deleting" /\ Stored(hr').revision = Stored(hr).revision
  <1>1. Stored(hr) \in HelmRelease
    BY InstanceEnds
  <1>2. Stored(hr') = release
    BY <1>1, DeletedType, PutObjects
  <1> QED
    BY <1>1, <1>2 DEF Deleted, HelmRelease

\* The namespace begins to terminate, and is still the one of its claim.
Terminates == Stored(ns').phase = "terminating" /\ Stored(ns').uid = Stored(ns).uid

LEMMA CleanupEffects ==
    ASSUME Typed
    PROVE  /\ cleanupHelmRelease =>
                 /\ UNCHANGED <<claim, revs, ns, harness>>
                 /\ \/ hr' = hr
                    \/ /\ Stored(hr).phase # "absent"
                       /\ \/ Stored(hr') = NoHelmRelease
                          \/ Stored(hr').phase = "deleting" /\ Stored(hr').revision = Stored(hr).revision
           /\ cleanupNamespace =>
                 /\ UNCHANGED <<claim, revs, hr, harness>>
                 /\ \/ ns' = ns
                    \/ Stored(ns).phase # "absent" /\ Terminates
           /\ cleanupHarness =>
                 /\ UNCHANGED <<claim, revs, ns, hr>>
                 /\ Stored(harness') = NoHarness
  <1>1. Stored(ns) \in Namespace
    BY InstanceEnds
  <1>2. ASSUME cleanupHelmRelease
        PROVE  /\ UNCHANGED <<claim, revs, ns, harness>>
               /\ \/ hr' = hr
                  \/ /\ Stored(hr).phase # "absent"
                     /\ \/ Stored(hr') = NoHelmRelease
                        \/ Stored(hr').phase = "deleting" /\ Stored(hr').revision = Stored(hr).revision
    <2>1. UNCHANGED <<claim, revs, ns, harness>>
      BY <1>2 DEF cleanupHelmRelease, apiVars
    <2>2. CASE Stored(hr).phase # "absent" /\ \E release \in Deleted(Stored(hr)) : hr' = Put(hr, release)
      BY <2>1, <2>2, DeletedEffect
    <2> QED
      BY <1>2, <2>1, <2>2 DEF cleanupHelmRelease
  <1>3. ASSUME cleanupNamespace
        PROVE  /\ UNCHANGED <<claim, revs, hr, harness>>
               /\ \/ ns' = ns
                  \/ Stored(ns).phase # "absent" /\ Terminates
    <2>1. [Stored(ns) EXCEPT !.phase = "terminating"] \in Namespace
      BY <1>1 DEF Namespace
    <2>2. \/ ns' = ns
          \/ Stored(ns).phase # "absent" /\ Stored(ns') = [Stored(ns) EXCEPT !.phase = "terminating"]
      BY <1>3, <2>1, PutObjects DEF cleanupNamespace
    <2>3. UNCHANGED <<claim, revs, hr, harness>>
      BY <1>3 DEF cleanupNamespace, apiVars
    <2> QED
      BY <1>1, <2>2, <2>3 DEF Namespace, Terminates
  <1>4. cleanupHarness => UNCHANGED <<claim, revs, ns, hr>> /\ Stored(harness') = NoHarness
    BY NothingType, PutObjects DEF cleanupHarness, apiVars
  <1> QED
    BY <1>2, <1>3, <1>4

\* Where the HelmRelease can be applied: in a live namespace, or onto one that is
\* still there.
Appliable ==
    \/ Stored(ns).phase = "live"
    \/ Stored(ns).phase = "terminating" /\ Stored(hr).phase # "absent"

LEMMA EnsureEffects ==
    ASSUME Typed
    PROVE  /\ ensureOperatorHarness =>
                 /\ UNCHANGED <<claim, revs, ns, hr>>
                 /\ Manages => Stored(harness').phase = "live" /\ Stored(harness').uid = relWork.uid
                 /\ ~Manages => harness' = harness
           /\ ensureNamespace =>
                 /\ UNCHANGED <<claim, revs, hr, harness>>
                 /\ Stored(ns').phase = IF Stored(ns).phase = "terminating" THEN "terminating" ELSE "live"
                 /\ Stored(ns').uid = relWork.uid
           /\ ensureHelmRelease =>
                 /\ UNCHANGED <<claim, revs, ns, harness>>
                 /\ \/ hr' = hr /\ relWork' = RelIdle
                    \/ /\ Appliable
                       /\ Stored(hr').revision = relWork.revision
                       /\ Stored(hr').phase = IF Stored(hr).phase = "absent" THEN "live" ELSE Stored(hr).phase
  <1>1. ASSUME ensureOperatorHarness
        PROVE  /\ UNCHANGED <<claim, revs, ns, hr>>
               /\ Manages => Stored(harness').phase = "live" /\ Stored(harness').uid = relWork.uid
               /\ ~Manages => harness' = harness
    <2>1. [phase |-> "live", uid |-> relWork.uid] \in Harness
      BY TypedWork DEF Harness
    <2>2. UNCHANGED <<claim, revs, ns, hr>>
      BY <1>1 DEF ensureOperatorHarness, apiVars
    <2>3. Manages => Stored(harness') = [phase |-> "live", uid |-> relWork.uid]
      BY <1>1, <2>1, PutObjects DEF ensureOperatorHarness
    <2>4. ~Manages => harness' = harness
      BY <1>1 DEF ensureOperatorHarness
    <2> QED
      BY <2>2, <2>3, <2>4
  <1>2. ASSUME ensureNamespace
        PROVE  /\ UNCHANGED <<claim, revs, hr, harness>>
               /\ Stored(ns').phase = IF Stored(ns).phase = "terminating" THEN "terminating" ELSE "live"
               /\ Stored(ns').uid = relWork.uid
    <2>1. [phase |-> IF Stored(ns).phase = "terminating" THEN "terminating" ELSE "live",
           uid |-> relWork.uid] \in Namespace
      BY TypedWork DEF Namespace
    <2>2. Stored(ns') = [phase |-> IF Stored(ns).phase = "terminating" THEN "terminating" ELSE "live",
                         uid |-> relWork.uid]
      BY <1>2, <2>1, PutObjects DEF ensureNamespace
    <2>3. UNCHANGED <<claim, revs, hr, harness>>
      BY <1>2 DEF ensureNamespace, apiVars
    <2> QED
      BY <2>2, <2>3
  <1>3. ASSUME ensureHelmRelease
        PROVE  /\ UNCHANGED <<claim, revs, ns, harness>>
               /\ \/ hr' = hr /\ relWork' = RelIdle
                  \/ /\ Appliable
                     /\ Stored(hr').revision = relWork.revision
                     /\ Stored(hr').phase = IF Stored(hr).phase = "absent" THEN "live" ELSE Stored(hr).phase
    <2> DEFINE h == [phase |-> IF Stored(hr).phase = "absent" THEN "live" ELSE Stored(hr).phase,
                     revision |-> relWork.revision, ready |-> FALSE]
    <2>1. h \in HelmRelease
      BY TypedWork, InstanceEnds DEF HelmRelease
    <2>2. h.revision = relWork.revision /\ h.phase = IF Stored(hr).phase = "absent" THEN "live" ELSE Stored(hr).phase
      OBVIOUS
    <2>3. Stored(Put(hr, h)) = h
      BY <2>1, PutObjects
    <2>4. UNCHANGED <<claim, revs, ns, harness>>
      BY <1>3 DEF ensureHelmRelease, apiVars
    <2>5. \/ hr' = hr /\ relWork' = RelIdle
          \/ Appliable /\ hr' = hr /\ Stored(hr).phase # "absent" /\ Stored(hr).revision = relWork.revision
          \/ Appliable /\ hr' = Put(hr, h)
      BY <1>3 DEF ensureHelmRelease, Retry, Appliable
    <2> HIDE DEF h
    <2> QED
      BY <2>2, <2>3, <2>4, <2>5
  <1> QED
    BY <1>1, <1>2, <1>3

LEMMA ClaimEffects ==
    ASSUME Typed
    PROVE  /\ addFinalizer =>
                 /\ UNCHANGED <<revs, ns, hr, harness>>
                 /\ Stored(claim').phase = Stored(claim).phase /\ Stored(claim').uid = Stored(claim).uid
                 /\ Stored(claim').applied = Stored(claim).applied
                 /\ Stored(claim).finalizer => Stored(claim').finalizer
           /\ reportRelease =>
                 /\ UNCHANGED <<revs, ns, hr, harness>>
                 /\ Stored(claim').phase = Stored(claim).phase /\ Stored(claim').uid = Stored(claim).uid
                 /\ Stored(claim').applied \in {Stored(claim).applied, relWork.revision}
                 /\ Stored(claim').finalizer = Stored(claim).finalizer
           /\ releaseClaim =>
                 /\ UNCHANGED <<revs, ns, hr, harness>>
                 /\ \/ claim' = claim
                    \/ /\ relWork.nsGone /\ ~PatchRefused
                       /\ Stored(claim').phase = "absent" /\ Stored(claim').uid = Stored(claim).uid
                       /\ Stored(claim').applied = NoRevision
  <1>1. Stored(claim) \in Claim
    BY ApiEnds DEF Typed
  <1>2. ASSUME addFinalizer
        PROVE  /\ UNCHANGED <<revs, ns, hr, harness>>
               /\ Stored(claim').phase = Stored(claim).phase /\ Stored(claim').uid = Stored(claim).uid
               /\ Stored(claim').applied = Stored(claim).applied
               /\ Stored(claim).finalizer => Stored(claim').finalizer
    <2> DEFINE c == [Stored(claim) EXCEPT !.finalizer = TRUE]
    <2>1. c \in Claim
      BY ClaimWriteTyped
    <2>2. c.uid = Stored(claim).uid /\ c.phase = Stored(claim).phase /\ c.applied = Stored(claim).applied /\ c.finalizer
      BY <1>1 DEF Claim
    <2>3. UNCHANGED <<revs, ns, hr, harness>> /\ (claim' = claim \/ PutClaim(c))
      BY <1>2 DEF addFinalizer, instanceVars
    <2> HIDE DEF c
    <2> QED
      BY <2>1, <2>2, <2>3, PutClaimMeans
  <1>3. ASSUME reportRelease
        PROVE  /\ UNCHANGED <<revs, ns, hr, harness>>
               /\ Stored(claim').phase = Stored(claim).phase /\ Stored(claim').uid = Stored(claim).uid
               /\ Stored(claim').applied \in {Stored(claim).applied, relWork.revision}
               /\ Stored(claim').finalizer = Stored(claim).finalizer
    <2> DEFINE c == [Stored(claim) EXCEPT !.applied = relWork.revision, !.ready = Cached(hr).ready]
    <2>1. c \in Claim
      BY ClaimWriteTyped
    <2>2. /\ c.uid = Stored(claim).uid /\ c.phase = Stored(claim).phase
          /\ c.applied = relWork.revision /\ c.finalizer = Stored(claim).finalizer
      BY <1>1 DEF Claim
    <2>3. UNCHANGED <<revs, ns, hr, harness>> /\ (claim' = claim \/ PutClaim(c))
      BY <1>3 DEF reportRelease, instanceVars
    <2> HIDE DEF c
    <2> QED
      BY <2>1, <2>2, <2>3, PutClaimMeans
  <1>4. ASSUME releaseClaim
        PROVE  /\ UNCHANGED <<revs, ns, hr, harness>>
               /\ \/ claim' = claim
                  \/ /\ relWork.nsGone /\ ~PatchRefused
                     /\ Stored(claim').phase = "absent" /\ Stored(claim').uid = Stored(claim).uid
                     /\ Stored(claim').applied = NoRevision
    <2> DEFINE c == [NoClaim EXCEPT !.uid = Stored(claim).uid]
    <2>1. c \in Claim
      BY ClaimWriteTyped
    <2>2. c.uid = Stored(claim).uid /\ c.phase = "absent" /\ c.applied = NoRevision
      BY DEF NoClaim
    <2>3. /\ UNCHANGED <<revs, ns, hr, harness>>
          /\ claim' = claim \/ (relWork.nsGone /\ ~PatchRefused /\ PutClaim(c))
      BY <1>4 DEF releaseClaim, instanceVars
    <2> HIDE DEF c
    <2>4. CASE relWork.nsGone /\ ~PatchRefused /\ PutClaim(c)
      BY <2>1, <2>2, <2>3, <2>4, PutClaimMeans
    <2> QED
      BY <2>3, <2>4
  <1> QED
    BY <1>2, <1>3, <1>4

\* Deliveries and restarts.
LEMMA WatchEffect ==
    ASSUME Typed, Watches \/ Restart
    PROVE  /\ Stored(claim') = Stored(claim)
           /\ Stored(revs') = Stored(revs) /\ States(revs') \subseteq States(revs)
           /\ Stored(ns') = Stored(ns) /\ Stored(hr') = Stored(hr) /\ Stored(harness') = Stored(harness)
           /\ relWork' \in {relWork, RelIdle}
  <1>1. CASE Watches
    <2>1. /\ Stored(claim') = Stored(claim)
          /\ Stored(revs') = Stored(revs) /\ States(revs') \subseteq States(revs)
      BY <1>1, DeliverClaimWindow, DeliverRevisionWindow DEF Watches, Watched, DeliverClaim, DeliverRevision,
         DeliverNamespace, DeliverHelmRelease, DeliverHarness, Typed
    <2>2. Stored(ns') = Stored(ns) /\ Stored(hr') = Stored(hr) /\ Stored(harness') = Stored(harness)
      BY <1>1, DeliveredWindow DEF Watches, Watched, DeliverClaim, DeliverRevision,
         DeliverNamespace, DeliverHelmRelease, DeliverHarness, Typed, instanceVars
    <2>3. relWork' = relWork
      BY <1>1 DEF Watches, Watched
    <2> QED
      BY <2>1, <2>2, <2>3
  <1>2. CASE Restart
    <2>1. /\ Stored(claim') = Stored(claim)
          /\ Stored(revs') = Stored(revs) /\ States(revs') \subseteq States(revs)
      BY <1>2, ApiEnds, RelistWindows DEF Restart, Typed
    <2>2. Stored(ns') = Stored(ns) /\ Stored(hr') = Stored(hr) /\ Stored(harness') = Stored(harness)
      BY <1>2, InstanceEnds, SyncedWindow DEF Restart
    <2> QED
      BY <1>2, <2>1, <2>2 DEF Restart
  <1> QED
    BY <1>1, <1>2

LEMMA UserEffects ==
    ASSUME Typed
    PROVE  /\ CreateClaim =>
                 /\ UNCHANGED <<revs, ns, hr, harness, relWork>>
                 /\ Stored(claim).phase = "absent"
                 /\ Stored(claim').phase = "live" /\ Stored(claim').uid = Stored(claim).uid + 1
                 /\ Stored(claim').applied = NoRevision
           /\ DeleteClaim =>
                 /\ UNCHANGED <<revs, ns, hr, harness, relWork>>
                 /\ Stored(claim).phase = "live" /\ Stored(claim').uid = Stored(claim).uid
                 /\ \/ /\ Stored(claim').phase = "deleting"
                       /\ Stored(claim').applied = Stored(claim).applied
                       /\ Stored(claim').finalizer /\ Stored(claim).finalizer
                    \/ /\ Stored(claim').phase = "absent" /\ ~Stored(claim).finalizer
                       /\ Stored(claim').applied = NoRevision
           /\ DeleteNamespace =>
                 /\ UNCHANGED <<claim, revs, hr, harness, relWork>>
                 /\ Stored(ns).phase = "live" /\ Terminates
  <1>1. Stored(claim) \in Claim /\ Stored(ns) \in Namespace
    BY ApiEnds, InstanceEnds DEF Typed
  <1>2. ASSUME CreateClaim
        PROVE  /\ UNCHANGED <<revs, ns, hr, harness, relWork>>
               /\ Stored(claim).phase = "absent"
               /\ Stored(claim').phase = "live" /\ Stored(claim').uid = Stored(claim).uid + 1
               /\ Stored(claim').applied = NoRevision
    <2> DEFINE c == [NoClaim EXCEPT !.phase = "live", !.uid = Stored(claim).uid + 1, !.generation = 1]
    <2>1. c \in Claim
      BY ClaimWriteTyped
    <2>2. c.phase = "live" /\ c.uid = Stored(claim).uid + 1 /\ c.applied = NoRevision
      BY DEF NoClaim
    <2>3. PutClaim(c) /\ UNCHANGED <<revs, ns, hr, harness, relWork>> /\ Stored(claim).phase = "absent"
      BY <1>2 DEF CreateClaim, releaseVars
    <2> HIDE DEF c
    <2>4. Stored(claim').phase = c.phase /\ Stored(claim').uid = c.uid /\ Stored(claim').applied = c.applied
      BY <2>1, <2>3, PutClaimMeans
    <2> QED
      BY <2>2, <2>3, <2>4
  <1>3. ASSUME DeleteClaim
        PROVE  /\ UNCHANGED <<revs, ns, hr, harness, relWork>>
               /\ Stored(claim).phase = "live" /\ Stored(claim').uid = Stored(claim).uid
               /\ \/ /\ Stored(claim').phase = "deleting"
                     /\ Stored(claim').applied = Stored(claim).applied
                     /\ Stored(claim').finalizer /\ Stored(claim).finalizer
                  \/ /\ Stored(claim').phase = "absent" /\ ~Stored(claim).finalizer
                     /\ Stored(claim').applied = NoRevision
    <2> DEFINE c == [Stored(claim) EXCEPT !.phase = "deleting"]
               d == [NoClaim EXCEPT !.uid = Stored(claim).uid]
    <2>1. c \in Claim /\ d \in Claim
      BY ClaimWriteTyped
    <2>2. /\ c.phase = "deleting" /\ c.uid = Stored(claim).uid /\ c.applied = Stored(claim).applied
          /\ c.finalizer = Stored(claim).finalizer
      BY <1>1 DEF Claim
    <2>3. d.phase = "absent" /\ d.uid = Stored(claim).uid /\ d.applied = NoRevision
      BY DEF NoClaim
    <2>4. /\ (PutClaim(c) /\ Stored(claim).finalizer) \/ (PutClaim(d) /\ ~Stored(claim).finalizer)
          /\ UNCHANGED <<revs, ns, hr, harness, relWork>> /\ Stored(claim).phase = "live"
      BY <1>3 DEF DeleteClaim, releaseVars
    <2> HIDE DEF c, d
    <2>5. CASE PutClaim(c) /\ Stored(claim).finalizer
      BY <2>1, <2>2, <2>4, <2>5, PutClaimMeans
    <2>6. CASE PutClaim(d) /\ ~Stored(claim).finalizer
      BY <2>1, <2>3, <2>4, <2>6, PutClaimMeans
    <2> QED
      BY <2>4, <2>5, <2>6
  <1>4. ASSUME DeleteNamespace
        PROVE  /\ UNCHANGED <<claim, revs, hr, harness, relWork>>
               /\ Stored(ns).phase = "live" /\ Terminates
    <2>1. [Stored(ns) EXCEPT !.phase = "terminating"] \in Namespace
      BY <1>1 DEF Namespace
    <2>2. UNCHANGED <<claim, revs, hr, harness, relWork>> /\ Stored(ns).phase = "live"
      BY <1>4 DEF DeleteNamespace, apiVars
    <2>3. Stored(ns') = [Stored(ns) EXCEPT !.phase = "terminating"]
      BY <1>4, <2>1, PutObjects DEF DeleteNamespace
    <2> QED
      BY <1>1, <2>2, <2>3 DEF Namespace, Terminates
  <1> QED
    BY <1>2, <1>3, <1>4

LEMMA ApprovalEffects ==
    ASSUME Typed
    PROVE  /\ Approve =>
                 /\ UNCHANGED <<claim, ns, hr, harness, relWork>> /\ Stored(claim).phase = "live"
                 /\ States(revs') = States(revs) \cup {Stored(revs')}
                 /\ \E r \in Revision :
                       /\ r.uid = Stored(claim).uid
                       /\ DOMAIN Stored(revs') = DOMAIN Stored(revs) \cup {r}
                       /\ \/ Approved(Stored(revs')) = Approved(Stored(revs))
                          \/ Approved(Stored(revs')) = Approved(Stored(revs)) \cup {r}
           /\ GarbageCollect =>
                 /\ UNCHANGED <<claim, ns, hr, harness, relWork>>
                 /\ States(revs') = States(revs) \cup {Stored(revs')}
                 /\ \E r \in DOMAIN Stored(revs) :
                       /\ r.uid # Stored(claim).uid \/ Stored(claim).phase = "absent"
                       /\ DOMAIN Stored(revs') = DOMAIN Stored(revs) \ {r}
                       /\ Approved(Stored(revs')) = Approved(Stored(revs)) \ {r}
  <1>1. ASSUME Approve
        PROVE  /\ UNCHANGED <<claim, ns, hr, harness, relWork>> /\ Stored(claim).phase = "live"
               /\ States(revs') = States(revs) \cup {Stored(revs')}
               /\ \E r \in Revision :
                     /\ r.uid = Stored(claim).uid
                     /\ DOMAIN Stored(revs') = DOMAIN Stored(revs) \cup {r}
                     /\ \/ Approved(Stored(revs')) = Approved(Stored(revs))
                        \/ Approved(Stored(revs')) = Approved(Stored(revs)) \cup {r}
    <2>1. PICK v \in Values, p \in Platform, approved \in BOOLEAN :
             LET r == [uid |-> Stored(claim).uid, version |-> 1, digest |-> 2, values |-> v, platform |-> p]
             IN  /\ approved \/ r \notin DOMAIN Stored(revs)
                 /\ PutRevision(r, IF approved THEN [at |-> now, by |-> "user"] ELSE Unapproved)
      BY <1>1 DEF Approve
    <2> DEFINE r == [uid |-> Stored(claim).uid, version |-> 1, digest |-> 2, values |-> v, platform |-> p]
               a == IF approved THEN [at |-> now, by |-> "user"] ELSE Unapproved
    <2>2. a \in Approval /\ (approved => a.at > 0) /\ (~approved => a.at = 0)
      BY DEF Typed, ApiTyped, Approval, Unapproved
    <2>3. r \in Revision /\ r.uid = Stored(claim).uid
      BY UserRevisionType
    <2>4. PutRevision(r, a) /\ (approved \/ r \notin DOMAIN Stored(revs))
      BY <2>1
    <2>5. UNCHANGED <<claim, ns, hr, harness, relWork>> /\ Stored(claim).phase = "live"
      BY <1>1 DEF Approve, releaseVars
    <2> HIDE DEF r, a
    <2>6. /\ DOMAIN Stored(revs') = DOMAIN Stored(revs) \cup {r}
          /\ Stored(revs')[r] = a
          /\ \A q \in DOMAIN Stored(revs) \ {r} : Stored(revs')[q] = Stored(revs)[q]
          /\ States(revs') = States(revs) \cup {Stored(revs')}
      BY <2>2, <2>3, <2>4, PutRevisionWindow DEF Typed
    <2>7. CASE approved
      <3>1. Approved(Stored(revs')) = Approved(Stored(revs)) \cup {r}
        BY <2>2, <2>6, <2>7 DEF Approved
      <3> QED
        BY <2>3, <2>5, <2>6, <3>1
    <2>8. CASE ~approved
      <3>1. Approved(Stored(revs')) = Approved(Stored(revs))
        BY <2>2, <2>4, <2>6, <2>8 DEF Approved
      <3> QED
        BY <2>3, <2>5, <2>6, <3>1
    <2> QED
      BY <2>7, <2>8
  <1>2. ASSUME GarbageCollect
        PROVE  /\ UNCHANGED <<claim, ns, hr, harness, relWork>>
               /\ States(revs') = States(revs) \cup {Stored(revs')}
               /\ \E r \in DOMAIN Stored(revs) :
                     /\ r.uid # Stored(claim).uid \/ Stored(claim).phase = "absent"
                     /\ DOMAIN Stored(revs') = DOMAIN Stored(revs) \ {r}
                     /\ Approved(Stored(revs')) = Approved(Stored(revs)) \ {r}
    <2>1. PICK r \in DOMAIN Stored(revs) :
             /\ r.uid # Stored(claim).uid \/ Stored(claim).phase = "absent"
             /\ revs' = Written(revs, [q \in DOMAIN Stored(revs) \ {r} |-> Stored(revs)[q]])
      BY <1>2 DEF GarbageCollect
    <2>2. /\ DOMAIN Stored(revs') = DOMAIN Stored(revs) \ {r}
          /\ \A q \in DOMAIN Stored(revs') : Stored(revs')[q] = Stored(revs)[q]
          /\ States(revs') = States(revs) \cup {Stored(revs')}
      BY <2>1, DropRevisionWindow DEF Typed
    <2>3. Approved(Stored(revs')) = Approved(Stored(revs)) \ {r}
      BY <2>2 DEF Approved
    <2>4. UNCHANGED <<claim, ns, hr, harness, relWork>>
      BY <1>2 DEF GarbageCollect, releaseVars
    <2> QED
      BY <2>1, <2>2, <2>3, <2>4
  <1> QED
    BY <1>1, <1>2

LEMMA ClusterEffects ==
    ASSUME Typed
    PROVE  /\ Installed =>
                 /\ UNCHANGED <<claim, revs, ns, harness, relWork>>
                 /\ Stored(hr').phase = Stored(hr).phase /\ Stored(hr').revision = Stored(hr).revision
           /\ Uninstalled =>
                 /\ UNCHANGED <<claim, revs, ns, harness, relWork>>
                 /\ Stored(hr).phase = "deleting" /\ Stored(hr') = NoHelmRelease
           /\ Terminate =>
                 /\ UNCHANGED <<claim, revs, harness, relWork>>
                 /\ Stored(ns).phase = "terminating"
                 /\ \/ /\ ns' = ns /\ Stored(hr).phase = "live"
                       /\ \/ Stored(hr') = NoHelmRelease
                          \/ Stored(hr').phase = "deleting" /\ Stored(hr').revision = Stored(hr).revision
                    \/ hr' = hr /\ Stored(hr).phase = "absent" /\ Stored(ns') = NoNamespace
  <1>1. Stored(hr) \in HelmRelease
    BY InstanceEnds
  <1>2. ASSUME Installed
        PROVE  /\ UNCHANGED <<claim, revs, ns, harness, relWork>>
               /\ Stored(hr').phase = Stored(hr).phase /\ Stored(hr').revision = Stored(hr).revision
    <2>1. [Stored(hr) EXCEPT !.ready = TRUE] \in HelmRelease
      BY <1>1 DEF HelmRelease
    <2>2. UNCHANGED <<claim, revs, ns, harness, relWork>>
      BY <1>2 DEF Installed, apiVars
    <2> QED
      BY <1>1, <1>2, <2>1, <2>2, PutObjects DEF Installed, HelmRelease
  <1>3. ASSUME Uninstalled
        PROVE  /\ UNCHANGED <<claim, revs, ns, harness, relWork>>
               /\ Stored(hr).phase = "deleting" /\ Stored(hr') = NoHelmRelease
    BY <1>3, NothingType, PutObjects DEF Uninstalled, apiVars
  <1>4. ASSUME Terminate
        PROVE  /\ UNCHANGED <<claim, revs, harness, relWork>>
               /\ Stored(ns).phase = "terminating"
               /\ \/ /\ ns' = ns /\ Stored(hr).phase = "live"
                     /\ \/ Stored(hr') = NoHelmRelease
                        \/ Stored(hr').phase = "deleting" /\ Stored(hr').revision = Stored(hr).revision
                  \/ hr' = hr /\ Stored(hr).phase = "absent" /\ Stored(ns') = NoNamespace
    <2>1. UNCHANGED <<claim, revs, harness, relWork>> /\ Stored(ns).phase = "terminating"
      BY <1>4 DEF Terminate, apiVars
    <2>2. CASE ns' = ns /\ Stored(hr).phase = "live" /\ \E release \in Deleted(Stored(hr)) : hr' = Put(hr, release)
      BY <2>1, <2>2, DeletedEffect
    <2>3. CASE hr' = hr /\ Stored(hr).phase = "absent" /\ ns' = Put(ns, NoNamespace)
      BY <2>1, <2>3, NothingType, PutObjects
    <2> QED
      BY <1>4, <2>2, <2>3 DEF Terminate
  <1> QED
    BY <1>2, <1>3, <1>4

-----------------------------------------------------------------------------
(* The inductive invariant.                                                *)

Cleanup == {"uninstall", "delete ns", "delete harness", "release"}
Chosen == {"harness", "namespace", "helmrelease", "status"}
Ensure == {"list"} \cup Chosen

\* How a claim of one name develops: it lives, is deleted and goes, and only then
\* is there a next one.
Onward ==
    {e \in Claim \X Claim :
        \/ e[1].uid < e[2].uid
        \/ /\ e[1].uid = e[2].uid
           /\ e[1].phase = e[2].phase \/ e[1].phase = "live" \/ e[2].phase = "absent"}

\* All that the cache has yet to see is of the claim that is there now.
KnownAsIs ==
    \A s \in States(claim) : s.uid = Stored(claim).uid /\ s.phase # "absent"

\* The finalizer is only put onto a claim that the cache has shown: a cache that
\* is behind does not take a claim that has something for its predecessor.
HeldIsKnown ==
    Stored(claim).phase # "absent" /\ Stored(claim).finalizer => KnownAsIs

\* What a reconcile may suppose of the claim, since the worker is the only one that
\* lets a claim with the finalizer go:
\*  - one that creates things does so for the claim that is there, with finalizer;
\*  - one that cleans up does not touch what a later claim has.
WorkIsOfClaim ==
    LET c == Stored(claim)
    IN  /\ relWork.stage = "finalizer" /\ c.phase # "absent" /\ c.uid = relWork.uid => KnownAsIs
        /\ relWork.stage \in Ensure => c.phase # "absent" /\ c.uid = relWork.uid /\ c.finalizer
        /\ relWork.stage \in Cleanup /\ c.phase # "absent" =>
              /\ c.uid = relWork.uid => c.phase = "deleting"
              /\ c.finalizer => c.uid = relWork.uid

\* A reconcile never knows of a claim that is yet to come.
WorkIsNotAhead == relWork.uid <= Stored(claim).uid

ClaimSide == Forward(claim, Onward) /\ HeldIsKnown /\ WorkIsOfClaim /\ WorkIsNotAhead

\* What a cleanup has found or made gone stays so until it is done.
CleanupInOrder ==
    /\ relWork.stage \in {"delete ns", "delete harness", "release"} => Stored(hr).phase = "absent"
    /\ relWork.stage \in {"delete harness", "release"} /\ relWork.nsGone => Stored(ns).phase = "absent"
    /\ relWork.stage = "release" => Stored(harness).phase = "absent"

InstanceSide == NoOrphans /\ CleanupInOrder

\* The revision to be deployed is an approved one of the claim.
ChosenIsApproved ==
    relWork.stage \in Chosen =>
        relWork.revision.uid = relWork.uid /\ relWork.revision \in Approved(Stored(revs))

\* No revision is of a claim yet to come, ...
RevisionsNotAhead ==
    \A s \in States(revs) : \A r \in DOMAIN s : r.uid <= Stored(claim).uid

\* ... and one of the present claim that the cache shows as approved still is.
ApprovalsLast ==
    Stored(claim).phase # "absent" =>
        \A s \in States(revs) : \A r \in Approved(s) :
            r.uid = Stored(claim).uid => r \in Approved(Stored(revs))

RevisionSide == ChosenIsApproved /\ RevisionsNotAhead /\ ApprovalsLast /\ DeploysApproved

IInv == Typed /\ ClaimSide /\ InstanceSide /\ RevisionSide

-----------------------------------------------------------------------------
(* The claim.                                                              *)

LEMMA OnwardMeans ==
    ASSUME NEW a \in Claim, NEW b \in Claim, <<a, b>> \in Onward
    PROVE  /\ a.uid <= b.uid
           /\ a.uid = b.uid => a.phase = b.phase \/ a.phase = "live" \/ b.phase = "absent"
  BY DEF Onward, Claim

LEMMA OnwardTransitive ==
    ASSUME NEW a \in Claim, NEW b \in Claim, NEW c \in Claim,
           <<a, b>> \in Onward, <<b, c>> \in Onward
    PROVE  <<a, c>> \in Onward
  BY DEF Onward, Claim

\* A write that takes the claim onward.
LEMMA ClaimMovesOn ==
    ASSUME Typed, Forward(claim, Onward), NEW c \in Claim, PutClaim(c), <<Stored(claim), c>> \in Onward
    PROVE  Forward(claim', Onward)
  <1> DEFINE d == [c EXCEPT !.rv = rv + 1]
  <1>1. claim \in Seq(Claim) /\ claim # <<>> /\ ApiTyped
    BY DEF Typed, ApiTyped
  <1>2. d \in Claim /\ claim' = Written(claim, d)
    BY PutClaimWindow DEF Typed, PutClaim
  <1>3. d.uid = c.uid /\ d.phase = c.phase
    BY DEF Claim
  <1>4. <<d, d>> \in Onward /\ <<Stored(claim), d>> \in Onward
    BY <1>2, <1>3 DEF Onward
  <1> HIDE DEF d
  <1>5. ASSUME NEW t \in States(claim) PROVE <<t, d>> \in Onward
    <2>1. t \in Claim /\ Stored(claim) \in Claim
      BY <1>1, ApiEnds
    <2>2. <<t, Stored(claim)>> \in Onward
      BY <1>1, ForwardEnds
    <2> QED
      BY <1>2, <1>4, <2>1, <2>2, OnwardTransitive
  <1> QED
    BY <1>1, <1>2, <1>4, <1>5, WrittenForward

\* Steps that do not touch the claim and leave the worker idle, where it is, or on
\* its way.
LEMMA ClaimStays ==
    ASSUME Typed, ClaimSide, UNCHANGED claim,
           \/ relWork' = RelIdle
           \/ /\ relWork'.uid = relWork.uid
              /\ \/ relWork'.stage = relWork.stage
                 \/ relWork.stage \in Cleanup /\ relWork'.stage \in Cleanup
                 \/ relWork.stage \in Ensure /\ relWork'.stage \in Ensure
    PROVE  ClaimSide'
  <1>1. Stored(claim).uid \in Nat
    BY ApiEnds DEF Typed, Claim
  <1>2. WorkIsNotAhead'
    BY <1>1 DEF ClaimSide, WorkIsNotAhead, RelIdle
  <1>3. WorkIsOfClaim /\ HeldIsKnown /\ Forward(claim, Onward)
    BY DEF ClaimSide
  <1>4. KnownAsIs' <=> KnownAsIs
    BY DEF KnownAsIs
  <1>5. HeldIsKnown' /\ Forward(claim', Onward)
    BY <1>3, <1>4 DEF HeldIsKnown
  <1>6. WorkIsOfClaim'
    <2>1. relWork'.stage # "idle" => relWork'.uid = relWork.uid
      BY DEF RelIdle
    <2>2. relWork'.stage = "finalizer" => relWork.stage = "finalizer"
      BY DEF RelIdle, Cleanup, Ensure, Chosen
    <2>3. /\ "idle" \notin Ensure /\ "idle" \notin Cleanup
          /\ \A stage \in Ensure : stage \notin Cleanup
      BY DEF Cleanup, Ensure, Chosen
    <2>4. /\ relWork'.stage \in Ensure => relWork.stage \in Ensure
          /\ relWork'.stage \in Cleanup => relWork.stage \in Cleanup
      BY <2>3 DEF RelIdle
    <2> QED
      BY <1>3, <1>4, <2>1, <2>2, <2>3, <2>4, Zenon DEF WorkIsOfClaim
  <1> QED
    BY <1>2, <1>5, <1>6 DEF ClaimSide

LEMMA ClaimGet ==
    ASSUME IInv, RelGet
    PROVE  ClaimSide'
  <1>1. UNCHANGED claim
    BY DEF RelGet, apiVars
  <1>2. Cached(claim) \in Claim /\ Stored(claim) \in Claim /\ Stored(claim) \in States(claim)
    BY ApiEnds DEF IInv, Typed
  <1>3. ASSUME NEW t \in States(claim)
        PROVE  /\ Cached(claim).uid <= t.uid /\ t.uid <= Stored(claim).uid
               /\ t.uid \in Nat
               /\ Cached(claim).uid = t.uid =>
                     Cached(claim).phase = t.phase \/ Cached(claim).phase = "live" \/ t.phase = "absent"
               /\ t.uid = Stored(claim).uid =>
                     t.phase = Stored(claim).phase \/ t.phase = "live" \/ Stored(claim).phase = "absent"
    <2>1. t \in Claim /\ t.uid \in Nat
      BY ApiEnds DEF IInv, Typed, Claim
    <2>2. <<Cached(claim), t>> \in Onward /\ <<t, Stored(claim)>> \in Onward
      BY ForwardEnds DEF IInv, Typed, ApiTyped, ClaimSide
    <2> QED
      BY <1>2, <2>1, <2>2, OnwardMeans
  <1>4. CASE Cached(claim).phase = "absent"
    BY <1>1, <1>4, ClaimStays DEF RelGet, IInv
  <1>5. CASE Cached(claim).phase = "live"
    <2>1. relWork'.stage = "finalizer" /\ relWork'.uid = Cached(claim).uid
      BY <1>5 DEF RelGet, RelIdle
    <2>2. ASSUME Stored(claim).phase # "absent", Stored(claim).uid = Cached(claim).uid
          PROVE  KnownAsIs
      <3>1. Stored(claim).uid \in Nat
        BY <1>2 DEF Claim
      <3> QED
        BY <1>3, <2>2, <3>1 DEF KnownAsIs
    <2>3. WorkIsNotAhead'
      BY <1>1, <1>2, <1>3, <2>1 DEF WorkIsNotAhead
    <2> QED
      BY <1>1, <2>1, <2>2, <2>3
         DEF IInv, ClaimSide, HeldIsKnown, WorkIsOfClaim, KnownAsIs, Ensure, Chosen, Cleanup
  <1>6. CASE Cached(claim).phase = "deleting"
    <2>1. relWork'.stage = "uninstall" /\ relWork'.uid = Cached(claim).uid
      BY <1>6 DEF RelGet, RelIdle
    <2>2. ASSUME Stored(claim).phase # "absent", Stored(claim).uid = Cached(claim).uid
          PROVE  Stored(claim).phase = "deleting"
      BY <1>2, <1>3, <1>6, <2>2
    <2>3. ASSUME Stored(claim).phase # "absent", Stored(claim).finalizer
          PROVE  Stored(claim).uid = Cached(claim).uid
      BY <2>3, ApiEnds DEF IInv, Typed, ClaimSide, HeldIsKnown, KnownAsIs
    <2>4. WorkIsNotAhead'
      BY <1>1, <1>2, <1>3, <2>1 DEF WorkIsNotAhead
    <2> QED
      BY <1>1, <2>1, <2>2, <2>3, <2>4
         DEF IInv, ClaimSide, HeldIsKnown, WorkIsOfClaim, KnownAsIs, Ensure, Chosen, Cleanup
  <1> QED
    BY <1>2, <1>4, <1>5, <1>6 DEF Claim

\* Writes that keep the uid, and neither revive the claim nor let it go.
LEMMA ClaimKeepsIdentity ==
    ASSUME IInv, NEW c \in Claim, PutClaim(c),
           c.uid = Stored(claim).uid,
           Stored(claim).phase # "absent", c.phase # "absent",
           Stored(claim).phase = "deleting" => c.phase = "deleting",
           Stored(claim).finalizer => c.finalizer,
           c.finalizer => Stored(claim).finalizer \/ KnownAsIs,
           \/ relWork' = RelIdle
           \/ relWork' = relWork /\ (Stored(claim).finalizer <=> c.finalizer)
           \/ relWork'.stage = "list" /\ c.finalizer /\ c.uid = relWork'.uid /\ relWork'.uid = relWork.uid
    PROVE  ClaimSide'
  <1>1. /\ Stored(claim') = [c EXCEPT !.rv = rv + 1]
        /\ States(claim') = States(claim) \cup {Stored(claim')}
    BY PutClaimWindow DEF IInv, Typed
  <1>2. Stored(claim) \in Claim
    BY ApiEnds DEF IInv, Typed
  <1>3. Stored(claim').uid = c.uid /\ Stored(claim').phase = c.phase /\ Stored(claim').finalizer = c.finalizer
    BY <1>1 DEF Claim
  <1>4. <<Stored(claim), c>> \in Onward
    BY <1>2 DEF Onward, Claim
  <1>5. Forward(claim', Onward)
    BY <1>4, ClaimMovesOn DEF IInv, ClaimSide
  <1>6. KnownAsIs => KnownAsIs'
    BY <1>1, <1>3 DEF KnownAsIs
  <1>7. HeldIsKnown'
    BY <1>3, <1>6 DEF IInv, ClaimSide, HeldIsKnown
  <1>8. WorkIsOfClaim'
    <2>1. WorkIsOfClaim
      BY DEF IInv, ClaimSide
    <2>2. CASE relWork'.stage = "idle"
      BY <2>2 DEF WorkIsOfClaim, Ensure, Chosen, Cleanup
    <2>3. CASE relWork' = relWork /\ (Stored(claim).finalizer <=> c.finalizer)
      BY <1>3, <1>6, <2>1, <2>3, Zenon DEF WorkIsOfClaim
    <2>4. CASE relWork'.stage = "list" /\ c.finalizer /\ c.uid = relWork'.uid
      BY <1>3, <2>4 DEF WorkIsOfClaim, Ensure, Chosen, Cleanup
    <2> QED
      BY <2>2, <2>3, <2>4 DEF RelIdle
  <1>9. WorkIsNotAhead'
    <2>1. c.uid \in Nat
      BY DEF Claim
    <2> QED
      BY <1>3, <2>1 DEF IInv, ClaimSide, WorkIsNotAhead, RelIdle
  <1> QED
    BY <1>5, <1>7, <1>8, <1>9 DEF ClaimSide

\* A claim goes, or the next one comes, when no reconcile works for it.
LEMMA ClaimChanges ==
    ASSUME IInv, NEW c \in Claim, PutClaim(c),
           \/ c.phase = "absent" /\ c.uid = Stored(claim).uid
           \/ c.phase = "live" /\ c.uid = Stored(claim).uid + 1 /\ ~c.finalizer,
           \/ relWork' = RelIdle
           \/ relWork' = relWork /\ relWork.stage \notin Ensure
    PROVE  ClaimSide'
  <1>1. /\ Stored(claim') = [c EXCEPT !.rv = rv + 1]
        /\ States(claim') = States(claim) \cup {Stored(claim')}
    BY PutClaimWindow DEF IInv, Typed
  <1>2. Stored(claim) \in Claim
    BY ApiEnds DEF IInv, Typed
  <1>3. Stored(claim').uid = c.uid /\ Stored(claim').phase = c.phase /\ Stored(claim').finalizer = c.finalizer
    BY <1>1 DEF Claim
  <1>4. <<Stored(claim), c>> \in Onward
    BY <1>2 DEF Onward, Claim
  <1>5. Forward(claim', Onward)
    BY <1>4, ClaimMovesOn DEF IInv, ClaimSide
  <1>6. relWork.uid \in Nat /\ Stored(claim).uid \in Nat
    BY <1>2, TypedWork DEF IInv, Claim
  <1>7. HeldIsKnown'
    BY <1>3 DEF HeldIsKnown
  <1>8. relWork.uid <= Stored(claim).uid
    BY DEF IInv, ClaimSide, WorkIsNotAhead
  <1>9. relWork'.uid <= c.uid /\ (relWork' = RelIdle \/ c.phase = "absent" \/ relWork'.uid # c.uid)
    BY <1>6, <1>8 DEF RelIdle
  <1>10. relWork'.stage \notin Ensure
    BY DEF RelIdle, Ensure, Chosen
  <1>11. WorkIsNotAhead'
    BY <1>3, <1>9 DEF WorkIsNotAhead
  <1>12. ASSUME c.phase = "absent" PROVE WorkIsOfClaim'
    BY <1>3, <1>10, <1>12 DEF WorkIsOfClaim
  <1>13. ASSUME relWork' = RelIdle PROVE WorkIsOfClaim'
    BY <1>3, <1>10, <1>13 DEF WorkIsOfClaim, RelIdle, Cleanup
  <1>14. ASSUME c.phase = "live", ~c.finalizer, relWork'.uid # c.uid PROVE WorkIsOfClaim'
    BY <1>3, <1>10, <1>14 DEF WorkIsOfClaim
  <1> QED
    BY <1>5, <1>7, <1>9, <1>11, <1>12, <1>13, <1>14 DEF ClaimSide

\* The worker's steps.
LEMMA ClaimWork ==
    ASSUME IInv, RelProgress \/ RelFails
    PROVE  ClaimSide'
  <1> USE DEF IInv
  <1>1. Stored(claim) \in Claim /\ Stored(claim).uid \in Nat
    BY ApiEnds DEF Typed, Claim
  <1>2. WorkIsOfClaim /\ ClaimSide
    BY DEF ClaimSide
  <1>3. CASE RelFails
    BY <1>3, ClaimStays DEF RelFails, Retry, apiVars
  <1>4. CASE cleanupRelease
    BY <1>4, ClaimStays DEF cleanupRelease, cleanupHelmRelease, cleanupNamespace, cleanupHarness, To,
       Done, apiVars, Cleanup, Typed, RelWork
  <1>5. CASE ensureRelease
    BY <1>5, ClaimStays DEF ensureRelease, ensureOperatorHarness, ensureNamespace, ensureHelmRelease, To,
       Retry, apiVars, Ensure, Chosen, Typed, RelWork
  <1>6. CASE pickRevision
    BY <1>6, ClaimStays DEF pickRevision, Done, Retry, apiVars, Ensure, Chosen, Typed, RelWork
  <1>7. CASE releaseClaim
    <2>1. relWork' = RelIdle
      BY <1>7 DEF releaseClaim, Done, Retry
    <2>2. CASE UNCHANGED claim
      BY <2>1, <2>2, ClaimStays
    <2>3. CASE PutClaim([NoClaim EXCEPT !.uid = Stored(claim).uid])
      <3> DEFINE c == [NoClaim EXCEPT !.uid = Stored(claim).uid]
      <3>1. c \in Claim
        BY ClaimWriteTyped
      <3>2. c.phase = "absent" /\ c.uid = Stored(claim).uid
        BY DEF NoClaim
      <3>3. PutClaim(c)
        BY <2>3
      <3> HIDE DEF c
      <3> QED
        BY <2>1, <3>1, <3>2, <3>3, ClaimChanges
    <2> QED
      BY <1>7, <2>2, <2>3 DEF releaseClaim
  <1>8. CASE addFinalizer
    <2>1. CASE PatchRefused
      BY <1>8, <2>1, ClaimStays DEF addFinalizer, Retry
    <2>2. CASE ~PatchRefused /\ Stored(claim).finalizer
      <3>1. UNCHANGED claim /\ relWork'.stage = "list" /\ relWork'.uid = relWork.uid
        BY <1>8, <2>2 DEF addFinalizer, To, Typed, RelWork
      <3>2. Stored(claim).phase # "absent" /\ Stored(claim).uid = relWork.uid
        BY <2>2 DEF PatchRefused
      <3>3. WorkIsOfClaim'
        BY <2>2, <3>1, <3>2 DEF WorkIsOfClaim, Cleanup
      <3>4. KnownAsIs' <=> KnownAsIs
        BY <3>1 DEF KnownAsIs
      <3>5. HeldIsKnown' /\ Forward(claim', Onward)
        BY <3>1, <3>4, Zenon DEF HeldIsKnown, ClaimSide
      <3>6. WorkIsNotAhead'
        BY <3>1 DEF WorkIsNotAhead, ClaimSide
      <3> QED
        BY <3>3, <3>5, <3>6 DEF ClaimSide
    <2>3. CASE ~PatchRefused /\ ~Stored(claim).finalizer
      <3> DEFINE c == [Stored(claim) EXCEPT !.finalizer = TRUE]
      <3>1. c \in Claim
        BY ClaimWriteTyped
      <3>2. c.uid = Stored(claim).uid /\ c.phase = Stored(claim).phase /\ c.finalizer
        BY <1>1 DEF Claim
      <3>3. PutClaim(c) /\ relWork'.stage = "list" /\ relWork'.uid = relWork.uid
        BY <1>8, <2>3 DEF addFinalizer, To, Typed, RelWork
      <3>4. Stored(claim).phase # "absent" /\ Stored(claim).uid = relWork.uid
        BY <2>3 DEF PatchRefused
      <3>5. KnownAsIs
        BY <1>2, <1>8, <3>4 DEF WorkIsOfClaim, addFinalizer
      <3> HIDE DEF c
      <3> QED
        BY <2>3, <3>1, <3>2, <3>3, <3>4, <3>5, ClaimKeepsIdentity
    <2> QED
      BY <2>1, <2>2, <2>3
  <1>9. CASE reportRelease
    <2>1. relWork' = RelIdle
      BY <1>9 DEF reportRelease, Done, Retry
    <2>2. CASE UNCHANGED claim
      BY <2>1, <2>2, ClaimStays
    <2> DEFINE c == [Stored(claim) EXCEPT !.applied = relWork.revision, !.ready = Cached(hr).ready]
    <2>3. CASE PutClaim(c) /\ Stored(claim).phase # "absent"
      <3>1. c \in Claim
        BY ClaimWriteTyped
      <3>2. c.uid = Stored(claim).uid /\ c.phase = Stored(claim).phase /\ c.finalizer = Stored(claim).finalizer
        BY <1>1 DEF Claim
      <3> HIDE DEF c
      <3> QED
        BY <2>1, <2>3, <3>1, <3>2, ClaimKeepsIdentity
    <2> QED
      BY <1>9, <2>2, <2>3 DEF reportRelease
  <1> QED
    BY <1>3, <1>4, <1>5, <1>6, <1>7, <1>8, <1>9, ClaimGet DEF RelProgress

\* Everybody else's steps.
LEMMA ClaimOthers ==
    ASSUME IInv, Watches \/ Restart \/ Users \/ Cluster
    PROVE  ClaimSide'
  <1> USE DEF IInv
  <1>1. Stored(claim) \in Claim /\ Stored(claim).uid \in Nat
    BY ApiEnds DEF Typed, Claim
  <1>2. /\ WorkIsOfClaim /\ HeldIsKnown /\ Forward(claim, Onward) /\ WorkIsNotAhead
        /\ ClaimSide /\ Typed
    BY DEF ClaimSide
  <1>3. CASE Watched(DeliverClaim)
    <2>1. /\ Lagging(claim) /\ claim' = Delivered(claim) /\ relWork' = relWork
          /\ claim \in Seq(Claim) /\ ApiTyped
      BY <1>3 DEF Watched, DeliverClaim, Typed, ApiTyped
    <2>2. Stored(claim') = Stored(claim) /\ States(claim') \subseteq States(claim)
      BY <2>1, DeliverClaimWindow
    <2>3. Forward(claim', Onward)
      BY <1>2, <2>1, DeliveredForward
    <2>5. HeldIsKnown' /\ WorkIsOfClaim'
      <3>1. HeldIsKnown /\ WorkIsOfClaim /\ relWork' = relWork
        BY <1>2, <2>1
      <3> QED
        BY <2>2, <3>1 DEF HeldIsKnown, WorkIsOfClaim, KnownAsIs
    <2>6. WorkIsNotAhead'
      BY <1>2, <2>1, <2>2 DEF WorkIsNotAhead
    <2> QED
      BY <2>3, <2>5, <2>6 DEF ClaimSide
  <1>4. CASE Restart
    <2>1. Stored(claim') = Stored(claim) /\ States(claim') = {Stored(claim)}
      BY <1>4, RelistWindows DEF Restart, Typed
    <2>2. <<Stored(claim), Stored(claim)>> \in Onward
      BY <1>1 DEF Onward
    <2>3. Forward(claim', Onward)
      BY <1>4, <2>2, SyncedForward DEF Restart
    <2>4. relWork' = RelIdle
      BY <1>4 DEF Restart
    <2>5. HeldIsKnown' /\ WorkIsOfClaim'
      BY <2>1, <2>4 DEF HeldIsKnown, KnownAsIs, WorkIsOfClaim, RelIdle, Ensure, Chosen, Cleanup
    <2>6. WorkIsNotAhead'
      BY <1>1, <2>1, <2>4 DEF WorkIsNotAhead, RelIdle
    <2> QED
      BY <2>3, <2>5, <2>6 DEF ClaimSide
  <1>5. CASE CreateClaim
    <2> DEFINE c == [NoClaim EXCEPT !.phase = "live", !.uid = Stored(claim).uid + 1, !.generation = 1]
    <2>1. c \in Claim
      BY ClaimWriteTyped
    <2>2. c.phase = "live" /\ c.uid = Stored(claim).uid + 1 /\ ~c.finalizer
      BY DEF NoClaim
    <2>3. PutClaim(c) /\ relWork' = relWork
      BY <1>5 DEF CreateClaim, releaseVars
    <2>4. relWork.stage \notin Ensure
      BY <1>2, <1>5 DEF WorkIsOfClaim, CreateClaim
    <2> HIDE DEF c
    <2> QED
      BY <2>1, <2>2, <2>3, <2>4, ClaimChanges
  <1>6. CASE DeleteClaim /\ Stored(claim).finalizer
    <2> DEFINE c == [Stored(claim) EXCEPT !.phase = "deleting"]
    <2>1. c \in Claim
      BY ClaimWriteTyped
    <2>2. c.uid = Stored(claim).uid /\ c.phase = "deleting" /\ c.finalizer = Stored(claim).finalizer
      BY <1>1 DEF Claim
    <2>3. PutClaim(c) /\ relWork' = relWork /\ Stored(claim).phase = "live"
      BY <1>6 DEF DeleteClaim, releaseVars
    <2> HIDE DEF c
    <2> QED
      BY <2>1, <2>2, <2>3, ClaimKeepsIdentity
  <1>7. CASE DeleteClaim /\ ~Stored(claim).finalizer
    <2> DEFINE c == [NoClaim EXCEPT !.uid = Stored(claim).uid]
    <2>1. c \in Claim
      BY ClaimWriteTyped
    <2>2. c.phase = "absent" /\ c.uid = Stored(claim).uid
      BY DEF NoClaim
    <2>3. PutClaim(c) /\ relWork' = relWork
      BY <1>7 DEF DeleteClaim, releaseVars
    <2>4. relWork.stage \notin Ensure
      BY <1>2, <1>7 DEF WorkIsOfClaim
    <2> HIDE DEF c
    <2> QED
      BY <2>1, <2>2, <2>3, <2>4, ClaimChanges
  <1>8. CASE UNCHANGED <<claim, relWork>>
    BY <1>2, <1>8, ClaimStays
  <1>9. CASE DeleteNamespace \/ Approve \/ Cluster
    BY <1>8, <1>9 DEF DeleteNamespace, Approve, Cluster, Installed, Uninstalled, Terminate,
       GarbageCollect, apiVars, releaseVars
  <1>10. CASE Watches /\ ~Watched(DeliverClaim)
    BY <1>8, <1>10 DEF Watches, Watched, DeliverRevision, DeliverNamespace, DeliverHelmRelease, DeliverHarness
  <1> QED
    BY <1>3, <1>4, <1>5, <1>6, <1>7, <1>9, <1>10 DEF Watches, Users

-----------------------------------------------------------------------------
(* The namespace, the HelmRelease and the harness.                         *)

\* Steps that leave the three as they are, when a cleanup does not move on.
LEMMA InstancesStay ==
    ASSUME InstanceSide,
           Stored(ns') = Stored(ns), Stored(hr') = Stored(hr), Stored(harness') = Stored(harness),
           relWork' = relWork \/ relWork'.stage \notin Cleanup \/ relWork'.stage = "uninstall",
           \/ /\ Stored(claim').uid = Stored(claim).uid
              /\ Stored(claim).phase # "absent" => Stored(claim').phase # "absent"
              /\ Stored(claim).finalizer => Stored(claim').finalizer
           \/ Stored(claim).phase = "absent"
           \/ ~Stored(claim).finalizer
           \/ Stored(hr).phase = "absent" /\ Stored(ns).phase = "absent" /\ Stored(harness).phase = "absent"
    PROVE  InstanceSide'
  <1>1. NoOrphans'
    BY DEF InstanceSide, NoOrphans
  <1>2. CleanupInOrder'
    BY DEF InstanceSide, CleanupInOrder, Cleanup
  <1> QED
    BY <1>1, <1>2 DEF InstanceSide

\* The worker's steps.
LEMMA InstanceWork ==
    ASSUME IInv, RelProgress \/ RelFails
    PROVE  InstanceSide'
  <1>1. Typed /\ InstanceSide /\ NoOrphans /\ CleanupInOrder /\ WorkIsOfClaim /\ ChosenIsApproved
    BY DEF IInv, InstanceSide, ClaimSide, RevisionSide
  <1>2. CASE RelGet \/ RelFails \/ pickRevision
    <2>1. relWork'.stage \notin Cleanup \/ relWork'.stage = "uninstall"
      BY <1>1, <1>2, NextStage DEF Cleanup
    <2> QED
      BY <1>1, <1>2, <2>1, ReadingEffect, InstancesStay
  <1>3. CASE addFinalizer \/ reportRelease
    <2>1. relWork'.stage \notin Cleanup
      BY <1>1, <1>3, NextStage DEF Cleanup
    <2> QED
      BY <1>1, <1>3, <2>1, ClaimEffects, InstancesStay
  <1>4. CASE releaseClaim
    <2>1. relWork'.stage \notin Cleanup
      BY <1>1, <1>4, NextStage DEF Cleanup
    <2>2. /\ Stored(hr).phase = "absent" /\ Stored(harness).phase = "absent"
          /\ relWork.nsGone => Stored(ns).phase = "absent"
      BY <1>1, <1>4 DEF CleanupInOrder, releaseClaim
    <2> QED
      BY <1>1, <1>4, <2>1, <2>2, ClaimEffects, InstancesStay
  <1>5. CASE cleanupHelmRelease
    <2>1. UNCHANGED <<claim, ns, harness>>
      BY <1>1, <1>5, CleanupEffects
    <2>2. CASE Stored(hr).phase = "absent"
      <3>1. hr' = hr /\ relWork'.stage = "delete ns"
        BY <1>1, <1>5, <2>2, ToMeans DEF cleanupHelmRelease
      <3> QED
        BY <1>1, <2>1, <2>2, <3>1 DEF InstanceSide, NoOrphans, CleanupInOrder
    <2>3. CASE Stored(hr).phase # "absent"
      <3>1. Stored(hr').phase # "absent" => Stored(hr').revision = Stored(hr).revision
        BY <1>1, <1>5, CleanupEffects, NothingIsAbsent
      <3>2. relWork' = RelIdle /\ RelIdle.stage = "idle"
        BY <1>5, <2>3 DEF cleanupHelmRelease, Done, RelIdle
      <3> QED
        BY <1>1, <2>1, <2>3, <3>1, <3>2 DEF InstanceSide, NoOrphans, CleanupInOrder
    <2> QED
      BY <2>2, <2>3
  <1>6. CASE cleanupNamespace
    <2>1. UNCHANGED <<claim, hr, harness>>
      BY <1>1, <1>6, CleanupEffects
    <2>2. Stored(ns').uid = Stored(ns).uid /\ (Stored(ns').phase = "absent" <=> Stored(ns).phase = "absent")
      BY <1>1, <1>6, CleanupEffects DEF Terminates
    <2>3. relWork'.stage = "delete harness" /\ relWork'.nsGone = (Stored(ns).phase = "absent")
      BY <1>1, <1>6 DEF cleanupNamespace, Typed, RelWork
    <2>4. Stored(hr).phase = "absent"
      BY <1>1, <1>6 DEF CleanupInOrder, cleanupNamespace
    <2> QED
      BY <1>1, <2>1, <2>2, <2>3, <2>4 DEF InstanceSide, NoOrphans, CleanupInOrder
  <1>7. CASE cleanupHarness
    <2>1. UNCHANGED <<claim, hr, ns>> /\ Stored(harness').phase = "absent"
      BY <1>1, <1>7, CleanupEffects, NothingIsAbsent
    <2>2. relWork'.stage = "release" /\ relWork'.nsGone = relWork.nsGone
      BY <1>1, <1>7, ToMeans DEF cleanupHarness
    <2>3. Stored(hr).phase = "absent" /\ (relWork.nsGone => Stored(ns).phase = "absent")
      BY <1>1, <1>7 DEF CleanupInOrder, cleanupHarness
    <2> QED
      BY <1>1, <2>1, <2>2, <2>3 DEF InstanceSide, NoOrphans, CleanupInOrder
  <1>8. CASE ensureRelease
    <2>1. relWork.stage \in Chosen
      BY <1>8 DEF ensureRelease, ensureOperatorHarness, ensureNamespace, ensureHelmRelease, Chosen
    <2>2. /\ relWork.uid = Stored(claim).uid /\ relWork.revision.uid = relWork.uid
          /\ Stored(claim).phase # "absent" /\ Stored(claim).finalizer
      BY <1>1, <2>1 DEF WorkIsOfClaim, ChosenIsApproved, Ensure
    <2>3. relWork'.stage \notin Cleanup
      BY <1>1, <1>8, NextStage DEF ensureRelease, Cleanup
    <2>4. UNCHANGED claim
      BY <1>1, <1>8, EnsureEffects DEF ensureRelease
    <2>5. /\ ns' = ns \/ Stored(ns').uid = relWork.uid
          /\ hr' = hr \/ Stored(hr').revision = relWork.revision
          /\ harness' = harness \/ Stored(harness').uid = relWork.uid
      BY <1>1, <1>8, EnsureEffects, ManagesAssumption DEF ensureRelease
    <2>6. NoOrphans'
      BY <1>1, <2>2, <2>4, <2>5 DEF NoOrphans
    <2>7. CleanupInOrder'
      BY <2>3 DEF CleanupInOrder, Cleanup
    <2> QED
      BY <2>6, <2>7 DEF InstanceSide
  <1> QED
    BY <1>2, <1>3, <1>4, <1>5, <1>6, <1>7, <1>8 DEF RelProgress, cleanupRelease

\* Everybody else's steps.
LEMMA InstanceOthers ==
    ASSUME IInv, Watches \/ Restart \/ Users \/ Cluster
    PROVE  InstanceSide'
  <1>1. Typed /\ InstanceSide /\ NoOrphans /\ CleanupInOrder
    BY DEF IInv, InstanceSide
  <1>2. CASE Watches \/ Restart
    <2>1. RelIdle.stage \notin Cleanup
      BY DEF RelIdle, Cleanup
    <2> QED
      BY <1>1, <1>2, <2>1, WatchEffect, InstancesStay
  <1>3. CASE CreateClaim \/ DeleteClaim
    BY <1>1, <1>3, UserEffects, InstancesStay
  <1>4. CASE DeleteNamespace
    <2>1. /\ UNCHANGED <<claim, hr, harness, relWork>>
          /\ Stored(ns).phase = "live" /\ Stored(ns').uid = Stored(ns).uid
      BY <1>1, <1>4, UserEffects DEF Terminates
    <2> QED
      BY <1>1, <2>1 DEF InstanceSide, NoOrphans, CleanupInOrder
  <1>5. CASE Approve \/ GarbageCollect
    BY <1>1, <1>5, ApprovalEffects, InstancesStay
  <1>6. CASE Installed \/ Uninstalled
    <2>1. /\ UNCHANGED <<claim, ns, harness, relWork>>
          /\ Stored(hr').phase # "absent" =>
                Stored(hr).phase # "absent" /\ Stored(hr').revision = Stored(hr).revision
      BY <1>1, <1>6, ClusterEffects, NothingIsAbsent
    <2> QED
      BY <1>1, <2>1 DEF InstanceSide, NoOrphans, CleanupInOrder
  <1>7. CASE Terminate
    <2>1. /\ UNCHANGED <<claim, harness, relWork>>
          /\ ns' = ns \/ Stored(ns').phase = "absent"
          /\ Stored(hr').phase # "absent" =>
                Stored(hr).phase # "absent" /\ Stored(hr').revision = Stored(hr).revision
      BY <1>1, <1>7, ClusterEffects, NothingIsAbsent
    <2> QED
      BY <1>1, <2>1 DEF InstanceSide, NoOrphans, CleanupInOrder
  <1> QED
    BY <1>2, <1>3, <1>4, <1>5, <1>6, <1>7 DEF Users, Cluster

-----------------------------------------------------------------------------
(* The revisions.                                                          *)

LEMMA DeploysApprovedMeans ==
    DeploysApproved <=>
        /\ Stored(hr).phase # "absent" => Stored(hr).revision \in Approved(Stored(revs))
        /\ Stored(claim).phase # "absent" /\ Stored(claim).applied # NoRevision =>
              Stored(claim).applied.uid = Stored(claim).uid
  BY DEF DeploysApproved, Approved

\* Steps that leave the revisions as they are.
LEMMA RevisionsStay ==
    ASSUME RevisionSide,
           Stored(revs') = Stored(revs), States(revs') \subseteq States(revs),
           Stored(claim').uid = Stored(claim).uid,
           Stored(claim').phase # "absent" => Stored(claim).phase # "absent",
           Stored(claim').phase # "absent" => Stored(claim').applied \in {Stored(claim).applied, NoRevision},
           Stored(hr').phase # "absent" => Stored(hr).phase # "absent" /\ Stored(hr').revision = Stored(hr).revision,
           relWork'.stage \in Chosen =>
               relWork.stage \in Chosen /\ relWork'.uid = relWork.uid /\ relWork'.revision = relWork.revision
    PROVE  RevisionSide'
  <1>1. ChosenIsApproved'
    BY DEF RevisionSide, ChosenIsApproved
  <1>2. RevisionsNotAhead'
    BY DEF RevisionSide, RevisionsNotAhead
  <1>3. ApprovalsLast'
    BY DEF RevisionSide, ApprovalsLast
  <1>4. DeploysApproved'
    BY DeploysApprovedMeans DEF RevisionSide, DeploysApproved
  <1> QED
    BY <1>1, <1>2, <1>3, <1>4 DEF RevisionSide

\* The newest approved revision that the cache shows is an approved one.
LEMMA PickedIsApproved ==
    ASSUME IInv, relWork.stage = "list",
           NEW r \in NewestFirst(relWork.uid, Cached(revs)), Cached(revs)[r].at # 0
    PROVE  r.uid = relWork.uid /\ r \in Approved(Stored(revs))
  <1>1. Cached(revs) \in Approvals /\ Cached(revs) \in States(revs)
    BY ApiEnds DEF IInv, Typed
  <1>2. r \in DOMAIN Cached(revs) /\ r.uid = relWork.uid
    BY NewestIsOwned
  <1>3. Cached(revs)[r].at \in Nat
    BY <1>1, <1>2, ApprovalsType DEF Approval
  <1>4. r \in Approved(Cached(revs))
    BY <1>2, <1>3 DEF Approved
  <1>5. Stored(claim).phase # "absent" /\ Stored(claim).uid = relWork.uid
    BY DEF IInv, ClaimSide, WorkIsOfClaim, Ensure
  <1> QED
    BY <1>1, <1>2, <1>4, <1>5 DEF IInv, RevisionSide, ApprovalsLast

\* The worker's steps.
LEMMA RevisionWork ==
    ASSUME IInv, RelProgress \/ RelFails
    PROVE  RevisionSide'
  <1>1. Typed /\ RevisionSide /\ ChosenIsApproved /\ WorkIsOfClaim
    BY DEF IInv, ClaimSide, RevisionSide
  <1>2. CASE RelGet \/ RelFails
    <2>1. relWork'.stage \notin Chosen
      BY <1>1, <1>2, NextStage DEF Chosen
    <2> QED
      BY <1>1, <1>2, <2>1, ReadingEffect, RevisionsStay
  <1>3. CASE cleanupRelease
    <2>1. relWork'.stage \notin Chosen
      <3>1. relWork'.stage \in {"idle", "delete ns", "delete harness", "release"}
        BY <1>1, <1>3, NextStage DEF cleanupRelease, cleanupNamespace, cleanupHarness, To, Typed, RelWork
      <3> QED
        BY <3>1 DEF Chosen
    <2>2. /\ UNCHANGED <<claim, revs>>
          /\ Stored(hr').phase # "absent" =>
                Stored(hr).phase # "absent" /\ Stored(hr').revision = Stored(hr).revision
      BY <1>1, <1>3, CleanupEffects, NothingIsAbsent DEF cleanupRelease
    <2> QED
      BY <1>1, <2>1, <2>2, RevisionsStay
  <1>4. CASE releaseClaim \/ addFinalizer
    <2>1. relWork'.stage \notin Chosen
      BY <1>1, <1>4, NextStage DEF Chosen
    <2> QED
      BY <1>1, <1>4, <2>1, ClaimEffects, RevisionsStay
  <1>5. CASE pickRevision
    <2>1. UNCHANGED <<claim, revs, hr>>
      BY <1>5, ReadingEffect
    <2>2. CASE relWork' = RelIdle
      <3>1. relWork'.stage \notin Chosen
        BY <2>2 DEF RelIdle, Chosen
      <3> QED
        BY <1>1, <2>1, <3>1, RevisionsStay
    <2>3. CASE \E r \in NewestFirst(relWork.uid, Cached(revs)) :
                  /\ Cached(revs)[r].at # 0
                  /\ relWork' = [relWork EXCEPT !.stage = "harness", !.revision = r]
      <3>1. PICK r \in NewestFirst(relWork.uid, Cached(revs)) :
                  /\ Cached(revs)[r].at # 0
                  /\ relWork' = [relWork EXCEPT !.stage = "harness", !.revision = r]
        BY <2>3
      <3>2. r.uid = relWork.uid /\ r \in Approved(Stored(revs))
        BY <1>5, <3>1, PickedIsApproved DEF pickRevision
      <3>3. relWork'.uid = relWork.uid /\ relWork'.revision = r
        BY <1>1, <3>1 DEF Typed, RelWork
      <3>4. ChosenIsApproved'
        BY <2>1, <3>2, <3>3 DEF ChosenIsApproved
      <3>5. RevisionsNotAhead' /\ ApprovalsLast' /\ DeploysApproved'
        BY <1>1, <2>1 DEF RevisionSide, RevisionsNotAhead, ApprovalsLast, DeploysApproved
      <3> QED
        BY <3>4, <3>5 DEF RevisionSide
    <2> QED
      BY <1>5, <2>2, <2>3 DEF pickRevision, Done, Retry
  <1>6. CASE ensureOperatorHarness \/ ensureNamespace
    <2>1. UNCHANGED <<claim, revs, hr>> /\ relWork.stage \in Chosen
      BY <1>1, <1>6, EnsureEffects DEF ensureOperatorHarness, ensureNamespace, Chosen
    <2>2. relWork'.uid = relWork.uid /\ relWork'.revision = relWork.revision
      BY <1>1, <1>6, ToMeans DEF ensureOperatorHarness, ensureNamespace
    <2> QED
      BY <1>1, <2>1, <2>2, RevisionsStay
  <1>7. CASE ensureHelmRelease
    <2>1. UNCHANGED <<claim, revs>> /\ relWork.stage \in Chosen /\ (relWork' = RelIdle \/ To("status"))
      BY <1>1, <1>7, EnsureEffects DEF ensureHelmRelease, Retry, Chosen
    <2>2. relWork'.stage \in Chosen => relWork'.uid = relWork.uid /\ relWork'.revision = relWork.revision
      BY <1>1, <2>1, ToMeans DEF RelIdle, Chosen
    <2>3. relWork.revision.uid = relWork.uid /\ relWork.revision \in Approved(Stored(revs))
      BY <1>1, <2>1 DEF ChosenIsApproved
    <2>4. hr' = hr \/ Stored(hr').revision = relWork.revision
      BY <1>1, <1>7, EnsureEffects
    <2>5. ChosenIsApproved'
      BY <2>1, <2>2, <2>3 DEF ChosenIsApproved
    <2>6. RevisionsNotAhead' /\ ApprovalsLast'
      BY <1>1, <2>1 DEF RevisionSide, RevisionsNotAhead, ApprovalsLast
    <2>7. DeploysApproved'
      BY <1>1, <2>1, <2>3, <2>4 DEF RevisionSide, DeploysApproved, Approved
    <2> QED
      BY <2>5, <2>6, <2>7 DEF RevisionSide
  <1>8. CASE reportRelease
    <2>1. /\ UNCHANGED <<revs, hr>>
          /\ Stored(claim').uid = Stored(claim).uid /\ Stored(claim').phase = Stored(claim).phase
          /\ Stored(claim').applied \in {Stored(claim).applied, relWork.revision}
      BY <1>1, <1>8, ClaimEffects
    <2>2. relWork.revision.uid = Stored(claim).uid
      BY <1>1, <1>8 DEF ChosenIsApproved, WorkIsOfClaim, Ensure, Chosen, reportRelease
    <2>3. DeploysApproved'
      BY <1>1, <2>1, <2>2 DEF RevisionSide, DeploysApproved
    <2>4. RevisionsNotAhead' /\ ApprovalsLast'
      BY <1>1, <2>1 DEF RevisionSide, RevisionsNotAhead, ApprovalsLast
    <2>5. ChosenIsApproved'
      BY <1>1, <1>8, NextStage DEF ChosenIsApproved, Chosen
    <2> QED
      BY <2>3, <2>4, <2>5 DEF RevisionSide
  <1> QED
    BY <1>2, <1>3, <1>4, <1>5, <1>6, <1>7, <1>8 DEF RelProgress, ensureRelease

\* A next claim comes: nothing is deployed, and the revisions there are are others'.
LEMMA RevisionsOfOthers ==
    ASSUME IInv, CreateClaim
    PROVE  RevisionSide'
  <1>1. Typed /\ Stored(claim) \in Claim /\ States(revs) \subseteq Approvals
    BY ApiEnds DEF IInv, Typed
  <1>2. /\ UNCHANGED <<revs, hr, relWork>> /\ Stored(claim).phase = "absent"
        /\ Stored(claim').uid = Stored(claim).uid + 1 /\ Stored(claim').applied = NoRevision
    BY <1>1, UserEffects
  <1>3. Stored(hr).phase = "absent" /\ relWork.stage \notin Chosen
    BY <1>2 DEF IInv, InstanceSide, NoOrphans, ClaimSide, WorkIsOfClaim, Ensure
  <1>4. ASSUME NEW s \in States(revs), NEW r \in DOMAIN s
        PROVE  r.uid <= Stored(claim').uid /\ r.uid # Stored(claim').uid
    <2>1. r.uid \in Nat /\ Stored(claim).uid \in Nat
      BY <1>1, ApprovalsType DEF Revision, Claim
    <2>2. r.uid <= Stored(claim).uid
      BY DEF IInv, RevisionSide, RevisionsNotAhead
    <2> QED
      BY <1>2, <2>1, <2>2
  <1>5. RevisionsNotAhead' /\ ApprovalsLast'
    BY <1>2, <1>4 DEF RevisionsNotAhead, ApprovalsLast, Approved
  <1>6. ChosenIsApproved' /\ DeploysApproved'
    BY <1>2, <1>3 DEF ChosenIsApproved, DeploysApproved
  <1> QED
    BY <1>5, <1>6 DEF RevisionSide

\* A write that keeps what is approved of the present claim, and adds a state with
\* no revision of a later one.
LEMMA RevisionsKept ==
    ASSUME IInv, UNCHANGED <<claim, hr, relWork>>,
           States(revs') = States(revs) \cup {Stored(revs')},
           \A r \in DOMAIN Stored(revs') : r.uid <= Stored(claim).uid,
           \A r \in Approved(Stored(revs)) :
               r.uid = Stored(claim).uid /\ Stored(claim).phase # "absent" => r \in Approved(Stored(revs'))
    PROVE  RevisionSide'
  <1>1. RevisionsNotAhead'
    BY DEF IInv, RevisionSide, RevisionsNotAhead
  <1>2. ApprovalsLast'
    BY DEF IInv, RevisionSide, ApprovalsLast
  <1>3. ChosenIsApproved'
    BY DEF IInv, RevisionSide, ChosenIsApproved, ClaimSide, WorkIsOfClaim, Ensure
  <1>4. DeploysApproved'
    <2>1. Stored(hr).phase # "absent" =>
             /\ Stored(hr).revision \in Approved(Stored(revs))
             /\ Stored(hr).revision.uid = Stored(claim).uid /\ Stored(claim).phase # "absent"
      BY DeploysApprovedMeans DEF IInv, RevisionSide, InstanceSide, NoOrphans
    <2>2. Stored(hr).phase # "absent" => Stored(hr).revision \in Approved(Stored(revs'))
      BY <2>1
    <2> QED
      BY <2>2 DEF IInv, RevisionSide, DeploysApproved, Approved
  <1> QED
    BY <1>1, <1>2, <1>3, <1>4 DEF RevisionSide

\* Everybody else's steps.
LEMMA RevisionOthers ==
    ASSUME IInv, Watches \/ Restart \/ Users \/ Cluster
    PROVE  RevisionSide'
  <1>1. /\ Typed /\ RevisionSide
        /\ Stored(claim).uid \in Nat /\ Stored(revs) \in States(revs)
    BY ApiEnds DEF IInv, Typed, Claim
  <1>2. CASE Watches \/ Restart
    <2>1. RelIdle.stage \notin Chosen
      BY DEF RelIdle, Chosen
    <2> QED
      BY <1>1, <1>2, <2>1, WatchEffect, RevisionsStay
  <1>3. CASE DeleteClaim \/ DeleteNamespace
    BY <1>1, <1>3, UserEffects, RevisionsStay
  <1>4. CASE Approve
    <2>1. /\ UNCHANGED <<claim, hr, relWork>>
          /\ States(revs') = States(revs) \cup {Stored(revs')}
      BY <1>1, <1>4, ApprovalEffects
    <2>2. PICK r \in Revision :
             /\ r.uid = Stored(claim).uid
             /\ DOMAIN Stored(revs') = DOMAIN Stored(revs) \cup {r}
             /\ \/ Approved(Stored(revs')) = Approved(Stored(revs))
                \/ Approved(Stored(revs')) = Approved(Stored(revs)) \cup {r}
      BY <1>1, <1>4, ApprovalEffects
    <2>3. \A q \in DOMAIN Stored(revs') : q.uid <= Stored(claim).uid
      BY <1>1, <2>2 DEF RevisionSide, RevisionsNotAhead
    <2> QED
      BY <2>1, <2>2, <2>3, RevisionsKept
  <1>5. CASE GarbageCollect
    <2>1. /\ UNCHANGED <<claim, hr, relWork>>
          /\ States(revs') = States(revs) \cup {Stored(revs')}
      BY <1>1, <1>5, ApprovalEffects
    <2>2. PICK r \in DOMAIN Stored(revs) :
             /\ r.uid # Stored(claim).uid \/ Stored(claim).phase = "absent"
             /\ DOMAIN Stored(revs') = DOMAIN Stored(revs) \ {r}
             /\ Approved(Stored(revs')) = Approved(Stored(revs)) \ {r}
      BY <1>1, <1>5, ApprovalEffects
    <2>3. \A q \in DOMAIN Stored(revs') : q.uid <= Stored(claim).uid
      BY <1>1, <2>2 DEF RevisionSide, RevisionsNotAhead
    <2> QED
      BY <2>1, <2>2, <2>3, RevisionsKept
  <1>6. CASE Installed \/ Uninstalled \/ Terminate
    <2>1. /\ UNCHANGED <<claim, revs, relWork>>
          /\ Stored(hr').phase # "absent" =>
                Stored(hr).phase # "absent" /\ Stored(hr').revision = Stored(hr).revision
      BY <1>1, <1>6, ClusterEffects, NothingIsAbsent
    <2> QED
      BY <1>1, <2>1, RevisionsStay
  <1> QED
    BY <1>2, <1>3, <1>4, <1>5, <1>6, RevisionsOfOthers DEF Users, Cluster

-----------------------------------------------------------------------------

LEMMA InvariantInit == Init => IInv
  <1> SUFFICES ASSUME Init PROVE IInv
    OBVIOUS
  <1>1. Typed
    BY TypedInit
  <1>2. /\ Stored(claim) = NoClaim /\ States(claim) = {NoClaim}
        /\ Stored(revs) = [r \in {} |-> Unapproved] /\ States(revs) = {[r \in {} |-> Unapproved]}
        /\ Stored(ns) = NoNamespace /\ Stored(hr) = NoHelmRelease /\ Stored(harness) = NoHarness
    BY SyncedWindow, SyncedStates DEF Init
  <1>3. <<NoClaim, NoClaim>> \in Onward /\ NoClaim.phase = "absent" /\ NoClaim.uid = 0
    BY NoClaimType DEF Onward, NoClaim
  <1>4. relWork.stage = "idle" /\ relWork.uid = 0
    BY DEF Init, RelIdle
  <1>5. Forward(claim, Onward)
    BY <1>3, SyncedForward DEF Init
  <1>6. HeldIsKnown /\ WorkIsOfClaim
    BY <1>2, <1>3, <1>4 DEF HeldIsKnown, WorkIsOfClaim, Ensure, Chosen, Cleanup
  <1>7. WorkIsNotAhead
    BY <1>2, <1>3, <1>4 DEF WorkIsNotAhead
  <1>8. InstanceSide
    BY <1>2, <1>4, NothingIsAbsent DEF InstanceSide, NoOrphans, CleanupInOrder
  <1>9. ChosenIsApproved /\ DeploysApproved
    BY <1>2, <1>3, <1>4, NothingIsAbsent DEF ChosenIsApproved, Chosen, DeploysApproved
  <1>10. RevisionsNotAhead /\ ApprovalsLast
    BY <1>2, <1>3 DEF RevisionsNotAhead, ApprovalsLast
  <1> QED
    BY <1>1, <1>5, <1>6, <1>7, <1>8, <1>9, <1>10 DEF IInv, ClaimSide, RevisionSide

LEMMA InvariantStep == IInv /\ [Next]_vars => IInv'
  <1> SUFFICES ASSUME IInv, [Next]_vars PROVE IInv'
    OBVIOUS
  <1>1. Typed'
    BY TypedStep DEF IInv
  <1>2. CASE Progress \/ Failure
    <2>1. RelProgress \/ RelFails
      BY <1>2 DEF Progress, Failure
    <2> QED
      BY <1>1, <2>1, ClaimWork, InstanceWork, RevisionWork DEF IInv
  <1>3. CASE Watches \/ Restart \/ Users \/ Cluster
    BY <1>1, <1>3, ClaimOthers, InstanceOthers, RevisionOthers DEF IInv
  <1>4. CASE UNCHANGED vars
    <2>1. UNCHANGED <<claim, revs, ns, hr, harness, relWork>>
      BY <1>4 DEF vars, apiVars, releaseVars
    <2>2. ClaimSide'
      BY <2>1, ClaimStays DEF IInv
    <2>3. InstanceSide'
      BY <2>1, InstancesStay DEF IInv
    <2>4. RevisionSide'
      BY <2>1, RevisionsStay DEF IInv
    <2> QED
      BY <1>1, <2>2, <2>3, <2>4 DEF IInv
  <1> QED
    BY <1>2, <1>3, <1>4 DEF Next

\* The invariant holds from the first state on: whatever a reconcile has read, a step
\* of it that creates works for the claim that is there and holds our finalizer, and
\* one that cleans up has nothing of a later claim before it.
THEOREM Invariant == Spec => []IInv
  BY InvariantInit, InvariantStep, PTL DEF Spec

\* No namespace, HelmRelease or harness outlives its claim, or is handed on to a
\* later claim of the same name, however the steps of the reconcile interleave with
\* users, failures and restarts: addFinalizer comes before anything is created, and
\* releaseClaim after all of it is gone.
THEOREM NothingIsOrphaned == Spec => []NoOrphans
  <1>1. IInv => NoOrphans
    BY DEF IInv, InstanceSide
  <1> QED
    BY <1>1, Invariant, PTL

\* What is deployed is an approved revision of the claim that is there, although
\* pickRevision reads it from a cache that may be of another time than the claim's.
THEOREM OnlyApprovedIsDeployed == Spec => []DeploysApproved
  <1>1. IInv => DeploysApproved
    BY DEF IInv, RevisionSide
  <1> QED
    BY <1>1, Invariant, PTL

-----------------------------------------------------------------------------
(* What the claim reports.                                                 *)

\* While a reconcile is about to report, the HelmRelease carries the revision that
\* it has put there, or there is no HelmRelease any more.
ReportIsCurrent ==
    relWork.stage = "status" => Stored(hr).revision \in {relWork.revision, NoRevision}

LEMMA ReportIsCurrentStep == Typed /\ ReportIsCurrent /\ [Next]_vars => ReportIsCurrent'
  <1> SUFFICES ASSUME Typed, ReportIsCurrent, [Next]_vars PROVE ReportIsCurrent'
    OBVIOUS
  <1>1. RelIdle.stage # "status" /\ NoHelmRelease.revision = NoRevision
    BY DEF RelIdle, NoHelmRelease
  <1>2. ASSUME Stored(hr').revision \in {Stored(hr).revision, NoRevision}, relWork' = relWork
        PROVE  ReportIsCurrent'
    BY <1>2 DEF ReportIsCurrent
  <1>3. ASSUME relWork'.stage # "status"
        PROVE  ReportIsCurrent'
    BY <1>3 DEF ReportIsCurrent
  <1>4. CASE RelGet \/ RelFails \/ cleanupHelmRelease \/ pickRevision \/ addFinalizer
                \/ ensureOperatorHarness \/ ensureNamespace
    BY <1>3, <1>4, NextStage
  <1>5. CASE cleanupNamespace \/ cleanupHarness
    <2>1. relWork'.stage \in {"delete harness", "release"}
      BY <1>5 DEF cleanupNamespace, cleanupHarness, To, Typed, RelWork
    <2> QED
      BY <1>3, <2>1
  <1>6. CASE releaseClaim \/ reportRelease
    BY <1>1, <1>3, <1>6 DEF releaseClaim, reportRelease, Done, Retry
  <1>7. CASE ensureHelmRelease
    <2>1. CASE relWork' = RelIdle
      BY <1>1, <1>3, <2>1
    <2>2. CASE To("status") /\ Stored(hr').revision = relWork.revision
      BY <2>2, ToMeans DEF ReportIsCurrent
    <2> QED
      BY <1>7, <2>1, <2>2, EnsureEffects DEF ensureHelmRelease, Retry
  <1>8. CASE Watches \/ Restart
    BY <1>1, <1>2, <1>3, <1>8, WatchEffect
  <1>9. CASE CreateClaim \/ DeleteClaim \/ Approve \/ GarbageCollect \/ Installed \/ Uninstalled \/ Terminate
    BY <1>1, <1>2, <1>9, UserEffects, ApprovalEffects, ClusterEffects
  <1>10. CASE DeleteNamespace
    BY <1>2, <1>10 DEF DeleteNamespace
  <1>11. CASE UNCHANGED vars
    BY <1>2, <1>11 DEF vars, releaseVars
  <1> QED
    BY <1>4, <1>5, <1>6, <1>7, <1>8, <1>9, <1>10, <1>11
       DEF Next, Progress, Failure, RelProgress, cleanupRelease, ensureRelease, Users, Cluster

\* reportRelease never writes a revision into the claim's status when the HelmRelease
\* carries another one by then, although it goes by the cached HelmRelease.
THEOREM ReportsAreTrue == Spec => ReportsWhatIsDeployed
  <1>1. Init => Typed /\ ReportIsCurrent
    BY TypedInit DEF Init, RelIdle, ReportIsCurrent
  <1>2. Typed /\ ReportIsCurrent /\ [Next]_vars => Typed' /\ ReportIsCurrent'
    BY TypedStep, ReportIsCurrentStep
  <1>3. Typed /\ ReportIsCurrent /\ [Next]_vars =>
            [Stored(claim)'.applied \notin {Stored(claim).applied, NoRevision} =>
                Stored(hr).revision \in {Stored(claim)'.applied, NoRevision}]_vars
    <2> SUFFICES ASSUME Typed, ReportIsCurrent, Next
                 PROVE  \/ Stored(claim').applied \in {Stored(claim).applied, NoRevision}
                        \/ Stored(hr).revision \in {Stored(claim').applied, NoRevision}
      OBVIOUS
    <2>1. CASE RelGet \/ RelFails \/ pickRevision
      BY <2>1, ReadingEffect
    <2>2. CASE cleanupRelease \/ ensureRelease
      BY <2>2, CleanupEffects, EnsureEffects DEF cleanupRelease, ensureRelease
    <2>3. CASE addFinalizer \/ releaseClaim
      BY <2>3, ClaimEffects
    <2>4. CASE reportRelease
      <3>1. relWork.stage = "status"
        BY <2>4 DEF reportRelease
      <3> QED
        BY <2>4, <3>1, ClaimEffects DEF ReportIsCurrent
    <2>5. CASE Watches \/ Restart
      BY <2>5, WatchEffect
    <2>6. CASE CreateClaim \/ DeleteClaim \/ Approve \/ GarbageCollect \/ Installed \/ Uninstalled \/ Terminate
      BY <2>6, UserEffects, ApprovalEffects, ClusterEffects
    <2>7. CASE DeleteNamespace
      BY <2>7 DEF DeleteNamespace, apiVars
    <2> QED
      BY <2>1, <2>2, <2>3, <2>4, <2>5, <2>6, <2>7
         DEF Next, Progress, Failure, RelProgress, Users, Cluster
  <1> QED
    BY <1>1, <1>2, <1>3, PTL DEF Spec, ReportsWhatIsDeployed

-----------------------------------------------------------------------------
(* When no user deletes the namespace.                                     *)

\* Only what belongs to a deleted claim is on its way out.
TakenDownIfDeleted ==
    /\ Stored(ns).phase = "terminating" => Stored(claim).phase = "deleting"
    /\ Stored(hr).phase = "deleting" => Stored(claim).phase = "deleting"

\* The harness is there before the namespace and the HelmRelease are.
HarnessedFirst ==
    /\ Manages /\ relWork.stage \in {"namespace", "helmrelease"} => Stored(harness).phase = "live"
    /\ ~Manages => Stored(harness).phase = "absent"

Orderly == TakenDownIfDeleted /\ HarnessedFirst /\ UninstallIsServed

\* A cleanup that finds something is for a deleted claim.
LEMMA CleanupIsDue ==
    ASSUME IInv, relWork.stage \in Cleanup,
           Stored(ns).phase # "absent" \/ Stored(hr).phase # "absent" \/ Stored(harness).phase # "absent"
    PROVE  Stored(claim).phase = "deleting"
  BY DEF IInv, InstanceSide, NoOrphans, ClaimSide, WorkIsOfClaim

\* Steps that leave the objects and the worker's place in order as they are.
LEMMA OrderStays ==
    ASSUME Orderly,
           Stored(ns').phase = Stored(ns).phase, Stored(harness').phase = Stored(harness).phase,
           Stored(hr').phase = Stored(hr).phase,
           Stored(claim').phase = Stored(claim).phase \/ Stored(claim').phase = "deleting"
               \/ (Stored(ns).phase = "absent" /\ Stored(hr).phase = "absent"),
           relWork'.stage \in {"namespace", "helmrelease"} => relWork.stage \in {"namespace", "helmrelease"}
    PROVE  Orderly'
  BY DEF Orderly, TakenDownIfDeleted, HarnessedFirst, UninstallIsServed

LEMMA OrderlyWork ==
    ASSUME IInv, Orderly, RelProgress \/ RelFails
    PROVE  Orderly'
  <1>1. Typed /\ NoOrphans /\ CleanupInOrder /\ TakenDownIfDeleted /\ HarnessedFirst /\ UninstallIsServed
    BY DEF IInv, InstanceSide, Orderly
  <1>2. CASE RelGet \/ RelFails \/ pickRevision
    <2>1. relWork'.stage \notin {"namespace", "helmrelease"}
      BY <1>1, <1>2, NextStage
    <2> QED
      BY <1>2, <2>1, ReadingEffect, OrderStays
  <1>3. CASE addFinalizer \/ reportRelease
    <2>1. relWork'.stage \notin {"namespace", "helmrelease"}
      BY <1>1, <1>3, NextStage
    <2> QED
      BY <1>1, <1>3, <2>1, ClaimEffects, OrderStays
  <1>4. CASE releaseClaim
    <2>1. relWork'.stage = "idle"
      BY <1>4 DEF releaseClaim, Done, Retry, RelIdle
    <2>2. relWork.stage = "release"
      BY <1>4 DEF releaseClaim
    <2>3. Stored(hr).phase = "absent" /\ (relWork.nsGone => Stored(ns).phase = "absent")
      BY <1>1, <2>2 DEF CleanupInOrder
    <2> QED
      BY <1>1, <1>4, <2>1, <2>3, ClaimEffects, OrderStays
  <1>5. CASE cleanupHelmRelease
    <2>1. relWork'.stage \notin {"namespace", "helmrelease"} /\ relWork.stage \in Cleanup
      BY <1>1, <1>5, NextStage DEF cleanupHelmRelease, Cleanup
    <2>2. CASE hr' = hr
      BY <1>1, <1>5, <2>1, <2>2, CleanupEffects, OrderStays
    <2>3. CASE /\ Stored(hr).phase # "absent"
               /\ Stored(hr').phase \in {"absent", "deleting"}
      <3>1. Stored(claim).phase = "deleting"
        BY <2>1, <2>3, CleanupIsDue
      <3> QED
        BY <1>1, <1>5, <2>1, <2>3, <3>1, CleanupEffects
           DEF Orderly, TakenDownIfDeleted, HarnessedFirst, UninstallIsServed
    <2> QED
      BY <1>1, <1>5, <2>2, <2>3, CleanupEffects, NothingIsAbsent
  <1>6. CASE cleanupNamespace
    <2>1. relWork'.stage = "delete harness" /\ relWork.stage = "delete ns" /\ relWork.stage \in Cleanup
      BY <1>1, <1>6 DEF cleanupNamespace, Cleanup, Typed, RelWork
    <2>2. Stored(hr).phase = "absent"
      BY <1>1, <2>1 DEF CleanupInOrder
    <2>3. CASE ns' = ns
      BY <1>1, <1>6, <2>1, <2>3, CleanupEffects, OrderStays
    <2>4. CASE Stored(ns).phase # "absent" /\ Stored(ns').phase = "terminating"
      <3>1. Stored(claim).phase = "deleting"
        BY <2>1, <2>4, CleanupIsDue
      <3> QED
        BY <1>1, <1>6, <2>1, <2>2, <2>4, <3>1, CleanupEffects
           DEF Orderly, TakenDownIfDeleted, HarnessedFirst, UninstallIsServed
    <2> QED
      BY <1>1, <1>6, <2>3, <2>4, CleanupEffects DEF Terminates
  <1>7. CASE cleanupHarness
    <2>1. relWork'.stage = "release" /\ relWork.stage = "delete harness"
      BY <1>1, <1>7 DEF cleanupHarness, To, Typed, RelWork
    <2>2. Stored(hr).phase = "absent"
      BY <1>1, <2>1 DEF CleanupInOrder
    <2>3. UNCHANGED <<claim, ns, hr>> /\ Stored(harness').phase = "absent"
      BY <1>1, <1>7, CleanupEffects, NothingIsAbsent
    <2> QED
      BY <1>1, <2>1, <2>2, <2>3 DEF Orderly, TakenDownIfDeleted, HarnessedFirst, UninstallIsServed
  <1>8. CASE ensureOperatorHarness
    <2>1. /\ UNCHANGED <<claim, ns, hr>>
          /\ Manages => Stored(harness').phase = "live"
          /\ ~Manages => harness' = harness
      BY <1>1, <1>8, EnsureEffects
    <2> QED
      BY <1>1, <2>1 DEF Orderly, TakenDownIfDeleted, HarnessedFirst, UninstallIsServed
  <1>9. CASE ensureNamespace
    <2>1. /\ UNCHANGED <<claim, hr, harness>>
          /\ Stored(ns').phase = IF Stored(ns).phase = "terminating" THEN "terminating" ELSE "live"
      BY <1>1, <1>9, EnsureEffects
    <2>2. relWork.stage = "namespace"
      BY <1>9 DEF ensureNamespace
    <2> QED
      BY <1>1, <2>1, <2>2 DEF Orderly, TakenDownIfDeleted, HarnessedFirst, UninstallIsServed
  <1>10. CASE ensureHelmRelease
    <2>1. relWork.stage = "helmrelease" /\ relWork'.stage \notin {"namespace", "helmrelease"}
      BY <1>1, <1>10, NextStage DEF ensureHelmRelease
    <2>2. CASE hr' = hr
      BY <1>1, <1>10, <2>1, <2>2, EnsureEffects, OrderStays
    <2>3. CASE /\ Appliable
               /\ Stored(hr').phase = IF Stored(hr).phase = "absent" THEN "live" ELSE Stored(hr).phase
      <3>1. UNCHANGED <<claim, ns, harness>>
        BY <1>1, <1>10, EnsureEffects
      <3> QED
        BY <1>1, <2>1, <2>3, <3>1 DEF Orderly, TakenDownIfDeleted, HarnessedFirst, UninstallIsServed, Appliable
    <2> QED
      BY <1>1, <1>10, <2>2, <2>3, EnsureEffects
  <1> QED
    BY <1>2, <1>3, <1>4, <1>5, <1>6, <1>7, <1>8, <1>9, <1>10 DEF RelProgress, cleanupRelease, ensureRelease

LEMMA OrderlyOthers ==
    ASSUME IInv, Orderly, Watches \/ Restart \/ Users \/ Cluster, "delete namespace" \notin UserMay
    PROVE  Orderly'
  <1>1. Typed /\ NoOrphans /\ TakenDownIfDeleted /\ HarnessedFirst /\ UninstallIsServed
    BY DEF IInv, InstanceSide, Orderly
  <1>2. RelIdle.stage \notin {"namespace", "helmrelease"}
    BY DEF RelIdle
  <1>3. CASE Watches \/ Restart
    BY <1>1, <1>2, <1>3, WatchEffect, OrderStays
  <1>4. CASE CreateClaim
    <2>1. Stored(ns).phase = "absent" /\ Stored(hr).phase = "absent"
      BY <1>1, <1>4 DEF CreateClaim, NoOrphans
    <2> QED
      BY <1>1, <1>4, <2>1, UserEffects, OrderStays
  <1>5. CASE DeleteClaim
    <2>1. ~Stored(claim).finalizer => Stored(ns).phase = "absent" /\ Stored(hr).phase = "absent"
      BY <1>1 DEF NoOrphans
    <2> QED
      BY <1>1, <1>5, <2>1, UserEffects, OrderStays
  <1>6. CASE Approve \/ GarbageCollect
    BY <1>1, <1>6, ApprovalEffects, OrderStays
  <1>7. CASE Installed
    BY <1>1, <1>7, ClusterEffects, OrderStays
  <1>8. CASE Uninstalled
    <2>1. UNCHANGED <<claim, ns, harness, relWork>> /\ Stored(hr').phase = "absent"
      BY <1>1, <1>8, ClusterEffects, NothingIsAbsent
    <2> QED
      BY <1>1, <2>1 DEF Orderly, TakenDownIfDeleted, HarnessedFirst, UninstallIsServed
  <1>9. CASE Terminate
    <2>1. Stored(hr).phase = "absent"
      BY <1>1, <1>9, ClusterEffects DEF UninstallIsServed
    <2>2. UNCHANGED <<claim, hr, harness, relWork>> /\ Stored(ns').phase = "absent"
      BY <1>1, <1>9, <2>1, ClusterEffects, NothingIsAbsent
    <2> QED
      BY <1>1, <2>1, <2>2 DEF Orderly, TakenDownIfDeleted, HarnessedFirst, UninstallIsServed
  <1> QED
    BY <1>3, <1>4, <1>5, <1>6, <1>7, <1>8, <1>9 DEF Users, Cluster, DeleteNamespace

LEMMA OrderlyInit == Init => Orderly
  <1> SUFFICES ASSUME Init PROVE Orderly
    OBVIOUS
  <1>1. Stored(ns) = NoNamespace /\ Stored(hr) = NoHelmRelease /\ Stored(harness) = NoHarness
    BY SyncedWindow DEF Init
  <1>2. relWork.stage = "idle"
    BY DEF Init, RelIdle
  <1> QED
    BY <1>1, <1>2, NothingIsAbsent DEF Orderly, TakenDownIfDeleted, HarnessedFirst, UninstallIsServed

LEMMA OrderlyStep ==
    ASSUME "delete namespace" \notin UserMay
    PROVE  IInv /\ Orderly /\ [Next]_vars => Orderly'
  <1> SUFFICES ASSUME IInv, Orderly, [Next]_vars PROVE Orderly'
    OBVIOUS
  <1>1. CASE Progress \/ Failure
    BY <1>1, OrderlyWork DEF Progress, Failure
  <1>2. CASE Watches \/ Restart \/ Users \/ Cluster
    BY <1>2, OrderlyOthers
  <1>3. CASE UNCHANGED vars
    BY <1>3, OrderStays DEF vars, apiVars, releaseVars
  <1> QED
    BY <1>1, <1>2, <1>3 DEF Next

\* "The HelmRelease has to go first": as long as there is one, its namespace is live
\* and its operator harnessed.  cleanupHelmRelease waits until it has found none before
\* cleanupNamespace and cleanupHarness run.
THEOREM HelmReleaseGoesFirst ==
    ASSUME "delete namespace" \notin UserMay
    PROVE  Spec => []UninstallIsServed
  <1>1. Init => IInv /\ Orderly
    BY InvariantInit, OrderlyInit
  <1>2. IInv /\ Orderly /\ [Next]_vars => IInv' /\ Orderly'
    BY InvariantStep, OrderlyStep
  <1>3. Orderly => UninstallIsServed
    BY DEF Orderly
  <1> QED
    BY <1>1, <1>2, <1>3, PTL DEF Spec

LEMMA ContractInit == Init => Contract!Init
  <1> SUFFICES ASSUME Init PROVE Contract!Init
    OBVIOUS
  <1>1. /\ Stored(ns) = NoNamespace /\ Stored(hr) = NoHelmRelease /\ Stored(harness) = NoHarness
        /\ Stored(claim) = NoClaim /\ Stored(revs) = [r \in {} |-> Unapproved]
    BY SyncedWindow DEF Init
  <1> QED
    BY <1>1, NothingIsAbsent DEF Contract!Init, NoClaim

\* The parts of the mapping.
Footprint ==
    (IF Stored(ns).phase = "absent" THEN {} ELSE {"namespace"}) \cup
    (IF Stored(harness).phase = "absent" THEN {} ELSE {"harness"})
Deployed == IF Stored(hr).phase = "absent" THEN NoRevision ELSE Stored(hr).revision

\* Steps of the contract, in terms of the mapping.
LEMMA ContractSteps ==
    LET p == Stored(claim).phase
        u == Stored(claim).uid
        a == Approved(Stored(revs))
        pp == Stored(claim').phase
        uu == Stored(claim').uid
        aa == Approved(Stored(revs'))
        full == {"namespace"} \cup (IF Manages THEN {"harness"} ELSE {})
    IN  /\ pp = p /\ uu = u /\ aa = a /\ Footprint' = Footprint /\ Deployed' = Deployed => UNCHANGED Contract!vars
        /\ /\ p = "absent" /\ Footprint = {} /\ Deployed = NoRevision
           /\ pp = "live" /\ uu = u + 1 /\ aa = a /\ Footprint' = Footprint /\ Deployed' = Deployed
           => Contract!Create
        /\ /\ p = "live" /\ (pp = "deleting" \/ (pp = "absent" /\ Footprint = {} /\ Deployed = NoRevision))
           /\ uu = u /\ aa = a /\ Footprint' = Footprint /\ Deployed' = Deployed
           => Contract!Delete
        /\ (\E r \in aa \ a : p = "live" /\ r \in Revision /\ r.uid = u /\ aa = a \cup {r})
              /\ pp = p /\ uu = u /\ Footprint' = Footprint /\ Deployed' = Deployed
           => Contract!Approve
        /\ (\E r \in a : (p = "absent" \/ r.uid # u) /\ aa = a \ {r})
              /\ pp = p /\ uu = u /\ Footprint' = Footprint /\ Deployed' = Deployed
           => Contract!Forget
        /\ (\E part \in full \ Footprint : p # "absent" /\ Footprint' = Footprint \cup {part})
              /\ pp = p /\ uu = u /\ aa = a /\ Deployed' = Deployed
           => Contract!SetUp
        /\ (\E r \in a : p # "absent" /\ r.uid = u /\ Footprint = full /\ Deployed' = r)
              /\ pp = p /\ uu = u /\ aa = a /\ Footprint' = Footprint
           => Contract!Deploy
        /\ /\ p = "deleting" /\ Deployed # NoRevision /\ Deployed' = NoRevision
           /\ pp = p /\ uu = u /\ aa = a /\ Footprint' = Footprint
           => Contract!Withdraw
        /\ (\E part \in Footprint : p = "deleting" /\ Deployed = NoRevision /\ Footprint' = Footprint \ {part})
              /\ pp = p /\ uu = u /\ aa = a /\ Deployed' = Deployed
           => Contract!TakeDown
        /\ /\ p = "deleting" /\ Footprint = {} /\ Deployed = NoRevision
           /\ pp = "absent" /\ uu = u /\ aa = a /\ Footprint' = Footprint /\ Deployed' = Deployed
           => Contract!Go
  BY Zenon DEF Contract!vars, Contract!Create, Contract!Delete, Contract!Approve, Contract!Forget, Contract!SetUp, Contract!Deploy,
     Contract!Withdraw, Contract!TakeDown, Contract!Go, Contract!Surroundings, Footprint, Deployed, Approved

\* Every step takes the contract a step on or leaves it where it is.
LEMMA ContractStep ==
    ASSUME "delete namespace" \notin UserMay, IInv, Orderly, [Next]_vars
    PROVE  [Contract!Next]_(Contract!vars)
  <1>1. /\ Typed /\ NoOrphans /\ CleanupInOrder /\ WorkIsOfClaim /\ ChosenIsApproved /\ DeploysApproved
        /\ TakenDownIfDeleted /\ HarnessedFirst /\ UninstallIsServed
        /\ Stored(ns) \in Namespace /\ Stored(hr) \in HelmRelease /\ Stored(harness) \in Harness
    BY InstanceEnds DEF IInv, ClaimSide, InstanceSide, RevisionSide, Orderly
  <1>2. ASSUME NEW r, r \in Revision \/ r \in Approved(Stored(revs)) PROVE r # NoRevision
    <2>1. Approved(Stored(revs)) \subseteq Revision
      BY <1>1, ApiEnds, ApprovalsType DEF Approved, Typed
    <2> QED
      BY <1>2, <2>1, NoRevisionIsNone
  <1>3. Stored(hr).phase # "absent" => Deployed = Stored(hr).revision /\ Deployed # NoRevision
    BY <1>1, <1>2, DeploysApprovedMeans DEF Deployed
  <1>4. ASSUME /\ Stored(claim').phase = Stored(claim).phase /\ Stored(claim').uid = Stored(claim).uid
               /\ Approved(Stored(revs')) = Approved(Stored(revs))
               /\ Footprint' = Footprint /\ Deployed' = Deployed
        PROVE  [Contract!Next]_(Contract!vars)
    BY <1>4, ContractSteps
  <1>5. CASE RelGet \/ RelFails \/ pickRevision
    BY <1>4, <1>5, ReadingEffect DEF Footprint, Deployed
  <1>6. CASE addFinalizer \/ reportRelease
    BY <1>1, <1>4, <1>6, ClaimEffects DEF Footprint, Deployed
  <1>7. CASE releaseClaim
    <2>1. CASE claim' = claim
      BY <1>1, <1>4, <1>7, <2>1, ClaimEffects DEF Footprint, Deployed
    <2>2. CASE /\ relWork.nsGone /\ ~PatchRefused
               /\ Stored(claim').phase = "absent" /\ Stored(claim').uid = Stored(claim).uid
      <3>1. relWork.stage = "release" /\ UNCHANGED <<revs, ns, hr, harness>>
        BY <1>1, <1>7, ClaimEffects DEF releaseClaim
      <3>2. Footprint = {} /\ Deployed = NoRevision
        BY <1>1, <2>2, <3>1 DEF CleanupInOrder, Footprint, Deployed
      <3>3. Stored(claim).phase = "deleting"
        BY <1>1, <2>2, <3>1 DEF WorkIsOfClaim, PatchRefused, Cleanup
      <3>4. Footprint' = Footprint /\ Deployed' = Deployed
        BY <3>1 DEF Footprint, Deployed
      <3>5. Contract!Go
        BY <2>2, <3>1, <3>2, <3>3, <3>4, ContractSteps
      <3> QED
        BY <3>5 DEF Contract!Next
    <2> QED
      BY <1>1, <1>7, <2>1, <2>2, ClaimEffects
  <1>8. CASE cleanupHelmRelease
    <2>1. UNCHANGED <<claim, revs, ns, harness>> /\ Footprint' = Footprint
      BY <1>1, <1>8, CleanupEffects DEF Footprint
    <2>2. CASE hr' = hr
      BY <1>4, <2>1, <2>2 DEF Deployed
    <2>3. CASE Stored(hr).phase # "absent" /\ Stored(hr') = NoHelmRelease
      <3>1. Stored(claim).phase = "deleting"
        BY <1>8, <2>3, CleanupIsDue DEF cleanupHelmRelease, Cleanup
      <3>2. Deployed # NoRevision /\ Deployed' = NoRevision
        BY <1>3, <2>3, NothingIsAbsent DEF Deployed
      <3>3. Contract!Withdraw
        BY <2>1, <3>1, <3>2, ContractSteps
      <3> QED
        BY <3>3 DEF Contract!Next
    <2>4. CASE /\ Stored(hr).phase # "absent"
               /\ Stored(hr').phase = "deleting" /\ Stored(hr').revision = Stored(hr).revision
      BY <1>4, <2>1, <2>4 DEF Deployed
    <2> QED
      BY <1>1, <1>8, <2>2, <2>3, <2>4, CleanupEffects
  <1>9. CASE cleanupNamespace
    BY <1>1, <1>4, <1>9, CleanupEffects DEF Terminates, Footprint, Deployed
  <1>10. CASE cleanupHarness
    <2>1. UNCHANGED <<claim, revs, ns, hr>> /\ Stored(harness').phase = "absent" /\ Deployed' = Deployed
      BY <1>1, <1>10, CleanupEffects, NothingIsAbsent DEF Deployed
    <2>2. CASE Stored(harness).phase = "absent"
      BY <1>4, <2>1, <2>2 DEF Footprint
    <2>3. CASE Stored(harness).phase # "absent"
      <3>1. Stored(claim).phase = "deleting"
        BY <1>10, <2>3, CleanupIsDue DEF cleanupHarness, Cleanup
      <3>2. Deployed = NoRevision
        BY <1>1, <1>10 DEF CleanupInOrder, cleanupHarness, Deployed
      <3>3. "harness" \in Footprint /\ Footprint' = Footprint \ {"harness"}
        BY <2>1, <2>3 DEF Footprint
      <3>4. Contract!TakeDown
        BY <2>1, <3>1, <3>2, <3>3, ContractSteps
      <3> QED
        BY <3>4 DEF Contract!Next
    <2> QED
      BY <2>2, <2>3
  <1>11. CASE ensureOperatorHarness
    <2>1. UNCHANGED <<claim, revs, ns, hr>> /\ Deployed' = Deployed
      BY <1>1, <1>11, EnsureEffects DEF Deployed
    <2>2. CASE ~Manages \/ Stored(harness).phase # "absent"
      <3>1. Stored(harness').phase # "absent" <=> Stored(harness).phase # "absent"
        BY <1>1, <1>11, <2>2, EnsureEffects
      <3> QED
        BY <1>4, <2>1, <3>1 DEF Footprint
    <2>3. CASE Manages /\ Stored(harness).phase = "absent"
      <3>1. "harness" \notin Footprint /\ Footprint' = Footprint \cup {"harness"}
        BY <1>1, <1>11, <2>1, <2>3, EnsureEffects DEF Footprint
      <3>2. Stored(claim).phase # "absent"
        BY <1>1, <1>11 DEF WorkIsOfClaim, ensureOperatorHarness, Ensure, Chosen
      <3>3. Contract!SetUp
        BY <2>1, <2>3, <3>1, <3>2, ContractSteps
      <3> QED
        BY <3>3 DEF Contract!Next
    <2> QED
      BY <2>2, <2>3
  <1>12. CASE ensureNamespace
    <2>1. UNCHANGED <<claim, revs, harness, hr>> /\ Deployed' = Deployed /\ Stored(ns').phase # "absent"
      BY <1>1, <1>12, EnsureEffects DEF Deployed
    <2>2. CASE Stored(ns).phase # "absent"
      BY <1>4, <2>1, <2>2 DEF Footprint
    <2>3. CASE Stored(ns).phase = "absent"
      <3>1. "namespace" \notin Footprint /\ Footprint' = Footprint \cup {"namespace"}
        BY <2>1, <2>3 DEF Footprint
      <3>2. Stored(claim).phase # "absent"
        BY <1>1, <1>12 DEF WorkIsOfClaim, ensureNamespace, Ensure, Chosen
      <3>3. Contract!SetUp
        BY <2>1, <2>3, <3>1, <3>2, ContractSteps
      <3> QED
        BY <3>3 DEF Contract!Next
    <2> QED
      BY <2>2, <2>3
  <1>13. CASE ensureHelmRelease
    <2>1. UNCHANGED <<claim, revs, ns, harness>> /\ Footprint' = Footprint /\ relWork.stage = "helmrelease"
      BY <1>1, <1>13, EnsureEffects DEF Footprint, ensureHelmRelease
    <2>2. CASE hr' = hr
      BY <1>4, <2>1, <2>2 DEF Deployed
    <2>3. CASE /\ Appliable /\ Stored(hr').revision = relWork.revision
               /\ Stored(hr').phase = IF Stored(hr).phase = "absent" THEN "live" ELSE Stored(hr).phase
      <3>1. Deployed' = relWork.revision
        BY <2>3 DEF Deployed
      <3>2. /\ relWork.revision \in Approved(Stored(revs)) /\ relWork.revision.uid = Stored(claim).uid
            /\ Stored(claim).phase # "absent"
        BY <1>1, <2>1 DEF ChosenIsApproved, WorkIsOfClaim, Ensure, Chosen
      <3>3. Footprint = {"namespace"} \cup (IF Manages THEN {"harness"} ELSE {})
        BY <1>1, <2>1, <2>3 DEF HarnessedFirst, Footprint, Appliable
      <3>4. Contract!Deploy
        BY <2>1, <3>1, <3>2, <3>3, ContractSteps
      <3> QED
        BY <3>4 DEF Contract!Next
    <2> QED
      BY <1>1, <1>13, <2>2, <2>3, EnsureEffects
  <1>14. CASE Watches \/ Restart
    BY <1>1, <1>4, <1>14, WatchEffect DEF Footprint, Deployed
  <1>15. CASE CreateClaim
    <2>1. Footprint = {} /\ Deployed = NoRevision
      BY <1>1, <1>15, UserEffects DEF NoOrphans, Footprint, Deployed
    <2>2. Footprint' = Footprint /\ Deployed' = Deployed
      BY <1>1, <1>15, UserEffects DEF Footprint, Deployed
    <2>3. Contract!Create
      BY <1>1, <1>15, <2>1, <2>2, UserEffects, ContractSteps
    <2> QED
      BY <2>3 DEF Contract!Next
  <1>16. CASE DeleteClaim
    <2>1. Footprint' = Footprint /\ Deployed' = Deployed
      BY <1>1, <1>16, UserEffects DEF Footprint, Deployed
    <2>2. ~Stored(claim).finalizer => Footprint = {} /\ Deployed = NoRevision
      BY <1>1 DEF NoOrphans, Footprint, Deployed
    <2>3. Contract!Delete
      BY <1>1, <1>16, <2>1, <2>2, UserEffects, ContractSteps
    <2> QED
      BY <2>3 DEF Contract!Next
  <1>17. CASE Approve
    <2>1. UNCHANGED <<claim, ns, hr, harness>> /\ Footprint' = Footprint /\ Deployed' = Deployed
      BY <1>1, <1>17, ApprovalEffects DEF Footprint, Deployed
    <2>2. CASE Approved(Stored(revs')) = Approved(Stored(revs))
      BY <1>4, <2>1, <2>2
    <2>3. CASE Approved(Stored(revs')) # Approved(Stored(revs))
      <3>1. PICK r \in Revision :
               /\ r.uid = Stored(claim).uid
               /\ Approved(Stored(revs')) = Approved(Stored(revs)) \cup {r}
        BY <1>1, <1>17, <2>3, ApprovalEffects
      <3>2. r \in Approved(Stored(revs')) \ Approved(Stored(revs)) /\ Stored(claim).phase = "live"
        BY <1>1, <1>17, <2>3, <3>1, ApprovalEffects
      <3>3. Contract!Approve
        BY <2>1, <3>1, <3>2, ContractSteps
      <3> QED
        BY <3>3 DEF Contract!Next
    <2> QED
      BY <2>2, <2>3
  <1>18. CASE GarbageCollect
    <2>1. UNCHANGED <<claim, ns, hr, harness>> /\ Footprint' = Footprint /\ Deployed' = Deployed
      BY <1>1, <1>18, ApprovalEffects DEF Footprint, Deployed
    <2>2. PICK r \in DOMAIN Stored(revs) :
             /\ r.uid # Stored(claim).uid \/ Stored(claim).phase = "absent"
             /\ Approved(Stored(revs')) = Approved(Stored(revs)) \ {r}
      BY <1>1, <1>18, ApprovalEffects
    <2>3. CASE r \notin Approved(Stored(revs))
      <3>1. Approved(Stored(revs')) = Approved(Stored(revs))
        BY <2>2, <2>3
      <3> QED
        BY <1>4, <2>1, <3>1
    <2>4. CASE r \in Approved(Stored(revs))
      <3>1. Contract!Forget
        BY <2>1, <2>2, <2>4, ContractSteps
      <3> QED
        BY <3>1 DEF Contract!Next
    <2> QED
      BY <2>3, <2>4
  <1>19. CASE Installed
    BY <1>1, <1>4, <1>19, ClusterEffects DEF Footprint, Deployed
  <1>20. CASE Uninstalled
    <2>1. UNCHANGED <<claim, revs, ns, harness>> /\ Footprint' = Footprint
      BY <1>1, <1>20, ClusterEffects DEF Footprint
    <2>2. Stored(claim).phase = "deleting"
      BY <1>1, <1>20, ClusterEffects DEF TakenDownIfDeleted
    <2>3. Deployed # NoRevision /\ Deployed' = NoRevision
      BY <1>1, <1>3, <1>20, ClusterEffects, NothingIsAbsent DEF Deployed
    <2>4. Contract!Withdraw
      BY <2>1, <2>2, <2>3, ContractSteps
    <2> QED
      BY <2>4 DEF Contract!Next
  <1>21. CASE Terminate
    <2>1. /\ UNCHANGED <<claim, revs, hr, harness>> /\ Stored(hr).phase = "absent"
          /\ Stored(ns).phase = "terminating" /\ Stored(ns').phase = "absent"
      BY <1>1, <1>21, ClusterEffects, NothingIsAbsent DEF UninstallIsServed
    <2>2. Stored(claim).phase = "deleting" /\ Deployed = NoRevision /\ Deployed' = Deployed
      BY <1>1, <2>1 DEF TakenDownIfDeleted, Deployed
    <2>3. "namespace" \in Footprint /\ Footprint' = Footprint \ {"namespace"}
      BY <2>1 DEF Footprint
    <2>4. Contract!TakeDown
      BY <2>1, <2>2, <2>3, ContractSteps
    <2> QED
      BY <2>4 DEF Contract!Next
  <1>22. CASE UNCHANGED vars
    BY <1>4, <1>22 DEF vars, apiVars, releaseVars, Footprint, Deployed
  <1> QED
    BY <1>5, <1>6, <1>7, <1>8, <1>9, <1>10, <1>11, <1>12, <1>13, <1>14, <1>15, <1>16, <1>17, <1>18, <1>19,
       <1>20, <1>21, <1>22
       DEF Next, Progress, Failure, RelProgress, cleanupRelease, ensureRelease, Users, Cluster, DeleteNamespace

\* The release controller keeps its promise: with the caches, the retries and the order
\* of its steps left aside, a release lives and dies as Deployment says.
THEOREM ImplementsDeployment ==
    ASSUME "delete namespace" \notin UserMay
    PROVE  Spec => KeepsItsPromise
  <1>1. Init => IInv /\ Orderly /\ Contract!Init
    BY InvariantInit, OrderlyInit, ContractInit
  <1>2. IInv /\ Orderly /\ [Next]_vars => IInv' /\ Orderly' /\ [Contract!Next]_(Contract!vars)
    BY InvariantStep, OrderlyStep, ContractStep
  <1> QED
    BY <1>1, <1>2, PTL DEF Spec, KeepsItsPromise, Contract!Spec
=============================================================================
