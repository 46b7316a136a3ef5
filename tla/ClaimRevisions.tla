--------------------------- MODULE ClaimRevisions ---------------------------
(***************************************************************************)
(* From a claim to an approved revision: RevisionManager and               *)
(* AutomaticApprovalManager at work on the same claim, through caches that *)
(* lag behind each other, next to users, the garbage collector and         *)
(* restarts of the operator.                                               *)
(***************************************************************************)
EXTENDS RevisionManager, AutomaticApproval, FiniteSets

CONSTANTS
    UserMay,        \* what users do in this instance
    MaxUid,         \* bound: how often the claim is created
    MaxEdits,       \* bound: writes by users
    MaxLag,         \* bound: users and the garbage collector do not run further
                    \*        ahead of a cache than this many changes
    MaxTime,        \* bound: seconds the clock may reach
    MaxDigest,      \* bound: digests of artifacts are 2 .. MaxDigest
    MaxRestarts     \* bound: restarts of the operator

ASSUME UserMayAssumption ==
    UserMay \subseteq {"values", "version", "strategy", "adept", "approve",
                       "delete claim", "delete revision", "platform", "publish"}

ASSUME DigestAssumption == MaxDigest \in Nat

VARIABLES edits, restarts

boundVars == <<edits, restarts>>
vars == <<apiVars, revisionVars, approvalVars, boundVars>>

-----------------------------------------------------------------------------
(* Watches: each controller is told of every event of the claim and of the *)
(* revisions it owns.                                                      *)

Enqueue == revQueue' = TRUE /\ apprQueue' = TRUE

DeliverClaim ==
    /\ Lagging(claim)
    /\ claim' = Delivered(claim)
    /\ Enqueue
    /\ UNCHANGED <<revs, rv, now, newest, platform, repos, revWork, apprWork, boundVars>>

DeliverRevision ==
    /\ Lagging(revs)
    /\ revs' = Delivered(revs)
    /\ Enqueue
    /\ UNCHANGED <<claim, rv, now, newest, platform, repos, revWork, apprWork, boundVars>>

\* The operator restarts: both workers and queues are lost, the informers list
\* afresh and report what they find.
Restart ==
    /\ restarts < MaxRestarts
    /\ restarts' = restarts + 1
    /\ claim' = Synced(Stored(claim))
    /\ revs' = Synced(Stored(revs))
    /\ revQueue' = (Stored(claim).phase # "absent" \/ DOMAIN Stored(revs) # {})
    /\ apprQueue' = (Stored(claim).phase # "absent" \/ DOMAIN Stored(revs) # {})
    /\ revWork' = RevIdle
    /\ apprWork' = ApprIdle
    /\ UNCHANGED <<rv, now, newest, platform, repos, edits>>

-----------------------------------------------------------------------------
(* Users, Kubernetes and the clock.                                        *)

CreateClaim(v) ==
    /\ Stored(claim).phase = "absent"
    /\ Stored(claim).uid < MaxUid /\ Len(claim) <= MaxLag
    /\ PutClaim([NoClaim EXCEPT !.phase = "live", !.uid = Stored(claim).uid + 1,
                                !.values = v, !.generation = 1])
    /\ UNCHANGED <<revs, now, revisionVars, approvalVars, boundVars>>

\* Every change of the spec raises the generation.
EditSpec(c) ==
    /\ Stored(claim).phase = "live"
    /\ c # Stored(claim)
    /\ PutClaim([c EXCEPT !.generation = @ + 1])

EditClaim ==
    /\ edits < MaxEdits /\ Len(claim) <= MaxLag
    /\ edits' = edits + 1
    /\ \/ /\ "values" \in UserMay
          /\ \E v \in Values : EditSpec([Stored(claim) EXCEPT !.values = v])
       \/ /\ "version" \in UserMay
          /\ \E v \in 0 .. newest : EditSpec([Stored(claim) EXCEPT !.version = v])
       \/ /\ "strategy" \in UserMay
          /\ \E s \in {"Automatic", "Manual"} : EditSpec([Stored(claim) EXCEPT !.strategy = s])
       \/ /\ "delete claim" \in UserMay
          /\ EditSpec([Stored(claim) EXCEPT !.phase = "deleting"])
       \/ /\ "adept" \in UserMay
          /\ Stored(claim).phase = "live"
          /\ \E v \in 1 .. newest : /\ v # Stored(claim).statusVersion
                                    /\ PutClaim([Stored(claim) EXCEPT !.statusVersion = v])
    /\ UNCHANGED <<revs, now, revisionVars, approvalVars, restarts>>

EditRevision ==
    /\ edits < MaxEdits /\ Len(revs) <= MaxLag
    /\ edits' = edits + 1
    /\ \E r \in DOMAIN Stored(revs) :
          \/ /\ "approve" \in UserMay
             /\ PutRevision(r, [at |-> now, by |-> "user"])
          \/ /\ "delete revision" \in UserMay
             /\ revs' = Written(revs, [q \in DOMAIN Stored(revs) \ {r} |-> Stored(revs)[q]])
    /\ UNCHANGED <<claim, rv, now, revisionVars, approvalVars, restarts>>

EditEnvironment ==
    /\ edits < MaxEdits
    /\ edits' = edits + 1
    /\ \/ "platform" \in UserMay /\ \E p \in Platform : ChangePlatform(p)
       \/ "publish" \in UserMay /\ PublishVersion
    /\ UNCHANGED <<approvalVars, restarts>>

\* The release controller has removed its finalizer.
ClaimGone ==
    /\ Stored(claim).phase = "deleting"
    /\ PutClaim([NoClaim EXCEPT !.uid = Stored(claim).uid])
    /\ UNCHANGED <<revs, now, revisionVars, approvalVars, boundVars>>

\* Kubernetes collects the revisions whose owner is gone.
GarbageCollect ==
    /\ Len(revs) <= MaxLag
    /\ \E r \in DOMAIN Stored(revs) :
          /\ r.uid # Stored(claim).uid \/ Stored(claim).phase = "absent"
          /\ revs' = Written(revs, [q \in DOMAIN Stored(revs) \ {r} |-> Stored(revs)[q]])
    /\ UNCHANGED <<claim, rv, now, revisionVars, approvalVars, boundVars>>

Fetch ==
    /\ \E v \in Version, d \in 2 .. MaxDigest : ArtifactReady(v, d)
    /\ UNCHANGED <<approvalVars, boundVars>>

Tick ==
    /\ now < MaxTime
    /\ now' = now + 1
    /\ UNCHANGED <<claim, revs, rv, revisionVars, approvalVars, boundVars>>

-----------------------------------------------------------------------------

Init ==
    /\ claim = Synced(NoClaim)
    /\ revs = Synced([r \in {} |-> Unapproved])
    /\ rv = 0
    /\ now = 1
    /\ newest \in {NoVersion, 1}     \* without and with version discovery
    /\ platform = CHOOSE p \in Platform : TRUE     \* they are alike
    /\ repos = [v \in Version |-> NoRepo]
    /\ revQueue = FALSE
    /\ revWork = RevIdle
    /\ apprQueue = FALSE
    /\ apprWork = ApprIdle
    /\ edits = 0
    /\ restarts = 0

Controllers ==
    \/ RevReconcile /\ UNCHANGED <<approvalVars, boundVars>>
    \/ ApprReconcile /\ UNCHANGED <<revisionVars, boundVars>>

Watches == DeliverClaim \/ DeliverRevision \/ Restart

Users == (\E v \in Values : CreateClaim(v)) \/ EditClaim \/ EditRevision \/ EditEnvironment

Cluster == ClaimGone \/ GarbageCollect \/ Fetch \/ Tick

Next == Controllers \/ Watches \/ Users \/ Cluster

Spec == Init /\ [][Next]_vars

RevStep(step) == step /\ UNCHANGED <<approvalVars, boundVars>>

\* The workers and the informers keep running, Flux finds an artifact, and a
\* call that is retried for ever succeeds at some point.  Users may stop.
FairSpec ==
    /\ Spec
    /\ WF_vars(RevStep(RevGet)) /\ WF_vars(RevStep(RevVersion)) /\ WF_vars(RevStep(RevFlush))
    /\ SF_vars(RevStep(RevResolve)) /\ SF_vars(RevStep(RevApply))
    /\ WF_vars(ApprReconcile /\ UNCHANGED <<revisionVars, boundVars>>)
    /\ WF_vars(DeliverClaim \/ DeliverRevision)
    /\ WF_vars(Fetch)

-----------------------------------------------------------------------------
(* Properties.                                                             *)

TypeOK ==
    /\ \A i \in 1 .. Len(claim) : claim[i] \in Claim
    /\ \A i \in 1 .. Len(revs) : /\ DOMAIN revs[i] \subseteq Revision
                                 /\ \A r \in DOMAIN revs[i] : revs[i][r] \in Approval
    /\ newest \in 0 .. MaxVersion
    /\ platform \in Platform
    /\ repos \in [Version -> Nat]
    /\ revWork = RevIdle \/ revWork \in RevWork
    /\ apprWork = ApprIdle \/ apprWork \in ApprWork
    /\ revQueue \in BOOLEAN /\ apprQueue \in BOOLEAN

\* status.latestRevision of a claim only ever changes to a revision of this very
\* claim made from the spec it has at that moment, and of the version that the
\* spec or else the status names: a reconcile that has read an older claim, or
\* one of the same name that is gone, cannot leave its result behind.
LatestIsOfThisSpec ==
    [][LET old == Stored(claim)
           new == Stored(claim)'
           named == resolveVersion(old, NoVersion)
       IN  new.latest \notin {old.latest, NoRevision} =>
              /\ new.latest.uid = old.uid
              /\ new.latest.values = old.values
              /\ named # NoVersion => new.latest.version = named]_vars

\* status.latestRevision names a revision that exists (as long as users do not
\* delete revisions), also while the garbage collector removes those of an
\* earlier claim of the same name, and across failed calls and restarts.
LatestExists ==
    LET c == Stored(claim)
    IN  c.phase = "live" /\ c.latest # NoRevision => c.latest \in DOMAIN Stored(revs)

\* No step takes an approval back or moves it into the past: the revision
\* controller applies the same revision over and over without touching it.
ApprovalsSurvive ==
    [][\A r \in DOMAIN Stored(revs) \cap DOMAIN Stored(revs)' :
          Stored(revs)[r].at <= Stored(revs)'[r].at]_vars

\* The status says of the claim as it is now what became of its values, and the
\* latest revision is the one the claim asks for.
StatusUpToDate(c) ==
    /\ c.observed = c.generation
    /\ c.resolved = (IF c.values \in Unresolvable THEN "False" ELSE "True")
    /\ c.values \notin Unresolvable =>
          /\ c.latest = RevisionFor(c, c.latest.version, platform)
          /\ resolveVersion(c, c.latest.version) = c.latest.version

\* When users stop, the status of a claim with a version to run comes to match
\* its spec, the platform values and the artifact, and stays so, whichever of
\* the watches reported what in which order and whatever was lost in a restart.
RevisionsConverge ==
    <>[](Stored(claim).phase = "live" /\ VersionFor(Stored(claim)) # NoVersion
            => StatusUpToDate(Stored(claim)))

\* When users stop, the latest revision of a claim with automatic approval is
\* approved, and none was approved later, unless a user has approved this
\* revision by hand (the apply at automatic_approval_controller.go:91 is not
\* forced, so such a revision cannot be approved again).
LatestGetsApproved ==
    <>[](LET c == Stored(claim)
         IN  /\ c.phase = "live" /\ c.strategy = "Automatic"
             /\ c.latest \in DOMAIN Stored(revs)
             /\ Stored(revs)[c.latest].by # "user"
             => /\ c.latest \in NewestFirst(c.uid, Stored(revs))
                /\ Stored(revs)[c.latest].at > 0)

\* "current is what keeps a managed instance still ... only a write to
\* status.version moves an instance" (revision_controller.go:84): a claim that
\* names no version stays on the one it runs.
VersionIsSticky ==
    [][LET old == Stored(claim)
           new == Stored(claim)'
       IN  /\ old.latest # NoRevision
           /\ new.latest \notin {old.latest, NoRevision}
           /\ resolveVersion(old, NoVersion) = NoVersion
           => new.latest.version = old.latest.version]_vars

\* "The most recent approved revision is deployed" (README.md:8): once things
\* have come to rest, the controllers that sort the revisions agree which of
\* them was approved last.
LatestIsUnambiguous ==
    <>[](LET c == Stored(claim)
         IN  /\ c.phase = "live" /\ c.strategy = "Automatic"
             /\ c.latest \in DOMAIN Stored(revs)
             => NewestFirst(c.uid, Stored(revs)) = {c.latest})
=============================================================================
