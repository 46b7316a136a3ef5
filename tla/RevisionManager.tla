--------------------------- MODULE RevisionManager ---------------------------
(***************************************************************************)
(* RevisionManager (controllers/revision_controller.go): it turns a claim  *)
(* into a ClaimRevision and records the revision on the claim's status.    *)
(* A reconcile reads the claim, then what its version and values are made  *)
(* of, then the artifact, makes the revision and writes the status: calls  *)
(* each of which sees whatever others have done in the meantime.           *)
(***************************************************************************)
EXTENDS ClaimApi

CONSTANT Unresolvable   \* values on which a cel: expression of the chart fails

VARIABLES
    newest,     \* first entry of the spec.version enum of the claim's CRD
    platform,   \* what platformValues merges
    repos,      \* the OCIRepository of each version, as the cache shows it
    revQueue,   \* the claim is on the workqueue
    revWork     \* the reconcile in progress

revisionVars == <<newest, platform, repos, revQueue, revWork>>

-----------------------------------------------------------------------------

\* An OCIRepository does not exist, has no artifact yet, or is Ready with an
\* artifact, the digest of which is a number from 2 on.
NoRepo == 0
Fetching == 1

RevWork == [stage : {"idle", "got", "repo", "apply", "flush"},
            snap : Claim,       \* the claim as read, for its resource version
            claim : Claim,      \* the claim in memory, edited until flushed
            version : Version \cup {NoVersion},    \* the version to build and
            platform : Platform]                  \* platform values, as read

RevIdle == [stage |-> "idle"]

-----------------------------------------------------------------------------
(* The version and the revision a claim asks for.                          *)

resolveVersion(c, current) ==
    IF c.version # NoVersion THEN c.version
    ELSE IF c.statusVersion # NoVersion THEN c.statusVersion
    ELSE current

\* What the instance is running: nothing, if the revision is not in the cache.
currentVersion(c) ==
    IF c.latest \in DOMAIN Cached(revs) THEN c.latest.version ELSE NoVersion

\* The version to build, NoVersion if the schema has none to fall back to.
VersionFor(c) ==
    LET version == resolveVersion(c, currentVersion(c))
    IN  IF version # NoVersion THEN version ELSE newest

\* Mutant: the version in the spec instead of the resolved one.
RevisionForSpecVersion(c, version, p) ==
    [uid |-> c.uid, version |-> c.version, digest |-> repos[version],
     values |-> c.values, platform |-> p]

RevisionFor(c, version, p) ==
    [uid |-> c.uid, version |-> version, digest |-> repos[version],
     values |-> c.values, platform |-> p]

\* The OCIRepositories once there is one for this version.
ensureOCIRepository(version) ==
    [repos EXCEPT ![version] = IF @ = NoRepo THEN Fetching ELSE @]

\* recordValuesResolved: the condition and its observed generation.
recordValuesResolved(c, outcome) ==
    [c EXCEPT !.resolved = outcome, !.observed = c.generation]

-----------------------------------------------------------------------------
(* Reconcile.                                                              *)

\* Get the claim; one that is gone or being deleted is left alone.
RevGet ==
    /\ revQueue
    /\ revWork.stage = "idle"
    /\ revQueue' = FALSE
    /\ revWork' = IF Cached(claim).phase = "live"
                  THEN [stage |-> "got", snap |-> Cached(claim), claim |-> Cached(claim),
                        version |-> NoVersion, platform |-> platform]
                  ELSE RevIdle
    /\ UNCHANGED <<apiVars, newest, platform, repos>>

\* Read the version and the platform values from the caches.  Without a version
\* the reconcile fails and is retried.
RevVersion ==
    /\ revWork.stage = "got"
    /\ \/ /\ VersionFor(revWork.claim) = NoVersion
          /\ revQueue' = TRUE
          /\ revWork' = RevIdle
       \/ /\ VersionFor(revWork.claim) # NoVersion
          /\ revWork' = [revWork EXCEPT !.stage = "repo", !.platform = platform,
                                        !.version = VersionFor(revWork.claim)]
          /\ UNCHANGED revQueue
    /\ UNCHANGED <<apiVars, newest, platform, repos>>

ChartThere == repos[revWork.version] \notin {NoRepo, Fetching}

\* Ensure the OCIRepository of the version and resolve the values.
\*  - without an artifact the reconcile ends, the OCIRepository's event starts
\*    another;
\*  - with values that do not resolve it only records that.
RevResolve ==
    LET c == revWork.claim
    IN  /\ revWork.stage = "repo"
        /\ repos' = ensureOCIRepository(revWork.version)
        /\ \/ /\ ~ChartThere
              /\ revWork' = RevIdle
           \/ /\ ChartThere
              /\ c.values \notin Unresolvable
              /\ revWork' = [revWork EXCEPT !.stage = "apply",
                               !.claim = [recordValuesResolved(c, "True") EXCEPT !.latest =
                                            RevisionFor(c, revWork.version, revWork.platform)]]
           \/ /\ ChartThere
              /\ c.values \in Unresolvable
              /\ revWork' = [revWork EXCEPT !.stage = "flush",
                               !.claim = recordValuesResolved(c, "False")]
        /\ UNCHANGED <<apiVars, newest, platform, revQueue>>

\* The chart cannot be fetched: the reconcile fails and is retried.
RevFetchFails ==
    /\ revWork.stage = "repo"
    /\ ChartThere
    /\ revQueue' = TRUE
    /\ revWork' = RevIdle
    /\ UNCHANGED <<apiVars, newest, platform, repos>>

\* Mutant: the revision is written as a whole, approvedAt with it.
RevApplyReplaces ==
    /\ revWork.stage = "apply"
    /\ PutRevision(revWork.claim.latest, Unapproved)
    /\ revWork' = [revWork EXCEPT !.stage = "flush"]
    /\ UNCHANGED <<claim, rv, now, newest, platform, repos, revQueue>>

\* Server-side apply of the revision.  It does not mention approvedAt, which
\* stays as it is if the revision exists.
RevApply ==
    LET r == revWork.claim.latest
    IN  /\ revWork.stage = "apply"
        /\ PutRevision(r, IF r \in DOMAIN Stored(revs) THEN Stored(revs)[r] ELSE Unapproved)
        /\ revWork' = [revWork EXCEPT !.stage = "flush"]
        /\ UNCHANGED <<claim, rv, now, newest, platform, repos, revQueue>>

\* Mutant: the error is logged and the reconcile goes on.
RevApplyFailsUnnoticed ==
    /\ revWork.stage = "apply"
    /\ revWork' = [revWork EXCEPT !.stage = "flush"]
    /\ UNCHANGED <<apiVars, newest, platform, repos, revQueue>>

\* The API server refuses or never answers: the reconcile fails and is retried.
RevApplyFails ==
    /\ revWork.stage = "apply"
    /\ revQueue' = TRUE
    /\ revWork' = RevIdle
    /\ UNCHANGED <<apiVars, newest, platform, repos>>

\* Mutant: the status is patched without a resource version.
RevFlushBlindly ==
    LET c == revWork.claim
        stored == Stored(claim)
    IN  /\ revWork.stage = "flush"
        /\ IF Status(c) = Status(revWork.snap) \/ stored.phase = "absent"
           THEN UNCHANGED <<claim, rv>>
           ELSE PutClaim([stored EXCEPT !.latest = c.latest, !.resolved = c.resolved,
                                        !.observed = c.observed])
        /\ revQueue' = (revQueue \/ c.resolved = "False")
        /\ revWork' = RevIdle
        /\ UNCHANGED <<revs, now, newest, platform, repos>>

\* flushClaimStatus: nothing is written if the status is as it was read, and the
\* write is refused if the claim is not.  Values that did not resolve fail the
\* reconcile in any case.
RevFlush ==
    LET c == revWork.claim
        unchanged == Status(c) = Status(revWork.snap)
        refused == ~unchanged /\ Stored(claim).rv # revWork.snap.rv
    IN  /\ revWork.stage = "flush"
        /\ IF unchanged \/ refused THEN UNCHANGED <<claim, rv>> ELSE PutClaim(c)
        /\ revQueue' = (revQueue \/ refused \/ c.resolved = "False")
        /\ revWork' = RevIdle
        /\ UNCHANGED <<revs, now, newest, platform, repos>>

RevReconcile ==
    \/ RevGet
    \/ RevVersion
    \/ RevResolve \/ RevFetchFails
    \/ RevApply \/ RevApplyFails
    \/ RevFlush

-----------------------------------------------------------------------------
(* What happens around the controller.                                     *)

\* Flux finds the artifact of a version, or a new one under a moved tag.  The
\* OCIRepository is owned by the claim, its event enqueues the claim.
ArtifactReady(v, digest) ==
    /\ repos[v] # NoRepo
    /\ digest > repos[v]
    /\ repos' = [repos EXCEPT ![v] = digest]
    /\ revQueue' = TRUE
    /\ UNCHANGED <<apiVars, newest, platform, revWork>>

\* The ClaimDefinition controller writes a newer version onto the CRD, which
\* this controller does not watch.
PublishVersion ==
    /\ newest < MaxVersion
    /\ newest' = newest + 1
    /\ UNCHANGED <<apiVars, platform, repos, revQueue, revWork>>

\* Mutant: nobody watches the config maps.
ChangePlatformUnseen(p) ==
    /\ p # platform
    /\ platform' = p
    /\ UNCHANGED <<apiVars, newest, repos, revQueue, revWork>>

\* A platform config map changes: every claim in the cache is enqueued.
ChangePlatform(p) ==
    /\ p # platform
    /\ platform' = p
    /\ revQueue' = (revQueue \/ Cached(claim).phase # "absent")
    /\ UNCHANGED <<apiVars, newest, repos, revWork>>
=============================================================================
