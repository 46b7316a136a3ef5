------------------------ MODULE ClaimRevisionsProofs ------------------------
(***************************************************************************)
(* Proofs about ClaimRevisions: what the resource version of the claim     *)
(* protects the status from, and what the order of the two writes of a     *)
(* reconcile, first the revision and then the status, guarantees.          *)
(***************************************************************************)
EXTENDS ClaimRevisions, ClaimApiProofs, TLAPS

-----------------------------------------------------------------------------
(* Types.                                                                  *)

\* TypeOK, with windows that are never empty.
Typed ==
    /\ ApiTyped
    /\ newest \in Version \cup {NoVersion}
    /\ platform \in Platform
    /\ repos \in [Version -> Nat]
    /\ revWork = RevIdle \/ revWork \in RevWork
    /\ apprWork = ApprIdle \/ apprWork \in ApprWork
    /\ revQueue \in BOOLEAN /\ apprQueue \in BOOLEAN

\* A reconcile in progress has its type.
LEMMA WorkTyped ==
    ASSUME Typed
    PROVE  /\ revWork.stage # "idle" => revWork \in RevWork
           /\ apprWork.stage # "idle" => apprWork \in ApprWork
  BY DEF Typed, RevIdle, ApprIdle

LEMMA VersionTyped ==
    ASSUME Typed, NEW c \in Claim
    PROVE  VersionFor(c) \in Version \cup {NoVersion}
  <1>1. c.version \in Version \cup {NoVersion} /\ c.statusVersion \in Version \cup {NoVersion}
    BY DEF Claim
  <1>2. currentVersion(c) \in Version \cup {NoVersion}
    <2>1. \A r \in DOMAIN Cached(revs) : r \in Revision
      BY ApiEnds, ApprovalsType DEF Typed
    <2> QED
      BY <2>1 DEF currentVersion, Revision
  <1> QED
    BY <1>1, <1>2 DEF VersionFor, resolveVersion, Typed

LEMMA RevisionTyped ==
    ASSUME Typed, NEW c \in Claim, c.values \in Values,
           NEW version \in Version, NEW p \in Platform
    PROVE  RevisionFor(c, version, p) \in Revision
  BY DEF RevisionFor, Revision, Claim, Typed

\* The status that a reconcile computes.
LEMMA RecordTyped ==
    ASSUME NEW c \in Claim, NEW r \in Revision, NEW outcome \in {"True", "False"}
    PROVE  /\ recordValuesResolved(c, outcome) \in Claim
           /\ [recordValuesResolved(c, outcome) EXCEPT !.latest = r] \in Claim
  BY DEF recordValuesResolved, Claim

-----------------------------------------------------------------------------
(* The invariant.                                                          *)

\* The API server gives every write of the claim a resource version of its own:
\* a claim that was read and still has the current one is the claim as it is.
CurrentIfSameVersion(c) == c.rv <= rv /\ (c.rv = rv => c = Stored(claim))

\* What holds of the claim at all times, so also of an old copy of it.
WellFormed(c) ==
    /\ c.phase = "live" => c.values \in Values
    /\ c.latest # NoRevision => c.latest.uid = c.uid

ClaimSide ==
    /\ Stored(claim).rv = rv
    /\ \A c \in States(claim) : CurrentIfSameVersion(c) /\ WellFormed(c)

\* The revisions that the spec of a claim, or else its status.version, asks for.
MadeFrom(c) ==
    {r \in Revision : /\ r.uid = c.uid
                      /\ r.values = c.values
                      /\ resolveVersion(c, NoVersion) # NoVersion =>
                            r.version = resolveVersion(c, NoVersion)}

\* The reconcile in progress has read a live claim, of which it edits the status
\* alone.
SnapSide ==
    revWork.stage # "idle" =>
        LET s == revWork.snap
            c == revWork.claim
        IN  /\ s.phase = "live"
            /\ CurrentIfSameVersion(s)
            /\ WellFormed(s)
            /\ c.phase = s.phase /\ c.uid = s.uid /\ c.values = s.values
            /\ c.version = s.version /\ c.statusVersion = s.statusVersion

\* What it has made of that claim is a revision of this claim, for its spec.
WorkSide ==
    LET s == revWork.snap
        c == revWork.claim
    IN  /\ revWork.stage \in {"got", "repo"} => c.latest = s.latest
        /\ revWork.stage = "repo" =>
              /\ revWork.version # NoVersion
              /\ resolveVersion(c, NoVersion) # NoVersion =>
                    revWork.version = resolveVersion(c, NoVersion)
        /\ revWork.stage = "apply" => c.latest \in MadeFrom(s)
        /\ revWork.stage = "flush" => c.latest \in MadeFrom(s) \cup {s.latest}

\* A revision is there before the claim's status names it.
RevisionIsMade ==
    revWork.stage = "flush" /\ revWork.snap.rv = rv /\ revWork.claim.latest # NoRevision
        => revWork.claim.latest \in DOMAIN Stored(revs)

\* No approval is dated after the clock.
ApprovedByNow == \A r \in DOMAIN Stored(revs) : Stored(revs)[r].at <= now

IInv == Typed /\ ClaimSide /\ SnapSide /\ WorkSide

-----------------------------------------------------------------------------
(* What every step does to the claim.                                      *)

\* What users and Kubernetes write: a claim without a revision, or the live
\* claim with another spec or status.version.
OthersWrite ==
    {c \in Claim :
        \/ /\ c.latest = NoRevision
           /\ c.phase = "live" => c.values \in Values
        \/ /\ Stored(claim).phase = "live"
           /\ c.latest = Stored(claim).latest
           /\ c.uid = Stored(claim).uid
           /\ c.values \in Values \cup {Stored(claim).values}}

LEMMA CreateEffect ==
    ASSUME Typed, NEW v \in Values, CreateClaim(v)
    PROVE  \E c \in OthersWrite : PutClaim(c)
  <1> DEFINE c == [NoClaim EXCEPT !.phase = "live", !.uid = Stored(claim).uid + 1,
                                  !.values = v, !.generation = 1]
  <1>1. Stored(claim).uid + 1 \in Nat
    BY ApiEnds DEF Typed, Claim
  <1>2. c \in Claim
    BY <1>1, NoClaimType DEF Claim
  <1>3. c.latest = NoRevision /\ c.values = v
    BY DEF NoClaim
  <1>4. PutClaim(c)
    BY DEF CreateClaim
  <1> HIDE DEF c
  <1> QED
    BY <1>2, <1>3, <1>4 DEF OthersWrite

LEMMA GoneEffect ==
    ASSUME Typed, ClaimGone
    PROVE  \E c \in OthersWrite : PutClaim(c)
  <1> DEFINE c == [NoClaim EXCEPT !.uid = Stored(claim).uid]
  <1>1. Stored(claim).uid \in Nat
    BY ApiEnds DEF Typed, Claim
  <1>2. c \in Claim
    BY <1>1, NoClaimType DEF Claim
  <1>3. c.latest = NoRevision /\ c.phase = "absent"
    BY DEF NoClaim
  <1>4. PutClaim(c)
    BY DEF ClaimGone
  <1> HIDE DEF c
  <1> QED
    BY <1>2, <1>3, <1>4 DEF OthersWrite

LEMMA EditSpecEffect ==
    ASSUME Typed, NEW c \in Claim, c.values \in Values \cup {Stored(claim).values},
           c.latest = Stored(claim).latest, c.uid = Stored(claim).uid, EditSpec(c)
    PROVE  \E d \in OthersWrite : PutClaim(d)
  <1> DEFINE d == [c EXCEPT !.generation = @ + 1]
  <1>1. d \in Claim
    BY DEF Claim
  <1>2. d.latest = c.latest /\ d.uid = c.uid /\ d.values = c.values
    BY DEF Claim
  <1>3. PutClaim(d) /\ Stored(claim).phase = "live"
    BY DEF EditSpec
  <1> HIDE DEF d
  <1> QED
    BY <1>1, <1>2, <1>3 DEF OthersWrite

LEMMA EditEffect ==
    ASSUME Typed, EditClaim
    PROVE  \E c \in OthersWrite : PutClaim(c)
  <1> DEFINE s == Stored(claim)
  <1>1. s \in Claim
    BY ApiEnds DEF Typed
  <1>2. \A n \in 0 .. newest : n \in Version \cup {NoVersion}
    BY VersionAssumption DEF Typed, Version, NoVersion
  <1>3. \A n \in 1 .. newest : n \in Version \cup {NoVersion}
    BY VersionAssumption DEF Typed, Version, NoVersion
  <1> HIDE DEF s
  <1>4. ASSUME NEW v \in Values, EditSpec([s EXCEPT !.values = v])
        PROVE  \E c \in OthersWrite : PutClaim(c)
    <2> DEFINE c == [s EXCEPT !.values = v]
    <2>1. c \in Claim /\ c.latest = s.latest /\ c.uid = s.uid /\ c.values = v
      BY <1>1 DEF Claim
    <2>2. EditSpec(c)
      BY <1>4
    <2> HIDE DEF c
    <2> QED
      BY <2>1, <2>2, EditSpecEffect DEF s
  <1>5. ASSUME NEW v \in 0 .. newest, EditSpec([s EXCEPT !.version = v])
        PROVE  \E c \in OthersWrite : PutClaim(c)
    <2> DEFINE c == [s EXCEPT !.version = v]
    <2>1. c \in Claim /\ c.latest = s.latest /\ c.uid = s.uid /\ c.values = s.values
      BY <1>1, <1>2 DEF Claim
    <2>2. EditSpec(c)
      BY <1>5
    <2> HIDE DEF c
    <2> QED
      BY <2>1, <2>2, EditSpecEffect DEF s
  <1>6. ASSUME NEW v \in {"Automatic", "Manual"}, EditSpec([s EXCEPT !.strategy = v])
        PROVE  \E c \in OthersWrite : PutClaim(c)
    <2> DEFINE c == [s EXCEPT !.strategy = v]
    <2>1. c \in Claim /\ c.latest = s.latest /\ c.uid = s.uid /\ c.values = s.values
      BY <1>1 DEF Claim
    <2>2. EditSpec(c)
      BY <1>6
    <2> HIDE DEF c
    <2> QED
      BY <2>1, <2>2, EditSpecEffect DEF s
  <1>7. ASSUME EditSpec([s EXCEPT !.phase = "deleting"])
        PROVE  \E c \in OthersWrite : PutClaim(c)
    <2> DEFINE c == [s EXCEPT !.phase = "deleting"]
    <2>1. c \in Claim /\ c.latest = s.latest /\ c.uid = s.uid /\ c.values = s.values
      BY <1>1 DEF Claim
    <2>2. EditSpec(c)
      BY <1>7
    <2> HIDE DEF c
    <2> QED
      BY <2>1, <2>2, EditSpecEffect DEF s
  <1>8. ASSUME NEW v \in 1 .. newest, s.phase = "live", PutClaim([s EXCEPT !.statusVersion = v])
        PROVE  \E c \in OthersWrite : PutClaim(c)
    <2> DEFINE c == [s EXCEPT !.statusVersion = v]
    <2>1. c \in Claim /\ c.latest = s.latest /\ c.uid = s.uid /\ c.values = s.values
      BY <1>1, <1>3 DEF Claim
    <2>2. PutClaim(c)
      BY <1>8
    <2> HIDE DEF c
    <2> QED
      BY <1>8, <2>1, <2>2 DEF s, OthersWrite
  <1> QED
    BY <1>4, <1>5, <1>6, <1>7, <1>8 DEF EditClaim, s

\* A write of users or of Kubernetes leaves everything else alone.
LEMMA OthersEffect ==
    ASSUME Typed, (\E v \in Values : CreateClaim(v)) \/ EditClaim \/ ClaimGone
    PROVE  /\ \E c \in OthersWrite : PutClaim(c)
           /\ UNCHANGED <<revs, now, revisionVars, approvalVars>>
  <1>1. UNCHANGED <<revs, now, revisionVars, approvalVars>>
    BY DEF CreateClaim, EditClaim, ClaimGone
  <1> QED
    BY <1>1, CreateEffect, EditEffect, GoneEffect

\* The claim in the API server stays what it is.
ClaimKept ==
    /\ claim' \in Seq(Claim) /\ claim' # <<>>
    /\ rv' = rv
    /\ Stored(claim') = Stored(claim)
    /\ States(claim') \subseteq States(claim)

LEMMA KeptIfUnchanged ==
    ASSUME Typed, UNCHANGED <<claim, rv>>
    PROVE  ClaimKept
  BY DEF ClaimKept, Typed, ApiTyped

\* The status that a reconcile writes goes onto the claim it has read.
FlushesStatus ==
    /\ revWork.stage = "flush"
    /\ Stored(claim).rv = revWork.snap.rv
    /\ PutClaim(revWork.claim)
    /\ revWork' = RevIdle
    /\ UNCHANGED revs

LEMMA FlushEffect ==
    ASSUME Typed, RevFlush
    PROVE  /\ ClaimKept \/ FlushesStatus
           /\ revWork.stage = "flush" /\ revWork' = RevIdle /\ UNCHANGED revs
  <1>1. revWork.stage = "flush" /\ revWork' = RevIdle /\ UNCHANGED revs
    BY DEF RevFlush
  <1>2. \/ UNCHANGED <<claim, rv>>
        \/ PutClaim(revWork.claim) /\ Stored(claim).rv = revWork.snap.rv
    BY DEF RevFlush
  <1> QED
    BY <1>1, <1>2, KeptIfUnchanged DEF FlushesStatus

LEMMA WatchEffect ==
    ASSUME Typed, Watches
    PROVE  /\ ClaimKept
           /\ Stored(revs') = Stored(revs) /\ revs' \in Seq(Approvals) /\ revs' # <<>>
           /\ revWork' \in {revWork, RevIdle}
           /\ UNCHANGED now
  <1>1. CASE DeliverClaim
    BY <1>1, DeliverClaimWindow DEF DeliverClaim, ClaimKept, Typed, ApiTyped
  <1>2. CASE DeliverRevision
    BY <1>2, DeliverRevisionWindow, KeptIfUnchanged DEF DeliverRevision, Typed, ApiTyped
  <1>3. CASE Restart
    <2>1. Stored(claim) \in States(claim)
      BY ApiEnds DEF Typed
    <2> QED
      BY <1>3, <2>1, RelistWindows DEF Restart, ClaimKept, Typed, ApiTyped
  <1> QED
    BY <1>1, <1>2, <1>3 DEF Watches

\* Every other step.
LEMMA RestKeepsClaim ==
    ASSUME Typed,
           \/ RevGet \/ RevVersion \/ RevResolve \/ RevFetchFails \/ RevApply \/ RevApplyFails
           \/ ApprReconcile \/ EditRevision \/ EditEnvironment
           \/ GarbageCollect \/ Fetch \/ Tick \/ UNCHANGED vars
    PROVE  ClaimKept
  <1>1. UNCHANGED <<claim, rv>>
    BY DEF RevGet, RevVersion, RevResolve, RevFetchFails, RevApply, RevApplyFails,
           ApprReconcile, ApprGet, ApprApprove, EditRevision, EditEnvironment, ChangePlatform,
           PublishVersion, GarbageCollect, Fetch, ArtifactReady, Tick, vars, apiVars
  <1> QED
    BY <1>1, KeptIfUnchanged

\* So the claim is left alone, or written by others, or by a reconcile.
LEMMA ClaimMoves ==
    ASSUME Typed, [Next]_vars
    PROVE  \/ ClaimKept
           \/ /\ \E c \in OthersWrite : PutClaim(c)
              /\ UNCHANGED <<revs, revWork>>
           \/ FlushesStatus
  <1>1. CASE RevFlush
    BY <1>1, FlushEffect
  <1>2. CASE (\E v \in Values : CreateClaim(v)) \/ EditClaim \/ ClaimGone
    BY <1>2, OthersEffect DEF revisionVars
  <1>3. CASE Watches
    BY <1>3, WatchEffect
  <1> QED
    BY <1>1, <1>2, <1>3, RestKeepsClaim DEF Next, Controllers, RevReconcile, Users, Cluster

-----------------------------------------------------------------------------
(* The invariant holds of the claim.                                       *)

LEMMA PutKeepsClaimSide ==
    ASSUME Typed, ClaimSide, NEW c \in Claim, WellFormed(c), PutClaim(c)
    PROVE  ClaimSide'
  <1> DEFINE d == [c EXCEPT !.rv = rv + 1]
  <1>1. d.rv = rv + 1 /\ d.phase = c.phase /\ d.values = c.values /\ d.latest = c.latest /\ d.uid = c.uid
    BY DEF Claim
  <1>2. Stored(claim') = d /\ rv' = rv + 1 /\ States(claim') = States(claim) \cup {d}
    BY PutClaimWindow DEF Typed
  <1>3. rv \in Nat
    BY DEF Typed, ApiTyped
  <1> HIDE DEF d
  <1>4. \A s \in States(claim) : s.rv \in Nat
    BY ApiEnds DEF Typed, Claim
  <1>5. \A s \in States(claim) : s.rv <= rv + 1 /\ s.rv # rv + 1
    BY <1>3, <1>4 DEF ClaimSide, CurrentIfSameVersion
  <1>6. \A s \in States(claim) : WellFormed(s)
    BY DEF ClaimSide
  <1>7. WellFormed(d)
    BY <1>1 DEF WellFormed
  <1>8. \A s \in States(claim') : s.rv <= rv' /\ (s.rv = rv' => s = Stored(claim'))
    BY <1>1, <1>2, <1>3, <1>5
  <1>9. \A s \in States(claim') : WellFormed(s)
    BY <1>2, <1>6, <1>7
  <1>10. Stored(claim').rv = rv'
    BY <1>1, <1>2
  <1> QED
    BY <1>8, <1>9, <1>10 DEF ClaimSide, CurrentIfSameVersion, WellFormed

\* What users write is well-formed if the claim was.
LEMMA OthersWellFormed ==
    ASSUME Typed, ClaimSide, NEW c \in OthersWrite
    PROVE  c \in Claim /\ WellFormed(c)
  <1>1. WellFormed(Stored(claim))
    BY ApiEnds DEF ClaimSide, Typed
  <1>2. c.phase = "live" => c.values \in Values
    BY <1>1 DEF OthersWrite, WellFormed
  <1> QED
    BY <1>1 DEF OthersWrite, WellFormed

\* What a reconcile writes is well-formed if what it has read was.
LEMMA FlushWellFormed ==
    ASSUME IInv, revWork.stage = "flush"
    PROVE  revWork.claim \in Claim /\ WellFormed(revWork.claim)
  <1>1. revWork.claim \in Claim
    BY WorkTyped DEF IInv, RevWork
  <1>2. revWork.claim.latest \in MadeFrom(revWork.snap) \cup {revWork.snap.latest}
    BY DEF IInv, WorkSide
  <1>3. /\ revWork.claim.uid = revWork.snap.uid /\ revWork.claim.values = revWork.snap.values
        /\ revWork.snap.phase = "live"
        /\ WellFormed(revWork.snap)
    BY DEF IInv, SnapSide
  <1> QED
    BY <1>1, <1>2, <1>3 DEF WellFormed, MadeFrom

LEMMA ClaimSideStep == IInv /\ [Next]_vars => ClaimSide'
  <1> SUFFICES ASSUME IInv, [Next]_vars PROVE ClaimSide'
    OBVIOUS
  <1>1. Typed /\ ClaimSide
    BY DEF IInv
  <1>2. CASE ClaimKept
    BY <1>1, <1>2 DEF ClaimKept, ClaimSide, CurrentIfSameVersion, WellFormed
  <1>3. CASE \E c \in OthersWrite : PutClaim(c)
    BY <1>1, <1>3, OthersWellFormed, PutKeepsClaimSide
  <1>4. CASE FlushesStatus
    BY <1>1, <1>4, FlushWellFormed, PutKeepsClaimSide DEF FlushesStatus
  <1> QED
    BY <1>1, <1>2, <1>3, <1>4, ClaimMoves

-----------------------------------------------------------------------------
(* The invariant holds of the reconcile in progress.                       *)

\* The steps that take a reconcile from one stage to the next.
Advance == RevGet \/ RevVersion \/ RevResolve \/ RevApply

LEMMA WorkMoves ==
    ASSUME Typed, [Next]_vars
    PROVE  revWork' \in {revWork, RevIdle} \/ Advance
  <1>1. CASE RevFetchFails \/ RevApplyFails \/ RevFlush
    BY <1>1 DEF RevFetchFails, RevApplyFails, RevFlush
  <1>2. CASE ApprReconcile /\ UNCHANGED <<revisionVars, boundVars>>
    BY <1>2 DEF revisionVars
  <1>3. CASE Watches
    BY <1>3, WatchEffect
  <1>4. CASE Users
    BY <1>4 DEF Users, CreateClaim, EditClaim, EditRevision, EditEnvironment, ChangePlatform,
                PublishVersion, revisionVars
  <1>5. CASE Cluster
    BY <1>5 DEF Cluster, ClaimGone, GarbageCollect, Fetch, ArtifactReady, Tick, revisionVars
  <1>6. CASE UNCHANGED vars
    BY <1>6 DEF vars, revisionVars
  <1> QED
    BY <1>1, <1>2, <1>3, <1>4, <1>5, <1>6 DEF Next, Controllers, RevReconcile, Advance

\* What each of these steps makes of the reconcile.
LEMMA GetEffect ==
    ASSUME Typed, RevGet
    PROVE  \/ revWork' = RevIdle
           \/ /\ revWork' = [stage |-> "got", snap |-> Cached(claim), claim |-> Cached(claim),
                             version |-> NoVersion, platform |-> platform]
              /\ revWork'.stage = "got"
              /\ Cached(claim).phase = "live"
  BY DEF RevGet

LEMMA VersionEffect ==
    ASSUME Typed, RevVersion
    PROVE  \/ revWork' = RevIdle
           \/ /\ revWork.stage = "got"
              /\ revWork'.stage = "repo"
              /\ revWork'.snap = revWork.snap /\ revWork'.claim = revWork.claim
              /\ revWork'.version = VersionFor(revWork.claim)
              /\ revWork'.version # NoVersion
              /\ revWork' \in RevWork
  <1>1. revWork.stage = "got" /\ revWork \in RevWork
    BY WorkTyped DEF RevVersion
  <1>2. revWork.claim \in Claim
    BY <1>1 DEF RevWork
  <1>3. VersionFor(revWork.claim) \in Version \cup {NoVersion} /\ platform \in Platform
    BY <1>2, VersionTyped DEF Typed
  <1>4. CASE revWork' # RevIdle
    <2>1. /\ VersionFor(revWork.claim) # NoVersion
          /\ revWork' = [revWork EXCEPT !.stage = "repo", !.platform = platform,
                                        !.version = VersionFor(revWork.claim)]
      BY <1>4 DEF RevVersion
    <2> QED
      BY <1>1, <1>3, <2>1 DEF RevWork
  <1> QED
    BY <1>4

LEMMA ApplyEffect ==
    ASSUME Typed, RevApply
    PROVE  /\ revWork.stage = "apply" /\ revWork'.stage = "flush"
           /\ revWork'.snap = revWork.snap /\ revWork'.claim = revWork.claim
           /\ revWork' \in RevWork
  <1>1. revWork.stage = "apply" /\ revWork \in RevWork
    BY WorkTyped DEF RevApply
  <1>2. revWork' = [revWork EXCEPT !.stage = "flush"]
    BY DEF RevApply
  <1> QED
    BY <1>1, <1>2 DEF RevWork

\* The revision that a reconcile makes is one for the claim it has read.
LEMMA ResolveEffect ==
    ASSUME IInv, RevResolve
    PROVE  \/ revWork' = RevIdle
           \/ /\ revWork.stage = "repo"
              /\ revWork'.stage \in {"apply", "flush"}
              /\ revWork'.snap = revWork.snap
              /\ revWork'.claim.phase = revWork.claim.phase
              /\ revWork'.claim.uid = revWork.claim.uid
              /\ revWork'.claim.values = revWork.claim.values
              /\ revWork'.claim.version = revWork.claim.version
              /\ revWork'.claim.statusVersion = revWork.claim.statusVersion
              /\ revWork'.stage = "apply" => revWork'.claim.latest \in MadeFrom(revWork.snap)
              /\ revWork'.stage = "flush" => revWork'.claim.latest = revWork.snap.latest
              /\ revWork' \in RevWork
  <1> DEFINE c == revWork.claim
             r == RevisionFor(c, revWork.version, revWork.platform)
  <1>1. Typed /\ revWork.stage = "repo" /\ revWork \in RevWork
    BY WorkTyped DEF RevResolve, IInv
  <1>2. c \in Claim /\ revWork.version \in Version /\ revWork.platform \in Platform
    BY <1>1 DEF RevWork, IInv, WorkSide
  <1>3. /\ c.uid = revWork.snap.uid /\ c.values = revWork.snap.values
        /\ c.version = revWork.snap.version /\ c.statusVersion = revWork.snap.statusVersion
        /\ revWork.snap.phase = "live" /\ WellFormed(revWork.snap)
    BY <1>1 DEF IInv, SnapSide
  <1>4. /\ c.latest = revWork.snap.latest
        /\ resolveVersion(c, NoVersion) # NoVersion => revWork.version = resolveVersion(c, NoVersion)
    BY <1>1 DEF IInv, WorkSide
  <1>5. r \in Revision
    BY <1>1, <1>2, <1>3, RevisionTyped DEF WellFormed
  <1>6. r.uid = c.uid /\ r.values = c.values /\ r.version = revWork.version
    BY DEF RevisionFor
  <1> HIDE DEF r
  <1>7. resolveVersion(revWork.snap, NoVersion) = resolveVersion(c, NoVersion)
    BY <1>3 DEF resolveVersion
  <1>8. r \in MadeFrom(revWork.snap)
    BY <1>3, <1>4, <1>5, <1>6, <1>7 DEF MadeFrom
  <1>9. CASE revWork' = [revWork EXCEPT !.stage = "apply",
                           !.claim = [recordValuesResolved(c, "True") EXCEPT !.latest = r]]
    <2> DEFINE d == [recordValuesResolved(c, "True") EXCEPT !.latest = r]
    <2>1. d \in Claim
      BY <1>2, <1>5, RecordTyped
    <2>2. /\ d.phase = c.phase /\ d.uid = c.uid /\ d.values = c.values /\ d.version = c.version
          /\ d.statusVersion = c.statusVersion /\ d.latest = r
      BY <1>2 DEF recordValuesResolved, Claim
    <2> HIDE DEF d
    <2>3. /\ revWork'.stage = "apply" /\ revWork'.snap = revWork.snap /\ revWork'.claim = d
          /\ revWork' \in RevWork
      BY <1>1, <1>9, <2>1 DEF RevWork, d
    <2> QED
      BY <1>1, <1>8, <2>2, <2>3
  <1>10. CASE revWork' = [revWork EXCEPT !.stage = "flush", !.claim = recordValuesResolved(c, "False")]
    <2> DEFINE d == recordValuesResolved(c, "False")
    <2>1. d \in Claim
      BY <1>2, <1>5, RecordTyped
    <2>2. /\ d.phase = c.phase /\ d.uid = c.uid /\ d.values = c.values /\ d.version = c.version
          /\ d.statusVersion = c.statusVersion /\ d.latest = c.latest
      BY <1>2 DEF recordValuesResolved, Claim
    <2> HIDE DEF d
    <2>3. /\ revWork'.stage = "flush" /\ revWork'.snap = revWork.snap /\ revWork'.claim = d
          /\ revWork' \in RevWork
      BY <1>1, <1>10, <2>1 DEF RevWork, d
    <2> QED
      BY <1>1, <1>4, <2>2, <2>3
  <1> QED
    BY <1>9, <1>10 DEF RevResolve, r

\* A claim that was current for its resource version is so after any step: a
\* write takes a resource version that none before it had.
LEMMA CurrentStep ==
    ASSUME IInv, [Next]_vars, NEW s \in Claim, CurrentIfSameVersion(s)
    PROVE  s.rv <= rv' /\ (s.rv = rv' => s = Stored(claim'))
  <1>1. Typed /\ rv \in Nat /\ s.rv \in Nat /\ s.rv <= rv
    BY DEF IInv, Typed, ApiTyped, Claim, CurrentIfSameVersion
  <1>2. CASE ClaimKept
    BY <1>2 DEF ClaimKept, CurrentIfSameVersion
  <1>3. CASE rv' = rv + 1
    BY <1>1, <1>3
  <1>4. CASE (\E c \in OthersWrite : PutClaim(c)) \/ FlushesStatus
    BY <1>3, <1>4 DEF PutClaim, FlushesStatus
  <1> QED
    BY <1>1, <1>2, <1>4, ClaimMoves

LEMMA SnapSideStep == IInv /\ [Next]_vars => SnapSide'
  <1> SUFFICES ASSUME IInv, [Next]_vars PROVE SnapSide'
    OBVIOUS
  <1>1. Typed /\ ClaimSide /\ SnapSide
    BY DEF IInv
  <1>2. ASSUME NEW s \in Claim, CurrentIfSameVersion(s), WellFormed(s), s.phase = "live",
               revWork'.snap = s,
               revWork'.claim.phase = s.phase, revWork'.claim.uid = s.uid,
               revWork'.claim.values = s.values, revWork'.claim.version = s.version,
               revWork'.claim.statusVersion = s.statusVersion
        PROVE  SnapSide'
    <2>1. s.rv <= rv' /\ (s.rv = rv' => s = Stored(claim'))
      BY <1>2, CurrentStep
    <2> QED
      BY <1>2, <2>1 DEF SnapSide, CurrentIfSameVersion, WellFormed
  <1>3. CASE revWork' = RevIdle
    BY <1>3 DEF RevIdle, SnapSide
  <1>4. ASSUME revWork.stage # "idle",
               revWork'.snap = revWork.snap,
               revWork'.claim.phase = revWork.claim.phase,
               revWork'.claim.uid = revWork.claim.uid,
               revWork'.claim.values = revWork.claim.values,
               revWork'.claim.version = revWork.claim.version,
               revWork'.claim.statusVersion = revWork.claim.statusVersion
        PROVE  SnapSide'
    <2>1. revWork.snap \in Claim
      BY <1>1, <1>4, WorkTyped DEF RevWork
    <2>2. /\ CurrentIfSameVersion(revWork.snap) /\ WellFormed(revWork.snap)
          /\ revWork.snap.phase = "live"
          /\ revWork.claim.phase = revWork.snap.phase /\ revWork.claim.uid = revWork.snap.uid
          /\ revWork.claim.values = revWork.snap.values /\ revWork.claim.version = revWork.snap.version
          /\ revWork.claim.statusVersion = revWork.snap.statusVersion
      BY <1>1, <1>4 DEF SnapSide
    <2> QED
      BY <1>2, <1>4, <2>1, <2>2
  <1>5. CASE revWork' = revWork
    <2>1. CASE revWork.stage = "idle"
      BY <1>5, <2>1 DEF SnapSide
    <2> QED
      BY <1>4, <1>5, <2>1
  <1>6. CASE RevGet
    <2>1. CASE revWork' # RevIdle
      <3>1. Cached(claim) \in Claim /\ Cached(claim) \in States(claim)
        BY <1>1, ApiEnds DEF Typed
      <3>2. CurrentIfSameVersion(Cached(claim)) /\ WellFormed(Cached(claim))
        BY <1>1, <3>1 DEF ClaimSide
      <3> QED
        BY <1>1, <1>2, <1>6, <2>1, <3>1, <3>2, GetEffect
    <2> QED
      BY <1>3, <2>1
  <1>7. CASE RevVersion
    BY <1>1, <1>3, <1>4, <1>7, VersionEffect
  <1>8. CASE RevResolve
    BY <1>1, <1>3, <1>4, <1>8, ResolveEffect
  <1>9. CASE RevApply
    BY <1>1, <1>4, <1>9, ApplyEffect
  <1> QED
    BY <1>1, <1>3, <1>5, <1>6, <1>7, <1>8, <1>9, WorkMoves DEF Advance

LEMMA WorkSideStep == IInv /\ [Next]_vars => WorkSide'
  <1> SUFFICES ASSUME IInv, [Next]_vars PROVE WorkSide'
    OBVIOUS
  <1>1. Typed /\ WorkSide
    BY DEF IInv
  <1>2. CASE revWork' = RevIdle
    BY <1>2 DEF RevIdle, WorkSide
  <1>3. CASE revWork' = revWork
    BY <1>1, <1>3 DEF WorkSide, resolveVersion, MadeFrom
  <1>4. CASE RevGet
    <2>1. CASE revWork' # RevIdle
      <3>1. revWork'.stage = "got" /\ revWork'.claim = revWork'.snap
        BY <1>1, <1>4, <2>1, GetEffect
      <3> QED
        BY <3>1 DEF WorkSide
    <2> QED
      BY <1>2, <2>1
  <1>5. CASE RevVersion
    <2>1. CASE revWork' # RevIdle
      <3>1. /\ revWork.stage = "got" /\ revWork'.stage = "repo"
            /\ revWork'.snap = revWork.snap /\ revWork'.claim = revWork.claim
            /\ revWork'.version = VersionFor(revWork.claim) /\ revWork'.version # NoVersion
        BY <1>1, <1>5, <2>1, VersionEffect
      <3>2. resolveVersion(revWork.claim, NoVersion) # NoVersion =>
                VersionFor(revWork.claim) = resolveVersion(revWork.claim, NoVersion)
        BY DEF VersionFor, resolveVersion
      <3>3. revWork.claim.latest = revWork.snap.latest
        BY <1>1, <3>1 DEF WorkSide
      <3> QED
        BY <3>1, <3>2, <3>3 DEF WorkSide, resolveVersion
    <2> QED
      BY <1>2, <2>1
  <1>6. CASE RevResolve
    <2>1. CASE revWork' # RevIdle
      BY <1>6, <2>1, ResolveEffect DEF WorkSide, MadeFrom, resolveVersion
    <2> QED
      BY <1>2, <2>1
  <1>7. CASE RevApply
    <2>1. revWork.claim.latest \in MadeFrom(revWork.snap)
      BY <1>1, <1>7, ApplyEffect DEF WorkSide
    <2> QED
      BY <1>1, <1>7, <2>1, ApplyEffect DEF WorkSide, MadeFrom, resolveVersion
  <1> QED
    BY <1>1, <1>2, <1>3, <1>4, <1>5, <1>6, <1>7, WorkMoves DEF Advance

-----------------------------------------------------------------------------
(* What every step does to the revisions, and that it keeps the types.     *)

RevisionsKept ==
    /\ revs' \in Seq(Approvals) /\ revs' # <<>>
    /\ Stored(revs') = Stored(revs)

\* A revision is made without an approval, or keeps the one it has, or gets one
\* of this moment.
WritesRevision(r, a) ==
    /\ r \in Revision /\ a \in Approval
    /\ r \in DOMAIN Stored(revs) => a.at \in {Stored(revs)[r].at, now}
    /\ r \notin DOMAIN Stored(revs) => a.at = 0
    /\ PutRevision(r, a)
    /\ UNCHANGED <<claim, rv, now>>

\* Kubernetes removes the revisions of claims that are gone, users may remove any.
DropsRevision(r) ==
    /\ revs' = Written(revs, [q \in DOMAIN Stored(revs) \ {r} |-> Stored(revs)[q]])
    /\ "delete revision" \in UserMay \/ r.uid # Stored(claim).uid \/ Stored(claim).phase = "absent"
    /\ UNCHANGED <<claim, rv, now, revWork>>

LEMMA ApplyWrites ==
    ASSUME IInv, RevApply
    PROVE  \E a \in Approval : WritesRevision(revWork.claim.latest, a)
  <1> DEFINE r == revWork.claim.latest
             a == IF r \in DOMAIN Stored(revs) THEN Stored(revs)[r] ELSE Unapproved
  <1>1. Typed /\ revWork.stage = "apply"
    BY DEF IInv, RevApply
  <1>2. r \in Revision
    BY <1>1 DEF IInv, WorkSide, MadeFrom
  <1>3. Stored(revs) \in Approvals
    BY <1>1, ApiEnds DEF Typed
  <1>4. a \in Approval
    BY <1>3, ApprovalsType DEF Unapproved, Approval
  <1>5. /\ r \in DOMAIN Stored(revs) => a.at = Stored(revs)[r].at
        /\ r \notin DOMAIN Stored(revs) => a.at = 0
    BY DEF Unapproved
  <1>6. PutRevision(r, a) /\ UNCHANGED <<claim, rv, now>>
    BY DEF RevApply
  <1> HIDE DEF a, r
  <1>7. WritesRevision(r, a)
    BY <1>2, <1>4, <1>5, <1>6 DEF WritesRevision
  <1> QED
    BY <1>4, <1>7 DEF r

LEMMA ApproveWrites ==
    ASSUME Typed, ApprApprove
    PROVE  \/ UNCHANGED <<claim, rv, now, revs>>
           \/ \E r \in Revision : \E a \in Approval : WritesRevision(r, a)
  <1> DEFINE r == apprWork.claim.latest
             s == Stored(revs)[r]
             a == [s EXCEPT !.at = now, !.by = IF @ = "user" THEN "user" ELSE "auto"]
  <1>1. UNCHANGED <<claim, rv, now>>
    BY DEF ApprApprove
  <1>2. CASE UNCHANGED revs
    BY <1>1, <1>2
  <1>3. CASE ~UNCHANGED revs
    <2>1. ~Refused(r, Stored(revs)) /\ PutRevision(r, a)
      BY <1>3 DEF ApprApprove
    <2>2. r \in DOMAIN Stored(revs)
      BY <2>1 DEF Refused
    <2>3. Stored(revs) \in Approvals /\ now \in Nat
      BY ApiEnds DEF Typed, ApiTyped
    <2>4. r \in Revision /\ s \in Approval
      BY <2>2, <2>3, ApprovalsType
    <2> HIDE DEF r, s
    <2>5. a \in Approval /\ a.at = now
      BY <2>3, <2>4 DEF Approval
    <2> HIDE DEF a
    <2>6. WritesRevision(r, a)
      BY <1>1, <2>1, <2>2, <2>4, <2>5 DEF WritesRevision
    <2> QED
      BY <2>4, <2>5, <2>6
  <1> QED
    BY <1>2, <1>3

LEMMA UserRevises ==
    ASSUME Typed, EditRevision
    PROVE  \/ \E r \in Revision : \E a \in Approval : WritesRevision(r, a)
           \/ \E r \in Revision : DropsRevision(r)
  <1>1. UNCHANGED <<claim, rv, now, revWork>>
    BY DEF EditRevision, revisionVars
  <1>2. Stored(revs) \in Approvals /\ now \in Nat
    BY ApiEnds DEF Typed, ApiTyped
  <1>3. PICK r \in DOMAIN Stored(revs) :
            \/ PutRevision(r, [at |-> now, by |-> "user"])
            \/ /\ "delete revision" \in UserMay
               /\ revs' = Written(revs, [q \in DOMAIN Stored(revs) \ {r} |-> Stored(revs)[q]])
    BY DEF EditRevision
  <1>4. r \in Revision
    BY <1>2, ApprovalsType
  <1>5. CASE PutRevision(r, [at |-> now, by |-> "user"])
    <2> DEFINE a == [at |-> now, by |-> "user"]
    <2>1. a \in Approval /\ a.at = now
      BY <1>2 DEF Approval
    <2>2. PutRevision(r, a)
      BY <1>5
    <2> HIDE DEF a
    <2>3. WritesRevision(r, a)
      BY <1>1, <1>3, <1>4, <2>1, <2>2 DEF WritesRevision
    <2> QED
      BY <1>4, <2>1, <2>3
  <1> QED
    BY <1>1, <1>3, <1>4, <1>5 DEF DropsRevision

LEMMA CollectorDrops ==
    ASSUME Typed, GarbageCollect
    PROVE  \E r \in Revision : DropsRevision(r)
  <1>1. UNCHANGED <<claim, rv, now, revWork>>
    BY DEF GarbageCollect, revisionVars
  <1>2. PICK r \in DOMAIN Stored(revs) :
            /\ r.uid # Stored(claim).uid \/ Stored(claim).phase = "absent"
            /\ revs' = Written(revs, [q \in DOMAIN Stored(revs) \ {r} |-> Stored(revs)[q]])
    BY DEF GarbageCollect
  <1>3. r \in Revision
    BY ApiEnds, ApprovalsType DEF Typed
  <1> QED
    BY <1>1, <1>2, <1>3 DEF DropsRevision

\* So the revisions are left alone, or one is written or removed.
LEMMA RevisionsMove ==
    ASSUME IInv, [Next]_vars
    PROVE  \/ RevisionsKept /\ now' \in {now, now + 1} /\ ~RevApply
           \/ RevApply /\ \E a \in Approval : WritesRevision(revWork.claim.latest, a)
           \/ UNCHANGED revWork /\ \E r \in Revision : \E a \in Approval : WritesRevision(r, a)
           \/ \E r \in Revision : DropsRevision(r)
  <1>1. Typed
    BY DEF IInv
  <1>2. CASE RevApply
    BY <1>2, ApplyWrites
  <1> SUFFICES ASSUME ~RevApply
               PROVE  \/ RevisionsKept /\ now' \in {now, now + 1}
                      \/ UNCHANGED revWork /\ \E r \in Revision : \E a \in Approval : WritesRevision(r, a)
                      \/ \E r \in Revision : DropsRevision(r)
    BY <1>2
  <1>3. CASE UNCHANGED <<revs, now>>
    BY <1>1, <1>3 DEF RevisionsKept, Typed, ApiTyped
  <1>4. CASE RevReconcile
    BY <1>3, <1>4 DEF RevReconcile, RevGet, RevVersion, RevResolve, RevFetchFails, RevApplyFails,
                      RevFlush, apiVars
  <1>5. CASE ApprReconcile /\ UNCHANGED <<revisionVars, boundVars>>
    <2>1. UNCHANGED revWork
      BY <1>5 DEF revisionVars
    <2>2. CASE ApprGet
      BY <1>3, <2>2 DEF ApprGet, apiVars
    <2>3. CASE ApprApprove
      BY <1>1, <1>3, <2>1, <2>3, ApproveWrites
    <2> QED
      BY <1>5, <2>2, <2>3 DEF ApprReconcile
  <1>6. CASE Watches
    BY <1>1, <1>6, WatchEffect DEF RevisionsKept
  <1>7. CASE (\E v \in Values : CreateClaim(v)) \/ EditClaim \/ ClaimGone
    BY <1>1, <1>3, <1>7, OthersEffect
  <1>8. CASE EditRevision
    <2>1. UNCHANGED revWork
      BY <1>8 DEF EditRevision, revisionVars
    <2> QED
      BY <1>1, <1>8, <2>1, UserRevises
  <1>9. CASE EditEnvironment \/ Fetch \/ UNCHANGED vars
    BY <1>3, <1>9 DEF EditEnvironment, ChangePlatform, PublishVersion, Fetch, ArtifactReady, vars, apiVars
  <1>10. CASE GarbageCollect
    BY <1>1, <1>10, CollectorDrops
  <1>11. CASE Tick
    BY <1>1, <1>11 DEF Tick, RevisionsKept, Typed, ApiTyped
  <1> QED
    BY <1>4, <1>5, <1>6, <1>7, <1>8, <1>9, <1>10, <1>11 DEF Next, Controllers, Users, Cluster

\* The revisions after a write or a removal.
LEMMA WrittenRevisions ==
    ASSUME Typed, NEW r, NEW a, WritesRevision(r, a)
    PROVE  /\ revs' \in Seq(Approvals) /\ revs' # <<>>
           /\ DOMAIN Stored(revs') = DOMAIN Stored(revs) \cup {r}
           /\ Stored(revs')[r] = a
           /\ \A q \in DOMAIN Stored(revs) \ {r} : Stored(revs')[q] = Stored(revs)[q]
           /\ UNCHANGED <<claim, rv, now>>
  BY PutRevisionWindow DEF WritesRevision, Typed

LEMMA DroppedRevisions ==
    ASSUME Typed, NEW r, DropsRevision(r)
    PROVE  /\ revs' \in Seq(Approvals) /\ revs' # <<>>
           /\ DOMAIN Stored(revs') = DOMAIN Stored(revs) \ {r}
           /\ \A q \in DOMAIN Stored(revs') : Stored(revs')[q] = Stored(revs)[q]
           /\ UNCHANGED <<claim, rv, now, revWork>>
  BY DropRevisionWindow DEF DropsRevision, Typed

LEMMA ApiTypedStep == IInv /\ [Next]_vars => ApiTyped'
  <1> SUFFICES ASSUME IInv, [Next]_vars PROVE ApiTyped'
    OBVIOUS
  <1>1. Typed /\ ApiTyped
    BY DEF IInv, Typed
  <1>2. claim' \in Seq(Claim) /\ claim' # <<>> /\ rv' \in Nat
    <2>1. CASE ClaimKept
      BY <1>1, <2>1 DEF ClaimKept, ApiTyped
    <2>2. CASE \E c \in OthersWrite : PutClaim(c)
      BY <1>1, <2>2, PutClaimWindow DEF OthersWrite
    <2>3. CASE FlushesStatus
      BY <1>1, <2>3, FlushWellFormed, PutClaimWindow DEF FlushesStatus
    <2> QED
      BY <1>1, <2>1, <2>2, <2>3, ClaimMoves
  <1>3. revs' \in Seq(Approvals) /\ revs' # <<>>
    BY <1>1, RevisionsMove, WrittenRevisions, DroppedRevisions DEF RevisionsKept
  <1>4. now' \in {now, now + 1}
    BY <1>1, RevisionsMove, WrittenRevisions, DroppedRevisions
  <1>5. now' \in Nat \ {0}
    BY <1>1, <1>4 DEF ApiTyped
  <1> QED
    BY <1>2, <1>3, <1>5 DEF ApiTyped

\* What is not in the API server.
LEMMA LocalTypedStep ==
    ASSUME IInv, [Next]_vars
    PROVE  /\ newest' \in Version \cup {NoVersion}
           /\ platform' \in Platform
           /\ repos' \in [Version -> Nat]
           /\ revQueue' \in BOOLEAN /\ apprQueue' \in BOOLEAN
  <1>1. Typed
    BY DEF IInv
  <1>2. CASE RevReconcile /\ UNCHANGED <<approvalVars, boundVars>>
    <2>1. UNCHANGED <<newest, platform, apprQueue>>
      BY <1>2 DEF RevReconcile, RevGet, RevVersion, RevResolve, RevFetchFails, RevApply,
                  RevApplyFails, RevFlush, approvalVars
    <2>2. repos' \in [Version -> Nat]
      BY <1>1, <1>2 DEF RevReconcile, RevGet, RevVersion, RevResolve, RevFetchFails, RevApply,
                  RevApplyFails, RevFlush, ensureOCIRepository, Fetching, Typed
    <2>3. revQueue' \in BOOLEAN
      BY <1>1, <1>2 DEF RevReconcile, RevGet, RevVersion, RevResolve, RevFetchFails, RevApply,
                  RevApplyFails, RevFlush, Typed
    <2> QED
      BY <1>1, <2>1, <2>2, <2>3 DEF Typed
  <1>3. CASE ApprReconcile /\ UNCHANGED <<revisionVars, boundVars>>
    BY <1>1, <1>3 DEF ApprReconcile, ApprGet, ApprApprove, revisionVars, Typed
  <1>4. CASE Watches
    BY <1>1, <1>4 DEF Watches, DeliverClaim, DeliverRevision, Restart, Enqueue, Typed
  <1>5. CASE (\E v \in Values : CreateClaim(v)) \/ EditClaim \/ ClaimGone
    BY <1>1, <1>5, OthersEffect DEF revisionVars, approvalVars, Typed
  <1>6. CASE EditRevision \/ GarbageCollect \/ Tick \/ UNCHANGED vars
    BY <1>1, <1>6 DEF EditRevision, GarbageCollect, Tick, vars, revisionVars, approvalVars, Typed
  <1>7. CASE EditEnvironment
    <2>1. newest < MaxVersion => newest + 1 \in Version
      BY <1>1, VersionAssumption DEF Typed, Version, NoVersion
    <2>2. CASE PublishVersion
      BY <1>1, <1>7, <2>1, <2>2 DEF EditEnvironment, PublishVersion, approvalVars, Typed
    <2>3. CASE \E p \in Platform : ChangePlatform(p)
      BY <1>1, <1>7, <2>3 DEF EditEnvironment, ChangePlatform, approvalVars, Typed
    <2> QED
      BY <1>7, <2>2, <2>3 DEF EditEnvironment
  <1>8. CASE Fetch
    <2>1. \A d \in 2 .. MaxDigest : d \in Nat
      BY DigestAssumption
    <2> QED
      BY <1>1, <1>8, <2>1 DEF Fetch, ArtifactReady, approvalVars, Typed
  <1> QED
    BY <1>2, <1>3, <1>4, <1>5, <1>6, <1>7, <1>8 DEF Next, Controllers, Users, Cluster

LEMMA RevWorkTypedStep ==
    ASSUME IInv, [Next]_vars
    PROVE  revWork' = RevIdle \/ revWork' \in RevWork
  <1>1. Typed
    BY DEF IInv
  <1>2. CASE revWork' \in {revWork, RevIdle}
    BY <1>1, <1>2 DEF Typed
  <1>3. CASE RevGet
    <2>1. Cached(claim) \in Claim /\ platform \in Platform
      BY <1>1, ApiEnds DEF Typed
    <2> QED
      BY <1>1, <1>3, <2>1, GetEffect DEF RevWork
  <1> QED
    BY <1>1, <1>2, <1>3, WorkMoves, VersionEffect, ResolveEffect, ApplyEffect DEF Advance

LEMMA ApprWorkTypedStep ==
    ASSUME IInv, [Next]_vars
    PROVE  apprWork' = ApprIdle \/ apprWork' \in ApprWork
  <1>1. Typed /\ Cached(claim) \in Claim
    BY ApiEnds DEF IInv, Typed
  <1>2. CASE UNCHANGED apprWork
    BY <1>1, <1>2 DEF Typed
  <1>3. CASE RevReconcile /\ UNCHANGED <<approvalVars, boundVars>>
    BY <1>2, <1>3 DEF approvalVars
  <1>4. CASE ApprReconcile
    BY <1>1, <1>4 DEF ApprReconcile, ApprGet, ApprApprove, ApprWork
  <1>5. CASE Watches
    BY <1>1, <1>2, <1>5 DEF Watches, DeliverClaim, DeliverRevision, Restart
  <1>6. CASE (\E v \in Values : CreateClaim(v)) \/ EditClaim \/ ClaimGone
    BY <1>1, <1>2, <1>6, OthersEffect DEF approvalVars
  <1>7. CASE EditRevision \/ EditEnvironment \/ GarbageCollect \/ Fetch \/ Tick \/ UNCHANGED vars
    BY <1>2, <1>7 DEF EditRevision, EditEnvironment, GarbageCollect, Fetch, Tick, vars, approvalVars
  <1> QED
    BY <1>3, <1>4, <1>5, <1>6, <1>7 DEF Next, Controllers, Users, Cluster

LEMMA TypedStep == IInv /\ [Next]_vars => Typed'
  BY ApiTypedStep, LocalTypedStep, RevWorkTypedStep, ApprWorkTypedStep DEF Typed

-----------------------------------------------------------------------------
(* The theorems.                                                           *)

LEMMA InvariantInit == Init => IInv
  <1> SUFFICES ASSUME Init PROVE IInv
    OBVIOUS
  <1>1. [r \in {} |-> Unapproved] \in Approvals
    BY DEF Approvals
  <1>2. claim = Synced(NoClaim) /\ revs = Synced([r \in {} |-> Unapproved]) /\ rv = 0 /\ now = 1
    BY DEF Init
  <1>3. ApiTyped
    BY <1>1, <1>2, NoClaimType, SyncedWindow DEF ApiTyped
  <1>4. newest \in Version \cup {NoVersion} /\ platform \in Platform
    BY VersionAssumption, PlatformAssumption DEF Init, Version
  <1>5. repos \in [Version -> Nat]
    BY DEF Init, NoRepo
  <1>6. Typed
    BY <1>3, <1>4, <1>5 DEF Init, Typed
  <1>7. Stored(claim) = NoClaim /\ States(claim) = {NoClaim}
    BY <1>2, NoClaimType, SyncedWindow, SyncedStates
  <1>8. ClaimSide
    <2>1. NoClaim.rv = 0 /\ NoClaim.phase = "absent" /\ NoClaim.latest = NoRevision
      BY DEF NoClaim
    <2> QED
      BY <1>2, <1>7, <2>1 DEF ClaimSide, CurrentIfSameVersion, WellFormed
  <1>9. SnapSide /\ WorkSide
    BY DEF Init, RevIdle, SnapSide, WorkSide
  <1> QED
    BY <1>6, <1>8, <1>9 DEF IInv

LEMMA InvariantStep == IInv /\ [Next]_vars => IInv'
  BY TypedStep, ClaimSideStep, SnapSideStep, WorkSideStep DEF IInv

LEMMA TypedIsTypeOK == Typed => TypeOK
  <1> SUFFICES ASSUME Typed PROVE TypeOK
    OBVIOUS
  <1>1. \A i \in 1 .. Len(revs) : revs[i] \in Approvals
    BY DEF Typed, ApiTyped
  <1>2. newest \in 0 .. MaxVersion
    BY VersionAssumption DEF Typed, Version, NoVersion
  <1> QED
    BY <1>1, <1>2, ApprovalsType DEF Typed, ApiTyped, TypeOK

\* The claim, its revisions and the two reconciles keep their types; that a
\* revision is made of values at all rests on the copy of the claim that the
\* reconcile works on, so the types are proved with the rest of the invariant.
THEOREM TypeCorrect == Spec => []TypeOK
  <1>1. IInv => TypeOK
    BY TypedIsTypeOK DEF IInv
  <1> QED
    BY <1>1, InvariantInit, InvariantStep, PTL DEF Spec

\* status.latestRevision of a claim only ever changes to a revision made from the
\* spec that the claim has at that moment: flushClaimStatus writes under the
\* resource version that the reconcile has read, and no two writes share one.
THEOREM LatestFollowsSpec == Spec => LatestIsOfThisSpec
  <1> DEFINE Step == LET old == Stored(claim)
                         new == Stored(claim)'
                         named == resolveVersion(old, NoVersion)
                     IN  new.latest \notin {old.latest, NoRevision} =>
                            /\ new.latest.uid = old.uid
                            /\ new.latest.values = old.values
                            /\ named # NoVersion => new.latest.version = named
  <1>1. IInv /\ [Next]_vars => [Step]_vars
    <2> SUFFICES ASSUME IInv, [Next]_vars,
                        Stored(claim').latest \notin {Stored(claim).latest, NoRevision}
                 PROVE  Stored(claim').latest \in MadeFrom(Stored(claim))
      BY DEF MadeFrom
    <2>1. Typed /\ ApiTyped
      BY DEF IInv, Typed
    <2>2. CASE ClaimKept
      BY <2>2 DEF ClaimKept
    <2>3. ASSUME NEW c \in OthersWrite, PutClaim(c)
          PROVE  Stored(claim').latest \in {Stored(claim).latest, NoRevision}
      <3>1. c \in Claim /\ c.latest \in {Stored(claim).latest, NoRevision}
        BY DEF OthersWrite
      <3> QED
        BY <2>1, <2>3, <3>1, PutClaimWindow DEF Claim
    <2>4. CASE FlushesStatus
      <3>1. revWork.claim \in Claim
        BY <2>4, FlushWellFormed DEF FlushesStatus
      <3>2. Stored(claim').latest = revWork.claim.latest
        BY <2>1, <2>4, <3>1, PutClaimWindow DEF FlushesStatus, Claim
      <3>3. revWork.snap = Stored(claim)
        BY <2>4 DEF FlushesStatus, IInv, ClaimSide, SnapSide, CurrentIfSameVersion
      <3>4. revWork.claim.latest \in MadeFrom(revWork.snap) \cup {revWork.snap.latest}
        BY <2>4 DEF FlushesStatus, IInv, WorkSide
      <3> QED
        BY <3>2, <3>3, <3>4
    <2> QED
      BY <2>1, <2>2, <2>3, <2>4, ClaimMoves
  <1> QED
    BY <1>1, InvariantInit, InvariantStep, PTL DEF Spec, LatestIsOfThisSpec

-----------------------------------------------------------------------------
(* Approvals.                                                              *)

LEMMA ApprovedByNowStep == IInv /\ ApprovedByNow /\ [Next]_vars => ApprovedByNow'
  <1> SUFFICES ASSUME IInv, ApprovedByNow, [Next]_vars PROVE ApprovedByNow'
    OBVIOUS
  <1>1. Typed /\ now \in Nat
    BY DEF IInv, Typed, ApiTyped
  <1>2. \A r \in DOMAIN Stored(revs) : Stored(revs)[r].at \in Nat /\ Stored(revs)[r].at <= now
    BY <1>1, ApiEnds, ApprovalsType DEF ApprovedByNow, Typed, Approval
  <1>3. CASE RevisionsKept /\ now' \in {now, now + 1}
    <2>1. \A n \in Nat : n <= now => n <= now'
      BY <1>1, <1>3
    <2> QED
      BY <1>2, <1>3, <2>1 DEF RevisionsKept, ApprovedByNow
  <1>4. ASSUME NEW r \in Revision, NEW a \in Approval, WritesRevision(r, a)
        PROVE  ApprovedByNow'
    <2>1. a.at <= now
      BY <1>1, <1>2, <1>4 DEF WritesRevision
    <2>2. /\ DOMAIN Stored(revs') = DOMAIN Stored(revs) \cup {r}
          /\ Stored(revs')[r] = a
          /\ \A q \in DOMAIN Stored(revs) \ {r} : Stored(revs')[q] = Stored(revs)[q]
          /\ now' = now
      BY <1>1, <1>4, WrittenRevisions
    <2>3. \A q \in DOMAIN Stored(revs') : Stored(revs')[q].at <= now'
      BY <1>2, <2>1, <2>2
    <2> QED
      BY <2>3 DEF ApprovedByNow
  <1>5. ASSUME NEW r \in Revision, DropsRevision(r)
        PROVE  ApprovedByNow'
    <2>1. /\ DOMAIN Stored(revs') \subseteq DOMAIN Stored(revs)
          /\ \A q \in DOMAIN Stored(revs') : Stored(revs')[q] = Stored(revs)[q]
          /\ now' = now
      BY <1>1, <1>5, DroppedRevisions
    <2> QED
      BY <1>2, <2>1 DEF ApprovedByNow
  <1>6. revWork.claim.latest \in Revision \/ ~RevApply
    BY DEF RevApply, IInv, WorkSide, MadeFrom
  <1> QED
    BY <1>3, <1>4, <1>5, <1>6, RevisionsMove

\* No step takes an approval back or moves it into the past: not the apply of a
\* revision that exists, not a second approval, by either controller or by users.
THEOREM ApprovalsAreKept == Spec => ApprovalsSurvive
  <1> DEFINE Step == \A r \in DOMAIN Stored(revs) \cap DOMAIN Stored(revs)' :
                        Stored(revs)[r].at <= Stored(revs)'[r].at
  <1>1. Init => ApprovedByNow
    <2> SUFFICES ASSUME Init PROVE ApprovedByNow
      OBVIOUS
    <2>1. [r \in {} |-> Unapproved] \in Approvals
      BY DEF Approvals
    <2>2. Stored(revs) = [r \in {} |-> Unapproved]
      BY <2>1, SyncedWindow DEF Init
    <2> QED
      BY <2>2 DEF ApprovedByNow
  <1>2. IInv /\ ApprovedByNow /\ [Next]_vars => [Step]_vars
    <2> SUFFICES ASSUME IInv, ApprovedByNow, [Next]_vars,
                        NEW q \in DOMAIN Stored(revs) \cap DOMAIN Stored(revs')
                 PROVE  Stored(revs)[q].at <= Stored(revs')[q].at
      OBVIOUS
    <2>1. Typed /\ now \in Nat
      BY DEF IInv, Typed, ApiTyped
    <2>2. Stored(revs)[q].at \in Nat /\ Stored(revs)[q].at <= now
      BY <2>1, ApiEnds, ApprovalsType DEF ApprovedByNow, Typed, Approval
    <2>3. CASE Stored(revs')[q] = Stored(revs)[q]
      BY <2>2, <2>3
    <2>4. ASSUME NEW r \in Revision, NEW a \in Approval, WritesRevision(r, a)
          PROVE  Stored(revs)[q].at <= Stored(revs')[q].at
      <3>1. CASE q = r
        <4>1. Stored(revs')[q].at \in {Stored(revs)[q].at, now}
          BY <2>1, <2>4, <3>1, WrittenRevisions DEF WritesRevision
        <4> QED
          BY <2>2, <4>1
      <3>2. CASE q # r
        BY <2>1, <2>3, <2>4, <3>2, WrittenRevisions
      <3> QED
        BY <3>1, <3>2
    <2>5. revWork.claim.latest \in Revision \/ ~RevApply
      BY DEF RevApply, IInv, WorkSide, MadeFrom
    <2> QED
      BY <2>1, <2>3, <2>4, <2>5, RevisionsMove, DroppedRevisions DEF RevisionsKept
  <1> QED
    BY <1>1, <1>2, InvariantInit, InvariantStep, ApprovedByNowStep, PTL DEF Spec, ApprovalsSurvive

-----------------------------------------------------------------------------
(* When no user deletes revisions.                                         *)

\* No step removes a revision that the claim in the API server owns.
LEMMA OwnRevisionsStay ==
    ASSUME IInv, [Next]_vars, "delete revision" \notin UserMay,
           Stored(claim).phase = "live",
           NEW r \in DOMAIN Stored(revs), r.uid = Stored(claim).uid
    PROVE  r \in DOMAIN Stored(revs')
  <1>1. Typed
    BY DEF IInv
  <1>2. CASE RevisionsKept
    BY <1>2 DEF RevisionsKept
  <1>3. CASE \E q : \E a \in Approval : WritesRevision(q, a)
    BY <1>1, <1>3, WrittenRevisions
  <1>4. CASE \E q \in Revision : DropsRevision(q)
    BY <1>1, <1>4, DroppedRevisions DEF DropsRevision
  <1> QED
    BY <1>2, <1>3, <1>4, RevisionsMove

\* A copy of the claim that is current after a step was so before.
LEMMA CurrentBefore ==
    ASSUME IInv, [Next]_vars, NEW s \in Claim, CurrentIfSameVersion(s)
    PROVE  s.rv = rv' => s = Stored(claim) /\ s.rv = rv
  <1>1. Typed /\ rv \in Nat /\ s.rv \in Nat /\ s.rv <= rv
    BY DEF IInv, Typed, ApiTyped, Claim, CurrentIfSameVersion
  <1>2. CASE ClaimKept
    BY <1>2 DEF ClaimKept, CurrentIfSameVersion
  <1>3. CASE rv' = rv + 1
    BY <1>1, <1>3
  <1>4. CASE (\E c \in OthersWrite : PutClaim(c)) \/ FlushesStatus
    BY <1>3, <1>4 DEF PutClaim, FlushesStatus
  <1> QED
    BY <1>1, <1>2, <1>4, ClaimMoves

LEMMA RevisionIsMadeStep ==
    "delete revision" \notin UserMay =>
        (IInv /\ LatestExists /\ RevisionIsMade /\ [Next]_vars => RevisionIsMade')
  <1> SUFFICES ASSUME "delete revision" \notin UserMay, IInv, LatestExists, RevisionIsMade, [Next]_vars
               PROVE  RevisionIsMade'
    OBVIOUS
  <1>1. Typed /\ ClaimSide /\ SnapSide /\ WorkSide
    BY DEF IInv
  <1>2. CASE revWork'.stage # "flush"
    BY <1>2 DEF RevisionIsMade
  <1>3. CASE revWork' = RevIdle
    BY <1>2, <1>3 DEF RevIdle
  <1>4. CASE revWork' = revWork
    <2> SUFFICES ASSUME revWork.stage = "flush", revWork.snap.rv = rv', revWork.claim.latest # NoRevision
                 PROVE  revWork.claim.latest \in DOMAIN Stored(revs')
      BY <1>4 DEF RevisionIsMade
    <2>1. /\ revWork.snap \in Claim /\ CurrentIfSameVersion(revWork.snap)
          /\ revWork.snap.phase = "live" /\ revWork.claim.uid = revWork.snap.uid
      BY <1>1, WorkTyped DEF SnapSide, RevWork
    <2>2. revWork.snap = Stored(claim) /\ revWork.snap.rv = rv
      BY <2>1, CurrentBefore
    <2>3. revWork.claim.latest \in DOMAIN Stored(revs)
      BY <2>2 DEF RevisionIsMade
    <2>4. revWork.claim.latest.uid = Stored(claim).uid
      BY <2>1, <2>2, FlushWellFormed DEF WellFormed
    <2> QED
      BY <2>1, <2>2, <2>3, <2>4, OwnRevisionsStay
  <1>5. CASE RevGet
    <2>1. revWork' = RevIdle \/ revWork'.stage = "got"
      BY <1>1, <1>5, GetEffect
    <2> QED
      BY <1>2, <1>3, <2>1
  <1>6. CASE RevVersion
    BY <1>1, <1>2, <1>3, <1>6, VersionEffect
  <1>7. CASE RevResolve
    <2>1. revs' = revs /\ rv' = rv
      BY <1>7 DEF RevResolve, apiVars
    <2>2. CASE revWork' # RevIdle /\ revWork'.stage = "flush"
      <3>1. /\ revWork.stage = "repo" /\ revWork'.snap = revWork.snap
            /\ revWork'.claim.latest = revWork.snap.latest
        BY <1>7, <2>2, ResolveEffect
      <3>2. revWork.snap.phase = "live" /\ CurrentIfSameVersion(revWork.snap)
        BY <1>1, <3>1 DEF SnapSide
      <3> QED
        BY <2>1, <3>1, <3>2 DEF RevisionIsMade, CurrentIfSameVersion, LatestExists
    <2> QED
      BY <1>2, <1>3, <2>2
  <1>8. CASE RevApply
    <2>1. revWork'.claim = revWork.claim
      BY <1>1, <1>8, ApplyEffect
    <2>2. PICK a \in Approval : WritesRevision(revWork.claim.latest, a)
      BY <1>8, ApplyWrites
    <2>3. DOMAIN Stored(revs') = DOMAIN Stored(revs) \cup {revWork.claim.latest}
      BY <1>1, <2>2, WrittenRevisions
    <2> QED
      BY <2>1, <2>3 DEF RevisionIsMade
  <1> QED
    BY <1>1, <1>3, <1>4, <1>5, <1>6, <1>7, <1>8, WorkMoves DEF Advance

LEMMA LatestExistsStep ==
    "delete revision" \notin UserMay =>
        (IInv /\ LatestExists /\ RevisionIsMade /\ [Next]_vars => LatestExists')
  <1> SUFFICES ASSUME "delete revision" \notin UserMay, IInv, LatestExists, RevisionIsMade, [Next]_vars,
                      Stored(claim').phase = "live", Stored(claim').latest # NoRevision
               PROVE  Stored(claim').latest \in DOMAIN Stored(revs')
    BY DEF LatestExists
  <1>1. Typed /\ ApiTyped /\ ClaimSide
    BY DEF IInv, Typed
  <1>2. CASE ClaimKept
    <2>1. Stored(claim') = Stored(claim)
      BY <1>2 DEF ClaimKept
    <2>2. Stored(claim).latest \in DOMAIN Stored(revs)
      BY <2>1 DEF LatestExists
    <2>3. WellFormed(Stored(claim))
      BY <1>1, ApiEnds DEF ClaimSide
    <2>4. Stored(claim).latest.uid = Stored(claim).uid
      BY <2>1, <2>3 DEF WellFormed
    <2> QED
      BY <2>1, <2>2, <2>4, OwnRevisionsStay
  <1>3. ASSUME NEW c \in OthersWrite, PutClaim(c), UNCHANGED revs
        PROVE  Stored(claim').latest \in DOMAIN Stored(revs')
    <2>1. c \in Claim
      BY DEF OthersWrite
    <2>2. Stored(claim').latest = c.latest
      BY <1>1, <1>3, <2>1, PutClaimWindow DEF Claim
    <2>3. Stored(claim).phase = "live" /\ c.latest = Stored(claim).latest
      BY <2>2 DEF OthersWrite
    <2> QED
      BY <1>3, <2>2, <2>3 DEF LatestExists
  <1>4. CASE FlushesStatus
    <2>1. revWork.claim \in Claim
      BY <1>4, FlushWellFormed DEF FlushesStatus
    <2>2. Stored(claim').latest = revWork.claim.latest
      BY <1>1, <1>4, <2>1, PutClaimWindow DEF FlushesStatus, Claim
    <2>3. revWork.stage = "flush" /\ revWork.snap.rv = rv /\ revs' = revs
      BY <1>1, <1>4 DEF FlushesStatus, ClaimSide
    <2> QED
      BY <2>2, <2>3 DEF RevisionIsMade
  <1> QED
    BY <1>1, <1>2, <1>3, <1>4, ClaimMoves

\* As long as users delete no revisions, status.latestRevision names one that
\* exists: the revision is applied before the status is written, and by the time
\* it is, the claim must still be the one the revision belongs to, so the garbage
\* collector has not taken it.
THEOREM LatestIsThere ==
    ASSUME "delete revision" \notin UserMay
    PROVE  Spec => []LatestExists
  <1>1. Init => LatestExists /\ RevisionIsMade
    <2> SUFFICES ASSUME Init PROVE LatestExists /\ RevisionIsMade
      OBVIOUS
    <2>1. Stored(claim) = NoClaim
      BY NoClaimType, SyncedWindow DEF Init
    <2>2. NoClaim.phase = "absent"
      BY DEF NoClaim
    <2>3. LatestExists
      BY <2>1, <2>2 DEF LatestExists
    <2>4. RevisionIsMade
      BY DEF Init, RevIdle, RevisionIsMade
    <2> QED
      BY <2>3, <2>4
  <1>2. IInv /\ LatestExists /\ RevisionIsMade /\ [Next]_vars => LatestExists' /\ RevisionIsMade'
    BY LatestExistsStep, RevisionIsMadeStep
  <1> QED
    BY <1>1, <1>2, InvariantInit, InvariantStep, PTL DEF Spec
=============================================================================
