------------------------------ MODULE ClaimApi ------------------------------
(***************************************************************************)
(* The API objects that the controllers of a claim kind share: one claim   *)
(* (an instance of a generated CRD, known by its name) and the             *)
(* ClaimRevisions made from it.  A claim may be deleted and created again  *)
(* under the same name; it then has another uid.                           *)
(***************************************************************************)
EXTENDS Naturals, Sequences, Informer

CONSTANTS
    Values,         \* what users put under spec.values
    Platform,       \* what the platform config maps merge to
    MaxVersion      \* chart versions are 1 .. MaxVersion, newest last

ASSUME VersionAssumption == MaxVersion \in Nat \ {0}
ASSUME PlatformAssumption == Platform # {}

VARIABLES
    claim,      \* window of the claim
    revs,       \* window of the ClaimRevisions
    rv,         \* the last resource version given to the claim
    now         \* the clock, in whole seconds as metav1.Time keeps it

apiVars == <<claim, revs, rv, now>>

-----------------------------------------------------------------------------

Version == 1 .. MaxVersion
NoVersion == 0
NoValues == "none"

\* A revision is named after a hash of the URL, the version with its digest and
\* the values, which contain the uid of the claim and the platform values.  The
\* name stands for these here.
Revision == [uid : Nat, version : Version, digest : Nat,
             values : Values, platform : Platform]

\* status.latestRevision and the condition of a claim no reconcile has seen.
NoRevision == [uid |-> 0]

Claim == [phase : {"absent", "live", "deleting"},
          uid : Nat,
          version : Version \cup {NoVersion},           \* spec.version
          values : Values \cup {NoValues},              \* spec.values
          strategy : {"Automatic", "Manual"},           \* spec.approval.strategy
          generation : Nat,
          statusVersion : Version \cup {NoVersion},     \* status.version
          latest : Revision \cup {NoRevision},          \* status.latestRevision
          resolved : {"Unknown", "True", "False"},      \* ValuesResolved
          observed : Nat,                               \* its observedGeneration
          finalizer : BOOLEAN,                          \* instance-cleanup
          applied : Revision \cup {NoRevision},         \* status.appliedRevision
          ready : BOOLEAN,                              \* status.releaseStatus
          rv : Nat]

NoClaim == [phase |-> "absent", uid |-> 0, version |-> NoVersion,
            values |-> NoValues, strategy |-> "Automatic",
            generation |-> 0, statusVersion |-> NoVersion, latest |-> NoRevision,
            resolved |-> "Unknown", observed |-> 0, finalizer |-> FALSE,
            applied |-> NoRevision, ready |-> FALSE, rv |-> 0]

\* What a revision carries besides its content: spec.approvedAt (0 if nil) and
\* the field manager that owns it.
Approval == [at : Nat, by : {"none", "auto", "user"}]
Unapproved == [at |-> 0, by |-> "none"]

Status(c) == <<c.statusVersion, c.latest, c.resolved, c.observed>>

-----------------------------------------------------------------------------

\* A write of the claim that the API server accepts.
PutClaim(c) ==
    /\ claim' = Written(claim, [c EXCEPT !.rv = rv + 1])
    /\ rv' = rv + 1

\* A write of a revision; one that changes nothing causes no event.
PutRevision(r, approval) ==
    revs' = IF r \in DOMAIN Stored(revs) /\ Stored(revs)[r] = approval
            THEN revs
            ELSE Written(revs, [q \in DOMAIN Stored(revs) \cup {r} |->
                                    IF q = r THEN approval ELSE Stored(revs)[q]])

\* The revisions that the owner-UID index finds for a claim.
OwnedBy(uid, approvals) == {r \in DOMAIN approvals : r.uid = uid}

\* sortByApprovalNewestFirst: the revisions that can come out first.  A nil
\* approvedAt sorts last.  Equal times compare as equal, the sort is not stable
\* and the cache lists objects in no order, so each of them may be first.
NewestFirst(uid, approvals) ==
    {r \in OwnedBy(uid, approvals) :
        \A q \in OwnedBy(uid, approvals) : approvals[q].at <= approvals[r].at}
=============================================================================
