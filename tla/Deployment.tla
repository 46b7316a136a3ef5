----------------------------- MODULE Deployment -----------------------------
(***************************************************************************)
(* What ReleaseController promises about the deployment of a claim, with   *)
(* no caches, workers or retries in sight.  ReleaseLifecycle implements it *)
(* (Contract there).                                                       *)
(***************************************************************************)
EXTENDS Naturals

CONSTANTS
    Revision,       \* revisions of claims, each with the uid of its claim
    NoRevision,
    Harnessed       \* the operator that is deployed is harnessed

VARIABLES
    phase,          \* of the claim: absent, live or deleting
    uid,            \* of the claim
    approved,       \* the revisions that are approved
    footprint,      \* what there is around the deployment
    deployed        \* the revision that is deployed

vars == <<phase, uid, approved, footprint, deployed>>

Surroundings == {"namespace"} \cup (IF Harnessed THEN {"harness"} ELSE {})

Init ==
    /\ phase = "absent" /\ uid = 0
    /\ approved = {} /\ footprint = {} /\ deployed = NoRevision

\* A claim starts with nothing left over from an earlier one of its name.
Create ==
    /\ phase = "absent" /\ footprint = {} /\ deployed = NoRevision
    /\ phase' = "live" /\ uid' = uid + 1
    /\ UNCHANGED <<approved, footprint, deployed>>

\* A claim that has nothing is gone at once.
Delete ==
    /\ phase = "live"
    /\ \/ phase' = "deleting"
       \/ phase' = "absent" /\ footprint = {} /\ deployed = NoRevision
    /\ UNCHANGED <<uid, approved, footprint, deployed>>

Approve ==
    \E r \in approved' \ approved :
        /\ phase = "live"
        /\ r \in Revision /\ r.uid = uid
        /\ approved' = approved \cup {r}
        /\ UNCHANGED <<phase, uid, footprint, deployed>>

\* Approvals end with their claim.
Forget ==
    \E r \in approved :
        /\ phase = "absent" \/ r.uid # uid
        /\ approved' = approved \ {r}
        /\ UNCHANGED <<phase, uid, footprint, deployed>>

SetUp ==
    \E part \in Surroundings \ footprint :
        /\ phase # "absent"
        /\ footprint' = footprint \cup {part}
        /\ UNCHANGED <<phase, uid, approved, deployed>>

\* Only what is approved, for the claim itself, into complete surroundings.
Deploy ==
    \E r \in approved :
        /\ phase # "absent" /\ r.uid = uid
        /\ footprint = Surroundings
        /\ deployed' = r
        /\ UNCHANGED <<phase, uid, approved, footprint>>

\* Nothing of a live claim is taken away, and the deployment goes first.
Withdraw ==
    /\ phase = "deleting" /\ deployed # NoRevision
    /\ deployed' = NoRevision
    /\ UNCHANGED <<phase, uid, approved, footprint>>

TakeDown ==
    \E part \in footprint :
        /\ phase = "deleting" /\ deployed = NoRevision
        /\ footprint' = footprint \ {part}
        /\ UNCHANGED <<phase, uid, approved, deployed>>

Go ==
    /\ phase = "deleting" /\ footprint = {} /\ deployed = NoRevision
    /\ phase' = "absent"
    /\ UNCHANGED <<uid, approved, footprint, deployed>>

Next ==
    \/ Create \/ Delete \/ Approve \/ Forget
    \/ SetUp \/ Deploy \/ Withdraw \/ TakeDown \/ Go

Spec == Init /\ [][Next]_vars
=============================================================================
