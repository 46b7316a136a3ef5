-------------------------- MODULE AutomaticApproval --------------------------
(***************************************************************************)
(* AutomaticApprovalManager (controllers/automatic_approval_controller.go):*)
(* it approves the latest revision of a claim that asks for it, and does   *)
(* so again when an older revision becomes the latest once more.           *)
(***************************************************************************)
EXTENDS ClaimApi

VARIABLES
    apprQueue,      \* the claim is on the workqueue
    apprWork        \* the reconcile in progress

approvalVars == <<apprQueue, apprWork>>

ApprWork == [stage : {"idle", "got"}, claim : Claim]
ApprIdle == [stage |-> "idle"]

\* Get the claim.  There is nothing to approve for one that is gone or being
\* deleted, that is approved by hand, or that has no revision yet.
ApprGet ==
    LET c == Cached(claim)
    IN  /\ apprQueue
        /\ apprWork.stage = "idle"
        /\ apprQueue' = FALSE
        /\ apprWork' = IF /\ c.phase = "live"
                          /\ c.strategy = "Automatic"
                          /\ c.latest # NoRevision
                       THEN [stage |-> "got", claim |-> c]
                       ELSE ApprIdle
        /\ UNCHANGED apiVars

\* Mutant: a revision is approved once only, also if an older one is wanted again.
NeedsFirstApproval(wanted, first, approvals) == approvals[wanted].at = 0

\* The latest revision has to come out first and be approved.
NeedsApproval(wanted, first, approvals) ==
    first # wanted \/ approvals[first].at = 0

\* The API server refuses to set approvedAt, in the two cases below.
Refused(wanted, stored) ==
    \/ wanted \notin DOMAIN stored
    \/ stored[wanted].by = "user" /\ stored[wanted].at # now

\* Get and list the revisions in the cache and approve the wanted one unless it
\* is the newest approved.  The reconcile fails, and is retried, if
\*  - the wanted revision is not in the cache, or only there: approvedAt alone
\*    does not make a valid ClaimRevision;
\*  - another field manager has set approvedAt, since the apply is not forced.
ApprApprove ==
    LET wanted == apprWork.claim.latest
        cached == Cached(revs)
        stored == Stored(revs)
        fails == /\ apprQueue' = TRUE
                 /\ UNCHANGED revs
    IN  /\ apprWork.stage = "got"
        /\ apprWork' = ApprIdle
        /\ \/ /\ wanted \notin DOMAIN cached
              /\ fails
           \/ /\ wanted \in DOMAIN cached
              /\ \E first \in NewestFirst(apprWork.claim.uid, cached) :
                    IF ~NeedsApproval(wanted, first, cached)
                    THEN UNCHANGED <<revs, apprQueue>>
                    ELSE IF Refused(wanted, stored)
                    THEN fails
                    ELSE /\ PutRevision(wanted, [stored[wanted] EXCEPT !.at = now,
                                  !.by = IF @ = "user" THEN "user" ELSE "auto"])
                         /\ UNCHANGED apprQueue
        /\ UNCHANGED <<claim, rv, now>>

ApprReconcile == ApprGet \/ ApprApprove
=============================================================================
