-------------------------- MODULE DependencyGroups --------------------------
(***************************************************************************)
(* DependencyGroupManager (controllers/dependencygroup_controller.go): it  *)
(* decides which DependencyGroup holds the claim on the CRDs it bundles.   *)
(* The older group wins a CRD, ties are broken by name.                    *)
(*                                                                         *)
(* One worker takes group names off a queue.  A reconcile reads the group, *)
(* then the list of all groups, from the informer cache, and writes the    *)
(* status with the resource version it has read.  Every event of any group *)
(* puts every group back on the queue, in a handler that runs some time    *)
(* after the cache has changed.                                            *)
(***************************************************************************)
EXTENDS Naturals, Sequences, Informer

CONSTANTS
    Group,          \* names, as their rank in the order of strings
    CRD,            \* names of CRDs
    MaxTime,        \* bound: seconds the API server's clock may reach
    MaxEdits,       \* bound: creations, edits and deletions by users, and
                    \*        restarts of the operator
    MaxLag          \* bound: users do not run further ahead of the cache than
                    \*        this many changes

ASSUME GroupAssumption == Group \subseteq Nat
ASSUME BoundsAssumption ==
    MaxTime \in Nat /\ MaxEdits \in Nat /\ MaxLag \in Nat

VARIABLES
    groups,     \* window of the DependencyGroup objects, by name
    now,        \* the API server's clock, in seconds
    rv,         \* the last resource version given out
    notify,     \* watch events whose handler has not run yet
    queue,      \* the workqueue
    work,       \* the reconcile in progress
    edits       \* user writes and restarts so far

vars == <<groups, now, rv, notify, queue, work, edits>>

-----------------------------------------------------------------------------

Undecided == ""           \* a group without a status
Accepted == "Accepted"
Rejected == "Rejected"

\* .status: the state, and of the Accepted condition what SetStatusCondition
\* compares: the message (as the set of conflicts it lists) and the observed
\* generation.
Status == [state : {Undecided, Accepted, Rejected},
           conflicts : SUBSET (CRD \X Group),
           observed : Nat]

Object == [phase : {"absent", "live", "deleting"},
           crds : SUBSET CRD,
           created : Nat,
           generation : Nat,
           status : Status,
           rv : Nat]

NoStatus == [state |-> Undecided, conflicts |-> {}, observed |-> 0]

NoObject == [phase |-> "absent", crds |-> {}, created |-> 0,
             generation |-> 0, status |-> NoStatus, rv |-> 0]

Work == [stage : {"idle", "got", "update"}, group : Group \cup {0},
         snap : Object, status : Status]

Idle == [stage |-> "idle", group |-> 0, snap |-> NoObject, status |-> NoStatus]

Exists(g, objs) == objs[g].phase # "absent"
Live(g, objs) == objs[g].phase = "live"

-----------------------------------------------------------------------------
(* The verdict on a group.                                                 *)

\* Mutant: ties are not broken.
claimPrecedesByAge(h, other, g, self) == other.created < self.created

claimPrecedes(h, other, g, self) ==
    \/ other.created < self.created
    \/ other.created = self.created /\ h < g

\* Mutant: a group that is being deleted keeps its claims.
conflictingClaimsOfDeleted(g, self, objs) ==
    {c \in self.crds \X Group :
        /\ c[2] # g
        /\ Exists(c[2], objs)
        /\ c[1] \in objs[c[2]].crds
        /\ claimPrecedes(c[2], objs[c[2]], g, self)}

\* self is the group as Get returned it, objs the groups as List returned
\* them some time later.
conflictingClaims(g, self, objs) ==
    {c \in self.crds \X Group :
        /\ c[2] # g
        /\ Live(c[2], objs)
        /\ c[1] \in objs[c[2]].crds
        /\ claimPrecedes(c[2], objs[c[2]], g, self)}

\* Mutant: a state that the API does not know.
VerdictOutsideEnum(g, self, objs) ==
    LET conflicts == conflictingClaims(g, self, objs)
    IN  [state |-> IF conflicts = {} THEN Accepted ELSE "Conflicting",
         conflicts |-> conflicts,
         observed |-> self.generation]

Verdict(g, self, objs) ==
    LET conflicts == conflictingClaims(g, self, objs)
    IN  [state |-> IF conflicts = {} THEN Accepted ELSE Rejected,
         conflicts |-> conflicts,
         observed |-> self.generation]

-----------------------------------------------------------------------------
(* Reconcile.                                                              *)

\* A write of g that the API server accepts.
Put(g, obj) ==
    /\ groups' = Written(groups, [Stored(groups) EXCEPT ![g] = [obj EXCEPT !.rv = rv + 1]])
    /\ rv' = rv + 1

\* Mutant: a group that is not found is an error, and retried.
StartRetriesNotFound(g) ==
    /\ work.stage = "idle"
    /\ g \in queue
    /\ IF Live(g, Cached(groups))
       THEN /\ queue' = queue \ {g}
            /\ work' = [stage |-> "got", group |-> g,
                        snap |-> Cached(groups)[g], status |-> NoStatus]
       ELSE UNCHANGED <<queue, work>>
    /\ UNCHANGED <<groups, now, rv, notify, edits>>

\* Get the group.  One that is gone or being deleted is not validated.
Start(g) ==
    /\ work.stage = "idle"
    /\ g \in queue
    /\ queue' = queue \ {g}
    /\ work' = IF Live(g, Cached(groups))
               THEN [stage |-> "got", group |-> g,
                     snap |-> Cached(groups)[g], status |-> NoStatus]
               ELSE Idle
    /\ UNCHANGED <<groups, now, rv, notify, edits>>

\* List the groups and decide.  Nothing is written if the status the worker
\* has read says so already.
Validate ==
    LET status == Verdict(work.group, work.snap, Cached(groups))
    IN  /\ work.stage = "got"
        /\ work' = IF status = work.snap.status
                   THEN Idle
                   ELSE [work EXCEPT !.stage = "update", !.status = status]
        /\ UNCHANGED <<groups, now, rv, notify, queue, edits>>

\* Mutant: on a conflict the status is written onto the group as it is now.
UpdateStatusOnConflict ==
    LET g == work.group
        stored == Stored(groups)[g]
    IN  /\ work.stage = "update"
        /\ work' = Idle
        /\ Put(g, [stored EXCEPT !.status = [work.status EXCEPT !.observed = stored.generation]])
        /\ UNCHANGED <<now, notify, queue, edits>>

\* Status().Update: refused unless the group still has the resource version
\* that Get has returned.  The error puts the name back on the queue.
UpdateStatus ==
    LET g == work.group
        stored == Stored(groups)[g]
    IN  /\ work.stage = "update"
        /\ work' = Idle
        /\ \/ /\ stored.rv = work.snap.rv
              /\ Put(g, [stored EXCEPT !.status = work.status])
              /\ UNCHANGED queue
           \/ /\ stored.rv # work.snap.rv
              /\ queue' = queue \cup {g}
              /\ UNCHANGED <<groups, rv>>
        /\ UNCHANGED <<now, notify, edits>>

-----------------------------------------------------------------------------
(* Watches.                                                                *)

\* The informer applies the next change to the cache.  The group that changed is
\* enqueued, the other handler is due.
Deliver ==
    /\ Lagging(groups)
    /\ groups' = Delivered(groups)
    /\ notify' = notify + 1
    /\ queue' = queue \cup {g \in Group : Cached(groups')[g] # Cached(groups)[g]}
    /\ UNCHANGED <<now, rv, work, edits>>

\* Mutant: only the groups without a verdict are enqueued.
enqueueUndecidedGroups ==
    /\ notify > 0
    /\ notify' = notify - 1
    /\ queue' = queue \cup {g \in Group : /\ Exists(g, Cached(groups))
                                          /\ Cached(groups)[g].status.state = Undecided}
    /\ UNCHANGED <<groups, now, rv, work, edits>>

\* The handler of one event lists the cache and enqueues every group in it.
enqueueAllGroups ==
    /\ notify > 0
    /\ notify' = notify - 1
    /\ queue' = queue \cup {g \in Group : Exists(g, Cached(groups))}
    /\ UNCHANGED <<groups, now, rv, work, edits>>

\* The operator restarts: the worker and the queue are lost, the informer
\* lists the API server afresh and reports every group it finds.
Restart ==
    /\ edits < MaxEdits
    /\ edits' = edits + 1
    /\ groups' = Synced(Stored(groups))
    /\ notify' = 0
    /\ queue' = {g \in Group : Exists(g, Stored(groups))}
    /\ work' = Idle
    /\ UNCHANGED <<now, rv>>

-----------------------------------------------------------------------------
(* Users and the clock.                                                    *)

Create(g, crds) ==
    /\ edits < MaxEdits /\ Len(groups) <= MaxLag
    /\ ~Exists(g, Stored(groups))
    /\ Put(g, [NoObject EXCEPT !.phase = "live", !.crds = crds,
                               !.created = now, !.generation = 1])
    /\ edits' = edits + 1
    /\ UNCHANGED <<now, notify, queue, work>>

Edit(g, crds) ==
    LET stored == Stored(groups)[g]
    IN  /\ edits < MaxEdits /\ Len(groups) <= MaxLag
        /\ Exists(g, Stored(groups))
        /\ crds # stored.crds
        /\ Put(g, [stored EXCEPT !.crds = crds, !.generation = @ + 1])
        /\ edits' = edits + 1
        /\ UNCHANGED <<now, notify, queue, work>>

\* A group with a finalizer of its own stays around, marked for deletion.
Delete(g) ==
    LET stored == Stored(groups)[g]
    IN  /\ edits < MaxEdits /\ Len(groups) <= MaxLag
        /\ Live(g, Stored(groups))
        /\ \/ Put(g, NoObject)
           \/ Put(g, [stored EXCEPT !.phase = "deleting", !.generation = @ + 1])
        /\ edits' = edits + 1
        /\ UNCHANGED <<now, notify, queue, work>>

FinishDelete(g) ==
    /\ Stored(groups)[g].phase = "deleting" /\ Len(groups) <= MaxLag
    /\ Put(g, NoObject)
    /\ UNCHANGED <<now, notify, queue, work, edits>>

Tick ==
    /\ now < MaxTime
    /\ now' = now + 1
    /\ UNCHANGED <<groups, rv, notify, queue, work, edits>>

-----------------------------------------------------------------------------

Init ==
    /\ groups = Synced([g \in Group |-> NoObject])
    /\ now = 0
    /\ rv = 0
    /\ notify = 0
    /\ queue = {}
    /\ work = Idle
    /\ edits = 0

Reconcile == (\E g \in Group : Start(g)) \/ Validate \/ UpdateStatus

Watch == Deliver \/ enqueueAllGroups

User ==
    \/ \E g \in Group, crds \in SUBSET CRD : Create(g, crds) \/ Edit(g, crds)
    \/ \E g \in Group : Delete(g) \/ FinishDelete(g)
    \/ Tick

Next == Reconcile \/ Watch \/ Restart \/ User

Spec == Init /\ [][Next]_vars

\* The worker and the informer keep running; users need do nothing.
FairSpec == Spec /\ WF_vars(Reconcile) /\ WF_vars(Deliver) /\ WF_vars(enqueueAllGroups)

-----------------------------------------------------------------------------
(* Properties.                                                             *)

TypeOK ==
    /\ groups \in Seq([Group -> Object])
    /\ groups # <<>>
    /\ now \in Nat
    /\ rv \in Nat
    /\ notify \in Nat
    /\ queue \in SUBSET Group
    /\ work \in Work
    /\ work.stage # "idle" => work.group \in Group
    /\ edits \in Nat

\* Nothing is left to do: the cache is current, no handler, no name and no
\* reconcile is outstanding.
Settled ==
    /\ ~Lagging(groups)
    /\ notify = 0
    /\ queue = {}
    /\ work.stage = "idle"

\* Once the controller has nothing left to do, a CRD belongs to at most one
\* accepted group that is not being deleted (dependencygroup_controller.go:23),
\* whatever was created, edited or deleted while reconciles were under way, and
\* whichever of two groups of the same second was reconciled first.
AcceptedAreDisjoint ==
    Settled =>
        \A g, h \in Group :
            LET a == Stored(groups)[g]
                b == Stored(groups)[h]
            IN  /\ g # h
                /\ a.phase = "live" /\ a.status.state = Accepted
                /\ b.phase = "live" /\ b.status.state = Accepted
                => a.crds \cap b.crds = {}

\* Once the controller has nothing left to do, no group waits for a verdict, and
\* a group is rejected only for a CRD that a group with precedence claims at
\* this moment: a group deleted or edited in the meantime does not keep it
\* rejected (the comment at dependencygroup_controller.go:89).
RejectedForAReason ==
    Settled =>
        \A g \in Group :
            LET a == Stored(groups)[g]
            IN  a.phase = "live" =>
                  /\ a.status.state # Undecided
                  /\ a.status.state = Rejected =>
                       \E h \in Group \ {g} :
                          LET b == Stored(groups)[h]
                          IN  /\ b.phase = "live"
                              /\ a.crds \cap b.crds # {}
                              /\ b.created <= a.created

\* A verdict on g as the object shows it: on its generation, about its CRDs.
IsVerdictOn(status, g, object) ==
    /\ status.observed = object.generation
    /\ status.conflicts \subseteq object.crds \X (Group \ {g})
    /\ status.state = IF status.conflicts = {} THEN Accepted ELSE Rejected

\* Whenever a group gets another verdict, be it a rejection or an acceptance, the
\* group that is there is in all of its fields the one that the worker has read
\* some steps before, and nothing of it but the status changes: a verdict never
\* lands on a spec that was edited in between, nor on a group that was deleted and
\* made anew under the name, perhaps with the same generation and in the same
\* second (the resource version that Status().Update carries,
\* dependencygroup_controller.go:78).
VerdictOfItsVersion ==
    [][\A g \in Group :
        LET before == Stored(groups)[g]
            after == Stored(groups')[g]
        IN  after.status # before.status /\ after.status # NoStatus =>
              /\ work.group = g /\ work.snap = before
              /\ IsVerdictOn(after.status, g, before)
              /\ after = [before EXCEPT !.status = after.status, !.rv = after.rv]]_vars

\* What makes AcceptedAreDisjoint and RejectedForAReason inductive.  A live group is up to date,
\* or something is bound to make the worker look at it again.
EveryGroupCovered ==
    \A g \in Group :
        Live(g, Cached(groups)) =>
            \/ Lagging(groups)
            \/ notify > 0
            \/ g \in queue
            \/ work.stage # "idle" /\ work.group = g
            \/ Cached(groups)[g].status = Verdict(g, Cached(groups)[g], Cached(groups))

\* A reconcile in progress works on what the cache still holds, or its group is
\* bound to be looked at again.
WorkIsCurrent ==
    work.stage # "idle" =>
        \/ notify > 0
        \/ work.group \in queue
        \/ ~Live(work.group, Cached(groups))
        \/ /\ work.snap = Cached(groups)[work.group]
           /\ work.stage = "update" =>
                work.status = Verdict(work.group, work.snap, Cached(groups))

\* The inductive invariant of the proofs.
IInv == TypeOK /\ EveryGroupCovered /\ WorkIsCurrent

\* Users stop at some point; from then on the controller comes to rest for good.
EventuallySettled == <>[]Settled
=============================================================================
