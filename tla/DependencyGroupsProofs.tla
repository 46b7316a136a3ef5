----------------------- MODULE DependencyGroupsProofs -----------------------
(***************************************************************************)
(* Proofs about DependencyGroups, for any set of groups and CRDs and any   *)
(* number of edits and restarts.                                           *)
(***************************************************************************)
EXTENDS DependencyGroups, InformerProofs, TLAPS

-----------------------------------------------------------------------------
(* Precedence and verdicts.                                                *)

\* claimPrecedes is total on different groups: "the winner is the same no
\* matter which of the groups is being reconciled".
LEMMA PrecedenceTotal ==
    ASSUME NEW g \in Group, NEW h \in Group, g # h,
           NEW a \in Object, NEW b \in Object
    PROVE  claimPrecedes(g, a, h, b) \/ claimPrecedes(h, b, g, a)
  BY GroupAssumption DEF claimPrecedes, Object

\* A verdict is a status.
LEMMA VerdictType ==
    ASSUME NEW g \in Group, NEW self \in Object, NEW objs \in [Group -> Object]
    PROVE  Verdict(g, self, objs) \in Status
  <1>1. conflictingClaims(g, self, objs) \in SUBSET (CRD \X Group)
    BY DEF conflictingClaims, Object
  <1> QED
    BY <1>1 DEF Verdict, Status, Object

\* Of two live groups that claim a CRD, one conflicts with the other.
LEMMA OneOfTwoConflicts ==
    ASSUME NEW objs \in [Group -> Object],
           NEW g \in Group, NEW h \in Group, g # h,
           Live(g, objs), Live(h, objs),
           NEW c \in objs[g].crds, c \in objs[h].crds
    PROVE  \/ conflictingClaims(g, objs[g], objs) # {}
           \/ conflictingClaims(h, objs[h], objs) # {}
  <1>1. CASE claimPrecedes(h, objs[h], g, objs[g])
    <2>1. <<c, h>> \in conflictingClaims(g, objs[g], objs)
      BY <1>1 DEF conflictingClaims
    <2> QED
      BY <2>1
  <1>2. CASE claimPrecedes(g, objs[g], h, objs[h])
    <2>1. <<c, g>> \in conflictingClaims(h, objs[h], objs)
      BY <1>2 DEF conflictingClaims
    <2> QED
      BY <2>1
  <1> QED
    BY <1>1, <1>2, PrecedenceTotal

-----------------------------------------------------------------------------
(* Type correctness.                                                       *)

\* A write of a group by the API server keeps the types of what it touches.
LEMMA PutType ==
    ASSUME TypeOK, NEW g \in Group, NEW obj \in Object, Put(g, obj)
    PROVE  /\ groups' \in Seq([Group -> Object])
           /\ groups' # <<>>
           /\ rv' \in Nat
           /\ Lagging(groups')
           /\ Cached(groups') = Cached(groups)
  <1> DEFINE next == [Stored(groups) EXCEPT ![g] = [obj EXCEPT !.rv = rv + 1]]
  <1>1. Stored(groups) \in [Group -> Object]
    BY WindowEnds DEF TypeOK
  <1>2. [obj EXCEPT !.rv = rv + 1] \in Object
    <2>1. rv + 1 \in Nat
      BY DEF TypeOK
    <2> QED
      BY <2>1 DEF Object
  <1>3. next \in [Group -> Object]
    BY <1>1, <1>2
  <1>4. groups' = Written(groups, next) /\ rv' = rv + 1
    BY DEF Put
  <1> HIDE DEF next
  <1> DEFINE S == [Group -> Object]
  <1>5. groups \in Seq(S) /\ groups # <<>> /\ next \in S
    BY <1>3 DEF TypeOK
  <1> HIDE DEF S
  <1>6. /\ groups' \in Seq(S)
        /\ groups' # <<>>
        /\ Lagging(groups')
        /\ Cached(groups') = Cached(groups)
    BY <1>4, <1>5, WrittenWindow
  <1> QED
    BY <1>4, <1>6 DEF TypeOK, S

\* The values that stand for nothing have the types of what they stand for.
LEMMA NoObjectType == NoObject \in Object /\ NoStatus \in Status /\ Idle \in Work
  BY DEF NoObject, NoStatus, Idle, Object, Status, Work, Undecided

\* An edit or a deletion leaves an object.
LEMMA BumpedObject ==
    ASSUME NEW o \in Object, NEW crds \in SUBSET CRD
    PROVE  /\ [o EXCEPT !.crds = crds, !.generation = @ + 1] \in Object
           /\ [o EXCEPT !.phase = "deleting", !.generation = @ + 1] \in Object
  <1>1. o.generation + 1 \in Nat
    BY DEF Object
  <1>2. \A n \in Nat : [o EXCEPT !.crds = crds, !.generation = n] \in Object
    BY DEF Object
  <1>3. \A n \in Nat : [o EXCEPT !.phase = "deleting", !.generation = n] \in Object
    BY DEF Object
  <1> QED
    BY <1>1, <1>2, <1>3

\* Every variable keeps its type, the reconcile in progress included.
LEMMA TypeStep == TypeOK /\ [Next]_vars => TypeOK'
  <1> SUFFICES ASSUME TypeOK, [Next]_vars PROVE TypeOK'
    OBVIOUS
  <1> USE NoObjectType
  <1>0. /\ Cached(groups) \in [Group -> Object]
        /\ Stored(groups) \in [Group -> Object]
    BY WindowEnds DEF TypeOK
  <1>1. ASSUME NEW g \in Group, Start(g) PROVE TypeOK'
    BY <1>0, <1>1 DEF Start, TypeOK, Work, Idle
  <1>2. ASSUME Validate PROVE TypeOK'
    <2>1. work.group \in Group /\ work.snap \in Object
      BY <1>2 DEF Validate, TypeOK, Work
    <2>2. Verdict(work.group, work.snap, Cached(groups)) \in Status
      BY <1>0, <2>1, VerdictType
    <2> QED
      BY <1>2, <2>2 DEF Validate, TypeOK, Work, Idle
  <1>3. ASSUME UpdateStatus PROVE TypeOK'
    <2> DEFINE g == work.group
               obj == [Stored(groups)[g] EXCEPT !.status = work.status]
    <2>1. g \in Group /\ work.status \in Status
      BY <1>3 DEF UpdateStatus, TypeOK, Work
    <2>2. obj \in Object
      BY <1>0, <2>1 DEF Object
    <2>3. CASE Put(g, obj) /\ UNCHANGED queue
      BY <1>3, <2>1, <2>2, <2>3, PutType DEF UpdateStatus, TypeOK, Idle
    <2>4. CASE queue' = queue \cup {g} /\ UNCHANGED <<groups, rv>>
      BY <1>3, <2>1, <2>4 DEF UpdateStatus, TypeOK, Idle
    <2> QED
      BY <1>3, <2>3, <2>4 DEF UpdateStatus
  <1>4. ASSUME Deliver PROVE TypeOK'
    <2>1. groups' \in Seq([Group -> Object]) /\ groups' # <<>>
      BY <1>4, DeliveredWindow DEF Deliver, TypeOK
    <2> QED
      BY <1>4, <2>1 DEF Deliver, TypeOK
  <1>5. ASSUME enqueueAllGroups PROVE TypeOK'
    BY <1>5 DEF enqueueAllGroups, TypeOK
  <1>6. ASSUME Restart PROVE TypeOK'
    <2>1. groups' \in Seq([Group -> Object]) /\ groups' # <<>>
      BY <1>0, <1>6, SyncedWindow DEF Restart
    <2> QED
      BY <1>6, <2>1 DEF Restart, TypeOK, Idle
  <1>7. ASSUME NEW g \in Group, NEW crds \in SUBSET CRD, Create(g, crds) PROVE TypeOK'
    <2> DEFINE obj == [NoObject EXCEPT !.phase = "live", !.crds = crds,
                                       !.created = now, !.generation = 1]
    <2>1. obj \in Object
      BY DEF TypeOK, Object, NoObject
    <2> QED
      BY <1>7, <2>1, PutType DEF Create, TypeOK
  <1>8. ASSUME NEW g \in Group, NEW crds \in SUBSET CRD, Edit(g, crds) PROVE TypeOK'
    <2> DEFINE obj == [Stored(groups)[g] EXCEPT !.crds = crds, !.generation = @ + 1]
    <2>1. obj \in Object
      BY <1>0, BumpedObject
    <2> QED
      BY <1>8, <2>1, PutType DEF Edit, TypeOK
  <1>9. ASSUME NEW g \in Group, Delete(g) PROVE TypeOK'
    <2> DEFINE obj == [Stored(groups)[g] EXCEPT !.phase = "deleting", !.generation = @ + 1]
    <2>1. obj \in Object
      BY <1>0, BumpedObject
    <2> QED
      BY <1>9, <2>1, PutType DEF Delete, TypeOK
  <1>10. ASSUME NEW g \in Group, FinishDelete(g) PROVE TypeOK'
    BY <1>10, PutType DEF FinishDelete, TypeOK
  <1>11. ASSUME Tick PROVE TypeOK'
    BY <1>11 DEF Tick, TypeOK
  <1>12. ASSUME UNCHANGED vars PROVE TypeOK'
    BY <1>12 DEF vars, TypeOK
  <1> QED
    BY <1>1, <1>2, <1>3, <1>4, <1>5, <1>6, <1>7, <1>8, <1>9, <1>10, <1>11, <1>12
       DEF Next, Reconcile, Watch, User

\* The initial state is well typed.
LEMMA TypeInit == Init => TypeOK
  <1> SUFFICES ASSUME Init PROVE TypeOK
    OBVIOUS
  <1>1. [g \in Group |-> NoObject] \in [Group -> Object]
    BY NoObjectType
  <1>2. groups \in Seq([Group -> Object]) /\ groups # <<>>
    BY <1>1, SyncedWindow DEF Init
  <1> QED
    BY <1>2, NoObjectType DEF Init, TypeOK, Idle

\* Every variable of the controller keeps its type.
THEOREM TypeCorrect == Spec => []TypeOK
  BY TypeInit, TypeStep, PTL DEF Spec

-----------------------------------------------------------------------------
(* The inductive invariant.                                                *)

\* Steps that write a group: the cache stays and lags behind.
LEMMA WriteStep ==
    ASSUME IInv, NEW g \in Group, NEW obj \in Object, Put(g, obj),
           UNCHANGED <<notify, queue, work>>
    PROVE  EveryGroupCovered' /\ WorkIsCurrent'
  <1>1. Lagging(groups') /\ Cached(groups') = Cached(groups)
    BY PutType DEF IInv
  <1>2. EveryGroupCovered'
    BY <1>1 DEF EveryGroupCovered
  <1>3. WorkIsCurrent'
    BY <1>1 DEF IInv, WorkIsCurrent
  <1> QED
    BY <1>2, <1>3

\* Steps that leave the cache, the queue and the worker alone.
LEMMA QuietStep ==
    ASSUME IInv, UNCHANGED <<groups, notify, queue, work>>
    PROVE  EveryGroupCovered' /\ WorkIsCurrent'
  BY DEF IInv, EveryGroupCovered, WorkIsCurrent

\* The three steps of Reconcile keep the invariant.
LEMMA ReconcileStep ==
    ASSUME IInv, Reconcile
    PROVE  EveryGroupCovered' /\ WorkIsCurrent'
  <1>1. ASSUME NEW g \in Group, Start(g)
        PROVE  EveryGroupCovered' /\ WorkIsCurrent'
    <2>1. CASE Live(g, Cached(groups))
      <3>1. /\ work' = [stage |-> "got", group |-> g,
                        snap |-> Cached(groups)[g], status |-> NoStatus]
            /\ queue' = queue \ {g}
            /\ work.stage = "idle"
            /\ UNCHANGED <<groups, notify>>
        BY <1>1, <2>1 DEF Start
      <3>2. work'.stage = "got" /\ work'.group = g /\ work'.snap = Cached(groups)[g]
        BY <3>1
      <3>3. EveryGroupCovered'
        BY <3>1, <3>2 DEF IInv, EveryGroupCovered
      <3>4. WorkIsCurrent'
        BY <3>1, <3>2 DEF WorkIsCurrent
      <3> QED
        BY <3>3, <3>4
    <2>2. CASE ~Live(g, Cached(groups))
      <3>1. /\ work' = Idle
            /\ queue' = queue \ {g}
            /\ work.stage = "idle"
            /\ UNCHANGED <<groups, notify>>
        BY <1>1, <2>2 DEF Start
      <3>2. work'.stage = "idle"
        BY <3>1 DEF Idle
      <3>3. EveryGroupCovered'
        BY <2>2, <3>1, <3>2 DEF IInv, EveryGroupCovered
      <3>4. WorkIsCurrent'
        BY <3>2 DEF WorkIsCurrent
      <3> QED
        BY <3>3, <3>4
    <2> QED
      BY <2>1, <2>2
  <1>2. ASSUME Validate
        PROVE  EveryGroupCovered' /\ WorkIsCurrent'
    <2> DEFINE status == Verdict(work.group, work.snap, Cached(groups))
    <2>0. work.stage = "got" /\ UNCHANGED <<groups, notify, queue>>
      BY <1>2 DEF Validate
    <2>1. CASE status = work.snap.status
      <3>1. work' = Idle /\ work'.stage = "idle"
        BY <1>2, <2>1 DEF Validate, Idle
      <3>2. EveryGroupCovered'
        BY <2>0, <2>1, <3>1 DEF IInv, EveryGroupCovered, WorkIsCurrent
      <3>3. WorkIsCurrent'
        BY <3>1 DEF WorkIsCurrent
      <3> QED
        BY <3>2, <3>3
    <2>2. CASE status # work.snap.status
      <3>1. work' = [work EXCEPT !.stage = "update", !.status = status]
        BY <1>2, <2>2 DEF Validate
      <3>2. /\ work'.stage = "update" /\ work'.group = work.group
            /\ work'.snap = work.snap /\ work'.status = status
        BY <3>1 DEF IInv, TypeOK, Work
      <3> HIDE DEF status
      <3>3. EveryGroupCovered'
        BY <2>0, <3>2 DEF IInv, EveryGroupCovered
      <3>4. WorkIsCurrent'
        BY <2>0, <3>2 DEF IInv, WorkIsCurrent, status
      <3> QED
        BY <3>3, <3>4
    <2> QED
      BY <2>1, <2>2
  <1>3. ASSUME UpdateStatus
        PROVE  EveryGroupCovered' /\ WorkIsCurrent'
    <2> DEFINE g == work.group
               obj == [Stored(groups)[g] EXCEPT !.status = work.status]
    <2>0. work.stage = "update" /\ work' = Idle /\ work'.stage = "idle" /\ UNCHANGED notify
      BY <1>3 DEF UpdateStatus, Idle
    <2>1. WorkIsCurrent'
      BY <2>0 DEF WorkIsCurrent
    <2>2. CASE Put(g, obj) /\ UNCHANGED queue
      <3>1. g \in Group /\ work.status \in Status
        BY <2>0 DEF IInv, TypeOK, Work
      <3>2. Stored(groups) \in [Group -> Object]
        BY WindowEnds DEF IInv, TypeOK
      <3>3. obj \in Object
        BY <3>1, <3>2 DEF Object
      <3>4. Lagging(groups')
        BY <2>2, <3>1, <3>3, PutType DEF IInv
      <3>5. EveryGroupCovered'
        BY <3>4 DEF EveryGroupCovered
      <3> QED
        BY <2>1, <3>5
    <2>3. CASE queue' = queue \cup {g} /\ UNCHANGED <<groups, rv>>
      <3>1. EveryGroupCovered'
        BY <2>0, <2>3 DEF IInv, EveryGroupCovered
      <3> QED
        BY <2>1, <3>1
    <2> QED
      BY <1>3, <2>2, <2>3 DEF UpdateStatus
  <1> QED
    BY <1>1, <1>2, <1>3 DEF Reconcile

\* An event, and a handler that lists the groups, keep the invariant.
LEMMA WatchStep ==
    ASSUME IInv, Watch
    PROVE  EveryGroupCovered' /\ WorkIsCurrent'
  <1>1. ASSUME Deliver
        PROVE  EveryGroupCovered' /\ WorkIsCurrent'
    <2>1. notify' > 0
      BY <1>1 DEF Deliver, IInv, TypeOK
    <2> QED
      BY <2>1 DEF EveryGroupCovered, WorkIsCurrent
  <1>2. ASSUME enqueueAllGroups
        PROVE  EveryGroupCovered' /\ WorkIsCurrent'
    <2>1. /\ queue' = queue \cup {g \in Group : Exists(g, Cached(groups))}
          /\ UNCHANGED <<groups, work>>
      BY <1>2 DEF enqueueAllGroups
    <2>2. \A g \in Group : Live(g, Cached(groups)) => g \in queue'
      BY <2>1 DEF Live, Exists
    <2>3. EveryGroupCovered'
      BY <2>1, <2>2 DEF EveryGroupCovered
    <2>4. WorkIsCurrent'
      BY <2>1, <2>2 DEF IInv, TypeOK, WorkIsCurrent
    <2> QED
      BY <2>3, <2>4
  <1> QED
    BY <1>1, <1>2 DEF Watch

\* A restart keeps the invariant: the initial list enqueues every group.
LEMMA RestartStep ==
    ASSUME IInv, Restart
    PROVE  EveryGroupCovered' /\ WorkIsCurrent'
  <1>1. Stored(groups) \in [Group -> Object]
    BY WindowEnds DEF IInv, TypeOK
  <1>2. Cached(groups') = Stored(groups)
    BY <1>1, SyncedWindow DEF Restart
  <1>3. queue' = {g \in Group : Exists(g, Stored(groups))} /\ work' = Idle
    BY DEF Restart
  <1>4. \A g \in Group : Live(g, Cached(groups')) => g \in queue'
    BY <1>2, <1>3 DEF Live, Exists
  <1>5. EveryGroupCovered'
    BY <1>4 DEF EveryGroupCovered
  <1>6. WorkIsCurrent'
    BY <1>3 DEF WorkIsCurrent, Idle
  <1> QED
    BY <1>5, <1>6

\* Creating, editing and deleting groups keeps the invariant.
LEMMA UserStep ==
    ASSUME IInv, User
    PROVE  EveryGroupCovered' /\ WorkIsCurrent'
  <1> USE NoObjectType
  <1>0. Stored(groups) \in [Group -> Object]
    BY WindowEnds DEF IInv, TypeOK
  <1>1. ASSUME NEW g \in Group, NEW crds \in SUBSET CRD, Create(g, crds)
        PROVE  EveryGroupCovered' /\ WorkIsCurrent'
    <2> DEFINE obj == [NoObject EXCEPT !.phase = "live", !.crds = crds,
                                       !.created = now, !.generation = 1]
    <2>1. obj \in Object
      BY DEF IInv, TypeOK, Object, NoObject
    <2>2. Put(g, obj) /\ UNCHANGED <<notify, queue, work>>
      BY <1>1 DEF Create
    <2> HIDE DEF obj
    <2> QED
      BY <2>1, <2>2, WriteStep
  <1>2. ASSUME NEW g \in Group, NEW crds \in SUBSET CRD, Edit(g, crds)
        PROVE  EveryGroupCovered' /\ WorkIsCurrent'
    <2> DEFINE obj == [Stored(groups)[g] EXCEPT !.crds = crds, !.generation = @ + 1]
    <2>1. obj \in Object
      BY <1>0, BumpedObject
    <2>2. Put(g, obj) /\ UNCHANGED <<notify, queue, work>>
      BY <1>2 DEF Edit
    <2> HIDE DEF obj
    <2> QED
      BY <2>1, <2>2, WriteStep
  <1>3. ASSUME NEW g \in Group, Delete(g)
        PROVE  EveryGroupCovered' /\ WorkIsCurrent'
    <2> DEFINE obj == [Stored(groups)[g] EXCEPT !.phase = "deleting", !.generation = @ + 1]
    <2>1. obj \in Object
      BY <1>0, BumpedObject
    <2>2. /\ Put(g, NoObject) \/ Put(g, obj)
          /\ UNCHANGED <<notify, queue, work>>
      BY <1>3 DEF Delete
    <2> HIDE DEF obj
    <2> QED
      BY <2>1, <2>2, WriteStep
  <1>4. ASSUME NEW g \in Group, FinishDelete(g)
        PROVE  EveryGroupCovered' /\ WorkIsCurrent'
    BY <1>4, WriteStep DEF FinishDelete
  <1>5. ASSUME Tick
        PROVE  EveryGroupCovered' /\ WorkIsCurrent'
    BY <1>5, QuietStep DEF Tick
  <1> QED
    BY <1>1, <1>2, <1>3, <1>4, <1>5 DEF User

\* No group is ever forgotten: its status is what its claims and those of the
\* others dictate, or the queue, a handler or the watch will bring it back.
THEOREM NoGroupForgotten == Spec => []IInv
  <1>1. Init => IInv
    <2> SUFFICES ASSUME Init PROVE EveryGroupCovered /\ WorkIsCurrent
      BY TypeInit DEF IInv
    <2>1. Cached(groups) = [g \in Group |-> NoObject] /\ work = Idle
      BY DEF Init, Cached, Synced
    <2> QED
      BY <2>1 DEF EveryGroupCovered, WorkIsCurrent, Live, NoObject, Idle
  <1>2. IInv /\ [Next]_vars => IInv'
    <2> SUFFICES ASSUME IInv, [Next]_vars PROVE IInv'
      OBVIOUS
    <2>1. TypeOK'
      BY TypeStep DEF IInv
    <2>2. ASSUME UNCHANGED vars PROVE EveryGroupCovered' /\ WorkIsCurrent'
      BY <2>2, QuietStep DEF vars
    <2>3. EveryGroupCovered' /\ WorkIsCurrent'
      BY <2>2, ReconcileStep, WatchStep, RestartStep, UserStep DEF Next
    <2> QED
      BY <2>1, <2>3 DEF IInv
  <1> QED
    BY <1>1, <1>2, PTL DEF Spec

-----------------------------------------------------------------------------
(* What the invariant gives once the controller is settled.                *)

\* In a settled state every live group has the verdict its claims call for.
LEMMA SettledVerdicts ==
    ASSUME IInv, Settled
    PROVE  /\ Stored(groups) \in [Group -> Object]
           /\ \A g \in Group :
                Live(g, Stored(groups)) =>
                    Stored(groups)[g].status
                        = Verdict(g, Stored(groups)[g], Stored(groups))
  <1>1. Cached(groups) = Stored(groups) /\ Stored(groups) \in [Group -> Object]
    BY WindowEnds DEF IInv, TypeOK, Settled
  <1> QED
    BY <1>1 DEF IInv, TypeOK, Settled, EveryGroupCovered

\* In a settled state a CRD belongs to at most one accepted group, for any
\* number of groups and CRDs and any interleaving of edits and reconciles.
THEOREM AcceptedDisjoint == Spec => []AcceptedAreDisjoint
  <1>1. IInv => AcceptedAreDisjoint
    <2> SUFFICES ASSUME IInv, Settled,
                        NEW g \in Group, NEW h \in Group, g # h,
                        Stored(groups)[g].phase = "live",
                        Stored(groups)[g].status.state = Accepted,
                        Stored(groups)[h].phase = "live",
                        Stored(groups)[h].status.state = Accepted,
                        NEW c \in Stored(groups)[g].crds,
                        c \in Stored(groups)[h].crds
                 PROVE  FALSE
      BY DEF AcceptedAreDisjoint
    <2> DEFINE objs == Stored(groups)
    <2>1. Live(g, objs) /\ Live(h, objs) /\ objs \in [Group -> Object]
      BY SettledVerdicts DEF Live
    <2>2. conflictingClaims(g, objs[g], objs) = {}
      <3>1. objs[g].status = Verdict(g, objs[g], objs)
        BY <2>1, SettledVerdicts
      <3> QED
        BY <3>1 DEF Verdict, Accepted, Rejected
    <2>3. conflictingClaims(h, objs[h], objs) = {}
      <3>1. objs[h].status = Verdict(h, objs[h], objs)
        BY <2>1, SettledVerdicts
      <3> QED
        BY <3>1 DEF Verdict, Accepted, Rejected
    <2> HIDE DEF objs
    <2> QED
      BY <2>1, <2>2, <2>3, OneOfTwoConflicts DEF objs
  <1> QED
    BY <1>1, NoGroupForgotten, PTL

\* In a settled state every live group has its verdict, and a rejected one has a
\* live rival at least as old as itself.
THEOREM RejectionJustified == Spec => []RejectedForAReason
  <1>1. IInv => RejectedForAReason
    <2> SUFFICES ASSUME IInv, Settled,
                        NEW g \in Group, Stored(groups)[g].phase = "live"
                 PROVE  /\ Stored(groups)[g].status.state # Undecided
                        /\ Stored(groups)[g].status.state = Rejected =>
                             \E h \in Group \ {g} :
                                /\ Stored(groups)[h].phase = "live"
                                /\ Stored(groups)[g].crds \cap Stored(groups)[h].crds # {}
                                /\ Stored(groups)[h].created <= Stored(groups)[g].created
      BY DEF RejectedForAReason
    <2> DEFINE objs == Stored(groups)
    <2>1. Live(g, objs) /\ objs \in [Group -> Object]
      BY SettledVerdicts DEF Live
    <2>2. objs[g].status = Verdict(g, objs[g], objs)
      BY <2>1, SettledVerdicts
    <2>3. objs[g].status.state # Undecided
      BY <2>2 DEF Verdict, Accepted, Rejected, Undecided
    <2>4. ASSUME objs[g].status.state = Rejected
          PROVE  \E h \in Group \ {g} :
                    /\ objs[h].phase = "live"
                    /\ objs[g].crds \cap objs[h].crds # {}
                    /\ objs[h].created <= objs[g].created
      <3>1. conflictingClaims(g, objs[g], objs) # {}
        BY <2>2, <2>4 DEF Verdict, Accepted, Rejected
      <3>2. PICK c \in objs[g].crds \X Group :
                /\ c[2] # g
                /\ Live(c[2], objs)
                /\ c[1] \in objs[c[2]].crds
                /\ claimPrecedes(c[2], objs[c[2]], g, objs[g])
        BY <3>1 DEF conflictingClaims
      <3>3. c[2] \in Group \ {g} /\ c[1] \in objs[g].crds
        BY <3>2
      <3>4. objs[c[2]].created <= objs[g].created
        BY <2>1, <3>2, <3>3 DEF claimPrecedes, Object
      <3> QED
        BY <3>2, <3>3, <3>4 DEF Live
    <2> QED
      BY <2>3, <2>4
  <1> QED
    BY <1>1, NoGroupForgotten, PTL

-----------------------------------------------------------------------------
(* What the resource version that Status().Update carries is for.          *)

\* A copy of a group that carries the resource version of the stored one is the
\* stored one: every write takes a resource version that none before it had.
IsStoredIfSameVersion(g, object) ==
    /\ object.rv <= rv
    /\ object.rv = Stored(groups)[g].rv => object = Stored(groups)[g]

CopiesCarryVersions ==
    /\ \A state \in States(groups) : \A g \in Group : IsStoredIfSameVersion(g, state[g])
    /\ work.stage # "idle" => IsStoredIfSameVersion(work.group, work.snap)

\* The status of a reconcile is about the group as it was read.
VerdictIsOnSnap ==
    work.stage = "update" => IsVerdictOn(work.status, work.group, work.snap)

VersionInv == TypeOK /\ CopiesCarryVersions /\ VerdictIsOnSnap

\* The API server keeps what it holds.
StoredKept ==
    /\ rv' = rv
    /\ Stored(groups') = Stored(groups)
    /\ States(groups') \subseteq States(groups)

\* What a write does to the groups.
LEMMA PutEffect ==
    ASSUME TypeOK, NEW g \in Group, NEW obj \in Object, Put(g, obj)
    PROVE  /\ rv' = rv + 1
           /\ Stored(groups') = [Stored(groups) EXCEPT ![g] = [obj EXCEPT !.rv = rv + 1]]
           /\ States(groups') = States(groups) \cup {Stored(groups')}
  <1> DEFINE next == [Stored(groups) EXCEPT ![g] = [obj EXCEPT !.rv = rv + 1]]
             S == [Group -> Object]
  <1>1. Stored(groups) \in S
    BY WindowEnds DEF TypeOK
  <1>2. rv + 1 \in Nat
    BY DEF TypeOK
  <1>3. [obj EXCEPT !.rv = rv + 1] \in Object
    BY <1>2 DEF Object
  <1>4. next \in S
    BY <1>1, <1>3
  <1>5. groups' = Written(groups, next) /\ rv' = rv + 1 /\ groups \in Seq(S) /\ groups # <<>>
    BY DEF Put, TypeOK
  <1> HIDE DEF next, S
  <1>6. Stored(groups') = next /\ States(groups') = States(groups) \cup {next}
    BY <1>4, <1>5, WrittenWindow, WrittenStates
  <1> QED
    BY <1>5, <1>6 DEF next

\* A copy that was what it claims to be is so after a write.
LEMMA CopyAfterPut ==
    ASSUME TypeOK, NEW g \in Group, NEW obj \in Object, Put(g, obj),
           NEW h \in Group, NEW object \in Object, IsStoredIfSameVersion(h, object)
    PROVE  object.rv <= rv' /\ (object.rv = Stored(groups')[h].rv => object = Stored(groups')[h])
  <1>1. Stored(groups) \in [Group -> Object]
    BY WindowEnds DEF TypeOK
  <1>2. /\ rv' = rv + 1 /\ rv \in Nat
        /\ Stored(groups') = [Stored(groups) EXCEPT ![g] = [obj EXCEPT !.rv = rv + 1]]
    BY PutEffect DEF TypeOK
  <1>3. object.rv \in Nat /\ object.rv <= rv
    BY DEF IsStoredIfSameVersion, Object
  <1>4. object.rv <= rv + 1 /\ object.rv # rv + 1
    BY <1>2, <1>3
  <1>5. CASE h # g
    <2>1. Stored(groups')[h] = Stored(groups)[h]
      BY <1>1, <1>2, <1>5
    <2> QED
      BY <1>2, <1>4, <2>1 DEF IsStoredIfSameVersion
  <1>6. CASE h = g
    <2>1. Stored(groups')[h].rv = rv + 1
      BY <1>1, <1>2, <1>6 DEF Object
    <2> QED
      BY <1>2, <1>4, <2>1
  <1> QED
    BY <1>5, <1>6

\* A write keeps the invariant.
LEMMA PutVersions ==
    ASSUME VersionInv, NEW g \in Group, NEW obj \in Object, Put(g, obj),
           work' \in {work, Idle}
    PROVE  CopiesCarryVersions' /\ VerdictIsOnSnap'
  <1> DEFINE new == [obj EXCEPT !.rv = rv + 1]
  <1>1. TypeOK /\ Stored(groups) \in [Group -> Object] /\ States(groups) \subseteq [Group -> Object]
    BY WindowEnds, EndsAreStates DEF VersionInv, TypeOK
  <1>2. /\ rv' = rv + 1 /\ rv \in Nat
        /\ Stored(groups') = [Stored(groups) EXCEPT ![g] = new]
        /\ States(groups') = States(groups) \cup {Stored(groups')}
    BY <1>1, PutEffect DEF TypeOK
  <1>3. /\ new.rv = rv + 1 /\ new.phase = obj.phase /\ new.status = obj.status
        /\ new.generation = obj.generation /\ new.crds = obj.crds
    BY DEF Object
  <1> HIDE DEF new
  <1>4. Stored(groups')[g] = new /\ \A h \in Group \ {g} : Stored(groups')[h] = Stored(groups)[h]
    BY <1>1, <1>2
  <1>5. \A h \in Group : IsStoredIfSameVersion(h, Stored(groups)[h])
    BY <1>1, EndsAreStates DEF VersionInv, TypeOK, CopiesCarryVersions
  <1>6. \A state \in States(groups') : \A h \in Group :
            /\ state[h].rv <= rv'
            /\ state[h].rv = Stored(groups')[h].rv => state[h] = Stored(groups')[h]
    <2>1. ASSUME NEW state \in States(groups), NEW h \in Group
          PROVE  /\ state[h].rv <= rv'
                 /\ state[h].rv = Stored(groups')[h].rv => state[h] = Stored(groups')[h]
      <3>1. state[h] \in Object /\ IsStoredIfSameVersion(h, state[h])
        BY <1>1, <2>1 DEF VersionInv, CopiesCarryVersions
      <3> QED
        BY <1>1, <3>1, CopyAfterPut
    <2>2. ASSUME NEW h \in Group PROVE Stored(groups')[h].rv <= rv'
      <3>1. CASE h = g
        BY <1>2, <1>3, <1>4, <3>1
      <3>2. CASE h # g
        <4>1. Stored(groups)[h] \in Object /\ IsStoredIfSameVersion(h, Stored(groups)[h])
          BY <1>1, <1>5
        <4>2. Stored(groups)[h].rv <= rv'
          BY <1>1, <4>1, CopyAfterPut
        <4> QED
          BY <1>4, <3>2, <4>2
      <3> QED
        BY <3>1, <3>2
    <2> QED
      BY <1>2, <2>1, <2>2
  <1>7. work'.stage # "idle" =>
            /\ work'.snap.rv <= rv'
            /\ work'.snap.rv = Stored(groups')[work'.group].rv => work'.snap = Stored(groups')[work'.group]
    <2>1. CASE work' = Idle
      BY <2>1 DEF Idle
    <2>2. CASE work' = work /\ work.stage # "idle"
      <3>1. work.group \in Group /\ work.snap \in Object /\ IsStoredIfSameVersion(work.group, work.snap)
        BY <1>1, <2>2 DEF TypeOK, Work, VersionInv, CopiesCarryVersions
      <3> QED
        BY <1>1, <2>2, <3>1, CopyAfterPut
    <2> QED
      BY <2>1, <2>2
  <1>8. CopiesCarryVersions'
    BY <1>6, <1>7 DEF CopiesCarryVersions, IsStoredIfSameVersion
  <1>9. VerdictIsOnSnap'
    BY DEF VersionInv, VerdictIsOnSnap, Idle
  <1> QED
    BY <1>8, <1>9

\* Steps that write nothing and leave the reconcile alone or end it.
LEMMA KeptVersions ==
    ASSUME VersionInv, StoredKept, work' \in {work, Idle}
    PROVE  CopiesCarryVersions' /\ VerdictIsOnSnap'
  <1>1. CopiesCarryVersions'
    BY DEF VersionInv, StoredKept, CopiesCarryVersions, IsStoredIfSameVersion, Idle
  <1>2. VerdictIsOnSnap'
    BY DEF VersionInv, VerdictIsOnSnap, Idle
  <1> QED
    BY <1>1, <1>2

LEMMA UserVersions ==
    ASSUME VersionInv, User
    PROVE  CopiesCarryVersions' /\ VerdictIsOnSnap'
  <1> USE NoObjectType
  <1>0. TypeOK /\ Stored(groups) \in [Group -> Object]
    BY WindowEnds DEF VersionInv, TypeOK
  <1>1. ASSUME NEW g \in Group, NEW crds \in SUBSET CRD, Create(g, crds)
        PROVE  CopiesCarryVersions' /\ VerdictIsOnSnap'
    <2> DEFINE obj == [NoObject EXCEPT !.phase = "live", !.crds = crds,
                                       !.created = now, !.generation = 1]
    <2>1. obj \in Object
      BY <1>0 DEF TypeOK, Object, NoObject
    <2>3. Put(g, obj) /\ work' = work
      BY <1>1 DEF Create
    <2> HIDE DEF obj
    <2> QED
      BY <2>1, <2>3, PutVersions
  <1>2. ASSUME NEW g \in Group, NEW crds \in SUBSET CRD, Edit(g, crds)
        PROVE  CopiesCarryVersions' /\ VerdictIsOnSnap'
    <2> DEFINE obj == [Stored(groups)[g] EXCEPT !.crds = crds, !.generation = @ + 1]
    <2>1. obj \in Object
      BY <1>0, BumpedObject
    <2>3. Put(g, obj) /\ work' = work
      BY <1>2 DEF Edit
    <2> HIDE DEF obj
    <2> QED
      BY <2>1, <2>3, PutVersions
  <1>3. ASSUME NEW g \in Group, Put(g, NoObject), work' = work
        PROVE  CopiesCarryVersions' /\ VerdictIsOnSnap'
    BY <1>3, PutVersions
  <1>4. ASSUME NEW g \in Group, Delete(g)
        PROVE  CopiesCarryVersions' /\ VerdictIsOnSnap'
    <2> DEFINE obj == [Stored(groups)[g] EXCEPT !.phase = "deleting", !.generation = @ + 1]
    <2>1. obj \in Object
      BY <1>0, BumpedObject
    <2>3. (Put(g, NoObject) \/ Put(g, obj)) /\ work' = work
      BY <1>4 DEF Delete
    <2> HIDE DEF obj
    <2> QED
      BY <1>3, <2>1, <2>3, PutVersions
  <1>5. ASSUME NEW g \in Group, FinishDelete(g)
        PROVE  CopiesCarryVersions' /\ VerdictIsOnSnap'
    BY <1>3, <1>5 DEF FinishDelete
  <1>6. ASSUME Tick
        PROVE  CopiesCarryVersions' /\ VerdictIsOnSnap'
    BY <1>6, KeptVersions DEF Tick, StoredKept
  <1> QED
    BY <1>1, <1>2, <1>4, <1>5, <1>6 DEF User

LEMMA ReconcileVersions ==
    ASSUME VersionInv, Reconcile
    PROVE  CopiesCarryVersions' /\ VerdictIsOnSnap'
  <1>0. TypeOK /\ Stored(groups) \in [Group -> Object] /\ Cached(groups) \in [Group -> Object]
    BY WindowEnds DEF VersionInv, TypeOK
  <1>1. ASSUME NEW g \in Group, Start(g)
        PROVE  CopiesCarryVersions' /\ VerdictIsOnSnap'
    <2>1. CASE work' = Idle
      BY <1>1, <2>1, KeptVersions DEF Start, StoredKept
    <2>2. CASE work' # Idle
      <3>1. /\ work' = [stage |-> "got", group |-> g, snap |-> Cached(groups)[g], status |-> NoStatus]
            /\ UNCHANGED <<groups, rv>>
        BY <1>1, <2>2 DEF Start
      <3>2. work'.stage = "got" /\ work'.group = g /\ work'.snap = Cached(groups)[g]
        BY <3>1
      <3>3. Cached(groups) \in States(groups)
        BY <1>0, EndsAreStates DEF TypeOK
      <3>4. IsStoredIfSameVersion(g, Cached(groups)[g])
        BY <3>3 DEF VersionInv, CopiesCarryVersions
      <3>5. CopiesCarryVersions'
        BY <3>1, <3>2, <3>4 DEF VersionInv, CopiesCarryVersions, IsStoredIfSameVersion
      <3>6. VerdictIsOnSnap'
        BY <3>2 DEF VerdictIsOnSnap
      <3> QED
        BY <3>5, <3>6
    <2> QED
      BY <2>1, <2>2
  <1>2. ASSUME Validate
        PROVE  CopiesCarryVersions' /\ VerdictIsOnSnap'
    <2> DEFINE status == Verdict(work.group, work.snap, Cached(groups))
    <2>1. CASE work' = Idle
      BY <1>2, <2>1, KeptVersions DEF Validate, StoredKept
    <2>2. CASE work' # Idle
      <3>1. /\ work' = [work EXCEPT !.stage = "update", !.status = status]
            /\ work.stage = "got" /\ UNCHANGED <<groups, rv>>
        BY <1>2, <2>2 DEF Validate
      <3>2. IsVerdictOn(status, work.group, work.snap)
        BY DEF IsVerdictOn, Verdict, conflictingClaims
      <3> HIDE DEF status
      <3>3. /\ work'.stage = "update" /\ work'.group = work.group
            /\ work'.snap = work.snap /\ work'.status = status
        BY <1>0, <3>1 DEF TypeOK, Work
      <3>4. CopiesCarryVersions'
        BY <3>1, <3>3 DEF VersionInv, CopiesCarryVersions, IsStoredIfSameVersion
      <3>5. VerdictIsOnSnap'
        BY <3>2, <3>3 DEF VerdictIsOnSnap
      <3> QED
        BY <3>4, <3>5
    <2> QED
      BY <2>1, <2>2
  <1>3. ASSUME UpdateStatus
        PROVE  CopiesCarryVersions' /\ VerdictIsOnSnap'
    <2> DEFINE g == work.group
               obj == [Stored(groups)[g] EXCEPT !.status = work.status]
    <2>1. work.stage = "update" /\ work' = Idle /\ g \in Group /\ work.status \in Status
      BY <1>0, <1>3 DEF UpdateStatus, TypeOK, Work
    <2>2. CASE Put(g, obj)
      <3>1. obj \in Object
        BY <1>0, <2>1 DEF Object
      <3> QED
        BY <2>1, <2>2, <3>1, PutVersions
    <2>3. CASE UNCHANGED <<groups, rv>>
      BY <2>1, <2>3, KeptVersions DEF StoredKept
    <2> QED
      BY <1>3, <2>2, <2>3 DEF UpdateStatus
  <1> QED
    BY <1>1, <1>2, <1>3 DEF Reconcile

LEMMA WatchKeepsStored ==
    ASSUME VersionInv, Watch \/ Restart \/ UNCHANGED vars
    PROVE  StoredKept /\ work' \in {work, Idle}
  <1>0. TypeOK
    BY DEF VersionInv
  <1>1. ASSUME Deliver PROVE StoredKept /\ work' = work
    BY <1>0, <1>1, DeliveredWindow, DeliveredStates DEF Deliver, TypeOK, StoredKept
  <1>2. ASSUME enqueueAllGroups \/ UNCHANGED vars PROVE StoredKept /\ work' = work
    BY <1>2 DEF enqueueAllGroups, vars, StoredKept
  <1>3. ASSUME Restart PROVE StoredKept /\ work' = Idle
    <2>1. Stored(groups) \in [Group -> Object] /\ Stored(groups) \in States(groups)
      BY <1>0, WindowEnds, EndsAreStates DEF TypeOK
    <2> QED
      BY <1>3, <2>1, SyncedWindow, SyncedStates DEF Restart, StoredKept
  <1> QED
    BY <1>1, <1>2, <1>3 DEF Watch

LEMMA WatchVersions ==
    ASSUME VersionInv, Watch \/ Restart \/ UNCHANGED vars
    PROVE  CopiesCarryVersions' /\ VerdictIsOnSnap'
  BY WatchKeepsStored, KeptVersions

\* A user writes a group without a status, or one with the status it had.
LEMMA UserKeepsStatus ==
    ASSUME VersionInv, User, NEW g \in Group
    PROVE  Stored(groups')[g].status \in {Stored(groups)[g].status, NoStatus}
  <1>1. TypeOK /\ Stored(groups) \in [Group -> Object]
    BY WindowEnds DEF VersionInv, TypeOK
  <1>2. ASSUME NEW h \in Group, NEW obj \in Object, Put(h, obj),
               obj.status \in {Stored(groups)[h].status, NoStatus}
        PROVE  Stored(groups')[g].status \in {Stored(groups)[g].status, NoStatus}
    <2>1. Stored(groups') = [Stored(groups) EXCEPT ![h] = [obj EXCEPT !.rv = rv + 1]]
      BY <1>1, <1>2, PutEffect
    <2>2. [obj EXCEPT !.rv = rv + 1].status = obj.status
      BY <1>2 DEF Object
    <2> QED
      BY <1>1, <1>2, <2>1, <2>2
  <1>3. NoObject \in Object /\ NoObject.status = NoStatus
    BY NoObjectType DEF NoObject
  <1>4. ASSUME NEW h \in Group, NEW crds \in SUBSET CRD, Create(h, crds)
        PROVE  Stored(groups')[g].status \in {Stored(groups)[g].status, NoStatus}
    <2> DEFINE obj == [NoObject EXCEPT !.phase = "live", !.crds = crds,
                                       !.created = now, !.generation = 1]
    <2>1. obj \in Object /\ obj.status = NoStatus
      BY <1>1, NoObjectType DEF TypeOK, Object, NoObject
    <2>2. Put(h, obj)
      BY <1>4 DEF Create
    <2> HIDE DEF obj
    <2> QED
      BY <1>2, <2>1, <2>2
  <1>5. ASSUME NEW h \in Group, NEW crds \in SUBSET CRD, Edit(h, crds)
        PROVE  Stored(groups')[g].status \in {Stored(groups)[g].status, NoStatus}
    <2> DEFINE obj == [Stored(groups)[h] EXCEPT !.crds = crds, !.generation = @ + 1]
    <2>1. obj \in Object
      BY <1>1, BumpedObject
    <2>2. obj.status = Stored(groups)[h].status
      BY <1>1 DEF Object
    <2>3. Put(h, obj)
      BY <1>5 DEF Edit
    <2> HIDE DEF obj
    <2> QED
      BY <1>2, <2>1, <2>2, <2>3
  <1>6. ASSUME NEW h \in Group, Delete(h)
        PROVE  Stored(groups')[g].status \in {Stored(groups)[g].status, NoStatus}
    <2> DEFINE obj == [Stored(groups)[h] EXCEPT !.phase = "deleting", !.generation = @ + 1]
    <2>1. obj \in Object
      BY <1>1, BumpedObject
    <2>2. obj.status = Stored(groups)[h].status
      BY <1>1 DEF Object
    <2>3. Put(h, NoObject) \/ Put(h, obj)
      BY <1>6 DEF Delete
    <2> HIDE DEF obj
    <2> QED
      BY <1>2, <1>3, <2>1, <2>2, <2>3
  <1>7. ASSUME NEW h \in Group, FinishDelete(h)
        PROVE  Stored(groups')[g].status \in {Stored(groups)[g].status, NoStatus}
    BY <1>2, <1>3, <1>7 DEF FinishDelete
  <1>8. ASSUME Tick
        PROVE  Stored(groups')[g].status \in {Stored(groups)[g].status, NoStatus}
    BY <1>8 DEF Tick
  <1> QED
    BY <1>4, <1>5, <1>6, <1>7, <1>8 DEF User

\* The API server only takes a status for the version that it was reached on.
LEMMA StatusIsOfStored ==
    ASSUME VersionInv, UpdateStatus, NEW g \in Group,
           Stored(groups')[g].status # Stored(groups)[g].status
    PROVE  LET before == Stored(groups)[g]
               after == Stored(groups')[g]
           IN  /\ work.group = g /\ work.snap = before
               /\ IsVerdictOn(after.status, g, before)
               /\ after = [before EXCEPT !.status = after.status, !.rv = after.rv]
  <1> DEFINE h == work.group
             obj == [Stored(groups)[h] EXCEPT !.status = work.status]
             new == [obj EXCEPT !.rv = rv + 1]
  <1>1. TypeOK /\ Stored(groups) \in [Group -> Object]
    BY WindowEnds DEF VersionInv, TypeOK
  <1>2. work.stage = "update" /\ h \in Group /\ work.status \in Status
    BY <1>1 DEF UpdateStatus, TypeOK, Work
  <1>3. Put(h, obj) /\ Stored(groups)[h].rv = work.snap.rv
    BY DEF UpdateStatus
  <1>4. work.snap = Stored(groups)[h] /\ IsVerdictOn(work.status, h, Stored(groups)[h])
    BY <1>2, <1>3 DEF VersionInv, CopiesCarryVersions, IsStoredIfSameVersion, VerdictIsOnSnap
  <1>5. Stored(groups)[h] \in Object
    BY <1>1, <1>2
  <1>5a. obj \in Object
    BY <1>2, <1>5 DEF Object
  <1>6. Stored(groups') = [Stored(groups) EXCEPT ![h] = new]
    BY <1>1, <1>2, <1>3, <1>5a, PutEffect
  <1>7. g = h /\ Stored(groups')[g] = new
    BY <1>1, <1>2, <1>6
  <1>8. new.status = work.status /\ new = [Stored(groups)[h] EXCEPT !.status = new.status, !.rv = new.rv]
    BY <1>5 DEF Object
  <1> HIDE DEF new, obj
  <1> QED
    BY <1>4, <1>7, <1>8

\* A group only ever gets a verdict that was reached on the very version of it
\* that is stored, whatever was edited, deleted or made anew under the same name
\* between the read and the write, for any number of groups, CRDs, edits and
\* restarts.
THEOREM VerdictsAreOfTheirVersion == Spec => VerdictOfItsVersion
  <1> DEFINE Lands(g) == LET before == Stored(groups)[g]
                             after == Stored(groups')[g]
                         IN  after.status # before.status /\ after.status # NoStatus =>
                               /\ work.group = g /\ work.snap = before
                               /\ IsVerdictOn(after.status, g, before)
                               /\ after = [before EXCEPT !.status = after.status, !.rv = after.rv]
  <1>1. Init => VersionInv
    <2> SUFFICES ASSUME Init PROVE VersionInv
      OBVIOUS
    <2>1. [g \in Group |-> NoObject] \in [Group -> Object]
      BY NoObjectType
    <2>2. /\ Stored(groups) = [g \in Group |-> NoObject]
          /\ States(groups) = {[g \in Group |-> NoObject]} /\ rv = 0 /\ work = Idle
      BY <2>1, SyncedWindow, SyncedStates DEF Init
    <2>3. NoObject.rv = 0 /\ work.stage = "idle"
      BY <2>2 DEF NoObject, Idle
    <2>4. CopiesCarryVersions /\ VerdictIsOnSnap
      BY <2>2, <2>3 DEF CopiesCarryVersions, IsStoredIfSameVersion, VerdictIsOnSnap
    <2> QED
      BY <2>4, TypeInit DEF VersionInv
  <1>2. VersionInv /\ [Next]_vars => VersionInv'
    <2> SUFFICES ASSUME VersionInv, [Next]_vars PROVE VersionInv'
      OBVIOUS
    <2>1. TypeOK'
      BY TypeStep DEF VersionInv
    <2>2. CopiesCarryVersions' /\ VerdictIsOnSnap'
      BY ReconcileVersions, WatchVersions, UserVersions DEF Next
    <2> QED
      BY <2>1, <2>2 DEF VersionInv
  <1>3. ASSUME VersionInv, [Next]_vars, NEW g \in Group
        PROVE  Lands(g)
    <2>1. CASE User
      BY <1>3, <2>1, UserKeepsStatus
    <2>2. CASE Watch \/ Restart \/ UNCHANGED vars
      BY <1>3, <2>2, WatchKeepsStored DEF StoredKept
    <2>3. CASE UpdateStatus
      BY <1>3, <2>3, StatusIsOfStored
    <2>4. CASE Validate \/ \E h \in Group : Start(h)
      BY <2>4 DEF Validate, Start
    <2> QED
      BY <1>3, <2>1, <2>2, <2>3, <2>4 DEF Next, Reconcile
  <1>4. VersionInv /\ [Next]_vars => [\A g \in Group : Lands(g)]_vars
    BY <1>3
  <1> QED
    BY <1>1, <1>2, <1>4, PTL DEF Spec, VerdictOfItsVersion
=============================================================================
