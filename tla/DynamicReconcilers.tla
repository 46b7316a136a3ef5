------------------------- MODULE DynamicReconcilers -------------------------
(***************************************************************************)
(* DynamicReconcilerManager (controllers/dynamic_reconciler_manager.go):   *)
(* it starts the controllers of a kind (RevisionManager, AutomaticApproval *)
(* and ReleaseController) when the CRD is established, and stops them when *)
(* it is deleted.                                                          *)
(***************************************************************************)
EXTENDS ClaimDefinitions

VARIABLES
    controllers,    \* the kinds whose controllers run
    dynQueue,       \* kinds on the workqueue
    dynWork         \* the reconcile in progress

dynVars == <<controllers, dynQueue, dynWork>>

DynWork == [stage : {"idle", "release", "finalize", "start"},
            name : Definition \cup {0}, crd : Crd]
DynIdle == [stage |-> "idle", name |-> 0, crd |-> NoCrd]

DynTo(stage) == dynWork' = [dynWork EXCEPT !.stage = stage] /\ UNCHANGED dynQueue
DynDone == dynWork' = DynIdle /\ UNCHANGED dynQueue

\* Mutant: the name is looked up after the reconcile has been put away.
DynRetryReset == dynWork' = DynIdle /\ dynQueue' = dynQueue \cup {dynWork'.name}

\* Mutant: an error is not returned.
DynGiveUp == dynWork' = DynIdle /\ UNCHANGED dynQueue

\* An error has the workqueue try again.
DynRetry == dynWork' = DynIdle /\ dynQueue' = dynQueue \cup {dynWork.name}

-----------------------------------------------------------------------------

\* Mutant: the controllers are left running.
leaveControllerFor(d) == UNCHANGED controllers

\* Stop the controllers of the kind, wait for them and drop their informer.
stopAndRemoveControllerFor(d) == controllers' = controllers \ {d}

\* Get the CRD.  The controllers of one that is being deleted are stopped, one that
\* is not established is left for later.
DynGet ==
    \E d \in dynQueue :
        LET crd == Cached(crds)[d]
            To(stage) == dynWork' = [stage |-> stage, name |-> d, crd |-> crd]
        IN  /\ dynWork.stage = "idle"
            /\ dynQueue' = dynQueue \ {d}
            /\ \/ /\ crd.phase = "deleting"
                  /\ stopAndRemoveControllerFor(d)
                  /\ IF crd.ours THEN To("release") ELSE UNCHANGED dynWork
               \/ /\ crd.phase = "live" /\ crd.established
                  /\ To("finalize") /\ UNCHANGED controllers
               \/ /\ crd.phase # "deleting" /\ ~crd.established
                  /\ UNCHANGED <<dynWork, controllers>>
            /\ UNCHANGED crds

\* A CRD without finalizers that is being deleted is gone.
Released(crd) == IF crd.phase = "deleting" /\ ~crd.ours /\ ~crd.cleanup
                 THEN [NoCrd EXCEPT !.uid = crd.uid] ELSE crd

\* The merge patch leaves no finalizer at all, on whatever CRD has the name now.
removeFinalizer ==
    LET d == dynWork.name
        crd == Stored(crds)[d]
    IN  /\ dynWork.stage = "release"
        /\ IF crd.phase = "absent"
           THEN DynRetry /\ UNCHANGED crds
           ELSE DynDone /\ PutCrd(d, Released([crd EXCEPT !.ours = FALSE, !.cleanup = FALSE]))
        /\ UNCHANGED controllers

\* Mutant: that the update is refused goes unnoticed.
addFinalizerUnchecked ==
    LET d == dynWork.name
    IN  /\ dynWork.stage = "finalize"
        /\ IF dynWork.crd = Stored(crds)[d]
           THEN PutCrd(d, [dynWork.crd EXCEPT !.ours = TRUE])
           ELSE UNCHANGED crds
        /\ DynTo("start")
        /\ UNCHANGED controllers

\* The update carries the resource version that was read.
addFinalizer ==
    LET d == dynWork.name
    IN  /\ dynWork.stage = "finalize"
        /\ \/ /\ dynWork.crd.ours
              /\ DynTo("start") /\ UNCHANGED crds
           \/ /\ ~dynWork.crd.ours /\ dynWork.crd = Stored(crds)[d]
              /\ PutCrd(d, [dynWork.crd EXCEPT !.ours = TRUE])
              /\ DynTo("start")
           \/ /\ ~dynWork.crd.ours /\ dynWork.crd # Stored(crds)[d]
              /\ DynRetry /\ UNCHANGED crds
        /\ UNCHANGED controllers

ensureInstanceControllerFor ==
    /\ dynWork.stage = "start"
    /\ controllers' = controllers \cup {dynWork.name}
    /\ DynDone
    /\ UNCHANGED crds

DynFails ==
    /\ dynWork.stage \in {"release", "finalize"}
    /\ DynRetry
    /\ UNCHANGED <<crds, controllers>>

DynProgress ==
    \/ DynGet \/ removeFinalizer
    \/ addFinalizer \/ ensureInstanceControllerFor

-----------------------------------------------------------------------------

WatchCRDs ==
    LET delivered == Delivered(crds)
    IN  /\ Lagging(crds)
        /\ crds' = delivered
        /\ dynQueue' = dynQueue \cup {d \in Definition : delivered[1][d] # crds[1][d]}
        /\ UNCHANGED <<controllers, dynWork>>
=============================================================================
