-------------------------- MODULE ClaimDefinitions --------------------------
(***************************************************************************)
(* ClaimDefinitionManager                                                  *)
(* (controllers/claimdefinition_controller_manager.go): it turns the chart *)
(* that a ClaimDefinition points at into the CRD its claims are made with. *)
(*                                                                         *)
(* A chart is the set of the fields it lets a claim set (ChartSchemas is   *)
(* about how they come about, ChartVersions about the versions on offer).  *)
(***************************************************************************)
EXTENDS Informer, SequencesExt

CONSTANTS
    Definition,     \* names of ClaimDefinitions, as ranks in the order of strings
    Field,          \* fields that charts have
    Uncompilable    \* charts that no CRD can be generated from: expressions that do
                    \*        not compile, values or a version that are not valid

ASSUME DefinitionAssumption == Definition \subseteq Nat /\ IsFiniteSet(Definition)

VARIABLES
    defs,       \* window of the ClaimDefinitions
    oci,        \* window of what Flux has for them: the chart in storage, with its tags
    crds,       \* window of the CRDs, by the definition they are generated from
    defQueue,   \* definitions on the workqueue, in order
    defWork     \* the reconcile in progress

defVars == <<defs, oci, defQueue, defWork>>

-----------------------------------------------------------------------------

Chart == SUBSET Field
NoChart == {"no chart"}

Reason == {"none", "error", "conflict", "waiting", "breaking", "ready"}
Def == [live : BOOLEAN, uid : Nat, created : Nat, provides : BOOLEAN, generation : Nat,
        observed : Nat, reason : Reason, applied : Chart \cup {NoChart}]
NoDef == [live |-> FALSE, uid |-> 0, created |-> 0, provides |-> FALSE, generation |-> 0,
          observed |-> 0, reason |-> "none", applied |-> NoChart]

\* ours: the finalizer of DynamicReconcilerManager is on it, cleanup: that of the
\* API server.
Crd == [phase : {"absent", "live", "deleting"}, uid : Nat, established : BOOLEAN,
        ours : BOOLEAN, cleanup : BOOLEAN, fields : Chart]
NoCrd == [phase |-> "absent", uid |-> 0, established |-> FALSE,
          ours |-> FALSE, cleanup |-> FALSE, fields |-> {}]

DefWork == [stage : {"idle", "load", "apply", "flush"}, name : Definition \cup {0},
            source : Def, chart : Chart \cup {NoChart}, reason : Reason, err : BOOLEAN]
DefIdle == [stage |-> "idle", name |-> 0, source |-> NoDef, chart |-> NoChart,
            reason |-> "none", err |-> FALSE]

\* The workqueue holds a name once and is served in order.  Names that arrive
\* together come from a list of the cache, which has no order.
Enqueued(queue, names) ==
    {queue \o new : new \in SetToSeqs({d \in names : \A i \in 1 .. Len(queue) : queue[i] # d})}

PutDef(d, def) ==
    defs' = IF Stored(defs)[d] = def THEN defs ELSE Written(defs, [Stored(defs) EXCEPT ![d] = def])
PutCrd(d, crd) ==
    crds' = IF Stored(crds)[d] = crd THEN crds ELSE Written(crds, [Stored(crds) EXCEPT ![d] = crd])

-----------------------------------------------------------------------------

\* Mutant: of two definitions made in the same second both come first.
providerPrecedesByAge(state, a, b) == state[a].created <= state[b].created

\* The older source wins a group, ties are broken by name.
providerPrecedes(state, a, b) ==
    \/ state[a].created < state[b].created
    \/ state[a].created = state[b].created /\ a < b

\* Two definitions conflict if both provide the group (there is one group here).
conflictingProviders(state, d) ==
    {other \in Definition \ {d} : /\ state[other].live
                                  /\ state[d].provides /\ state[other].provides
                                  /\ providerPrecedes(state, other, d)}

\* breakagedetection.Check, as far as whole fields go (BreakageDetection has the rest).
Breaks(original, updated) == ~(original \subseteq updated)

-----------------------------------------------------------------------------
(* Reconcile.  Whatever it comes to, the deferred function writes it into  *)
(* the status, and an error puts the definition back on the queue.         *)

Conclude(reason, err) ==
    defWork' = [defWork EXCEPT !.stage = "flush", !.reason = reason, !.err = err]

\* Get the definition and check it against the others.
DefGet ==
    LET d == Head(defQueue)
        state == Cached(defs)
    IN  /\ defWork.stage = "idle"
        /\ defQueue # <<>>
        /\ defQueue' = Tail(defQueue)
        /\ defWork' = IF ~state[d].live THEN DefIdle
                      ELSE [DefIdle EXCEPT
                             !.name = d, !.source = state[d],
                             !.stage = IF conflictingProviders(state, d) # {} THEN "flush" ELSE "load",
                             !.reason = IF conflictingProviders(state, d) # {} THEN "conflict" ELSE "none"]
        /\ UNCHANGED <<defs, oci, crds>>

\* Fetch the chart from the source controller and the tags from the image reflector,
\* compile and generate.  What the cache knows of may be gone there, replaced by a
\* newer chart, or tags of another digest: that is an error.  So is a chart that does
\* not compile, as often as it is tried.
DefLoad ==
    LET d == defWork.name
        chart == Cached(oci)[d]
    IN  /\ defWork.stage = "load"
        /\ \/ chart = NoChart /\ Conclude("waiting", FALSE)
           \/ /\ chart # NoChart /\ (chart # Stored(oci)[d] \/ chart \in Uncompilable)
              /\ Conclude("error", TRUE)
           \/ /\ chart # NoChart /\ chart \notin Uncompilable
              /\ defWork' = [defWork EXCEPT !.stage = "apply", !.chart = chart]
        /\ UNCHANGED <<defs, oci, crds, defQueue>>

\* Compare the generated CRD with the one in the cache and apply it, by a
\* server-side apply, which leaves the finalizers alone.
DefApply ==
    LET d == defWork.name
        orig == Cached(crds)[d]
        crd == Stored(crds)[d]
    IN  /\ defWork.stage = "apply"
        /\ IF orig.phase # "absent" /\ Breaks(orig.fields, defWork.chart)
           THEN Conclude("breaking", TRUE) /\ UNCHANGED crds
           ELSE /\ PutCrd(d, IF crd.phase = "absent"
                             THEN [NoCrd EXCEPT !.phase = "live", !.uid = crd.uid + 1,
                                                !.fields = defWork.chart]
                             ELSE [crd EXCEPT !.fields = defWork.chart])
                /\ Conclude("ready", FALSE)
        /\ UNCHANGED <<defs, oci, defQueue>>

Finish ==
    /\ defWork' = DefIdle
    /\ defQueue' \in IF defWork.err THEN Enqueued(defQueue, {defWork.name}) ELSE {defQueue}

\* The status as the reconcile leaves it.
Concluded ==
    LET source == defWork.source
    IN  [source EXCEPT !.observed = source.generation, !.reason = defWork.reason,
                       !.applied = IF defWork.reason = "ready" THEN defWork.chart ELSE source.applied]

\* The deferred status update.  It is refused if the definition has changed since
\* it was read, and an error of it is only logged.
DefFlush ==
    /\ defWork.stage = "flush"
    /\ IF Stored(defs)[defWork.name] = defWork.source
       THEN PutDef(defWork.name, Concluded)
       ELSE UNCHANGED defs
    /\ Finish
    /\ UNCHANGED <<oci, crds>>

\* A call fails: one for the chart, the tags or the CRD ends the reconcile, one for
\* the status is lost.
DefFails ==
    /\ \/ defWork.stage \in {"load", "apply"} /\ Conclude("error", TRUE) /\ UNCHANGED defQueue
       \/ defWork.stage = "flush" /\ Finish
    /\ UNCHANGED <<defs, oci, crds>>

DefProgress == DefGet \/ DefLoad \/ DefApply \/ DefFlush

-----------------------------------------------------------------------------
(* Watches.                                                                *)

\* Mutant: a definition is enqueued for its own events only.
WatchDefinitionsForOwner ==
    LET delivered == Delivered(defs)
    IN  /\ Lagging(defs)
        /\ defs' = delivered
        /\ defQueue' \in Enqueued(defQueue, {d \in Definition : delivered[1][d] # defs[1][d]})
        /\ UNCHANGED <<oci, defWork>>

\* An event of a definition enqueues it and all that are there.
WatchDefinitions ==
    LET delivered == Delivered(defs)
    IN  /\ Lagging(defs)
        /\ defs' = delivered
        /\ defQueue' \in Enqueued(defQueue, {d \in Definition : \/ delivered[1][d].live
                                                                \/ delivered[1][d] # defs[1][d]})
        /\ UNCHANGED <<oci, defWork>>

\* An event of an OCIRepository or ImageRepository enqueues those that refer to it.
WatchSources ==
    LET delivered == Delivered(oci)
    IN  /\ Lagging(oci)
        /\ oci' = delivered
        /\ defQueue' \in Enqueued(defQueue, {d \in Definition : /\ Cached(defs)[d].live
                                                                /\ delivered[1][d] # oci[1][d]})
        /\ UNCHANGED <<defs, defWork>>

\* The informers report all they hold again from time to time (bound: when the
\* worker has nothing to do; ten hours pass from one time to the next).
ResyncDefinitions ==
    /\ defQueue = <<>> /\ defWork = DefIdle
    /\ defQueue' \in Enqueued(defQueue, {d \in Definition : Cached(defs)[d].live})
    /\ UNCHANGED <<defs, oci, crds, defWork>>
=============================================================================
