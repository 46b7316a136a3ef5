----------------------------- MODULE KindsProofs -----------------------------
(***************************************************************************)
(* Proofs about Kinds.  The finalizer that DynamicReconcilerManager puts   *)
(* on a CRD is there for as long as the controllers of the kind run,       *)
(* although the manager goes by a cached CRD, takes the finalizer off      *)
(* whatever CRD has the name, and users and Kubernetes delete and make     *)
(* CRDs meanwhile.  And ClaimDefinitionManager, as long as nothing fails,  *)
(* leaves no definition to the next resync.                                *)
(***************************************************************************)
EXTENDS Kinds, InformerProofs, FiniteSetTheorems, WellFoundedInduction, TLAPS

-----------------------------------------------------------------------------
(* The invariant.                                                          *)

\* TypeOK, with windows that are never empty, what Flux has, and a name and a chart
\* for as long as a reconcile needs them.
Typed ==
    /\ crds \in Seq([Definition -> Crd]) /\ crds # <<>>
    /\ oci \in Seq([Definition -> Chart \cup {NoChart}]) /\ oci # <<>>
    /\ defs \in Seq([Definition -> Def]) /\ defs # <<>>
    /\ defQueue \in Seq(Definition)
    /\ defWork \in DefWork
    /\ defWork.stage # "idle" => defWork.name \in Definition
    /\ defWork.stage = "apply" => defWork.chart \in Chart
    /\ dynWork \in DynWork
    /\ dynWork.stage # "idle" => dynWork.name \in Definition
    /\ dynQueue \subseteq Definition
    /\ controllers \subseteq Definition
    /\ claims \in [Definition -> ClaimPhase]

\* How a CRD can have changed from a to b.  One that is made anew has no finalizer
\* of ours, one that is being deleted is not revived, and one that had our finalizer
\* while it was live has kept it.
CrdOnward(a, b) ==
    /\ a.uid <= b.uid
    /\ a.uid < b.uid => ~b.ours
    /\ a.uid = b.uid /\ a.phase = "deleting" => b.phase # "live"
    /\ a.phase = "live" /\ a.ours => b.phase # "absent" /\ b.ours

Onward ==
    {p \in [Definition -> Crd] \X [Definition -> Crd] : \A d \in Definition : CrdOnward(p[1][d], p[2][d])}

\* As far as the window of the CRDs goes back, and the copy that the reconcile in
\* progress works on.  The controllers of a kind are stopped before its finalizer
\* goes, and started after it is on.
WorkSide ==
    LET d == dynWork.name
        crd == dynWork.crd
    IN  /\ dynWork.stage \in {"release", "finalize"} => \A s \in States(crds) : CrdOnward(crd, s[d])
        /\ dynWork.stage = "release" => crd.phase = "deleting" /\ d \notin controllers
        /\ dynWork.stage = "finalize" => crd.phase = "live"
        /\ dynWork.stage = "start" => Stored(crds)[d].phase # "absent" /\ Stored(crds)[d].ours

IInv == Typed /\ Forward(crds, Onward) /\ WorkSide /\ RunningIsHeld

-----------------------------------------------------------------------------
(* CRDs.                                                                   *)

LEMMA NoCrdType == NoCrd \in Crd
  BY DEF NoCrd, Crd, Chart

LEMMA CrdEnds ==
    ASSUME Typed
    PROVE  /\ Stored(crds) \in [Definition -> Crd] /\ Cached(crds) \in [Definition -> Crd]
           /\ Stored(crds) \in States(crds) /\ Cached(crds) \in States(crds)
           /\ States(crds) \subseteq [Definition -> Crd]
  BY WindowEnds, EndsAreStates DEF Typed

LEMMA CrdOnwardSelf ==
    ASSUME NEW a \in Crd
    PROVE  CrdOnward(a, a)
  BY DEF CrdOnward, Crd

\* In a window that moves onward, every state has moved onward from the cached one
\* and can move onward to the stored one.
LEMMA OnwardEnds ==
    ASSUME Typed, Forward(crds, Onward), NEW s \in States(crds), NEW d \in Definition
    PROVE  CrdOnward(Cached(crds)[d], s[d]) /\ CrdOnward(s[d], Stored(crds)[d])
  <1> DEFINE S == [Definition -> Crd]
  <1>1. crds \in Seq(S) /\ crds # <<>>
    BY DEF Typed
  <1> HIDE DEF S
  <1>2. <<Cached(crds), s>> \in Onward /\ <<s, Stored(crds)>> \in Onward
    BY <1>1, ForwardEnds
  <1> QED
    BY <1>2 DEF Onward

\* A write of one CRD.
LEMMA PutCrdWindow ==
    ASSUME Typed, Forward(crds, Onward), NEW d \in Definition, NEW new \in Crd, PutCrd(d, new),
           \A s \in States(crds) : CrdOnward(s[d], new)
    PROVE  /\ crds' \in Seq([Definition -> Crd]) /\ crds' # <<>>
           /\ Forward(crds', Onward)
           /\ Stored(crds') = [Stored(crds) EXCEPT ![d] = new]
           /\ States(crds') \subseteq States(crds) \cup {Stored(crds')}
  <1> DEFINE S == [Definition -> Crd]
             next == [Stored(crds) EXCEPT ![d] = new]
  <1>1. Stored(crds) \in S /\ States(crds) \subseteq S
    BY CrdEnds
  <1>2. crds \in Seq(S) /\ crds # <<>>
    BY DEF Typed
  <1>3. CASE Stored(crds)[d] = new
    <2>1. crds' = crds
      BY <1>3 DEF PutCrd
    <2>2. next = Stored(crds)
      BY <1>1, <1>3
    <2> QED
      BY <1>2, <2>1, <2>2
  <1>4. CASE Stored(crds)[d] # new
    <2>1. crds' = Written(crds, next)
      BY <1>4 DEF PutCrd
    <2>2. next \in S
      BY <1>1
    <2>3. next[d] = new /\ \A e \in Definition \ {d} : next[e] = Stored(crds)[e]
      BY <1>1
    <2> HIDE DEF next
    <2>4. ASSUME NEW s \in States(crds), NEW e \in Definition
          PROVE  CrdOnward(s[e], next[e])
      <3>1. CASE e = d
        BY <2>3, <3>1
      <3>2. CASE e # d
        BY <2>3, <3>2, OnwardEnds
      <3> QED
        BY <3>1, <3>2
    <2>5. \A e \in Definition : CrdOnward(next[e], next[e])
      BY <2>2, CrdOnwardSelf
    <2>6. \A s \in States(crds) : <<s, next>> \in Onward
      BY <1>1, <2>2, <2>4 DEF Onward
    <2>7. <<next, next>> \in Onward
      BY <2>2, <2>5 DEF Onward
    <2> HIDE DEF S
    <2>8. Forward(crds', Onward)
      BY <1>2, <2>1, <2>2, <2>6, <2>7, WrittenForward
    <2>9. crds' \in Seq(S) /\ crds' # <<>> /\ Stored(crds') = next
      BY <1>2, <2>1, <2>2, WrittenWindow
    <2>10. States(crds') = States(crds) \cup {next}
      BY <1>2, <2>1, <2>2, WrittenStates
    <2> QED
      BY <2>8, <2>9, <2>10 DEF S, next
  <1> QED
    BY <1>3, <1>4

-----------------------------------------------------------------------------
(* What the steps of others do to the CRDs.                                *)

CrdsKept ==
    /\ crds' \in Seq([Definition -> Crd]) /\ crds' # <<>>
    /\ Forward(crds', Onward)
    /\ Stored(crds') = Stored(crds)
    /\ States(crds') \subseteq States(crds)

\* A CRD is made anew, changed in other respects, marked for deletion, or gone for
\* want of a finalizer.
OthersChange(a, b) ==
    \/ a.phase = "absent" /\ b.phase = "live" /\ b.uid = a.uid + 1 /\ ~b.ours
    \/ b.uid = a.uid /\ b.ours = a.ours /\ b.phase = a.phase
    \/ b.uid = a.uid /\ b.ours = a.ours /\ a.phase = "live" /\ b.phase = "deleting"
    \/ b.uid = a.uid /\ a.phase = "deleting" /\ b.phase = "absent" /\ ~a.ours /\ ~b.ours

OthersWrite ==
    \E d \in Definition : \E new \in Crd : OthersChange(Stored(crds)[d], new) /\ PutCrd(d, new)

\* None of this breaks the order, or takes our finalizer off a CRD.
LEMMA OthersMoveOnward ==
    ASSUME NEW x \in Crd, NEW a \in Crd, NEW b \in Crd, CrdOnward(x, a), OthersChange(a, b)
    PROVE  /\ CrdOnward(x, b)
           /\ a.phase # "absent" /\ a.ours => b.phase # "absent" /\ b.ours
  <1>1. x.uid \in Nat /\ a.uid \in Nat /\ b.uid \in Nat /\ x.uid <= a.uid
    BY DEF Crd, CrdOnward
  <1>2. CASE a.phase = "absent" /\ b.phase = "live" /\ b.uid = a.uid + 1 /\ ~b.ours
    <2>1. x.uid < b.uid
      BY <1>1, <1>2
    <2>2. x.uid <= b.uid /\ x.uid # b.uid
      BY <1>1, <2>1
    <2> QED
      BY <1>2, <2>1, <2>2 DEF CrdOnward
  <1>3. CASE b.uid = a.uid
    <2>1. CASE b.ours = a.ours /\ b.phase = a.phase
      BY <1>3, <2>1 DEF CrdOnward
    <2>2. CASE b.ours = a.ours /\ a.phase = "live" /\ b.phase = "deleting"
      BY <1>3, <2>2 DEF CrdOnward
    <2>3. CASE a.phase = "deleting" /\ b.phase = "absent" /\ ~a.ours /\ ~b.ours
      BY <1>3, <2>3 DEF CrdOnward
    <2> QED
      BY <1>2, <1>3, <2>1, <2>2, <2>3 DEF OthersChange
  <1> QED
    BY <1>2, <1>3 DEF OthersChange

LEMMA KeptIfUnchanged ==
    ASSUME Typed, Forward(crds, Onward), UNCHANGED crds
    PROVE  CrdsKept
  BY DEF CrdsKept, Typed

\* ClaimDefinitionManager applies a CRD without a look at its finalizers.
LEMMA ApplyWrites ==
    ASSUME Typed, Forward(crds, Onward), DefApply
    PROVE  CrdsKept \/ OthersWrite
  <1> DEFINE d == defWork.name
             a == Stored(crds)[d]
             made == [NoCrd EXCEPT !.phase = "live", !.uid = a.uid + 1, !.fields = defWork.chart]
             changed == [a EXCEPT !.fields = defWork.chart]
  <1>1. CASE UNCHANGED crds
    BY <1>1, KeptIfUnchanged
  <1>2. d \in Definition
    BY DEF DefApply, Typed
  <1>3. CASE ~UNCHANGED crds
    <2>1. a \in Crd /\ defWork.chart \in Chart
      BY <1>2, CrdEnds DEF DefApply, Typed
    <2>2. PutCrd(d, IF a.phase = "absent" THEN made ELSE changed)
      BY <1>3 DEF DefApply
    <2> HIDE DEF a
    <2>3. a.uid + 1 \in Nat
      BY <2>1 DEF Crd
    <2>4. made \in Crd /\ made.phase = "live" /\ made.uid = a.uid + 1 /\ ~made.ours
      BY <2>1, <2>3, NoCrdType DEF Crd, NoCrd
    <2>5. changed \in Crd /\ changed.phase = a.phase /\ changed.uid = a.uid /\ changed.ours = a.ours
      BY <2>1 DEF Crd
    <2> HIDE DEF made, changed
    <2>6. CASE a.phase = "absent"
      <3>1. OthersChange(a, made) /\ PutCrd(d, made)
        BY <2>2, <2>4, <2>6 DEF OthersChange
      <3> QED
        BY <1>2, <2>4, <3>1 DEF OthersWrite, a
    <2>7. CASE a.phase # "absent"
      <3>1. OthersChange(a, changed) /\ PutCrd(d, changed)
        BY <2>2, <2>5, <2>7 DEF OthersChange
      <3> QED
        BY <1>2, <2>5, <3>1 DEF OthersWrite, a
    <2> QED
      BY <2>6, <2>7
  <1> QED
    BY <1>1, <1>3

\* Users delete CRDs; the API server establishes them, and lets them go when
\* nothing holds them.
LEMMA ClusterWrites ==
    ASSUME Typed, Forward(crds, Onward), NEW d \in Definition,
           DeleteCrd(d) \/ Establish(d) \/ FinalizeKind(d)
    PROVE  CrdsKept \/ OthersWrite
  <1> DEFINE a == Stored(crds)[d]
             deleted == [a EXCEPT !.phase = "deleting", !.cleanup = TRUE]
             established == [a EXCEPT !.established = TRUE]
             bare == [a EXCEPT !.cleanup = FALSE]
             gone == [NoCrd EXCEPT !.uid = bare.uid]
  <1>1. a \in Crd
    BY CrdEnds
  <1>2. CASE DeleteCrd(d)
    <2>1. a.phase = "live" /\ PutCrd(d, deleted)
      BY <1>2 DEF DeleteCrd
    <2> HIDE DEF a
    <2>2. deleted \in Crd /\ deleted.uid = a.uid /\ deleted.ours = a.ours /\ deleted.phase = "deleting"
      BY <1>1 DEF Crd
    <2> HIDE DEF deleted
    <2>3. OthersChange(a, deleted)
      BY <2>1, <2>2 DEF OthersChange
    <2> QED
      BY <2>1, <2>2, <2>3 DEF OthersWrite, a
  <1>3. CASE Establish(d)
    <2>1. PutCrd(d, established)
      BY <1>3 DEF Establish
    <2> HIDE DEF a
    <2>2. /\ established \in Crd /\ established.uid = a.uid /\ established.ours = a.ours
          /\ established.phase = a.phase
      BY <1>1 DEF Crd
    <2> HIDE DEF established
    <2>3. OthersChange(a, established)
      BY <2>2 DEF OthersChange
    <2> QED
      BY <2>1, <2>2, <2>3 DEF OthersWrite, a
  <1>4. CASE FinalizeKind(d) /\ ~UNCHANGED crds
    <2>1. a.phase = "deleting" /\ PutCrd(d, Released(bare))
      BY <1>4 DEF FinalizeKind
    <2> HIDE DEF a
    <2>2. bare \in Crd /\ bare.uid = a.uid /\ bare.ours = a.ours /\ bare.phase = a.phase
      BY <1>1 DEF Crd
    <2> HIDE DEF bare
    <2>3. gone \in Crd /\ gone.uid = bare.uid /\ ~gone.ours /\ gone.phase = "absent"
      BY <2>2, NoCrdType DEF Crd, NoCrd
    <2> HIDE DEF gone
    <2>4. \/ Released(bare) = bare
          \/ Released(bare) = gone /\ ~bare.ours
      BY DEF Released, gone
    <2>5. Released(bare) \in Crd /\ OthersChange(a, Released(bare))
      BY <2>1, <2>2, <2>3, <2>4 DEF OthersChange
    <2> QED
      BY <2>1, <2>5 DEF OthersWrite, a
  <1> QED
    BY <1>2, <1>3, <1>4, KeptIfUnchanged

\* Every step but those of DynamicReconcilerManager and a restart.
Others ==
    \/ DefinitionsProgress
    \/ Failure /\ DefFails /\ UNCHANGED dynVars
    \/ DeliverDefinition \/ DeliverSource \/ DeliverCRD
    \/ Resync \/ Users \/ Cluster \/ UNCHANGED vars

LEMMA DeliverKeeps ==
    ASSUME Typed, Forward(crds, Onward), WatchCRDs
    PROVE  CrdsKept
  <1> DEFINE S == [Definition -> Crd]
  <1>1. crds \in Seq(S) /\ Lagging(crds) /\ crds' = Delivered(crds)
    BY DEF Typed, WatchCRDs
  <1> HIDE DEF S
  <1>2. crds' \in Seq(S) /\ crds' # <<>> /\ Stored(crds') = Stored(crds)
    BY <1>1, DeliveredWindow
  <1>3. States(crds') \subseteq States(crds)
    BY <1>1, DeliveredStates
  <1>4. Forward(crds', Onward)
    BY <1>1, DeliveredForward
  <1> QED
    BY <1>2, <1>3, <1>4 DEF CrdsKept, S

LEMMA OthersEffect ==
    ASSUME Typed, Forward(crds, Onward), Others
    PROVE  /\ CrdsKept \/ OthersWrite
           /\ UNCHANGED <<controllers, dynWork>>
           /\ dynQueue' \subseteq Definition
  <1>1. CASE UNCHANGED <<crds, dynVars>>
    BY <1>1, KeptIfUnchanged DEF dynVars, Typed
  <1>2. CASE DefinitionsProgress
    <2>1. UNCHANGED dynVars
      BY <1>2 DEF DefinitionsProgress
    <2>2. CASE DefApply
      BY <2>1, <2>2, ApplyWrites DEF dynVars, Typed
    <2>3. CASE DefGet \/ DefLoad \/ DefFlush
      BY <1>1, <2>1, <2>3 DEF DefGet, DefLoad, DefFlush
    <2> QED
      BY <1>2, <2>2, <2>3 DEF DefinitionsProgress, DefProgress
  <1>4. CASE Failure /\ DefFails /\ UNCHANGED dynVars
    BY <1>1, <1>4 DEF DefFails
  <1>5. CASE DeliverDefinition \/ DeliverSource \/ Resync
    BY <1>1, <1>5 DEF DeliverDefinition, DeliverSource, Resync, ResyncDefinitions
  <1>6. CASE DeliverCRD
    <2>1. CrdsKept
      BY <1>6, DeliverKeeps DEF DeliverCRD
    <2>2. dynQueue' \subseteq Definition /\ UNCHANGED <<controllers, dynWork>>
      BY <1>6 DEF DeliverCRD, WatchCRDs, Typed
    <2> QED
      BY <2>1, <2>2
  <1>7. ASSUME NEW d \in Definition, DeleteCrd(d) \/ Establish(d) \/ FinalizeKind(d)
        PROVE  /\ CrdsKept \/ OthersWrite
               /\ UNCHANGED <<controllers, dynWork>>
               /\ dynQueue' \subseteq Definition
    BY <1>7, ClusterWrites DEF DeleteCrd, Establish, FinalizeKind, dynVars, Typed
  <1>8. ASSUME NEW d \in Definition,
               CreateDefinition(d) \/ EditDefinition(d) \/ Publish(d) \/ CreateClaim(d) \/ Serve(d)
        PROVE  UNCHANGED <<crds, dynVars>>
    BY <1>8 DEF CreateDefinition, EditDefinition, Publish, CreateClaim, Serve
  <1>9. CASE UNCHANGED vars
    BY <1>1, <1>9 DEF vars
  <1> QED
    BY <1>1, <1>2, <1>4, <1>5, <1>6, <1>7, <1>8, <1>9 DEF Others, Users, Cluster

-----------------------------------------------------------------------------
(* The queue of the definitions.                                           *)

\* A list of a set has every element of it, and no others.
LEMMA ListOfSet ==
    ASSUME NEW S, IsFiniteSet(S), NEW list \in SetToSeqs(S)
    PROVE  list \in Seq(S) /\ States(list) = S
  <1> DEFINE n == Cardinality(S)
             D == 1 .. n
  <1>1. n \in Nat
    BY FS_CardinalityType
  <1>2. list \in [D -> S] /\ \A i, j \in D : i # j => list[i] # list[j]
    BY DEF SetToSeqs
  <1>3. list \in Seq(S) /\ Len(list) = n
    BY <1>1, <1>2
  <1>4. list \in Injection(D, S)
    BY <1>2 DEF Injection, IsInjective
  <1>5. Cardinality(D) = n
    BY <1>1, FS_Interval
  <1> HIDE DEF D, n
  <1>6. list \in Surjection(D, S)
    BY <1>4, <1>5, FS_Injection DEF n
  <1>7. States(list) = S
    BY <1>2, <1>3, <1>6 DEF States, Surjection, D
  <1> QED
    BY <1>3, <1>7

\* What is put on the queue joins what is on it.
LEMMA EnqueuedQueue ==
    ASSUME NEW queue \in Seq(Definition), NEW names \in SUBSET Definition,
           NEW next \in Enqueued(queue, names)
    PROVE  next \in Seq(Definition) /\ States(next) = States(queue) \cup names
  <1> DEFINE fresh == {d \in names : \A i \in 1 .. Len(queue) : queue[i] # d}
  <1>1. PICK new \in SetToSeqs(fresh) : next = queue \o new
    BY DEF Enqueued
  <1>2. fresh \in SUBSET Definition /\ States(queue) \cup fresh = States(queue) \cup names
    BY DEF States
  <1> HIDE DEF fresh
  <1>3. IsFiniteSet(fresh)
    BY <1>2, FS_Subset, DefinitionAssumption
  <1>4. new \in Seq(fresh) /\ States(new) = fresh
    BY <1>3, ListOfSet
  <1>5. new \in Seq(Definition)
    BY <1>2, <1>4
  <1>6. /\ Len(queue) \in Nat /\ Len(new) \in Nat
        /\ next \in Seq(Definition) /\ Len(next) = Len(queue) + Len(new)
        /\ \A i \in 1 .. Len(queue) : next[i] = queue[i]
        /\ \A i \in Len(queue) + 1 .. Len(queue) + Len(new) : next[i] = new[i - Len(queue)]
    BY <1>1, <1>5
  <1>7. States(next) \subseteq States(queue) \cup States(new)
    <2> SUFFICES ASSUME NEW i \in 1 .. Len(queue) + Len(new)
                 PROVE  next[i] \in States(queue) \cup States(new)
      BY <1>6 DEF States
    <2>1. CASE i \in 1 .. Len(queue)
      BY <1>6, <2>1 DEF States
    <2>2. CASE i \in Len(queue) + 1 .. Len(queue) + Len(new)
      <3>1. i - Len(queue) \in 1 .. Len(new)
        BY <1>6, <2>2
      <3> QED
        BY <1>6, <2>2, <3>1 DEF States
    <2> QED
      BY <1>6, <2>1, <2>2
  <1>8. States(queue) \subseteq States(next)
    <2>1. 1 .. Len(queue) \subseteq 1 .. Len(next)
      BY <1>6
    <2> QED
      BY <1>6, <2>1 DEF States
  <1>9. States(new) \subseteq States(next)
    <2> SUFFICES ASSUME NEW i \in 1 .. Len(new)
                 PROVE  new[i] \in States(next)
      BY DEF States
    <2>1. /\ Len(queue) + i \in Len(queue) + 1 .. Len(queue) + Len(new)
          /\ Len(queue) + i \in 1 .. Len(next)
          /\ (Len(queue) + i) - Len(queue) = i
      BY <1>6
    <2> QED
      BY <1>6, <2>1 DEF States
  <1> QED
    BY <1>2, <1>4, <1>6, <1>7, <1>8, <1>9

\* A reconcile takes the first of them.
LEMMA TailOfQueue ==
    ASSUME NEW queue \in Seq(Definition), queue # <<>>
    PROVE  /\ Head(queue) \in Definition /\ Tail(queue) \in Seq(Definition)
           /\ States(queue) \subseteq States(Tail(queue)) \cup {Head(queue)}
  <1>1. /\ Len(queue) \in Nat \ {0} /\ Head(queue) = queue[1] /\ Head(queue) \in Definition
        /\ Tail(queue) \in Seq(Definition) /\ Len(Tail(queue)) = Len(queue) - 1
        /\ \A i \in 1 .. Len(queue) - 1 : Tail(queue)[i] = queue[i + 1]
    OBVIOUS
  <1>2. ASSUME NEW i \in 1 .. Len(queue), i # 1
        PROVE  queue[i] \in States(Tail(queue))
    <2>1. i - 1 \in 1 .. Len(queue) - 1 /\ (i - 1) + 1 = i
      BY <1>1, <1>2
    <2> QED
      BY <1>1, <2>1 DEF States
  <1> QED
    BY <1>1, <1>2 DEF States

-----------------------------------------------------------------------------
(* Types.                                                                  *)

LEMMA NoDefType == NoDef \in Def /\ DefIdle \in DefWork /\ DefIdle.stage = "idle"
  BY DEF NoDef, Def, DefIdle, DefWork, Reason

LEMMA DefEnds ==
    ASSUME Typed
    PROVE  /\ Stored(defs) \in [Definition -> Def] /\ Cached(defs) \in [Definition -> Def]
           /\ Stored(oci) \in [Definition -> Chart \cup {NoChart}]
           /\ Cached(oci) \in [Definition -> Chart \cup {NoChart}]
           /\ ~Lagging(defs) => Cached(defs) = Stored(defs)
  BY WindowEnds DEF Typed

\* A write of one definition changes nothing, or the cache has yet to see it.
LEMMA PutDefWindow ==
    ASSUME Typed, NEW d \in Definition, NEW new \in Def, PutDef(d, new)
    PROVE  /\ defs' \in Seq([Definition -> Def]) /\ defs' # <<>>
           /\ (defs' = defs /\ Stored(defs)[d] = new) \/ Lagging(defs')
  <1> DEFINE S == [Definition -> Def]
             next == [Stored(defs) EXCEPT ![d] = new]
  <1>1. Stored(defs) \in S /\ defs \in Seq(S) /\ defs # <<>>
    BY DefEnds DEF Typed
  <1>2. next \in S
    BY <1>1
  <1>3. (defs' = defs /\ Stored(defs)[d] = new) \/ defs' = Written(defs, next)
    BY DEF PutDef
  <1> HIDE DEF S, next
  <1>4. Written(defs, next) \in Seq(S) /\ Written(defs, next) # <<>> /\ Lagging(Written(defs, next))
    BY <1>1, <1>2, WrittenWindow
  <1> QED
    BY <1>1, <1>3, <1>4 DEF S

\* The definitions as ClaimDefinitionManager sees them, and its reconcile.
DefTyped ==
    /\ oci \in Seq([Definition -> Chart \cup {NoChart}]) /\ oci # <<>>
    /\ defs \in Seq([Definition -> Def]) /\ defs # <<>>
    /\ defQueue \in Seq(Definition)
    /\ defWork \in DefWork
    /\ defWork.stage # "idle" => defWork.name \in Definition
    /\ defWork.stage = "apply" => defWork.chart \in Chart

LEMMA GetTyped ==
    ASSUME Typed, DefGet
    PROVE  DefTyped'
  <1> DEFINE d == Head(defQueue)
             src == Cached(defs)[d]
  <1>1. UNCHANGED <<defs, oci>> /\ defQueue' = Tail(defQueue) /\ defQueue # <<>>
    BY DEF DefGet
  <1>2. d \in Definition /\ defQueue' \in Seq(Definition)
    BY <1>1, TailOfQueue DEF Typed
  <1>3. src \in Def
    BY <1>2, DefEnds
  <1>4. \/ defWork' = DefIdle
        \/ \E stage \in {"flush", "load"}, reason \in {"conflict", "none"} :
              defWork' = [DefIdle EXCEPT !.name = d, !.source = src, !.stage = stage, !.reason = reason]
    BY DEF DefGet
  <1> HIDE DEF d, src
  <1>5. defWork' \in DefWork /\ defWork'.stage # "apply" /\ (defWork'.stage # "idle" => defWork'.name \in Definition)
    <2>1. CASE defWork' = DefIdle
      BY <2>1, NoDefType
    <2>2. ASSUME NEW stage \in {"flush", "load"}, NEW reason \in {"conflict", "none"},
                 defWork' = [DefIdle EXCEPT !.name = d, !.source = src, !.stage = stage, !.reason = reason]
          PROVE  defWork' \in DefWork /\ defWork'.stage # "apply" /\ defWork'.name = d
      BY <1>2, <1>3, <2>2, NoDefType DEF DefIdle, DefWork, Reason
    <2> QED
      BY <1>2, <1>4, <2>1, <2>2
  <1> QED
    BY <1>1, <1>2, <1>5 DEF DefTyped, Typed

\* A reconcile that concludes, or that ends.
LEMMA ConcludeTyped ==
    ASSUME Typed, NEW reason \in Reason, NEW err \in BOOLEAN, Conclude(reason, err),
           defWork.stage # "idle"
    PROVE  defWork' \in DefWork /\ defWork'.stage = "flush" /\ defWork'.name \in Definition
  BY DEF Conclude, Typed, DefWork

LEMMA FinishTyped ==
    ASSUME Typed, Finish, defWork.stage # "idle"
    PROVE  /\ defWork' \in DefWork /\ defWork'.stage = "idle"
           /\ defQueue' \in Seq(Definition) /\ States(defQueue) \subseteq States(defQueue')
           /\ defWork.err => defWork.name \in States(defQueue')
  <1>1. {defWork.name} \in SUBSET Definition /\ defQueue \in Seq(Definition)
    BY DEF Typed
  <1>2. CASE defWork.err
    <2>1. defQueue' \in Enqueued(defQueue, {defWork.name})
      BY <1>2 DEF Finish
    <2>2. defQueue' \in Seq(Definition) /\ States(defQueue') = States(defQueue) \cup {defWork.name}
      BY <1>1, <2>1, EnqueuedQueue
    <2> QED
      BY <2>2, NoDefType DEF Finish
  <1>3. CASE ~defWork.err
    BY <1>1, <1>3, NoDefType DEF Finish
  <1> QED
    BY <1>2, <1>3

LEMMA LoadTyped ==
    ASSUME Typed, DefLoad
    PROVE  DefTyped'
  <1> DEFINE d == defWork.name
             chart == Cached(oci)[d]
  <1>1. defWork.stage = "load" /\ UNCHANGED <<defs, oci, defQueue>>
    BY DEF DefLoad
  <1>2. d \in Definition /\ chart \in Chart \cup {NoChart}
    BY <1>1, DefEnds DEF Typed
  <1>3. CASE Conclude("waiting", FALSE) \/ Conclude("error", TRUE)
    <2>1. defWork' \in DefWork /\ defWork'.stage = "flush" /\ defWork'.name \in Definition
      BY <1>1, <1>3, ConcludeTyped DEF Reason
    <2> QED
      BY <1>1, <2>1 DEF DefTyped, Typed
  <1>4. CASE chart # NoChart /\ defWork' = [defWork EXCEPT !.stage = "apply", !.chart = chart]
    <2>1. chart \in Chart
      BY <1>2, <1>4
    <2>2. /\ defWork' \in DefWork /\ defWork'.stage = "apply" /\ defWork'.name \in Definition
          /\ defWork'.chart \in Chart
      BY <1>2, <1>4, <2>1 DEF Typed, DefWork
    <2> QED
      BY <1>1, <2>2 DEF DefTyped, Typed
  <1> QED
    BY <1>3, <1>4 DEF DefLoad

LEMMA ConcludedType ==
    ASSUME Typed
    PROVE  Concluded \in Def
  BY DEF Concluded, Typed, DefWork, Def

LEMMA FlushTyped ==
    ASSUME Typed, DefFlush
    PROVE  DefTyped'
  <1>1. defWork.stage = "flush" /\ Finish /\ UNCHANGED oci
    BY DEF DefFlush
  <1>2. defs' = defs \/ PutDef(defWork.name, Concluded)
    BY DEF DefFlush
  <1>3. defWork.name \in Definition
    BY <1>1 DEF Typed
  <1>4. defs' \in Seq([Definition -> Def]) /\ defs' # <<>>
    BY <1>2, <1>3, ConcludedType, PutDefWindow DEF Typed
  <1>5. defWork' \in DefWork /\ defWork'.stage = "idle" /\ defQueue' \in Seq(Definition)
    BY <1>1, FinishTyped
  <1> QED
    BY <1>1, <1>4, <1>5 DEF DefTyped, Typed

LEMMA DefFailsTyped ==
    ASSUME Typed, DefFails
    PROVE  DefTyped'
  <1>1. UNCHANGED <<defs, oci>>
    BY DEF DefFails
  <1>2. CASE defWork.stage \in {"load", "apply"} /\ Conclude("error", TRUE) /\ UNCHANGED defQueue
    <2>1. defWork' \in DefWork /\ defWork'.stage = "flush" /\ defWork'.name \in Definition
      BY <1>2, ConcludeTyped DEF Reason
    <2> QED
      BY <1>1, <1>2, <2>1 DEF DefTyped, Typed
  <1>3. CASE defWork.stage = "flush" /\ Finish
    <2>1. defWork' \in DefWork /\ defWork'.stage = "idle" /\ defQueue' \in Seq(Definition)
      BY <1>3, FinishTyped
    <2> QED
      BY <1>1, <2>1 DEF DefTyped, Typed
  <1> QED
    BY <1>2, <1>3 DEF DefFails

\* The events that reach ClaimDefinitionManager.
LEMMA EventsTyped ==
    ASSUME Typed, WatchDefinitions \/ WatchSources \/ ResyncDefinitions
    PROVE  DefTyped'
  <1> DEFINE D == [Definition -> Def]
             O == [Definition -> Chart \cup {NoChart}]
  <1>1. defs \in Seq(D) /\ oci \in Seq(O) /\ defQueue \in Seq(Definition)
    BY DEF Typed
  <1>2. UNCHANGED defWork
    BY DEF WatchDefinitions, WatchSources, ResyncDefinitions
  <1>3. \E names \in SUBSET Definition : defQueue' \in Enqueued(defQueue, names)
    BY DEF WatchDefinitions, WatchSources, ResyncDefinitions
  <1>4. defQueue' \in Seq(Definition)
    BY <1>1, <1>3, EnqueuedQueue
  <1>5. /\ UNCHANGED defs \/ (Lagging(defs) /\ defs' = Delivered(defs))
        /\ UNCHANGED oci \/ (Lagging(oci) /\ oci' = Delivered(oci))
    BY DEF WatchDefinitions, WatchSources, ResyncDefinitions
  <1> HIDE DEF D, O
  <1>6. Lagging(defs) => Delivered(defs) \in Seq(D) /\ Delivered(defs) # <<>>
    BY <1>1, DeliveredWindow
  <1>7. Lagging(oci) => Delivered(oci) \in Seq(O) /\ Delivered(oci) # <<>>
    BY <1>1, DeliveredWindow
  <1>8. defs' \in Seq(D) /\ defs' # <<>> /\ oci' \in Seq(O) /\ oci' # <<>>
    BY <1>1, <1>5, <1>6, <1>7 DEF Typed
  <1> QED
    BY <1>2, <1>4, <1>8 DEF DefTyped, Typed, D, O

LEMMA DefRestartTyped ==
    ASSUME Typed, Restart
    PROVE  DefTyped'
  <1>1. defQueue' \in Enqueued(<<>>, {d \in Definition : Stored(defs)[d].live})
    BY DEF Restart
  <1>2. <<>> \in Seq(Definition) /\ {d \in Definition : Stored(defs)[d].live} \in SUBSET Definition
    OBVIOUS
  <1>3. defQueue' \in Seq(Definition)
    BY <1>1, <1>2, EnqueuedQueue
  <1>4. defs' = Synced(Stored(defs)) /\ oci' = Synced(Stored(oci)) /\ defWork' = DefIdle
    BY DEF Restart
  <1>5. /\ defs' \in Seq([Definition -> Def]) /\ defs' # <<>>
        /\ oci' \in Seq([Definition -> Chart \cup {NoChart}]) /\ oci' # <<>>
    BY <1>4, DefEnds, SyncedWindow
  <1> QED
    BY <1>3, <1>4, <1>5, NoDefType DEF DefTyped

\* Users, who write definitions and charts.
LEMMA UsersTyped ==
    ASSUME Typed, NEW d \in Definition, CreateDefinition(d) \/ EditDefinition(d) \/ Publish(d)
    PROVE  DefTyped'
  <1> DEFINE O == [Definition -> Chart \cup {NoChart}]
             old == Stored(defs)[d]
  <1>1. UNCHANGED <<defQueue, defWork>>
    BY DEF CreateDefinition, EditDefinition, Publish
  <1>2. Stored(defs) \in [Definition -> Def] /\ Stored(oci) \in O /\ oci \in Seq(O) /\ oci # <<>>
    BY DefEnds DEF Typed
  <1>3. CASE CreateDefinition(d) \/ EditDefinition(d)
    <2>1. PICK new : /\ PutDef(d, new)
                     /\ \/ \E second \in {1, 2} : new = NewDef(old.uid + 1, second)
                        \/ new = [old EXCEPT !.provides = ~@, !.generation = @ + 1]
                        \/ new = [NoDef EXCEPT !.uid = old.uid]
      BY <1>3 DEF CreateDefinition, EditDefinition
    <2>2. old \in Def
      BY <1>2
    <2> HIDE DEF old
    <2>3. new \in Def
      <3>1. ASSUME NEW second \in {1, 2}, new = NewDef(old.uid + 1, second) PROVE new \in Def
        <4>1. old.uid + 1 \in Nat /\ second \in Nat
          BY <2>2 DEF Def
        <4> QED
          BY <3>1, <4>1, NoDefType DEF Def, NewDef
      <3>2. ASSUME new = [old EXCEPT !.provides = ~@, !.generation = @ + 1] PROVE new \in Def
        <4>1. PICK flag \in BOOLEAN : new = [old EXCEPT !.provides = flag, !.generation = @ + 1]
          BY <3>2
        <4>2. old.generation + 1 \in Nat
          BY <2>2 DEF Def
        <4> QED
          BY <2>2, <4>1, <4>2 DEF Def
      <3>3. ASSUME new = [NoDef EXCEPT !.uid = old.uid] PROVE new \in Def
        <4>1. old.uid \in Nat
          BY <2>2 DEF Def
        <4> QED
          BY <3>3, <4>1, NoDefType DEF Def
      <3> QED
        BY <2>1, <3>1, <3>2, <3>3
    <2>4. defs' \in Seq([Definition -> Def]) /\ defs' # <<>>
      BY <2>1, <2>3, PutDefWindow
    <2> QED
      BY <1>1, <1>3, <2>4 DEF DefTyped, Typed, CreateDefinition, EditDefinition
  <1>4. CASE Publish(d)
    <2>1. PICK chart \in Chart : oci' = Written(oci, [Stored(oci) EXCEPT ![d] = chart])
      BY <1>4 DEF Publish
    <2> DEFINE next == [Stored(oci) EXCEPT ![d] = chart]
    <2>2. next \in O
      BY <1>2
    <2> HIDE DEF O, next
    <2>3. oci' \in Seq(O) /\ oci' # <<>>
      BY <1>2, <2>1, <2>2, WrittenWindow DEF next
    <2> QED
      BY <1>1, <1>4, <2>3 DEF DefTyped, Typed, Publish, O
  <1> QED
    BY <1>3, <1>4

LEMMA DefinitionsTyped ==
    ASSUME Typed, [Next]_vars
    PROVE  DefTyped'
  <1>1. ASSUME UNCHANGED defVars PROVE DefTyped'
    BY <1>1 DEF defVars, DefTyped, Typed
  <1>2. CASE DefinitionsProgress
    <2>1. ASSUME DefApply PROVE DefTyped'
      <3>1. /\ defWork.stage = "apply" /\ UNCHANGED <<defs, oci, defQueue>>
            /\ Conclude("breaking", TRUE) \/ Conclude("ready", FALSE)
        BY <2>1 DEF DefApply
      <3>2. defWork' \in DefWork /\ defWork'.stage = "flush" /\ defWork'.name \in Definition
        BY <3>1, ConcludeTyped DEF Reason
      <3> QED
        BY <3>1, <3>2 DEF DefTyped, Typed
    <2> QED
      BY <1>2, <2>1, GetTyped, LoadTyped, FlushTyped DEF DefinitionsProgress, DefProgress
  <1>3. CASE Failure
    BY <1>1, <1>3, DefFailsTyped DEF Failure
  <1>4. CASE DeliverDefinition \/ DeliverSource \/ Resync
    BY <1>4, EventsTyped DEF DeliverDefinition, DeliverSource, Resync
  <1>5. CASE Restart
    BY <1>5, DefRestartTyped
  <1>6. CASE Users
    <2>1. PICK d \in Definition : \/ CreateDefinition(d) \/ EditDefinition(d) \/ Publish(d)
                                  \/ DeleteCrd(d) \/ CreateClaim(d)
      BY <1>6 DEF Users
    <2>2. CASE DeleteCrd(d) \/ CreateClaim(d)
      BY <1>1, <2>2 DEF DeleteCrd, CreateClaim
    <2> QED
      BY <2>1, <2>2, UsersTyped
  <1>7. CASE Cluster
    BY <1>1, <1>7 DEF Cluster, Establish, FinalizeKind, Serve
  <1>8. CASE KindsProgress \/ DeliverCRD \/ UNCHANGED vars
    BY <1>1, <1>8 DEF KindsProgress, DeliverCRD, vars
  <1> QED
    BY <1>2, <1>3, <1>4, <1>5, <1>6, <1>7, <1>8 DEF Next

\* The claims.
LEMMA RestTyped ==
    ASSUME Typed, [Next]_vars
    PROVE  claims' \in [Definition -> ClaimPhase]
  <1>1. claims \in [Definition -> ClaimPhase]
    BY DEF Typed
  <1>2. claims' = claims \/ \E d \in Definition, phase \in ClaimPhase : claims' = [claims EXCEPT ![d] = phase]
    <2>1. ASSUME NEW d \in Definition, CreateClaim(d) \/ FinalizeKind(d) \/ Serve(d)
          PROVE  claims' = claims \/ \E phase \in ClaimPhase : claims' = [claims EXCEPT ![d] = phase]
      BY <1>1, <2>1 DEF CreateClaim, FinalizeKind, Serve, ClaimPhase
    <2>2. ASSUME NEW d \in Definition,
                 \/ CreateDefinition(d) \/ EditDefinition(d) \/ Publish(d) \/ DeleteCrd(d) \/ Establish(d)
          PROVE  claims' = claims
      BY <2>2 DEF CreateDefinition, EditDefinition, Publish, DeleteCrd, Establish
    <2>3. CASE Users \/ Cluster
      BY <2>1, <2>2, <2>3 DEF Users, Cluster
    <2> QED
      BY <2>3 DEF Next, DefinitionsProgress, KindsProgress, Failure,
                  DeliverDefinition, DeliverSource, DeliverCRD, Resync, Restart, vars
  <1> QED
    BY <1>1, <1>2

-----------------------------------------------------------------------------
(* The invariant is inductive.                                             *)

\* What a write to a CRD by others means for what is held of it.
LEMMA OthersWriteWindow ==
    ASSUME IInv, OthersWrite
    PROVE  /\ crds' \in Seq([Definition -> Crd]) /\ crds' # <<>> /\ Forward(crds', Onward)
           /\ \A d \in Definition : Stored(crds)[d].phase # "absent" /\ Stored(crds)[d].ours
                                       => Stored(crds')[d].phase # "absent" /\ Stored(crds')[d].ours
           /\ \A d \in Definition : \A x \in Crd :
                 (\A s \in States(crds) : CrdOnward(x, s[d])) => \A s \in States(crds') : CrdOnward(x, s[d])
  <1>1. Typed /\ Forward(crds, Onward)
    BY DEF IInv
  <1>2. PICK d \in Definition, new \in Crd : OthersChange(Stored(crds)[d], new) /\ PutCrd(d, new)
    BY DEF OthersWrite
  <1>3. /\ Stored(crds) \in [Definition -> Crd] /\ Stored(crds) \in States(crds)
        /\ States(crds) \subseteq [Definition -> Crd]
    BY <1>1, CrdEnds
  <1>4. ASSUME NEW s \in States(crds) PROVE CrdOnward(s[d], new)
    <2>1. CrdOnward(s[d], Stored(crds)[d]) /\ s[d] \in Crd /\ Stored(crds)[d] \in Crd
      BY <1>1, <1>3, OnwardEnds
    <2> QED
      BY <1>2, <2>1, OthersMoveOnward
  <1>5. /\ crds' \in Seq([Definition -> Crd]) /\ crds' # <<>> /\ Forward(crds', Onward)
        /\ Stored(crds') = [Stored(crds) EXCEPT ![d] = new]
        /\ States(crds') \subseteq States(crds) \cup {Stored(crds')}
    BY <1>1, <1>2, <1>4, PutCrdWindow
  <1>6. Stored(crds')[d] = new /\ \A e \in Definition \ {d} : Stored(crds')[e] = Stored(crds)[e]
    BY <1>3, <1>5
  <1>7. CrdOnward(Stored(crds)[d], Stored(crds)[d]) /\ Stored(crds)[d] \in Crd
    BY <1>3, CrdOnwardSelf
  <1>8. Stored(crds)[d].phase # "absent" /\ Stored(crds)[d].ours => new.phase # "absent" /\ new.ours
    BY <1>2, <1>7, OthersMoveOnward
  <1>9. \A e \in Definition : Stored(crds)[e].phase # "absent" /\ Stored(crds)[e].ours
                                  => Stored(crds')[e].phase # "absent" /\ Stored(crds')[e].ours
    BY <1>6, <1>8
  <1>10. ASSUME NEW e \in Definition, NEW x \in Crd, \A s \in States(crds) : CrdOnward(x, s[e])
         PROVE  CrdOnward(x, Stored(crds')[e])
    <2>1. CrdOnward(x, Stored(crds)[e])
      BY <1>3, <1>10
    <2>2. CASE e # d
      BY <1>6, <2>1, <2>2
    <2>3. CASE e = d
      BY <1>2, <1>6, <1>7, <2>1, <2>3, OthersMoveOnward
    <2> QED
      BY <2>2, <2>3
  <1> QED
    BY <1>5, <1>9, <1>10

LEMMA WorkTyped ==
    ASSUME Typed
    PROVE  dynWork.crd \in Crd
  BY DEF Typed, DynWork

LEMMA OthersKeep ==
    ASSUME IInv, Others
    PROVE  /\ crds' \in Seq([Definition -> Crd]) /\ crds' # <<>> /\ Forward(crds', Onward)
           /\ WorkSide' /\ RunningIsHeld'
  <1>1. Typed /\ Forward(crds, Onward) /\ WorkSide /\ RunningIsHeld
    BY DEF IInv
  <1>2. (CrdsKept \/ OthersWrite) /\ dynWork' = dynWork /\ controllers' = controllers
    BY <1>1, OthersEffect
  <1>3. CASE CrdsKept
    <2>1. WorkSide'
      BY <1>1, <1>2, <1>3 DEF CrdsKept, WorkSide
    <2>2. RunningIsHeld'
      BY <1>1, <1>2, <1>3 DEF CrdsKept, RunningIsHeld
    <2> QED
      BY <1>3, <2>1, <2>2 DEF CrdsKept
  <1>4. CASE OthersWrite
    <2>1. dynWork.crd \in Crd /\ (dynWork.stage # "idle" => dynWork.name \in Definition)
      BY <1>1, WorkTyped DEF Typed
    <2>2. /\ \A d \in Definition : Stored(crds)[d].phase # "absent" /\ Stored(crds)[d].ours
                                       => Stored(crds')[d].phase # "absent" /\ Stored(crds')[d].ours
          /\ \A d \in Definition : \A x \in Crd :
                 (\A s \in States(crds) : CrdOnward(x, s[d])) => \A s \in States(crds') : CrdOnward(x, s[d])
      BY <1>4, OthersWriteWindow
    <2>3. dynWork.stage \in {"release", "finalize"} =>
             \A s \in States(crds') : CrdOnward(dynWork.crd, s[dynWork.name])
      BY <1>1, <2>1, <2>2 DEF WorkSide
    <2>4. dynWork.stage = "start" =>
             Stored(crds')[dynWork.name].phase # "absent" /\ Stored(crds')[dynWork.name].ours
      BY <1>1, <2>1, <2>2 DEF WorkSide
    <2>5. WorkSide'
      BY <1>1, <1>2, <2>3, <2>4 DEF WorkSide, CrdOnward
    <2>6. RunningIsHeld'
      BY <1>1, <1>2, <2>2 DEF RunningIsHeld, Typed
    <2> QED
      BY <1>4, <2>5, <2>6, OthersWriteWindow
  <1> QED
    BY <1>2, <1>3, <1>4

\* DynGet: the controllers are stopped before anything else is done about a CRD that
\* is being deleted.
LEMMA GetKeeps ==
    ASSUME IInv, DynGet
    PROVE  WorkSide' /\ RunningIsHeld' /\ UNCHANGED crds
  <1>1. Typed /\ Forward(crds, Onward) /\ RunningIsHeld
    BY DEF IInv
  <1>2. PICK d \in dynQueue :
            LET crd == Cached(crds)[d]
                To(stage) == dynWork' = [stage |-> stage, name |-> d, crd |-> crd]
            IN  /\ dynWork.stage = "idle"
                /\ \/ /\ crd.phase = "deleting"
                      /\ controllers' = controllers \ {d}
                      /\ To("release") \/ UNCHANGED dynWork
                   \/ /\ crd.phase = "live"
                      /\ To("finalize") /\ UNCHANGED controllers
                   \/ UNCHANGED <<dynWork, controllers>>
    BY DEF DynGet, stopAndRemoveControllerFor
  <1>3. UNCHANGED crds
    BY DEF DynGet
  <1>4. d \in Definition
    BY <1>1 DEF Typed
  <1>5. \A s \in States(crds) : CrdOnward(Cached(crds)[d], s[d])
    BY <1>1, <1>4, OnwardEnds
  <1>6. RunningIsHeld'
    BY <1>1, <1>2, <1>3 DEF RunningIsHeld
  <1>7. CASE UNCHANGED dynWork
    <2>1. dynWork'.stage = "idle"
      BY <1>2, <1>7
    <2>2. WorkSide'
      BY <2>1 DEF WorkSide
    <2> QED
      BY <1>3, <1>6, <2>2
  <1>8. CASE dynWork' = [stage |-> "release", name |-> d, crd |-> Cached(crds)[d]]
    <2>1. dynWork'.stage = "release" /\ dynWork'.name = d /\ dynWork'.crd = Cached(crds)[d]
      BY <1>8
    <2>2. Cached(crds)[d].phase = "deleting" /\ controllers' = controllers \ {d}
      BY <1>2, <2>1
    <2> QED
      BY <1>3, <1>5, <1>6, <2>1, <2>2 DEF WorkSide, CrdOnward
  <1>9. CASE dynWork' = [stage |-> "finalize", name |-> d, crd |-> Cached(crds)[d]]
    <2>1. dynWork'.stage = "finalize" /\ dynWork'.name = d /\ dynWork'.crd = Cached(crds)[d]
      BY <1>9
    <2>2. Cached(crds)[d].phase = "live"
      BY <1>2, <2>1
    <2> QED
      BY <1>3, <1>5, <1>6, <2>1, <2>2 DEF WorkSide, CrdOnward
  <1> QED
    BY <1>2, <1>3, <1>6, <1>7, <1>8, <1>9

\* The reconcile ends: nothing is left to say of it.
LEMMA IdleWorkSide ==
    ASSUME dynWork' = DynIdle
    PROVE  WorkSide'
  BY DEF DynIdle, WorkSide

\* removeFinalizer: no copy of the CRD that the cache will still show is live with
\* our finalizer, so none will have the controllers started.
LEMMA ReleaseKeeps ==
    ASSUME IInv, removeFinalizer
    PROVE  /\ crds' \in Seq([Definition -> Crd]) /\ crds' # <<>> /\ Forward(crds', Onward)
           /\ WorkSide' /\ RunningIsHeld'
  <1> DEFINE d == dynWork.name
             a == Stored(crds)[d]
             bare == [a EXCEPT !.ours = FALSE, !.cleanup = FALSE]
             gone == [NoCrd EXCEPT !.uid = bare.uid]
  <1>1. Typed /\ Forward(crds, Onward) /\ WorkSide /\ RunningIsHeld
    BY DEF IInv
  <1>2. dynWork.stage = "release" /\ dynWork' = DynIdle /\ controllers' = controllers
    BY DEF removeFinalizer, DynRetry, DynDone
  <1>3. WorkSide'
    BY <1>2, IdleWorkSide
  <1>4. /\ d \in Definition /\ dynWork.crd.phase = "deleting" /\ d \notin controllers
        /\ \A s \in States(crds) : CrdOnward(dynWork.crd, s[d])
    BY <1>1, <1>2 DEF Typed, WorkSide
  <1>5. CASE UNCHANGED crds
    BY <1>1, <1>2, <1>3, <1>5 DEF Typed, RunningIsHeld
  <1>6. CASE PutCrd(d, Released(bare))
    <2>1. /\ Stored(crds) \in [Definition -> Crd] /\ Stored(crds) \in States(crds)
          /\ States(crds) \subseteq [Definition -> Crd] /\ dynWork.crd \in Crd
      BY <1>1, CrdEnds, WorkTyped
    <2>2. a \in Crd
      BY <1>4, <2>1
    <2>3. /\ bare \in Crd /\ bare.uid = a.uid /\ bare.phase = a.phase /\ ~bare.ours
      BY <2>2 DEF Crd
    <2>4. gone \in Crd /\ gone.uid = bare.uid /\ gone.phase = "absent" /\ ~gone.ours
      BY <2>3, NoCrdType DEF Crd, NoCrd
    <2> DEFINE new == Released(bare)
    <2>5. new \in {bare, gone}
      BY DEF Released
    <2> HIDE DEF bare, gone, new
    <2>6. new \in Crd /\ new.uid = a.uid /\ new.phase \in {a.phase, "absent"} /\ ~new.ours
      BY <2>3, <2>4, <2>5
    <2>7. ASSUME NEW s \in States(crds) PROVE CrdOnward(s[d], new)
      <3>1. CrdOnward(dynWork.crd, s[d]) /\ CrdOnward(s[d], a)
        BY <1>1, <1>4, OnwardEnds
      <3>2. s[d].uid \in Nat /\ dynWork.crd.uid \in Nat
        BY <1>4, <2>1 DEF Crd
      <3>3. dynWork.crd.uid < s[d].uid \/ dynWork.crd.uid = s[d].uid
        BY <3>1, <3>2 DEF CrdOnward
      <3>4. ~(s[d].phase = "live" /\ s[d].ours)
        BY <1>4, <3>1, <3>3 DEF CrdOnward
      <3> QED
        BY <2>6, <3>1, <3>4 DEF CrdOnward
    <2>8. /\ crds' \in Seq([Definition -> Crd]) /\ crds' # <<>> /\ Forward(crds', Onward)
          /\ Stored(crds') = [Stored(crds) EXCEPT ![d] = new]
      BY <1>1, <1>4, <1>6, <2>6, <2>7, PutCrdWindow DEF new
    <2>9. \A e \in controllers : Stored(crds')[e] = Stored(crds)[e]
      BY <1>1, <1>4, <2>1, <2>8 DEF Typed
    <2>10. RunningIsHeld'
      BY <1>1, <1>2, <2>9 DEF RunningIsHeld
    <2> QED
      BY <1>3, <2>8, <2>10
  <1> QED
    BY <1>5, <1>6 DEF removeFinalizer

\* addFinalizer: the copy that was read is live.  If it has our finalizer, so has the
\* CRD; if it has not, the update is refused unless the CRD is as it was read.
LEMMA FinalizeKeeps ==
    ASSUME IInv, addFinalizer
    PROVE  /\ crds' \in Seq([Definition -> Crd]) /\ crds' # <<>> /\ Forward(crds', Onward)
           /\ WorkSide' /\ RunningIsHeld'
  <1> DEFINE d == dynWork.name
             a == dynWork.crd
             new == [a EXCEPT !.ours = TRUE]
  <1>1. Typed /\ Forward(crds, Onward) /\ WorkSide /\ RunningIsHeld
    BY DEF IInv
  <1>2. dynWork.stage = "finalize" /\ controllers' = controllers
    BY DEF addFinalizer
  <1>3. /\ d \in Definition /\ a.phase = "live"
        /\ \A s \in States(crds) : CrdOnward(a, s[d])
    BY <1>1, <1>2 DEF Typed, WorkSide
  <1>4. /\ Stored(crds) \in [Definition -> Crd] /\ Stored(crds) \in States(crds)
        /\ States(crds) \subseteq [Definition -> Crd] /\ a \in Crd
    BY <1>1, CrdEnds, WorkTyped
  <1>5. ASSUME DynTo("start") PROVE dynWork'.stage = "start" /\ dynWork'.name = d
    BY <1>1, <1>5 DEF DynTo, Typed, DynWork
  <1>6. CASE a.ours /\ DynTo("start") /\ UNCHANGED crds
    <2>1. Stored(crds)[d].phase # "absent" /\ Stored(crds)[d].ours
      BY <1>3, <1>4, <1>6 DEF CrdOnward
    <2>2. WorkSide'
      BY <1>5, <1>6, <2>1 DEF WorkSide
    <2> QED
      BY <1>1, <1>2, <1>6, <2>2 DEF Typed, RunningIsHeld
  <1>7. CASE a = Stored(crds)[d] /\ PutCrd(d, new) /\ DynTo("start")
    <2>1. new \in Crd /\ new.uid = a.uid /\ new.phase = "live" /\ new.ours
      BY <1>3, <1>4 DEF Crd
    <2> HIDE DEF new
    <2>2. ASSUME NEW s \in States(crds) PROVE CrdOnward(s[d], new)
      <3>1. CrdOnward(a, s[d]) /\ CrdOnward(s[d], a)
        BY <1>1, <1>3, <1>7, OnwardEnds
      <3>2. s[d].uid \in Nat /\ a.uid \in Nat
        BY <1>3, <1>4 DEF Crd
      <3>3. a.uid <= s[d].uid /\ s[d].uid <= a.uid
        BY <3>1 DEF CrdOnward
      <3>4. s[d].uid = new.uid
        BY <2>1, <3>2, <3>3
      <3>5. s[d].uid <= new.uid /\ ~(s[d].uid < new.uid)
        BY <2>1, <3>2, <3>4
      <3>6. ~(s[d].uid = a.uid /\ s[d].phase = "deleting")
        BY <1>3, <3>1 DEF CrdOnward
      <3>7. s[d].phase # "deleting"
        BY <2>1, <3>4, <3>6
      <3> QED
        BY <2>1, <3>5, <3>7 DEF CrdOnward
    <2>3. /\ crds' \in Seq([Definition -> Crd]) /\ crds' # <<>> /\ Forward(crds', Onward)
          /\ Stored(crds') = [Stored(crds) EXCEPT ![d] = new]
      BY <1>1, <1>3, <1>7, <2>1, <2>2, PutCrdWindow
    <2>4. Stored(crds')[d] = new /\ \A e \in Definition \ {d} : Stored(crds')[e] = Stored(crds)[e]
      BY <1>3, <1>4, <2>3
    <2>5. WorkSide'
      BY <1>5, <1>7, <2>1, <2>4 DEF WorkSide
    <2>6. \A e \in controllers : Stored(crds')[e].phase # "absent" /\ Stored(crds')[e].ours
      BY <1>1, <2>1, <2>4 DEF RunningIsHeld, Typed
    <2>7. RunningIsHeld'
      BY <1>2, <2>6 DEF RunningIsHeld
    <2> QED
      BY <2>3, <2>5, <2>7
  <1>8. CASE DynRetry /\ UNCHANGED crds
    <2>1. WorkSide'
      BY <1>8, IdleWorkSide DEF DynRetry
    <2> QED
      BY <1>1, <1>2, <1>8, <2>1 DEF Typed, RunningIsHeld
  <1> QED
    BY <1>6, <1>7, <1>8 DEF addFinalizer

LEMMA StartKeeps ==
    ASSUME IInv, ensureInstanceControllerFor
    PROVE  WorkSide' /\ RunningIsHeld' /\ UNCHANGED crds
  <1>1. /\ dynWork.stage = "start" /\ controllers' = controllers \cup {dynWork.name}
        /\ dynWork' = DynIdle /\ crds' = crds
    BY DEF ensureInstanceControllerFor, DynDone
  <1>2. Stored(crds)[dynWork.name].phase # "absent" /\ Stored(crds)[dynWork.name].ours
    BY <1>1 DEF IInv, WorkSide
  <1>3. RunningIsHeld'
    BY <1>1, <1>2 DEF IInv, RunningIsHeld
  <1> QED
    BY <1>1, <1>3, IdleWorkSide

LEMMA FailureKeeps ==
    ASSUME IInv, DynFails
    PROVE  WorkSide' /\ RunningIsHeld' /\ UNCHANGED crds
  <1>1. dynWork' = DynIdle /\ controllers' = controllers /\ crds' = crds
    BY DEF DynFails, DynRetry
  <1>2. RunningIsHeld'
    BY <1>1 DEF IInv, RunningIsHeld
  <1> QED
    BY <1>1, <1>2, IdleWorkSide

LEMMA RestartKeeps ==
    ASSUME IInv, Restart
    PROVE  /\ crds' \in Seq([Definition -> Crd]) /\ crds' # <<>> /\ Forward(crds', Onward)
           /\ WorkSide' /\ RunningIsHeld'
  <1>1. Stored(crds) \in [Definition -> Crd]
    BY CrdEnds DEF IInv
  <1>2. crds' = Synced(Stored(crds)) /\ dynWork' = DynIdle /\ controllers' = {}
    BY DEF Restart
  <1>3. \A d \in Definition : CrdOnward(Stored(crds)[d], Stored(crds)[d])
    BY <1>1, CrdOnwardSelf
  <1>4. <<Stored(crds), Stored(crds)>> \in Onward
    BY <1>1, <1>3 DEF Onward
  <1>5. crds' \in Seq([Definition -> Crd]) /\ crds' # <<>>
    BY <1>1, <1>2, SyncedWindow
  <1>6. Forward(crds', Onward)
    BY <1>2, <1>4, SyncedForward
  <1>7. RunningIsHeld'
    BY <1>2 DEF RunningIsHeld
  <1> QED
    BY <1>2, <1>5, <1>6, <1>7, IdleWorkSide

\* The rest of the types: the worker of DynamicReconcilerManager.
LEMMA WorkerTyped ==
    ASSUME Typed, DynProgress \/ DynFails
    PROVE  /\ dynWork' \in DynWork
           /\ dynWork'.stage # "idle" => dynWork'.name \in Definition
           /\ dynQueue' \subseteq Definition
           /\ controllers' \subseteq Definition
  <1>1. DynIdle \in DynWork /\ DynIdle.stage = "idle"
    BY NoCrdType DEF DynIdle, DynWork
  <1>2. CASE DynGet
    <2>1. PICK d \in dynQueue :
              /\ dynQueue' = dynQueue \ {d}
              /\ \/ dynWork' = [stage |-> "release", name |-> d, crd |-> Cached(crds)[d]]
                 \/ dynWork' = [stage |-> "finalize", name |-> d, crd |-> Cached(crds)[d]]
                 \/ UNCHANGED dynWork
              /\ controllers' \subseteq controllers
      BY <1>2 DEF DynGet, stopAndRemoveControllerFor
    <2>2. d \in Definition /\ Cached(crds)[d] \in Crd
      BY CrdEnds DEF Typed
    <2> QED
      BY <2>1, <2>2 DEF Typed, DynWork
  <1>3. ASSUME DynRetry, dynWork.stage # "idle"
        PROVE  dynWork' = DynIdle /\ dynQueue' \subseteq Definition
    BY <1>3 DEF DynRetry, Typed
  <1>4. CASE removeFinalizer \/ DynFails
    BY <1>1, <1>3, <1>4 DEF removeFinalizer, DynFails, DynDone, Typed
  <1>5. CASE addFinalizer
    <2>1. dynWork.stage = "finalize" /\ controllers' = controllers
      BY <1>5 DEF addFinalizer
    <2>2. CASE DynTo("start")
      BY <2>1, <2>2 DEF DynTo, Typed, DynWork
    <2>3. CASE DynRetry
      BY <1>1, <1>3, <2>1, <2>3 DEF Typed
    <2> QED
      BY <1>5, <2>2, <2>3 DEF addFinalizer
  <1>6. CASE ensureInstanceControllerFor
    BY <1>1, <1>6 DEF ensureInstanceControllerFor, DynDone, Typed
  <1> QED
    BY <1>2, <1>4, <1>5, <1>6 DEF DynProgress

LEMMA InvariantStep == IInv /\ [Next]_vars => IInv'
  <1> SUFFICES ASSUME IInv, [Next]_vars PROVE IInv'
    OBVIOUS
  <1>1. Typed /\ Forward(crds, Onward)
    BY DEF IInv
  <1>2. CASE Others
    <2>1. UNCHANGED <<controllers, dynWork>> /\ dynQueue' \subseteq Definition
      BY <1>1, <1>2, OthersEffect
    <2>2. Typed'
      BY <1>1, <1>2, <2>1, DefinitionsTyped, RestTyped, OthersKeep DEF Typed, DefTyped
    <2> QED
      BY <1>2, <2>2, OthersKeep DEF IInv
  <1>3. CASE DynProgress \/ DynFails
    <2>1. /\ crds' \in Seq([Definition -> Crd]) /\ crds' # <<>> /\ Forward(crds', Onward)
          /\ WorkSide' /\ RunningIsHeld'
      BY <1>1, <1>3, GetKeeps, ReleaseKeeps, FinalizeKeeps, StartKeeps, FailureKeeps
         DEF DynProgress, Typed
    <2>2. Typed'
      BY <1>1, <1>3, <2>1, DefinitionsTyped, RestTyped, WorkerTyped DEF Typed, DefTyped
    <2> QED
      BY <2>1, <2>2 DEF IInv
  <1>4. CASE Restart
    <2>1. DynIdle \in DynWork /\ DynIdle.stage = "idle"
      BY NoCrdType DEF DynIdle, DynWork
    <2>2. Typed'
      BY <1>1, <1>4, <2>1, DefinitionsTyped, RestTyped, RestartKeeps DEF Typed, DefTyped, Restart
    <2> QED
      BY <1>4, <2>2, RestartKeeps DEF IInv
  <1> QED
    BY <1>2, <1>3, <1>4 DEF Next, Others, KindsProgress, Failure

LEMMA InvariantInit == Init => IInv
  <1> SUFFICES ASSUME Init PROVE IInv
    OBVIOUS
  <1> DEFINE none == [d \in Definition |-> NoCrd]
             charts == [d \in Definition |-> IF d \in Published THEN FirstChart ELSE NoChart]
             first == [d \in Definition |-> IF d \in Published THEN NewDef(1, 1) ELSE NoDef]
  <1>1. none \in [Definition -> Crd] /\ charts \in [Definition -> Chart \cup {NoChart}]
    BY NoCrdType, FirstChartAssumption
  <1>2. NewDef(1, 1) \in Def
    BY NoDefType DEF NewDef, Def, NoDef
  <1>3. first \in [Definition -> Def]
    BY <1>2, NoDefType
  <1>4. \A d \in Definition : CrdOnward(none[d], none[d])
    BY <1>1, CrdOnwardSelf
  <1>5. <<none, none>> \in Onward
    BY <1>1, <1>4 DEF Onward
  <1>6. crds = Synced(none) /\ oci = Synced(charts) /\ defs = Synced(first)
    BY DEF Init
  <1> HIDE DEF none, charts, first
  <1>7. /\ crds \in Seq([Definition -> Crd]) /\ crds # <<>>
        /\ oci \in Seq([Definition -> Chart \cup {NoChart}]) /\ oci # <<>>
        /\ defs \in Seq([Definition -> Def]) /\ defs # <<>>
    BY <1>1, <1>3, <1>6, SyncedWindow
  <1>8. Forward(crds, Onward)
    BY <1>5, <1>6, SyncedForward
  <1>9. /\ defWork = DefIdle /\ dynWork = DynIdle /\ controllers = {} /\ dynQueue = {}
        /\ claims \in [Definition -> ClaimPhase]
    BY DEF Init, ClaimPhase
  <1>10. dynWork \in DynWork /\ dynWork.stage = "idle"
    BY <1>9, NoCrdType DEF DynIdle, DynWork
  <1>11. IsFiniteSet(Published) /\ defQueue \in SetToSeqs(Published)
    BY FS_Subset, PublishedAssumption, DefinitionAssumption DEF Init
  <1>12. defQueue \in Seq(Definition)
    <2>1. defQueue \in Seq(Published)
      BY <1>11, ListOfSet
    <2> QED
      BY <2>1, PublishedAssumption
  <1>13. Typed
    BY <1>7, <1>9, <1>10, <1>12, NoDefType DEF Typed
  <1>14. WorkSide /\ RunningIsHeld
    BY <1>9, <1>10 DEF WorkSide, RunningIsHeld
  <1> QED
    BY <1>8, <1>13, <1>14 DEF IInv

\* Every reachable state of the definitions, their CRDs and the controllers of the
\* kinds is well typed, for any number of them and any events: above all, the names
\* on the queues and in the reconciles are those of definitions.
THEOREM TypeCorrect == Spec => []TypeOK
  <1>1. IInv => TypeOK
    <2> SUFFICES ASSUME Typed PROVE TypeOK
      BY DEF IInv
    <2>1. /\ \A i \in 1 .. Len(defs) : defs[i] \in [Definition -> Def]
          /\ \A i \in 1 .. Len(crds) : crds[i] \in [Definition -> Crd]
      BY DEF Typed
    <2> QED
      BY <2>1 DEF Typed, TypeOK
  <1> QED
    BY <1>1, InvariantInit, InvariantStep, PTL DEF Spec

\* The controllers of a kind run only while the CRD is there with the finalizer of
\* DynamicReconcilerManager on it, for any number of definitions, events and
\* interruptions and any lag of the cache: the worker stops them before it takes the
\* finalizer off, and the cached CRD by which it starts them cannot be one whose
\* finalizer it has already taken off.
THEOREM ControllersAreHeld == Spec => []RunningIsHeld
  <1>1. IInv => RunningIsHeld
    BY DEF IInv
  <1> QED
    BY <1>1, InvariantInit, InvariantStep, PTL DEF Spec

-----------------------------------------------------------------------------
(* The definitions settle on the events alone.                             *)

\* No call fails, the operator does not restart and no CRD is deleted.
Calm == {"interrupt", "delete crd"} \cap DOMAIN budget = {}

\* Whatever a reconcile comes to about the definition now, it will be looked at
\* again, or is gone.
Deferred(d) == d \in States(defQueue) \/ Lagging(defs) \/ ~Stored(defs)[d].live

\* An event of its source is still to come.
SourcePending(d) == \E s \in States(oci) : s[d] # Stored(oci)[d]

InConflict(d) == conflictingProviders(Stored(defs), d) # {}

HasCrdOf(d, chart) == Stored(crds)[d].phase = "live" /\ Stored(crds)[d].fields = chart

\* The status says how things stand with the definition.
Right(d) ==
    LET def == Stored(defs)[d]
        chart == Stored(oci)[d]
    IN  /\ def.observed = def.generation
        /\ \/ InConflict(d) /\ def.reason = "conflict"
           \/ ~InConflict(d) /\ def.reason = "waiting" /\ chart = NoChart
           \/ ~InConflict(d) /\ def.reason = "ready" /\ HasCrdOf(d, chart) /\ def.applied = chart

Covered(d) ==
    Deferred(d) \/ SourcePending(d) \/ (defWork.stage # "idle" /\ defWork.name = d) \/ Right(d)

NoneDeleted ==
    /\ dynWork.stage # "release"
    /\ \A s \in States(crds) : \A d \in Definition : s[d].phase # "deleting"

\* What the reconcile in progress has found still holds, or the definition is looked
\* at again.  An error will have it looked at again, too.
FindingHolds(d, chart) == Deferred(d) \/ SourcePending(d) \/ Stored(oci)[d] = chart

WorkIsCurrent ==
    LET d == defWork.name
    IN  defWork.stage # "idle" =>
          /\ defWork.source.live
          /\ \/ Deferred(d)
             \/ /\ defWork.source = Stored(defs)[d]
                /\ InConflict(d) <=> defWork.stage = "flush" /\ defWork.reason = "conflict"
          /\ defWork.stage = "apply" => FindingHolds(d, defWork.chart)
          /\ defWork.stage = "flush" =>
               \/ defWork.err
               \/ defWork.reason = "conflict"
               \/ defWork.reason = "waiting" /\ FindingHolds(d, NoChart)
               \/ /\ defWork.reason = "ready" /\ HasCrdOf(d, defWork.chart)
                  /\ FindingHolds(d, defWork.chart)

Settling == NoneDeleted /\ WorkIsCurrent /\ \A d \in Definition : Covered(d)

QInv == IInv /\ (Calm => Settling)

\* Nothing adds to what may happen.
LEMMA CalmStays ==
    ASSUME [Next]_vars
    PROVE  Calm' <=> Calm
  <1>1. budget' = budget \/ \E what \in DOMAIN budget : budget' = [budget EXCEPT ![what] = @ - 1]
    <2>1. ASSUME NEW what, Spend(what)
          PROVE  \E w \in DOMAIN budget : budget' = [budget EXCEPT ![w] = @ - 1]
      BY <2>1 DEF Spend
    <2>2. CASE Users
      BY <2>1, <2>2 DEF Users, CreateDefinition, EditDefinition, Publish, DeleteCrd, CreateClaim
    <2>3. CASE Failure \/ Restart
      BY <2>1, <2>3 DEF Failure, Restart
    <2> QED
      BY <2>2, <2>3 DEF Next, DefinitionsProgress, KindsProgress,
                       DeliverDefinition, DeliverSource, DeliverCRD, Resync, Cluster, vars
  <1>2. DOMAIN budget' = DOMAIN budget
    BY <1>1
  <1> QED
    BY <1>2 DEF Calm

LEMMA CalmExcludes ==
    ASSUME Calm
    PROVE  ~Failure /\ ~Restart /\ \A d \in Definition : ~DeleteCrd(d)
  BY DEF Calm, Failure, Restart, DeleteCrd, Spend

\* What a step does to the kinds that there are.
KindKept(d) ==
    /\ Stored(crds')[d].phase = Stored(crds)[d].phase
    /\ Stored(crds')[d].fields = Stored(crds)[d].fields

LEMMA PutCrdStates ==
    ASSUME Typed, NEW d \in Definition, NEW new \in Crd, PutCrd(d, new)
    PROVE  /\ Stored(crds') = [Stored(crds) EXCEPT ![d] = new]
           /\ States(crds') \subseteq States(crds) \cup {Stored(crds')}
  <1> DEFINE S == [Definition -> Crd]
             next == [Stored(crds) EXCEPT ![d] = new]
  <1>1. Stored(crds) \in S /\ crds \in Seq(S) /\ crds # <<>>
    BY CrdEnds DEF Typed
  <1>2. next \in S
    BY <1>1
  <1>3. CASE Stored(crds)[d] = new
    <2>1. next = Stored(crds)
      BY <1>1, <1>3
    <2> QED
      BY <1>3, <2>1 DEF PutCrd
  <1>4. CASE Stored(crds)[d] # new
    <2>1. crds' = Written(crds, next)
      BY <1>4 DEF PutCrd
    <2> HIDE DEF S, next
    <2>2. Stored(crds') = next
      BY <1>1, <1>2, <2>1, WrittenWindow
    <2>3. States(crds') = States(crds) \cup {next}
      BY <1>1, <1>2, <2>1, WrittenStates
    <2> QED
      BY <2>2, <2>3 DEF next
  <1> QED
    BY <1>3, <1>4

\* A write that keeps the phase and the fields of a CRD.
LEMMA PutKeepsKinds ==
    ASSUME Typed, NoneDeleted, NEW d \in Definition, NEW new \in Crd, PutCrd(d, new),
           new.phase = Stored(crds)[d].phase, new.fields = Stored(crds)[d].fields
    PROVE  /\ \A e \in Definition : KindKept(e)
           /\ \A s \in States(crds') : \A e \in Definition : s[e].phase # "deleting"
  <1>1. /\ Stored(crds) \in [Definition -> Crd] /\ Stored(crds) \in States(crds)
    BY CrdEnds
  <1>2. /\ Stored(crds') = [Stored(crds) EXCEPT ![d] = new]
        /\ States(crds') \subseteq States(crds) \cup {Stored(crds')}
    BY PutCrdStates
  <1>3. \A e \in Definition : KindKept(e)
    BY <1>1, <1>2 DEF KindKept
  <1>4. \A e \in Definition : Stored(crds')[e].phase # "deleting"
    BY <1>1, <1>3 DEF KindKept, NoneDeleted
  <1> QED
    BY <1>2, <1>3, <1>4 DEF NoneDeleted

\* DynamicReconcilerManager, which has no CRD to let go of, the API server and the
\* watch of the CRDs.
LEMMA WorkerKeepsKinds ==
    ASSUME Typed, NoneDeleted, DynProgress
    PROVE  NoneDeleted' /\ \A e \in Definition : KindKept(e)
  <1>1. dynWork.stage # "release" /\ ~removeFinalizer
    BY DEF NoneDeleted, removeFinalizer
  <1>2. CASE DynGet
    <2>1. UNCHANGED crds
      BY <1>2 DEF DynGet
    <2>2. \A d \in Definition : Cached(crds)[d].phase # "deleting"
      BY CrdEnds DEF NoneDeleted
    <2>3. dynWork'.stage # "release"
      BY <1>1, <1>2, <2>2 DEF DynGet, Typed
    <2> QED
      BY <2>1, <2>3 DEF NoneDeleted, KindKept
  <1>3. CASE ensureInstanceControllerFor
    BY <1>3 DEF ensureInstanceControllerFor, DynDone, DynIdle, NoneDeleted, KindKept
  <1>4. CASE addFinalizer
    <2>1. dynWork.stage = "finalize"
      BY <1>4 DEF addFinalizer
    <2>2. dynWork' = DynIdle \/ dynWork' = [dynWork EXCEPT !.stage = "start"]
      BY <1>4 DEF addFinalizer, DynTo, DynRetry
    <2>3. dynWork'.stage # "release"
      BY <2>2 DEF DynIdle, Typed, DynWork
    <2>4. CASE UNCHANGED crds
      BY <2>3, <2>4 DEF NoneDeleted, KindKept
    <2>5. CASE ~UNCHANGED crds
      <3> DEFINE d == dynWork.name
                 a == dynWork.crd
                 new == [a EXCEPT !.ours = TRUE]
      <3>1. PutCrd(d, new) /\ a = Stored(crds)[d] /\ d \in Definition /\ a \in Crd
        BY <1>4, <2>1, <2>5, WorkTyped DEF addFinalizer, Typed
      <3>2. new \in Crd /\ new.phase = a.phase /\ new.fields = a.fields
        BY <3>1 DEF Crd
      <3> HIDE DEF d, a, new
      <3>3. /\ \A e \in Definition : KindKept(e)
            /\ \A s \in States(crds') : \A e \in Definition : s[e].phase # "deleting"
        BY <3>1, <3>2, PutKeepsKinds
      <3> QED
        BY <2>3, <3>3 DEF NoneDeleted
    <2> QED
      BY <2>4, <2>5
  <1> QED
    BY <1>1, <1>2, <1>3, <1>4 DEF DynProgress

LEMMA ClusterKeepsKinds ==
    ASSUME Typed, NoneDeleted, Cluster
    PROVE  NoneDeleted' /\ \A e \in Definition : KindKept(e)
  <1>1. PICK d \in Definition : Establish(d) \/ FinalizeKind(d) \/ Serve(d)
    BY DEF Cluster
  <1>2. Stored(crds)[d] \in Crd /\ Stored(crds)[d].phase # "deleting"
    BY CrdEnds DEF NoneDeleted
  <1>3. CASE Establish(d)
    <2> DEFINE a == Stored(crds)[d]
               new == [a EXCEPT !.established = TRUE]
    <2>1. PutCrd(d, new) /\ dynWork' = dynWork
      BY <1>3 DEF Establish, dynVars
    <2>2. new \in Crd /\ new.phase = a.phase /\ new.fields = a.fields
      BY <1>2 DEF Crd
    <2> HIDE DEF new
    <2>3. /\ \A e \in Definition : KindKept(e)
          /\ \A s \in States(crds') : \A e \in Definition : s[e].phase # "deleting"
      BY <2>1, <2>2, PutKeepsKinds
    <2> QED
      BY <2>1, <2>3 DEF NoneDeleted
  <1>4. CASE Serve(d)
    BY <1>4 DEF Serve, dynVars, NoneDeleted, KindKept
  <1> QED
    BY <1>1, <1>2, <1>3, <1>4 DEF FinalizeKind

LEMMA DeliveryKeepsKinds ==
    ASSUME Typed, NoneDeleted, WatchCRDs
    PROVE  NoneDeleted' /\ \A e \in Definition : KindKept(e)
  <1> DEFINE S == [Definition -> Crd]
  <1>1. crds \in Seq(S) /\ Lagging(crds) /\ crds' = Delivered(crds) /\ dynWork' = dynWork
    BY DEF Typed, WatchCRDs
  <1> HIDE DEF S
  <1>2. Stored(crds') = Stored(crds) /\ States(crds') \subseteq States(crds)
    BY <1>1, DeliveredWindow, DeliveredStates
  <1> QED
    BY <1>1, <1>2 DEF NoneDeleted, KindKept

\* Others leave the definitions and the kinds alone.
LEMMA OthersSettle ==
    ASSUME Settling, UNCHANGED defVars, NoneDeleted', \A e \in Definition : KindKept(e), Typed
    PROVE  Settling'
  <1>1. UNCHANGED <<defs, oci, defQueue, defWork>>
    BY DEF defVars
  <1>2. \A d : (Deferred(d)' <=> Deferred(d)) /\ (SourcePending(d)' <=> SourcePending(d))
    BY <1>1 DEF Deferred, SourcePending
  <1>3. \A d, chart : FindingHolds(d, chart)' <=> FindingHolds(d, chart)
    BY <1>1, <1>2 DEF FindingHolds
  <1>4. \A d : InConflict(d)' <=> InConflict(d)
    BY <1>1 DEF InConflict
  <1>5. \A d \in Definition : \A chart : HasCrdOf(d, chart)' <=> HasCrdOf(d, chart)
    BY DEF HasCrdOf, KindKept
  <1>6. \A d \in Definition : Right(d)' <=> Right(d)
    BY <1>1, <1>4, <1>5 DEF Right
  <1>7. \A d \in Definition : Covered(d)'
    BY <1>1, <1>2, <1>6 DEF Settling, Covered
  <1>8. defWork.stage # "idle" => defWork.name \in Definition
    BY DEF Typed
  <1>9. WorkIsCurrent'
    BY <1>1, <1>2, <1>3, <1>4, <1>5, <1>8 DEF Settling, WorkIsCurrent
  <1> QED
    BY <1>7, <1>9 DEF Settling

\* A step that leaves the CRDs and the reconcile in progress alone and defers or
\* keeps everything.
LEMMA WatchSettles ==
    ASSUME Settling, Typed, UNCHANGED <<crds, dynWork, defWork>>,
           \A d \in Definition : Deferred(d) => Deferred(d)',
           \A d \in Definition : SourcePending(d) => SourcePending(d)' \/ Deferred(d)',
           \A d \in Definition : Deferred(d)' \/ Stored(defs') = Stored(defs),
           \A d \in Definition : \/ SourcePending(d)' \/ Deferred(d)'
                                 \/ Stored(oci')[d] = Stored(oci)[d]
    PROVE  Settling'
  <1>1. NoneDeleted'
    BY DEF Settling, NoneDeleted
  <1>2. \A d \in Definition : Deferred(d)' \/ (InConflict(d)' <=> InConflict(d))
    BY DEF InConflict
  <1>3. \A d \in Definition : \A chart : FindingHolds(d, chart) => FindingHolds(d, chart)'
    BY DEF FindingHolds
  <1>4. \A d \in Definition : \A chart : HasCrdOf(d, chart)' <=> HasCrdOf(d, chart)
    BY DEF HasCrdOf
  <1>5. \A d \in Definition : Right(d) => Right(d)' \/ Deferred(d)' \/ SourcePending(d)'
    BY <1>2, <1>4 DEF Right
  <1>6. \A d \in Definition : Covered(d)'
    BY <1>5 DEF Settling, Covered
  <1>7. defWork.stage # "idle" => defWork.name \in Definition
    BY DEF Typed
  <1>8. WorkIsCurrent'
    BY <1>2, <1>3, <1>4, <1>7 DEF Settling, WorkIsCurrent
  <1> QED
    BY <1>1, <1>6, <1>8 DEF Settling

\* Events of definitions: all that are there are enqueued.
LEMMA DefinitionEventSettles ==
    ASSUME Settling, Typed, WatchDefinitions, UNCHANGED <<crds, dynWork>>
    PROVE  Settling'
  <1> DEFINE D == [Definition -> Def]
             names == {d \in Definition : \/ Delivered(defs)[1][d].live
                                          \/ Delivered(defs)[1][d] # defs[1][d]}
  <1>1. /\ Lagging(defs) /\ defs' = Delivered(defs) /\ UNCHANGED <<oci, defWork>>
        /\ defQueue' \in Enqueued(defQueue, names)
    BY DEF WatchDefinitions
  <1>2. defs \in Seq(D) /\ defQueue \in Seq(Definition) /\ names \in SUBSET Definition
    BY DEF Typed
  <1>3. States(defQueue') = States(defQueue) \cup names
    BY <1>1, <1>2, EnqueuedQueue
  <1>4. defs' \in Seq(D) /\ defs' # <<>>
    <2> HIDE DEF D, names
    <2> QED
      BY <1>1, <1>2, DeliveredWindow
  <1>5. ~Lagging(defs') => Cached(defs') = Stored(defs')
    <2> HIDE DEF D, names
    <2> QED
      BY <1>4, WindowEnds
  <1>6. \A d \in Definition : Deferred(d)'
    BY <1>1, <1>3, <1>5 DEF Deferred, Cached
  <1> HIDE DEF names, D
  <1>7. \A d \in Definition : Stored(oci')[d] = Stored(oci)[d]
    BY <1>1
  <1> QED
    BY <1>1, <1>6, <1>7, WatchSettles

\* What an event of the sources leaves to come.
LEMMA SourceEventSettles ==
    ASSUME Settling, Typed, WatchSources, UNCHANGED <<crds, dynWork>>
    PROVE  Settling'
  <1> DEFINE O == [Definition -> Chart \cup {NoChart}]
             names == {d \in Definition : /\ Cached(defs)[d].live
                                          /\ Delivered(oci)[1][d] # oci[1][d]}
  <1>1. /\ Lagging(oci) /\ oci' = Delivered(oci) /\ UNCHANGED <<defs, defWork>>
        /\ defQueue' \in Enqueued(defQueue, names)
    BY DEF WatchSources
  <1>2. oci \in Seq(O) /\ oci # <<>> /\ defQueue \in Seq(Definition) /\ names \in SUBSET Definition
    BY DEF Typed
  <1>3. States(defQueue') = States(defQueue) \cup names
    BY <1>1, <1>2, EnqueuedQueue
  <1>4. Stored(oci') = Stored(oci) /\ oci' \in Seq(O) /\ oci' # <<>>
    <2> HIDE DEF O, names
    <2> QED
      BY <1>1, <1>2, DeliveredWindow
  <1>5. \A d \in Definition : Deferred(d) => Deferred(d)'
    BY <1>1, <1>3 DEF Deferred
  <1>6. ASSUME NEW d \in Definition, SourcePending(d)
        PROVE  SourcePending(d)' \/ Deferred(d)'
    <2>1. PICK s \in States(oci) : s[d] # Stored(oci)[d]
      BY <1>6 DEF SourcePending
    <2>2. Cached(oci') \in States(oci') /\ Cached(oci') = Delivered(oci)[1]
      <3> HIDE DEF O, names
      <3> QED
        BY <1>1, <1>4, EndsAreStates DEF Cached
    <2>3. CASE s \in States(oci')
      BY <1>4, <2>1, <2>3 DEF SourcePending
    <2>4. CASE s \notin States(oci')
      <3>1. s = oci[1]
        <4>1. Len(oci) \in Nat /\ Len(oci) > 1
          BY <1>1, <1>2 DEF Lagging
        <4>2. PICK i \in 1 .. Len(oci) : s = oci[i]
          BY DEF States
        <4>3. Len(oci') = Len(oci) - 1 /\ \A j \in 1 .. Len(oci) - 1 : oci'[j] = oci[j + 1]
          BY <1>1, <1>2, <4>1 DEF Delivered
        <4>4. CASE i # 1
          <5>1. i - 1 \in 1 .. Len(oci) - 1 /\ (i - 1) + 1 = i
            BY <4>1, <4>4
          <5>2. s = oci'[i - 1]
            BY <4>2, <4>3, <5>1
          <5> QED
            BY <2>4, <4>3, <5>1, <5>2 DEF States
        <4> QED
          BY <4>2, <4>4
      <3>2. CASE Cached(oci')[d] # Stored(oci')[d]
        BY <2>2, <3>2 DEF SourcePending
      <3>3. CASE Cached(oci')[d] = Stored(oci')[d] /\ Cached(defs)[d].live
        <4>1. d \in names
          BY <1>4, <2>1, <2>2, <3>1, <3>3
        <4> QED
          BY <1>3, <4>1 DEF Deferred
      <3>4. CASE ~Cached(defs)[d].live
        <4>1. Lagging(defs) \/ ~Stored(defs)[d].live
          BY <3>4, DefEnds
        <4> QED
          BY <1>1, <4>1 DEF Deferred
      <3> QED
        BY <3>2, <3>3, <3>4
    <2> QED
      BY <2>3, <2>4
  <1> HIDE DEF names, O
  <1> QED
    BY <1>1, <1>4, <1>5, <1>6, WatchSettles

LEMMA ResyncSettles ==
    ASSUME Settling, Typed, ResyncDefinitions, UNCHANGED dynWork
    PROVE  Settling'
  <1>1. PICK names \in SUBSET Definition : defQueue' \in Enqueued(defQueue, names)
    BY DEF ResyncDefinitions
  <1>2. UNCHANGED <<defs, oci, crds, defWork>>
    BY DEF ResyncDefinitions
  <1>3. States(defQueue') = States(defQueue) \cup names
    BY <1>1, EnqueuedQueue DEF Typed
  <1>4. \A d \in Definition : Deferred(d) => Deferred(d)'
    BY <1>2, <1>3 DEF Deferred
  <1>5. \A d \in Definition : SourcePending(d) => SourcePending(d)'
    BY <1>2 DEF SourcePending
  <1> QED
    BY <1>2, <1>4, <1>5, WatchSettles

\* Users: every definition will hear of another, the definitions of a source of its
\* chart.
LEMMA EditSettles ==
    ASSUME Settling, Typed, NEW d \in Definition, CreateDefinition(d) \/ EditDefinition(d)
    PROVE  Settling'
  <1>1. UNCHANGED <<crds, dynWork, defWork, oci, defQueue>>
    BY DEF CreateDefinition, EditDefinition, dynVars
  <1> DEFINE old == Stored(defs)[d]
  <1>2. old \in Def /\ defs \in Seq([Definition -> Def]) /\ defs # <<>>
    BY DefEnds DEF Typed
  <1>3. Lagging(defs')
    <2>1. PICK new : /\ PutDef(d, new)
                     /\ \/ \E second \in {1, 2} : new = NewDef(old.uid + 1, second)
                        \/ new = [old EXCEPT !.provides = ~@, !.generation = @ + 1]
                        \/ new = [NoDef EXCEPT !.uid = old.uid] /\ old.live
      BY DEF CreateDefinition, EditDefinition
    <2> HIDE DEF old
    <2>2. new # old
      <3>1. ASSUME NEW second \in {1, 2}, new = NewDef(old.uid + 1, second) PROVE new # old
        <4>1. new.uid = old.uid + 1 /\ old.uid \in Nat
          BY <1>2, <3>1, NoDefType DEF NewDef, Def, NoDef
        <4> QED
          BY <4>1
      <3>2. ASSUME new = [old EXCEPT !.provides = ~@, !.generation = @ + 1] PROVE new # old
        <4>1. new.generation = old.generation + 1 /\ old.generation \in Nat
          BY <1>2, <3>2 DEF Def
        <4> QED
          BY <4>1
      <3>3. ASSUME new = [NoDef EXCEPT !.uid = old.uid], old.live PROVE new # old
        BY <3>3 DEF NoDef
      <3> QED
        BY <2>1, <3>1, <3>2, <3>3
    <2>3. defs' = Written(defs, [Stored(defs) EXCEPT ![d] = new])
      BY <2>1, <2>2 DEF PutDef, old
    <2>4. Len(defs') = Len(defs) + 1 /\ Len(defs) \in Nat \ {0}
      BY <1>2, <2>3 DEF Written
    <2> QED
      BY <2>4 DEF Lagging
  <1>4. \A e \in Definition : Deferred(e)'
    BY <1>3 DEF Deferred
  <1> HIDE DEF old
  <1> QED
    BY <1>1, <1>4, WatchSettles

LEMMA PublishSettles ==
    ASSUME Settling, Typed, NEW d \in Definition, Publish(d)
    PROVE  Settling'
  <1> DEFINE O == [Definition -> Chart \cup {NoChart}]
  <1>1. UNCHANGED <<crds, dynWork, defWork, defs, defQueue>>
    BY DEF Publish, dynVars
  <1>2. PICK chart \in Chart : /\ oci' = Written(oci, [Stored(oci) EXCEPT ![d] = chart])
                               /\ chart # Stored(oci)[d]
    BY DEF Publish
  <1>3. oci \in Seq(O) /\ oci # <<>> /\ Stored(oci) \in O /\ Stored(oci) \in States(oci)
    BY DefEnds, EndsAreStates DEF Typed
  <1> DEFINE next == [Stored(oci) EXCEPT ![d] = chart]
  <1>4. next \in O /\ next[d] = chart /\ \A e \in Definition \ {d} : next[e] = Stored(oci)[e]
    BY <1>3
  <1>5. Stored(oci') = next /\ States(oci') = States(oci) \cup {next}
    <2>1. oci' = Written(oci, next)
      BY <1>2
    <2> HIDE DEF next, O
    <2> QED
      BY <1>3, <1>4, <2>1, WrittenWindow, WrittenStates
  <1> HIDE DEF next, O
  <1>6. SourcePending(d)'
    BY <1>2, <1>3, <1>4, <1>5 DEF SourcePending
  <1>7. \A e \in Definition \ {d} : SourcePending(e) => SourcePending(e)'
    BY <1>4, <1>5 DEF SourcePending
  <1>8. \A e \in Definition : Deferred(e) => Deferred(e)'
    BY <1>1 DEF Deferred
  <1> QED
    BY <1>1, <1>4, <1>5, <1>6, <1>7, <1>8, WatchSettles

\* DefGet goes by the cache, which is behind, or right.
LEMMA GetSettles ==
    ASSUME Settling, Typed, DefGet, UNCHANGED dynWork
    PROVE  Settling'
  <1> PICK d : d = Head(defQueue)
    OBVIOUS
  <1> DEFINE src == Cached(defs)[d]
             conflict == conflictingProviders(Cached(defs), d) # {}
  <1>1. /\ UNCHANGED <<defs, oci, crds>> /\ defWork.stage = "idle"
        /\ defQueue # <<>> /\ defQueue' = Tail(defQueue)
    BY DEF DefGet
  <1>2. d \in Definition /\ States(defQueue) \subseteq States(defQueue') \cup {d}
    BY <1>1, TailOfQueue DEF Typed
  <1>3. src \in Def /\ (Lagging(defs) \/ Cached(defs) = Stored(defs))
    BY <1>2, DefEnds
  <1>4. NoneDeleted'
    BY <1>1 DEF Settling, NoneDeleted
  <1>5. ASSUME NEW e \in Definition \ {d}
        PROVE  Covered(e)'
    <2>1. Covered(e)
      BY DEF Settling
    <2>2. Deferred(e) => Deferred(e)'
      BY <1>1, <1>2 DEF Deferred
    <2>3. (SourcePending(e) => SourcePending(e)') /\ (Right(e) => Right(e)')
      BY <1>1 DEF SourcePending, Right, InConflict, HasCrdOf
    <2> QED
      BY <1>1, <2>1, <2>2, <2>3 DEF Covered
  <1>6. CASE ~src.live
    <2>1. defWork' = DefIdle
      BY <1>6 DEF DefGet
    <2>2. Deferred(d)'
      BY <1>1, <1>3, <1>6 DEF Deferred
    <2>3. WorkIsCurrent'
      BY <2>1, NoDefType DEF WorkIsCurrent
    <2> QED
      BY <1>4, <1>5, <2>2, <2>3 DEF Settling, Covered
  <1>7. CASE src.live
    <2>1. defWork' = [DefIdle EXCEPT !.name = d, !.source = src,
                                     !.stage = IF conflict THEN "flush" ELSE "load",
                                     !.reason = IF conflict THEN "conflict" ELSE "none"]
      BY <1>7 DEF DefGet
    <2>2. /\ defWork'.name = d /\ defWork'.source = src
          /\ \/ conflict /\ defWork'.stage = "flush" /\ defWork'.reason = "conflict"
             \/ ~conflict /\ defWork'.stage = "load"
      BY <2>1 DEF DefIdle
    <2>3. Deferred(d)' \/ (src = Stored(defs')[d] /\ (InConflict(d)' <=> conflict))
      BY <1>1, <1>3 DEF Deferred, InConflict
    <2> HIDE DEF src, conflict
    <2>4. WorkIsCurrent'
      BY <1>7, <2>2, <2>3 DEF WorkIsCurrent
    <2>5. Covered(d)'
      BY <2>2 DEF Covered
    <2> QED
      BY <1>2, <1>4, <1>5, <2>4, <2>5 DEF Settling
  <1> QED
    BY <1>6, <1>7

\* DefLoad and DefApply: the reconcile goes on with the definition.
LEMMA WorkGoesOn ==
    ASSUME Settling, Typed, defWork.stage # "idle", UNCHANGED <<defs, oci, defQueue>>,
           defWork'.stage # "idle", defWork'.name = defWork.name,
           \A e \in Definition \ {defWork.name} : KindKept(e)
    PROVE  /\ \A e \in Definition : Covered(e)'
           /\ \A e : (Deferred(e)' <=> Deferred(e)) /\ (SourcePending(e)' <=> SourcePending(e))
           /\ \A e, chart : FindingHolds(e, chart)' <=> FindingHolds(e, chart)
           /\ \A e : InConflict(e)' <=> InConflict(e)
  <1>1. \A e : /\ Deferred(e)' <=> Deferred(e)
               /\ SourcePending(e)' <=> SourcePending(e)
               /\ InConflict(e)' <=> InConflict(e)
    BY DEF Deferred, SourcePending, InConflict
  <1>2. \A e, chart : FindingHolds(e, chart)' <=> FindingHolds(e, chart)
    BY <1>1 DEF FindingHolds
  <1>3. \A e \in Definition \ {defWork.name} : Right(e)' <=> Right(e)
    BY <1>1 DEF Right, HasCrdOf, KindKept
  <1>4. \A e \in Definition : Covered(e)'
    BY <1>1, <1>3 DEF Settling, Covered
  <1> QED
    BY <1>1, <1>2, <1>4

LEMMA LoadSettles ==
    ASSUME Settling, Typed, DefLoad, UNCHANGED dynWork
    PROVE  Settling'
  <1> PICK d \in Definition : d = defWork.name
    BY DEF DefLoad, Typed
  <1> PICK chart : chart = Cached(oci)[d]
    OBVIOUS
  <1>1. defWork.stage = "load" /\ UNCHANGED <<defs, oci, crds, defQueue>>
    BY DEF DefLoad
  <1>2. NoneDeleted' /\ \A e \in Definition : KindKept(e)
    BY <1>1 DEF Settling, NoneDeleted, KindKept
  <1>3. DOMAIN defWork = {"stage", "name", "source", "chart", "reason", "err"}
    BY DEF Typed, DefWork
  <1>4. /\ defWork.source.live
        /\ Deferred(d) \/ (defWork.source = Stored(defs)[d] /\ ~InConflict(d))
    BY <1>1 DEF Settling, WorkIsCurrent
  <1>5. FindingHolds(d, chart)
    <2>1. Cached(oci) \in States(oci)
      BY EndsAreStates DEF Typed
    <2> QED
      BY <2>1 DEF FindingHolds, SourcePending
  <1>6. /\ defWork'.name = d /\ defWork'.source = defWork.source
        /\ \/ /\ defWork'.stage = "flush" /\ defWork'.reason = "waiting" /\ chart = NoChart
           \/ /\ defWork'.stage = "flush" /\ defWork'.reason = "error" /\ defWork'.err
           \/ /\ defWork'.stage = "apply" /\ defWork'.chart = chart
    <2>1. \/ chart = NoChart /\ Conclude("waiting", FALSE)
          \/ Conclude("error", TRUE)
          \/ defWork' = [defWork EXCEPT !.stage = "apply", !.chart = chart]
      BY DEF DefLoad
    <2> QED
      BY <1>3, <2>1 DEF Conclude
  <1>7. /\ \A e \in Definition : Covered(e)'
        /\ Deferred(d)' <=> Deferred(d)
        /\ FindingHolds(d, chart)' <=> FindingHolds(d, chart)
        /\ InConflict(d)' <=> InConflict(d)
    BY <1>1, <1>2, <1>6, WorkGoesOn
  <1>8. WorkIsCurrent'
    BY <1>1, <1>4, <1>5, <1>6, <1>7 DEF WorkIsCurrent
  <1> QED
    BY <1>2, <1>7, <1>8 DEF Settling

LEMMA ApplySettles ==
    ASSUME Settling, Typed, DefApply, UNCHANGED dynWork
    PROVE  Settling'
  <1> PICK d \in Definition, chart \in Chart : d = defWork.name /\ chart = defWork.chart
    BY DEF DefApply, Typed
  <1> DEFINE a == Stored(crds)[d]
             made == [NoCrd EXCEPT !.phase = "live", !.uid = a.uid + 1, !.fields = chart]
             changed == [a EXCEPT !.fields = chart]
  <1>1. defWork.stage = "apply" /\ UNCHANGED <<defs, oci, defQueue>>
    BY DEF DefApply
  <1>2. DOMAIN defWork = {"stage", "name", "source", "chart", "reason", "err"}
    BY DEF Typed, DefWork
  <1>3. /\ defWork.source.live /\ FindingHolds(d, chart)
        /\ Deferred(d) \/ (defWork.source = Stored(defs)[d] /\ ~InConflict(d))
    BY <1>1 DEF Settling, WorkIsCurrent
  <1>4. a \in Crd /\ a.phase # "deleting" /\ Stored(crds) \in [Definition -> Crd]
    BY <1>1, CrdEnds DEF Settling, NoneDeleted
  <1>5. CASE Conclude("breaking", TRUE) /\ UNCHANGED crds
    <2>1. /\ defWork'.name = d /\ defWork'.source = defWork.source
          /\ defWork'.stage = "flush" /\ defWork'.reason = "breaking" /\ defWork'.err
      BY <1>2, <1>5 DEF Conclude
    <2>2. NoneDeleted' /\ \A e \in Definition : KindKept(e)
      BY <1>5 DEF Settling, NoneDeleted, KindKept
    <2>3. /\ \A e \in Definition : Covered(e)'
          /\ Deferred(d)' <=> Deferred(d)
          /\ InConflict(d)' <=> InConflict(d)
      BY <1>1, <2>1, <2>2, WorkGoesOn
    <2>4. WorkIsCurrent'
      BY <1>1, <1>3, <2>1, <2>3 DEF WorkIsCurrent
    <2> QED
      BY <2>2, <2>3, <2>4 DEF Settling
  <1>6. CASE PutCrd(d, IF a.phase = "absent" THEN made ELSE changed) /\ Conclude("ready", FALSE)
    <2>1. /\ defWork'.name = d /\ defWork'.source = defWork.source /\ defWork'.chart = chart
          /\ defWork'.stage = "flush" /\ defWork'.reason = "ready"
      BY <1>2, <1>6 DEF Conclude
    <2>2. PICK new \in Crd : PutCrd(d, new) /\ new.phase = "live" /\ new.fields = chart
      <3> HIDE DEF a
      <3>1. a.uid + 1 \in Nat
        BY <1>4 DEF Crd
      <3>2. made \in Crd /\ made.phase = "live" /\ made.fields = chart
        BY <1>1, <3>1, NoCrdType DEF Crd, NoCrd
      <3>3. changed \in Crd /\ changed.phase = a.phase /\ changed.fields = chart
        BY <1>1, <1>4 DEF Crd
      <3>4. a.phase = "absent" \/ a.phase = "live"
        BY <1>4 DEF Crd
      <3> HIDE DEF made, changed
      <3> QED
        BY <1>6, <3>2, <3>3, <3>4
    <2>3. /\ Stored(crds') = [Stored(crds) EXCEPT ![d] = new]
          /\ States(crds') \subseteq States(crds) \cup {Stored(crds')}
      BY <1>1, <2>2, PutCrdStates
    <2>4. Stored(crds')[d] = new /\ \A e \in Definition \ {d} : Stored(crds')[e] = Stored(crds)[e]
      BY <1>1, <1>4, <2>3
    <2>5. HasCrdOf(d, chart)' /\ \A e \in Definition \ {d} : KindKept(e)
      BY <2>1, <2>2, <2>4 DEF HasCrdOf, KindKept
    <2>6. \A e \in Definition : Stored(crds')[e].phase # "deleting"
      BY <2>2, <2>4, CrdEnds DEF Settling, NoneDeleted
    <2>7. NoneDeleted'
      BY <2>3, <2>6 DEF Settling, NoneDeleted
    <2>8. /\ \A e \in Definition : Covered(e)'
          /\ Deferred(d)' <=> Deferred(d)
          /\ FindingHolds(d, chart)' <=> FindingHolds(d, chart)
          /\ InConflict(d)' <=> InConflict(d)
      BY <1>1, <2>1, <2>5, WorkGoesOn
    <2>9. WorkIsCurrent'
      BY <1>1, <1>3, <2>1, <2>5, <2>8 DEF WorkIsCurrent
    <2> QED
      BY <2>7, <2>8, <2>9 DEF Settling
  <1> QED
    BY <1>5, <1>6 DEF DefApply

\* DefFlush: the status is written, and everything is deferred, or it is refused, and
\* the definition is deferred, or it says already what the reconcile has come to.
LEMMA FlushSettles ==
    ASSUME Settling, Typed, DefFlush, UNCHANGED dynWork
    PROVE  Settling'
  <1> PICK d \in Definition : d = defWork.name
    BY DEF DefFlush, Typed
  <1>1. defWork.stage = "flush" /\ Finish /\ UNCHANGED <<oci, crds>>
    BY DEF DefFlush
  <1>2. /\ defWork' = DefIdle /\ States(defQueue) \subseteq States(defQueue')
        /\ defWork.err => d \in States(defQueue')
    BY <1>1, FinishTyped DEF Finish
  <1>3. NoneDeleted' /\ WorkIsCurrent'
    BY <1>1, <1>2, NoDefType DEF Settling, NoneDeleted, WorkIsCurrent
  <1>4. defs' = defs \/ Lagging(defs')
    BY <1>1, ConcludedType, PutDefWindow DEF DefFlush
  <1>5. CASE Lagging(defs')
    BY <1>3, <1>5 DEF Settling, Covered, Deferred
  <1>6. CASE defs' = defs
    <2>1. \A e \in Definition : /\ Deferred(e) => Deferred(e)'
                                /\ SourcePending(e) => SourcePending(e)'
                                /\ Right(e) => Right(e)'
      BY <1>1, <1>2, <1>6 DEF Deferred, SourcePending, Right, InConflict, HasCrdOf
    <2>2. \A e \in Definition \ {d} : Covered(e)'
      BY <2>1 DEF Settling, Covered
    <2>3. CASE defWork.err \/ Deferred(d) \/ SourcePending(d)
      <3>1. Covered(d)'
        BY <1>1, <1>2, <2>1, <2>3 DEF Covered, Deferred
      <3> QED
        BY <1>3, <2>2, <3>1 DEF Settling
    <2>4. CASE ~defWork.err /\ ~Deferred(d) /\ ~SourcePending(d)
      <3>1. /\ defWork.source = Stored(defs)[d]
            /\ InConflict(d) <=> defWork.reason = "conflict"
            /\ \/ defWork.reason = "conflict"
               \/ defWork.reason = "waiting" /\ Stored(oci)[d] = NoChart
               \/ /\ defWork.reason = "ready" /\ HasCrdOf(d, defWork.chart)
                  /\ Stored(oci)[d] = defWork.chart
        BY <1>1, <2>4 DEF Settling, WorkIsCurrent, FindingHolds
      <3>2. Stored(defs)[d] = Concluded
        <4>1. PutDef(d, Concluded)
          BY <3>1 DEF DefFlush
        <4>2. ~Lagging(defs)
          BY <2>4 DEF Deferred
        <4> QED
          BY <1>1, <1>6, <4>1, <4>2, ConcludedType, PutDefWindow
      <3>3. /\ Concluded.observed = defWork.source.generation
            /\ Concluded.reason = defWork.reason
            /\ defWork.reason = "ready" => Concluded.applied = defWork.chart
        BY DEF Concluded, Typed, DefWork, Def
      <3>4. Right(d)
        BY <3>1, <3>2, <3>3 DEF Right
      <3> QED
        BY <1>1, <1>3, <2>1, <2>2, <3>4 DEF Settling, Covered
    <2> QED
      BY <2>3, <2>4
  <1> QED
    BY <1>4, <1>5, <1>6

LEMMA SettlingStep ==
    ASSUME IInv, Calm, Settling, [Next]_vars
    PROVE  Settling'
  <1>1. Typed /\ NoneDeleted /\ ~Failure /\ ~Restart /\ \A d \in Definition : ~DeleteCrd(d)
    BY CalmExcludes DEF IInv, Settling
  <1>2. ASSUME UNCHANGED <<crds, dynWork>> PROVE NoneDeleted' /\ \A e \in Definition : KindKept(e)
    BY <1>1, <1>2 DEF NoneDeleted, KindKept
  <1>3. CASE DefinitionsProgress
    <2>1. DefProgress /\ UNCHANGED dynWork
      BY <1>3 DEF DefinitionsProgress, dynVars
    <2> QED
      BY <1>1, <2>1, GetSettles, LoadSettles, ApplySettles, FlushSettles DEF DefProgress
  <1>4. CASE KindsProgress
    BY <1>1, <1>4, WorkerKeepsKinds, OthersSettle DEF KindsProgress
  <1>5. CASE UNCHANGED vars
    BY <1>1, <1>2, <1>5, OthersSettle DEF vars, dynVars
  <1>6. CASE DeliverDefinition
    BY <1>1, <1>6, DefinitionEventSettles DEF DeliverDefinition, dynVars
  <1>7. CASE DeliverSource
    BY <1>1, <1>7, SourceEventSettles DEF DeliverSource, dynVars
  <1>8. CASE DeliverCRD
    BY <1>1, <1>8, DeliveryKeepsKinds, OthersSettle DEF DeliverCRD
  <1>9. CASE Resync
    BY <1>1, <1>9, ResyncSettles DEF Resync, dynVars
  <1>10. CASE Users
    <2>1. ASSUME NEW d \in Definition, CreateClaim(d) PROVE UNCHANGED <<defVars, crds, dynWork>>
      BY <2>1 DEF CreateClaim, dynVars
    <2> QED
      BY <1>1, <1>2, <1>10, <2>1, EditSettles, PublishSettles, OthersSettle DEF Users
  <1>11. CASE Cluster
    <2>1. UNCHANGED defVars
      BY <1>11 DEF Cluster, Establish, FinalizeKind, Serve
    <2> QED
      BY <1>1, <1>11, <2>1, ClusterKeepsKinds, OthersSettle
  <1> QED
    BY <1>1, <1>3, <1>4, <1>5, <1>6, <1>7, <1>8, <1>9, <1>10, <1>11 DEF Next

\* At first the definitions that there are wait on the queue.
LEMMA SettlingInit ==
    ASSUME Init
    PROVE  Settling
  <1>1. /\ crds = Synced([d \in Definition |-> NoCrd])
        /\ defs = Synced([d \in Definition |-> IF d \in Published THEN NewDef(1, 1) ELSE NoDef])
        /\ defQueue \in SetToSeqs(Published) /\ defWork = DefIdle /\ dynWork = DynIdle
    BY DEF Init
  <1>2. NoneDeleted
    <2>1. States(crds) = {[d \in Definition |-> NoCrd]}
      BY <1>1, SyncedStates
    <2>2. NoCrd.phase # "deleting" /\ dynWork.stage # "release"
      BY <1>1 DEF DynIdle, NoCrd
    <2>3. \A s \in States(crds) : \A d \in Definition : s[d] = NoCrd
      BY <2>1
    <2> QED
      BY <2>2, <2>3 DEF NoneDeleted
  <1>3. WorkIsCurrent
    BY <1>1, NoDefType DEF WorkIsCurrent
  <1>4. States(defQueue) = Published
    <2>1. IsFiniteSet(Published)
      BY FS_Subset, PublishedAssumption, DefinitionAssumption
    <2> QED
      BY <1>1, <2>1, ListOfSet
  <1>5. Stored(defs) = [d \in Definition |-> IF d \in Published THEN NewDef(1, 1) ELSE NoDef]
    BY <1>1 DEF Synced, Stored
  <1>6. \A d \in Definition : Deferred(d)
    BY <1>4, <1>5 DEF Deferred, NoDef
  <1> QED
    BY <1>2, <1>3, <1>6 DEF Settling, Covered

-----------------------------------------------------------------------------
(* Of the definitions that provide the group, one comes first.             *)

\* Of some natural numbers one is the smallest.
LEMMA Smallest ==
    ASSUME NEW T, T \subseteq Nat, T # {}
    PROVE  \E n \in T : \A m \in T : n <= m
  <1> DEFINE R == OpToRel(<, Nat)
  <1>1. PICK n \in T : \A m \in T : <<m, n>> \notin R
    BY NatLessThanWellFounded, WFMin, Zenon
  <1>2. \A m \in T : m < n => <<m, n>> \in R
    BY SMT DEF OpToRel
  <1>3. \A m \in T : ~(m < n)
    BY <1>1, <1>2, Zenon
  <1> HIDE DEF R
  <1> QED
    BY <1>3

LEMMA OneComesFirst ==
    ASSUME NEW state \in [Definition -> Def], NEW S \in SUBSET Definition, S # {}
    PROVE  \E first \in S : \A other \in S \ {first} : providerPrecedes(state, first, other)
  <1> DEFINE ages == {state[d].created : d \in S}
  <1>1. \A d \in S : state[d].created \in Nat /\ d \in Nat
    BY DefinitionAssumption DEF Def
  <1>2. PICK age \in ages : \A m \in ages : age <= m
    <2>1. ages \subseteq Nat /\ ages # {}
      BY <1>1
    <2> HIDE DEF ages
    <2> QED
      BY <2>1, Smallest
  <1> DEFINE eldest == {d \in S : state[d].created = age}
  <1>3. PICK first \in eldest : \A d \in eldest : first <= d
    <2>1. eldest \subseteq Nat /\ eldest # {}
      BY <1>1, <1>2
    <2> HIDE DEF eldest
    <2> QED
      BY <2>1, Smallest
  <1>4. ASSUME NEW other \in S \ {first}
        PROVE  providerPrecedes(state, first, other)
    <2>1. age <= state[other].created /\ state[first].created = age /\ first \in S
      BY <1>2, <1>3
    <2>2. CASE state[other].created = age
      <3>1. first <= other /\ first # other /\ first \in Nat /\ other \in Nat
        BY <1>1, <1>3, <2>2
      <3>2. first < other
        BY <3>1
      <3> QED
        BY <2>1, <2>2, <3>2 DEF providerPrecedes
    <2>3. CASE state[other].created # age
      <3>1. state[first].created < state[other].created
        BY <1>1, <2>1, <2>3
      <3> QED
        BY <3>1 DEF providerPrecedes
    <2> QED
      BY <2>2, <2>3
  <1> QED
    BY <1>3, <1>4

\* It does not give way to any of the others.
LEMMA PrecedesOneWay ==
    ASSUME NEW state \in [Definition -> Def], NEW a \in Definition, NEW b \in Definition,
           providerPrecedes(state, a, b)
    PROVE  ~providerPrecedes(state, b, a)
  <1>1. /\ state[a].created \in Nat /\ state[b].created \in Nat /\ a \in Nat /\ b \in Nat
    BY DefinitionAssumption DEF Def
  <1> QED
    BY <1>1 DEF providerPrecedes

LEMMA RightIsSettled ==
    ASSUME Typed, \A d \in Definition : Stored(defs)[d].live => Right(d)
    PROVE  Settled
  <1> DEFINE state == Stored(defs)
             live == {d \in Definition : state[d].live}
             providers == {d \in live : state[d].provides}
  <1>1. state \in [Definition -> Def]
    BY DefEnds
  <1>2. \A d \in live : state[d].reason = "conflict" => state[d].provides
    BY DEF Right, InConflict, conflictingProviders
  <1>3. \A d \in live : state[d].reason \in {"conflict", "waiting", "ready"}
    BY DEF Right
  <1>4. ASSUME NEW d \in live
        PROVE  /\ state[d].observed = state[d].generation
               /\ CASE state[d].reason = "conflict" -> state[d].provides
                    [] state[d].reason = "waiting" -> Stored(oci)[d] = NoChart
                    [] state[d].reason = "error" -> Stored(oci)[d] \in Uncompilable
                    [] state[d].reason = "breaking" ->
                         /\ Stored(oci)[d] \notin Uncompilable \cup {NoChart}
                         /\ Breaks(Stored(crds)[d].fields, Stored(oci)[d])
                    [] state[d].reason = "ready" ->
                         /\ Stored(crds)[d].phase = "live"
                         /\ Stored(crds)[d].fields = Stored(oci)[d]
                         /\ state[d].applied = Stored(oci)[d]
                    [] OTHER -> FALSE
    <2>1. Right(d)
      OBVIOUS
    <2>2. CASE state[d].reason = "conflict"
      BY <1>2, <2>1, <2>2 DEF Right
    <2>3. CASE state[d].reason = "waiting"
      BY <2>1, <2>3 DEF Right
    <2>4. CASE state[d].reason = "ready"
      BY <2>1, <2>4 DEF Right, HasCrdOf
    <2> QED
      BY <1>3, <2>2, <2>3, <2>4
  <1>5. ASSUME providers # {}
        PROVE  \E first \in live :
                  /\ state[first].provides
                  /\ \A other \in live :
                        state[other].provides => (state[other].reason = "conflict" <=> other # first)
    <2>1. PICK first \in providers : \A other \in providers \ {first} : providerPrecedes(state, first, other)
      <3>1. providers \in SUBSET Definition
        OBVIOUS
      <3> HIDE DEF providers, state
      <3> QED
        BY <1>1, <1>5, <3>1, OneComesFirst
    <2>2. ~InConflict(first)
      <3>1. ASSUME NEW other \in conflictingProviders(state, first) PROVE FALSE
        <4>1. other \in providers \ {first} /\ providerPrecedes(state, other, first)
          BY <3>1 DEF conflictingProviders
        <4>2. providerPrecedes(state, first, other) /\ other \in Definition /\ first \in Definition
          BY <2>1, <4>1
        <4> HIDE DEF providers, state
        <4> QED
          BY <1>1, <4>1, <4>2, PrecedesOneWay
      <3> QED
        BY <3>1 DEF InConflict
    <2>3. \A other \in providers \ {first} : InConflict(other)
      BY <2>1 DEF InConflict, conflictingProviders
    <2>4. \A d \in live : InConflict(d) <=> state[d].reason = "conflict"
      BY DEF Right
    <2> QED
      BY <2>1, <2>2, <2>3, <2>4
  <1> QED
    BY <1>4, <1>5 DEF Settled

\* As long as no call fails, the operator does not restart and no CRD is deleted, the
\* worker of ClaimDefinitionManager that has nothing left to do has settled every
\* definition, for any number of definitions, edits and charts and any lag of the
\* caches: an event of one has all of them looked at again, and one whose status
\* could not be written, or that was decided on what has changed since, is due to be
\* looked at for the change that was in the way.
THEOREM QuietMeansSettled == Spec => []QuietIsSettled
  <1>1. Init => QInv
    BY InvariantInit, SettlingInit DEF QInv
  <1>2. QInv /\ [Next]_vars => QInv'
    BY InvariantStep, CalmStays, SettlingStep DEF QInv
  <1>3. QInv => QuietIsSettled
    <2> SUFFICES ASSUME QInv, Calm, Len(defs) = 1, Len(oci) = 1, defQueue = <<>>, defWork = DefIdle
                 PROVE  Settled
      BY DEF QuietIsSettled, Calm
    <2>1. Typed /\ \A d \in Definition : Covered(d)
      BY DEF QInv, IInv, Settling
    <2>2. States(defQueue) = {} /\ ~Lagging(defs) /\ defWork.stage = "idle"
      BY NoDefType DEF States, Lagging
    <2>3. \A d : ~SourcePending(d)
      BY DEF SourcePending, States, Stored
    <2>4. \A d \in Definition : Stored(defs)[d].live => Right(d)
      BY <2>1, <2>2, <2>3 DEF Covered, Deferred
    <2> QED
      BY <2>1, <2>4, RightIsSettled
  <1> QED
    BY <1>1, <1>2, <1>3, PTL DEF Spec
=============================================================================
