--------------------------- MODULE OperatorsProofs ---------------------------
(***************************************************************************)
(* Proofs about Operators, for any namespaces, accounts, harnesses and     *)
(* groups, any scenarios and any lag of the caches.                        *)
(***************************************************************************)
EXTENDS Operators, InformerProofs, TLAPS

-----------------------------------------------------------------------------
(* Windows that grow and shrink.                                           *)

\* A window to which at most its stored state has been added.
Extends(w, v) == States(v) = States(w) \cup {Stored(v)} /\ Cached(v) = Cached(w)

LEMMA WrittenExtends ==
    ASSUME NEW S, NEW w \in Seq(S), w # <<>>, NEW s \in S
    PROVE  /\ Written(w, s) \in Seq(S) /\ Written(w, s) # <<>>
           /\ Stored(Written(w, s)) = s
           /\ Extends(w, Written(w, s))
  <1>1. /\ Written(w, s) \in Seq(S) /\ Written(w, s) # <<>>
        /\ Stored(Written(w, s)) = s
        /\ Cached(Written(w, s)) = Cached(w)
    BY WrittenWindow
  <1>2. States(Written(w, s)) = States(w) \cup {s}
    BY WrittenStates
  <1> QED
    BY <1>1, <1>2 DEF Extends

LEMMA WroteWindow ==
    ASSUME NEW S, NEW w \in Seq(S), w # <<>>, NEW s \in S
    PROVE  /\ Wrote(w, s) \in Seq(S) /\ Wrote(w, s) # <<>>
           /\ Stored(Wrote(w, s)) = s
           /\ Extends(w, Wrote(w, s))
  <1>1. Stored(w) \in States(w)
    BY EndsAreStates
  <1>2. CASE Stored(w) = s
    BY <1>1, <1>2 DEF Wrote, Extends
  <1>3. CASE Stored(w) # s
    BY <1>3, WrittenExtends DEF Wrote
  <1> QED
    BY <1>2, <1>3

LEMMA SameExtends ==
    ASSUME NEW S, NEW w \in Seq(S), w # <<>>
    PROVE  Extends(w, w)
  BY EndsAreStates DEF Extends

\* A window from which its oldest state has been delivered.
Follows(w, v) ==
    /\ Stored(v) = Stored(w) /\ Cached(w) = w[1] /\ Cached(v) = w[2]
    /\ States(w) = States(v) \cup {w[1]} /\ w[2] \in States(v)

LEMMA DeliveredFollows ==
    ASSUME NEW S, NEW w \in Seq(S), Lagging(w)
    PROVE  /\ Delivered(w) \in Seq(S) /\ Delivered(w) # <<>>
           /\ Follows(w, Delivered(w))
  <1>1. Len(w) \in Nat /\ Len(w) > 1 /\ w # <<>>
    BY DEF Lagging
  <1>2. Len(Tail(w)) = Len(w) - 1 /\ \A i \in 1 .. Len(w) - 1 : Tail(w)[i] = w[i + 1]
    BY <1>1
  <1>3. /\ Delivered(w) \in Seq(S) /\ Delivered(w) # <<>>
        /\ Cached(Delivered(w)) = w[2] /\ Stored(Delivered(w)) = Stored(w)
    BY DeliveredWindow
  <1>4. States(Delivered(w)) \subseteq States(w) /\ w[1] \in States(w)
    BY DeliveredStates, <1>1 DEF States
  <1>5. ASSUME NEW i \in 1 .. Len(w)
        PROVE  w[i] \in States(Delivered(w)) \cup {w[1]}
    <2>1. CASE i = 1
      BY <2>1
    <2>2. CASE i # 1
      <3>1. i - 1 \in 1 .. Len(w) - 1 /\ Tail(w)[i - 1] = w[i]
        BY <2>2, <1>1, <1>2
      <3> QED
        BY <3>1, <1>2 DEF States, Delivered
    <2> QED
      BY <2>1, <2>2
  <1>6. States(w) = States(Delivered(w)) \cup {w[1]}
    BY <1>4, <1>5 DEF States
  <1>7. Cached(Delivered(w)) \in States(Delivered(w))
    BY <1>3, EndsAreStates
  <1> QED
    BY <1>3, <1>6, <1>7 DEF Follows, Cached

-----------------------------------------------------------------------------
(* Types.                                                                  *)

AccountState == [Account -> {Absent, Unscoped} \cup Harness]
HarnessState == [Harness -> HarnessObject]
Owner == [harness : Harness \cup {None}, uid : Nat]
CaState == [Namespace -> Owner]
Role == [owner : Owner, subjects : SUBSET Account]
Hook == [owner : Owner, namespace : Namespace \cup {None}]
HookState == [Harness -> Hook]
HarnessWork == [stage : {"idle", "scope", "rbac", "ca", "hook", "prune", "flush"},
                name : Harness \cup {None}, source : HarnessObject, ok : BOOLEAN, err : BOOLEAN]
AccessWork == [stage : {"idle", "scopedlist", "clusterscoped", "requires"},
               name : Namespace \cup {"none"},
               manages : SUBSET (Group \X Nat), requires : SUBSET (Group \X Nat)]

\* A harness that exists is for a namespace, and ready for no generation it has not had.
Born(harness) ==
    harness.live => /\ harness.generation > 0 /\ harness.ready <= harness.generation
                    /\ harness.namespace \in Namespace

HarnessTyped ==
    /\ accounts \in Seq(AccountState) /\ accounts # <<>>
    /\ harnesses \in Seq(HarnessState) /\ harnesses # <<>>
    /\ scopeRoles \in [Harness -> Role]
    /\ cas \in Seq(CaState) /\ cas # <<>>
    /\ hooks \in Seq(HookState) /\ hooks # <<>>
    /\ harnessQueue \subseteq Harness
    /\ harnessWork \in HarnessWork
    /\ harnessWork.stage # "idle" => harnessWork.name \in Harness

AccessTyped ==
    /\ namespaces \in Seq([Namespace -> Labels]) /\ namespaces # <<>>
    /\ rules \in Seq([Group -> Nat]) /\ rules # <<>>
    /\ provided \in [Namespace -> [Kind -> Grant]]
    /\ access \in [Namespace \X Namespace \X Group -> Grant]
    /\ policies \in [Namespace -> SUBSET Group]
    /\ accessQueue \subseteq Namespace /\ policyQueue \subseteq Namespace
    /\ accessWork \in AccessWork
    /\ accessWork.stage # "idle" => accessWork.name \in Namespace

PodsTyped == pods \in [Account -> {"none", "direct", "proxied"}]

Typed == HarnessTyped /\ AccessTyped /\ PodsTyped

LEMMA TypedImpliesTypeOK == Typed => TypeOK
  <1> SUFFICES ASSUME Typed PROVE TypeOK
    OBVIOUS
  <1>1. \A i \in 1 .. Len(accounts) : accounts[i] \in [Account -> {Absent, Unscoped} \cup Harness]
    BY DEF Typed, HarnessTyped, AccountState
  <1>2. \A i \in 1 .. Len(harnesses) : harnesses[i] \in [Harness -> HarnessObject]
    BY DEF Typed, HarnessTyped, HarnessState
  <1>3. \A h \in Harness : scopeRoles[h].subjects \subseteq Account
    BY DEF Typed, HarnessTyped, Role
  <1>4. harnessQueue \subseteq Harness /\ accessQueue \cup policyQueue \subseteq Namespace
    BY DEF Typed, HarnessTyped, AccessTyped
  <1>5. provided \in [Namespace -> [Kind -> Grant]] /\ \A at \in DOMAIN access : access[at] \in Grant
    BY DEF Typed, AccessTyped
  <1> QED
    BY <1>1, <1>2, <1>3, <1>4, <1>5 DEF Typed, PodsTyped, TypeOK

LEMMA NothingTyped ==
    /\ NoHarness \in HarnessObject /\ NoOwner \in Owner /\ NoRole \in Role /\ NoHook \in Hook
    /\ HarnessIdle \in HarnessWork /\ HarnessIdle.stage = "idle"
    /\ AccessIdle \in AccessWork /\ AccessIdle.stage = "idle"
    /\ NoLabels \in Labels /\ NoGrant \in Grant
  <1>1. NoHarness \in HarnessObject
    BY DEF NoHarness, HarnessObject
  <1>2. NoOwner \in Owner
    BY DEF NoOwner, Owner
  <1>3. NoRole \in Role /\ NoHook \in Hook
    BY <1>2 DEF NoRole, NoHook, Role, Hook
  <1>4. HarnessIdle \in HarnessWork /\ HarnessIdle.stage = "idle"
    BY <1>1 DEF HarnessIdle, HarnessWork
  <1>5. AccessIdle \in AccessWork /\ AccessIdle.stage = "idle"
    BY DEF AccessIdle, AccessWork
  <1>6. NoLabels \in Labels /\ NoGrant \in Grant
    BY DEF NoLabels, Labels, LabelSet, NoGrant, Grant
  <1> QED
    BY <1>1, <1>3, <1>2, <1>4, <1>5, <1>6

LEMMA HarnessEnds ==
    ASSUME HarnessTyped
    PROVE  /\ Stored(accounts) \in AccountState /\ Cached(accounts) \in AccountState
           /\ Stored(harnesses) \in HarnessState /\ Cached(harnesses) \in HarnessState
           /\ Stored(cas) \in CaState /\ Cached(cas) \in CaState
           /\ Stored(hooks) \in HookState /\ Cached(hooks) \in HookState
           /\ Source \in HarnessObject
  <1>1. Source \in HarnessObject
    BY DEF HarnessTyped, HarnessWork, Source
  <1> QED
    BY <1>1, WindowEnds DEF HarnessTyped

LEMMA OwnedByType ==
    ASSUME NEW h \in Harness, NEW harness \in HarnessObject
    PROVE  OwnedBy(h, harness) \in Owner
  BY DEF OwnedBy, Owner, HarnessObject

LEMMA AccessEnds ==
    ASSUME AccessTyped
    PROVE  /\ Stored(namespaces) \in [Namespace -> Labels] /\ Cached(namespaces) \in [Namespace -> Labels]
           /\ Stored(rules) \in [Group -> Nat] /\ Cached(rules) \in [Group -> Nat]
  BY WindowEnds DEF AccessTyped

\* The states that the steps of the harness worker write.
LEMMA HarnessWrites ==
    ASSUME HarnessTyped, harnessWork.stage # "idle"
    PROVE  LET h == harnessWork.name
           IN  /\ h \in Harness
               /\ OwnedBy(h, Source) \in Owner
               /\ \A state \in AccountState : \A some \in SUBSET Account :
                     [a \in Account |-> IF a \in some THEN h ELSE state[a]] \in AccountState
               /\ [Stored(cas) EXCEPT ![Source.namespace] = OwnedBy(h, Source)] \in CaState
               /\ \A some \in SUBSET Namespace :
                     [n \in Namespace |-> IF n \in some THEN NoOwner ELSE Stored(cas)[n]] \in CaState
               /\ [Stored(hooks) EXCEPT ![h] = [owner |-> OwnedBy(h, Source), namespace |-> Source.namespace]]
                     \in HookState
               /\ [Stored(hooks) EXCEPT ![h] = NoHook] \in HookState
               /\ [Stored(harnesses) EXCEPT ![h] = Concluded(Source)] \in HarnessState
  <1> DEFINE h == harnessWork.name
  <1>1. h \in Harness /\ OwnedBy(h, Source) \in Owner
    BY HarnessEnds, OwnedByType DEF HarnessTyped
  <1>2. ASSUME NEW state \in AccountState, NEW some \in SUBSET Account
        PROVE  [a \in Account |-> IF a \in some THEN h ELSE state[a]] \in AccountState
    BY <1>1 DEF AccountState
  <1>3. [Stored(cas) EXCEPT ![Source.namespace] = OwnedBy(h, Source)] \in CaState
    BY <1>1, HarnessEnds DEF CaState
  <1>4. ASSUME NEW some \in SUBSET Namespace
        PROVE  [n \in Namespace |-> IF n \in some THEN NoOwner ELSE Stored(cas)[n]] \in CaState
    BY HarnessEnds, NothingTyped DEF CaState
  <1>5. [owner |-> OwnedBy(h, Source), namespace |-> Source.namespace] \in Hook
    BY <1>1, HarnessEnds DEF Hook, HarnessObject
  <1>6. /\ [Stored(hooks) EXCEPT ![h] = [owner |-> OwnedBy(h, Source), namespace |-> Source.namespace]]
              \in HookState
        /\ [Stored(hooks) EXCEPT ![h] = NoHook] \in HookState
    BY <1>1, <1>5, HarnessEnds, NothingTyped DEF HookState
  <1>7. Concluded(Source) \in HarnessObject
    BY HarnessEnds DEF Concluded, HarnessObject
  <1>8. [Stored(harnesses) EXCEPT ![h] = Concluded(Source)] \in HarnessState
    BY <1>1, <1>7, HarnessEnds DEF HarnessState
  <1> QED
    BY <1>1, <1>2, <1>3, <1>4, <1>6, <1>8

\* What each step of the harness worker does.
Advances(stage) ==
    /\ harnessWork' \in HarnessWork
    /\ harnessWork'.stage = stage /\ harnessWork'.name = harnessWork.name
    /\ harnessWork'.source = harnessWork.source
    /\ harnessQueue' = harnessQueue

LEMMA AdvancesTo ==
    ASSUME HarnessTyped,
           NEW stage \in {"scope", "rbac", "ca", "hook", "prune"}, To(stage)
    PROVE  Advances(stage)
  BY DEF HarnessTyped, HarnessWork, To, Advances

LEMMA AdvancesToFlush ==
    ASSUME HarnessTyped, NEW ok \in BOOLEAN, NEW err \in BOOLEAN, Conclude(ok, err),
           harnessQueue' = harnessQueue
    PROVE  Advances("flush") /\ harnessWork'.ok = ok /\ harnessWork'.err = err
  BY DEF HarnessTyped, HarnessWork, Conclude, Advances

LEMMA ScopeEffect ==
    ASSUME HarnessTyped, ensureServiceAccountScope
    PROVE  LET h == harnessWork.name
               wrong == {a \in harnessedServiceAccounts(Source) : Cached(accounts)[a] # h}
           IN  /\ harnessWork.stage = "scope" /\ h \in Harness
               /\ Advances("rbac")
               /\ UNCHANGED <<harnesses, scopeRoles, cas, hooks>>
               /\ accounts' \in Seq(AccountState) /\ accounts' # <<>>
               /\ Extends(accounts, accounts')
               /\ \A a \in Account : Stored(accounts')[a] =
                     IF a \in wrong /\ Stored(accounts)[a] # Absent THEN h ELSE Stored(accounts)[a]
  <1> DEFINE h == harnessWork.name
             wrong == {a \in harnessedServiceAccounts(Source) : Cached(accounts)[a] # h}
             state == [a \in Account |->
                         IF a \in wrong \cap Exist(Stored(accounts)) THEN h ELSE Stored(accounts)[a]]
  <1>1. harnessWork.stage = "scope" /\ accounts' = Wrote(accounts, state) /\ To("rbac")
        /\ UNCHANGED <<harnesses, scopeRoles, cas, hooks>>
    BY DEF ensureServiceAccountScope
  <1>2. wrong \cap Exist(Stored(accounts)) \in SUBSET Account
    BY DEF Exist
  <1>3. state \in AccountState /\ h \in Harness
    BY <1>1, <1>2, HarnessWrites, HarnessEnds
  <1>4. /\ accounts' \in Seq(AccountState) /\ accounts' # <<>>
        /\ Extends(accounts, accounts') /\ Stored(accounts') = state
    BY <1>1, <1>3, WroteWindow DEF HarnessTyped
  <1>5. \A a \in Account : state[a] =
           IF a \in wrong /\ Stored(accounts)[a] # Absent THEN h ELSE Stored(accounts)[a]
    BY DEF Exist
  <1>6. Advances("rbac")
    BY <1>1, AdvancesTo
  <1> QED
    BY <1>1, <1>3, <1>4, <1>5, <1>6

LEMMA RoleEffect ==
    ASSUME HarnessTyped, ensureScopedListRBAC
    PROVE  LET h == harnessWork.name
           IN  /\ harnessWork.stage = "rbac" /\ h \in Harness
               /\ Advances(IF Source.inject THEN "ca" ELSE "prune")
               /\ UNCHANGED <<accounts, harnesses, cas, hooks>>
               /\ scopeRoles' \in [Harness -> Role]
               /\ scopeRoles'[h] = [owner |-> OwnedBy(h, Source), subjects |-> harnessedServiceAccounts(Source)]
               /\ \A g \in Harness \ {h} : scopeRoles'[g] = scopeRoles[g]
  <1> DEFINE h == harnessWork.name
             role == [owner |-> OwnedBy(h, Source), subjects |-> harnessedServiceAccounts(Source)]
  <1>1. harnessWork.stage = "rbac" /\ scopeRoles' = [scopeRoles EXCEPT ![h] = role]
        /\ To(IF Source.inject THEN "ca" ELSE "prune") /\ UNCHANGED <<accounts, harnesses, cas, hooks>>
    BY DEF ensureScopedListRBAC
  <1>2. h \in Harness /\ OwnedBy(h, Source) \in Owner
    BY <1>1, HarnessWrites
  <1>3. harnessedServiceAccounts(Source) \in SUBSET Account
    BY DEF harnessedServiceAccounts, Exist
  <1>4. role \in Role
    BY <1>2, <1>3 DEF Role
  <1>5. Advances(IF Source.inject THEN "ca" ELSE "prune")
    BY <1>1, AdvancesTo
  <1> HIDE DEF role
  <1>6. /\ scopeRoles' \in [Harness -> Role] /\ scopeRoles'[h] = role
        /\ \A g \in Harness \ {h} : scopeRoles'[g] = scopeRoles[g]
    BY <1>1, <1>2, <1>4 DEF HarnessTyped
  <1> QED
    BY <1>1, <1>2, <1>5, <1>6 DEF role

LEMMA CaEffect ==
    ASSUME HarnessTyped, ensureProxyCACertificate
    PROVE  LET h == harnessWork.name
           IN  /\ harnessWork.stage = "ca" /\ h \in Harness
               /\ Advances("hook")
               /\ UNCHANGED <<accounts, harnesses, scopeRoles, hooks>>
               /\ cas' \in Seq(CaState) /\ cas' # <<>>
               /\ Extends(cas, cas')
               /\ \A n \in Namespace : Stored(cas')[n] =
                     IF n = Source.namespace THEN OwnedBy(h, Source) ELSE Stored(cas)[n]
  <1> DEFINE h == harnessWork.name
             owner == OwnedBy(h, Source)
             state == [Stored(cas) EXCEPT ![Source.namespace] = owner]
  <1>1. harnessWork.stage = "ca" /\ cas' = Wrote(cas, state) /\ To("hook")
        /\ UNCHANGED <<accounts, harnesses, scopeRoles, hooks>>
    BY DEF ensureProxyCACertificate
  <1>2. h \in Harness /\ state \in CaState
    BY <1>1, HarnessWrites
  <1>3. \A n \in Namespace : state[n] = IF n = Source.namespace THEN owner ELSE Stored(cas)[n]
    BY HarnessEnds DEF CaState
  <1> HIDE DEF state
  <1>4. /\ cas' \in Seq(CaState) /\ cas' # <<>>
        /\ Extends(cas, cas') /\ Stored(cas') = state
    BY <1>1, <1>2, WroteWindow DEF HarnessTyped
  <1>5. Advances("hook")
    BY <1>1, AdvancesTo
  <1> QED
    BY <1>1, <1>2, <1>3, <1>4, <1>5

LEMMA HookEffect ==
    ASSUME HarnessTyped, ensureProxyInjectionWebhook
    PROVE  LET h == harnessWork.name
           IN  /\ harnessWork.stage = "hook" /\ h \in Harness
               /\ Advances("prune")
               /\ UNCHANGED <<accounts, harnesses, scopeRoles, cas>>
               /\ hooks' \in Seq(HookState) /\ hooks' # <<>>
               /\ Extends(hooks, hooks')
               /\ Stored(hooks')[h] = [owner |-> OwnedBy(h, Source), namespace |-> Source.namespace]
               /\ \A g \in Harness \ {h} : Stored(hooks')[g] = Stored(hooks)[g]
  <1> DEFINE h == harnessWork.name
             hook == [owner |-> OwnedBy(h, Source), namespace |-> Source.namespace]
             state == [Stored(hooks) EXCEPT ![h] = hook]
  <1>1. harnessWork.stage = "hook" /\ hooks' = Wrote(hooks, state) /\ To("prune")
        /\ UNCHANGED <<accounts, harnesses, scopeRoles, cas>>
    BY DEF ensureProxyInjectionWebhook
  <1>2. h \in Harness /\ state \in HookState
    BY <1>1, HarnessWrites
  <1> HIDE DEF hook
  <1>3. state[h] = hook /\ \A g \in Harness \ {h} : state[g] = Stored(hooks)[g]
    BY <1>2, HarnessEnds DEF HookState
  <1> HIDE DEF state
  <1>4. /\ hooks' \in Seq(HookState) /\ hooks' # <<>>
        /\ Extends(hooks, hooks') /\ Stored(hooks') = state
    BY <1>1, <1>2, WroteWindow DEF HarnessTyped
  <1>5. Advances("prune")
    BY <1>1, AdvancesTo
  <1> QED
    BY <1>1, <1>2, <1>3, <1>4, <1>5 DEF hook

LEMMA PruneEffect ==
    ASSUME HarnessTyped, pruneProxyConfiguration
    PROVE  LET h == harnessWork.name
               keep == IF Source.inject THEN Source.namespace ELSE None
           IN  /\ harnessWork.stage = "prune" /\ h \in Harness
               /\ Advances("flush") /\ harnessWork'.ok = TRUE /\ harnessWork'.err = FALSE
               /\ UNCHANGED <<accounts, harnesses, scopeRoles>>
               /\ cas' \in Seq(CaState) /\ cas' # <<>>
               /\ Extends(cas, cas')
               /\ \A n \in Namespace : Stored(cas')[n] =
                     IF n # keep /\ Cached(cas)[n].harness = h THEN NoOwner ELSE Stored(cas)[n]
               /\ hooks' \in Seq(HookState) /\ hooks' # <<>>
               /\ Extends(hooks, hooks')
               /\ Stored(hooks')[h] = IF ~Source.inject /\ Cached(hooks)[h] # NoHook
                                      THEN NoHook ELSE Stored(hooks)[h]
               /\ \A g \in Harness \ {h} : Stored(hooks')[g] = Stored(hooks)[g]
  <1> DEFINE h == harnessWork.name
             keep == IF Source.inject THEN Source.namespace ELSE None
             stale == {n \in Namespace \ {keep} : Cached(cas)[n].harness = h}
             owners == [n \in Namespace |-> IF n \in stale THEN NoOwner ELSE Stored(cas)[n]]
             bare == [Stored(hooks) EXCEPT ![h] = NoHook]
  <1>1. /\ harnessWork.stage = "prune" /\ cas' = Wrote(cas, owners)
        /\ hooks' = IF ~Source.inject /\ Cached(hooks)[h] # NoHook THEN Wrote(hooks, bare) ELSE hooks
        /\ Conclude(TRUE, FALSE)
        /\ UNCHANGED <<accounts, harnesses, scopeRoles, harnessQueue>>
    BY DEF pruneProxyConfiguration
  <1>2. stale \in SUBSET Namespace
    OBVIOUS
  <1>8. h \in Harness /\ owners \in CaState /\ bare \in HookState
    BY <1>1, <1>2, HarnessWrites
  <1>3. \A n \in Namespace : owners[n] =
           IF n # keep /\ Cached(cas)[n].harness = h THEN NoOwner ELSE Stored(cas)[n]
    OBVIOUS
  <1>4. bare[h] = NoHook /\ \A g \in Harness \ {h} : bare[g] = Stored(hooks)[g]
    BY <1>8, HarnessEnds DEF HookState
  <1> HIDE DEF owners, bare
  <1>5. /\ cas' \in Seq(CaState) /\ cas' # <<>>
        /\ Extends(cas, cas') /\ Stored(cas') = owners
    BY <1>1, <1>8, WroteWindow DEF HarnessTyped
  <1>6. /\ hooks' \in Seq(HookState) /\ hooks' # <<>> /\ Extends(hooks, hooks')
        /\ Stored(hooks') = IF ~Source.inject /\ Cached(hooks)[h] # NoHook THEN bare ELSE Stored(hooks)
    <2>1. CASE ~Source.inject /\ Cached(hooks)[h] # NoHook
      <3>1. hooks' = Wrote(hooks, bare)
        BY <2>1, <1>1
      <3> QED
        BY <2>1, <3>1, <1>8, WroteWindow DEF HarnessTyped
    <2>2. CASE ~(~Source.inject /\ Cached(hooks)[h] # NoHook)
      <3>1. hooks' = hooks
        BY <2>2, <1>1
      <3> QED
        BY <2>2, <3>1, SameExtends DEF HarnessTyped
    <2> QED
      BY <2>1, <2>2
  <1>7. Advances("flush") /\ harnessWork'.ok = TRUE /\ harnessWork'.err = FALSE
    BY <1>1, AdvancesToFlush
  <1> QED
    BY <1>1, <1>8, <1>3, <1>4, <1>5, <1>6, <1>7

LEMMA FlushEffect ==
    ASSUME HarnessTyped, flushStatus
    PROVE  LET h == harnessWork.name
           IN  /\ harnessWork.stage = "flush" /\ h \in Harness
               /\ harnessWork' = HarnessIdle
               /\ harnessQueue' = IF harnessWork.err THEN harnessQueue \cup {h} ELSE harnessQueue
               /\ UNCHANGED <<accounts, scopeRoles, cas, hooks>>
               /\ harnesses' \in Seq(HarnessState) /\ harnesses' # <<>>
               /\ Extends(harnesses, harnesses')
               /\ harnesses' = harnesses \/ harnesses' = Written(harnesses, Stored(harnesses'))
               /\ Stored(harnesses')[h] = IF Stored(harnesses)[h] = Source
                                          THEN Concluded(Source) ELSE Stored(harnesses)[h]
               /\ \A g \in Harness \ {h} : Stored(harnesses')[g] = Stored(harnesses)[g]
  <1> DEFINE h == harnessWork.name
             state == [Stored(harnesses) EXCEPT ![h] = Concluded(Source)]
  <1>1. /\ harnessWork.stage = "flush"
        /\ harnesses' = IF Stored(harnesses)[h] = Source THEN Wrote(harnesses, state) ELSE harnesses
        /\ harnessWork' = HarnessIdle
        /\ harnessQueue' = IF harnessWork.err THEN harnessQueue \cup {h} ELSE harnessQueue
        /\ UNCHANGED <<accounts, scopeRoles, cas, hooks>>
    BY DEF flushStatus, FinishHarness
  <1>2. h \in Harness /\ state \in HarnessState
    BY <1>1, HarnessWrites
  <1>3. state[h] = Concluded(Source) /\ \A g \in Harness \ {h} : state[g] = Stored(harnesses)[g]
    BY <1>2, HarnessEnds DEF HarnessState
  <1> HIDE DEF state
  <1>4. CASE Stored(harnesses)[h] = Source
    <2>1. harnesses' = Wrote(harnesses, state)
      BY <1>4, <1>1
    <2>2. /\ harnesses' \in Seq(HarnessState) /\ harnesses' # <<>>
          /\ Extends(harnesses, harnesses') /\ Stored(harnesses') = state
      BY <2>1, <1>2, WroteWindow DEF HarnessTyped
    <2>3. harnesses' = harnesses \/ harnesses' = Written(harnesses, state)
      BY <2>1 DEF Wrote
    <2> QED
      BY <1>1, <1>2, <1>3, <1>4, <2>2, <2>3
  <1>5. CASE Stored(harnesses)[h] # Source
    <2>1. harnesses' = harnesses
      BY <1>5, <1>1
    <2>2. Extends(harnesses, harnesses')
      BY <2>1, SameExtends DEF HarnessTyped
    <2> QED
      BY <1>1, <1>2, <1>5, <2>1, <2>2 DEF HarnessTyped
  <1> QED
    BY <1>4, <1>5

LEMMA GetEffect ==
    ASSUME HarnessTyped, HarnessGet
    PROVE  /\ harnessWork.stage = "idle"
           /\ UNCHANGED <<accounts, harnesses, scopeRoles, cas, hooks>>
           /\ harnessWork' \in HarnessWork
           /\ \E h \in harnessQueue :
                 /\ harnessQueue' = harnessQueue \ {h}
                 /\ Cached(harnesses)[h].live =>
                       /\ harnessWork'.stage = "scope" /\ harnessWork'.name = h
                       /\ harnessWork'.source = Cached(harnesses)[h]
                 /\ ~Cached(harnesses)[h].live => harnessWork' = HarnessIdle
  <1>1. PICK h \in harnessQueue :
           /\ harnessWork.stage = "idle" /\ harnessQueue' = harnessQueue \ {h}
           /\ harnessWork' = IF Cached(harnesses)[h].live
                             THEN [HarnessIdle EXCEPT !.stage = "scope", !.name = h,
                                                      !.source = Cached(harnesses)[h]]
                             ELSE HarnessIdle
           /\ UNCHANGED <<accounts, harnesses, scopeRoles, cas, hooks>>
    BY DEF HarnessGet
  <1>2. h \in Harness /\ Cached(harnesses)[h] \in HarnessObject
    BY HarnessEnds DEF HarnessTyped, HarnessState
  <1>3. HarnessIdle \in HarnessWork
    BY NothingTyped
  <1>4. CASE Cached(harnesses)[h].live
    <2>1. /\ harnessWork' \in HarnessWork
          /\ harnessWork'.stage = "scope" /\ harnessWork'.name = h
          /\ harnessWork'.source = Cached(harnesses)[h]
      BY <1>1, <1>2, <1>3, <1>4 DEF HarnessWork
    <2> QED
      BY <1>1, <1>4, <2>1
  <1>5. CASE ~Cached(harnesses)[h].live
    <2>1. harnessWork' = HarnessIdle
      BY <1>1, <1>5
    <2> QED
      BY <1>1, <1>3, <1>5, <2>1
  <1> QED
    BY <1>4, <1>5

LEMMA FailsEffect ==
    ASSUME HarnessTyped, HarnessFails
    PROVE  /\ harnessWork.stage # "idle" /\ harnessWork.name \in Harness
           /\ UNCHANGED <<accounts, harnesses, scopeRoles, cas, hooks>>
           /\ \/ /\ harnessWork.stage \in {"scope", "rbac", "ca", "hook", "prune"}
                 /\ Advances("flush") /\ harnessWork'.ok = FALSE /\ harnessWork'.err = TRUE
              \/ /\ harnessWork.stage = "flush"
                 /\ harnessWork' = HarnessIdle
                 /\ harnessQueue' = IF harnessWork.err THEN harnessQueue \cup {harnessWork.name}
                                    ELSE harnessQueue
  <1>1. UNCHANGED <<accounts, harnesses, scopeRoles, cas, hooks>>
    BY DEF HarnessFails
  <1>2. CASE /\ harnessWork.stage \in {"scope", "rbac", "ca", "hook", "prune"}
             /\ Conclude(FALSE, TRUE) /\ UNCHANGED harnessQueue
    <2>1. Advances("flush") /\ harnessWork'.ok = FALSE /\ harnessWork'.err = TRUE
      BY <1>2, AdvancesToFlush
    <2> QED
      BY <1>1, <1>2, <2>1 DEF HarnessTyped
  <1>3. CASE harnessWork.stage = "flush" /\ FinishHarness
    BY <1>1, <1>3 DEF FinishHarness, HarnessTyped
  <1> QED
    BY <1>2, <1>3 DEF HarnessFails

\* A change of the harnesses, ConfigMaps or webhook configurations that is reported.
LEMMA WatchEffect ==
    ASSUME HarnessTyped
    PROVE  /\ WatchHarnesses =>
                 /\ harnesses' = Delivered(harnesses) /\ Lagging(harnesses)
                 /\ harnesses' \in Seq(HarnessState) /\ harnesses' # <<>> /\ Follows(harnesses, harnesses')
                 /\ harnessQueue' \subseteq Harness /\ harnessQueue \subseteq harnessQueue'
                 /\ \A h \in Harness : harnesses[1][h] # harnesses[2][h] => h \in harnessQueue'
                 /\ UNCHANGED <<accounts, scopeRoles, cas, hooks, harnessWork>>
           /\ WatchCAs =>
                 /\ cas' \in Seq(CaState) /\ cas' # <<>> /\ Follows(cas, cas')
                 /\ harnessQueue' \subseteq Harness /\ harnessQueue \subseteq harnessQueue'
                 /\ \A n \in Namespace : cas[1][n] # cas[2][n] =>
                       {cas[1][n].harness, cas[2][n].harness} \ {None} \subseteq harnessQueue'
                 /\ UNCHANGED <<accounts, harnesses, scopeRoles, hooks, harnessWork>>
           /\ WatchHooks =>
                 /\ hooks' \in Seq(HookState) /\ hooks' # <<>> /\ Follows(hooks, hooks')
                 /\ harnessQueue' \subseteq Harness /\ harnessQueue \subseteq harnessQueue'
                 /\ \A h \in Harness : hooks[1][h] # hooks[2][h] => h \in harnessQueue'
                 /\ UNCHANGED <<accounts, harnesses, scopeRoles, cas, harnessWork>>
  <1>1. ASSUME NEW S, NEW w \in Seq(S), Lagging(w) PROVE w[1] \in S /\ w[2] \in S
    BY <1>1 DEF Lagging
  <1>2. ASSUME WatchHarnesses
        PROVE  /\ harnesses' = Delivered(harnesses) /\ Lagging(harnesses)
               /\ harnesses' \in Seq(HarnessState) /\ harnesses' # <<>> /\ Follows(harnesses, harnesses')
               /\ harnessQueue' \subseteq Harness /\ harnessQueue \subseteq harnessQueue'
               /\ \A h \in Harness : harnesses[1][h] # harnesses[2][h] => h \in harnessQueue'
               /\ UNCHANGED <<accounts, scopeRoles, cas, hooks, harnessWork>>
    <2>1. Lagging(harnesses) /\ harnesses' = Delivered(harnesses)
      BY <1>2 DEF WatchHarnesses
    <2>2. harnesses' \in Seq(HarnessState) /\ harnesses' # <<>> /\ Follows(harnesses, harnesses')
      BY <2>1, DeliveredFollows DEF HarnessTyped
    <2>3. harnesses[1] \in HarnessState
      BY <2>1, <1>1 DEF HarnessTyped
    <2>4. Changed(harnesses) = {h \in Harness : harnesses[1][h] # harnesses[2][h]}
      BY <2>3 DEF Changed, HarnessState
    <2> QED
      BY <1>2, <2>1, <2>2, <2>4 DEF WatchHarnesses, HarnessTyped
  <1>3. ASSUME WatchCAs
        PROVE  /\ cas' \in Seq(CaState) /\ cas' # <<>> /\ Follows(cas, cas')
               /\ harnessQueue' \subseteq Harness /\ harnessQueue \subseteq harnessQueue'
               /\ \A n \in Namespace : cas[1][n] # cas[2][n] =>
                     {cas[1][n].harness, cas[2][n].harness} \ {None} \subseteq harnessQueue'
               /\ UNCHANGED <<accounts, harnesses, scopeRoles, hooks, harnessWork>>
    <2>1. Lagging(cas) /\ cas' = Delivered(cas)
      BY <1>3 DEF WatchCAs
    <2>2. cas' \in Seq(CaState) /\ cas' # <<>> /\ Follows(cas, cas')
      BY <2>1, DeliveredFollows DEF HarnessTyped
    <2>3. cas[1] \in CaState /\ cas[2] \in CaState
      BY <2>1, <1>1 DEF HarnessTyped
    <2>4. Changed(cas) = {n \in Namespace : cas[1][n] # cas[2][n]}
      BY <2>3 DEF Changed, CaState
    <2>5. \A n \in Namespace : cas[1][n].harness \in Harness \cup {None} /\ cas[2][n].harness \in Harness \cup {None}
      BY <2>3 DEF CaState, Owner
    <2>6. harnessQueue' = harnessQueue \cup
             ((UNION {{cas[1][n].harness, cas[2][n].harness} : n \in Changed(cas)}) \ {None})
      BY <1>3 DEF WatchCAs
    <2> DEFINE Owners(n) == {cas[1][n].harness, cas[2][n].harness}
               all == {Owners(n) : n \in Changed(cas)}
    <2>9. harnessQueue' = harnessQueue \cup ((UNION all) \ {None})
      BY <2>6, Zenon
    <2>7. ASSUME NEW h \in harnessQueue' PROVE h \in Harness
      <3>1. CASE h \in UNION all /\ h # None
        <4>1. PICK owners \in all : h \in owners
          BY <3>1
        <4>2. PICK n \in Changed(cas) : owners = Owners(n)
          OBVIOUS
        <4> QED
          BY <3>1, <4>1, <4>2, <2>4, <2>5
      <3> HIDE DEF all
      <3> QED
        BY <3>1, <2>9 DEF HarnessTyped
    <2>8. ASSUME NEW n \in Namespace, cas[1][n] # cas[2][n]
          PROVE  {cas[1][n].harness, cas[2][n].harness} \ {None} \subseteq harnessQueue'
      <3>1. n \in Changed(cas)
        BY <2>4, <2>8
      <3>2. Owners(n) \in all
        BY <3>1
      <3>3. Owners(n) \subseteq UNION all
        BY <3>2
      <3>4. Owners(n) \ {None} \subseteq harnessQueue'
        <4> HIDE DEF all, Owners
        <4> QED
          BY <3>3, <2>9
      <3> QED
        BY <3>4
    <2> QED
      BY <1>3, <2>2, <2>6, <2>7, <2>8 DEF WatchCAs
  <1>4. ASSUME WatchHooks
        PROVE  /\ hooks' \in Seq(HookState) /\ hooks' # <<>> /\ Follows(hooks, hooks')
               /\ harnessQueue' \subseteq Harness /\ harnessQueue \subseteq harnessQueue'
               /\ \A h \in Harness : hooks[1][h] # hooks[2][h] => h \in harnessQueue'
               /\ UNCHANGED <<accounts, harnesses, scopeRoles, cas, harnessWork>>
    <2>1. Lagging(hooks) /\ hooks' = Delivered(hooks)
      BY <1>4 DEF WatchHooks
    <2>2. hooks' \in Seq(HookState) /\ hooks' # <<>> /\ Follows(hooks, hooks')
      BY <2>1, DeliveredFollows DEF HarnessTyped
    <2>3. hooks[1] \in HookState
      BY <2>1, <1>1 DEF HarnessTyped
    <2>4. Changed(hooks) = {h \in Harness : hooks[1][h] # hooks[2][h]}
      BY <2>3 DEF Changed, HookState
    <2> QED
      BY <1>4, <2>2, <2>4 DEF WatchHooks, HarnessTyped
  <1> QED
    BY <1>2, <1>3, <1>4

LEMMA AccountEffect ==
    ASSUME HarnessTyped, AccessTyped, DeliverAccount
    PROVE  /\ accounts' \in Seq(AccountState) /\ accounts' # <<>> /\ Follows(accounts, accounts')
           /\ harnessQueue' \subseteq Harness /\ harnessQueue \subseteq harnessQueue'
           /\ \A a \in Account : accounts[1][a] # accounts[2][a] =>
                 harnessesForServiceAccount(a) \subseteq harnessQueue'
           /\ accessQueue' \subseteq Namespace
           /\ UNCHANGED <<harnesses, scopeRoles, cas, hooks, harnessWork, namespaces, rules, provided,
                          access, policies, policyQueue, accessWork, pods, budget>>
  <1>1. /\ Lagging(accounts) /\ accounts' = Delivered(accounts)
        /\ harnessQueue' = harnessQueue \cup HarnessesOfAccounts
        /\ accessQueue' = accessQueue \cup UNION {mapToManagedNamespace(a) : a \in Changed(accounts)}
        /\ UNCHANGED <<harnesses, scopeRoles, cas, hooks, harnessWork, namespaces, rules, provided,
                       access, policies, policyQueue, accessWork, pods, budget>>
    BY DEF DeliverAccount
  <1>2. accounts' \in Seq(AccountState) /\ accounts' # <<>> /\ Follows(accounts, accounts')
    BY <1>1, DeliveredFollows DEF HarnessTyped
  <1>3. accounts[1] \in AccountState
    BY <1>1 DEF Lagging, HarnessTyped
  <1>4. Changed(accounts) = {a \in Account : accounts[1][a] # accounts[2][a]}
    BY <1>3 DEF Changed, AccountState
  <1>5. HarnessesOfAccounts \subseteq Harness
    BY DEF HarnessesOfAccounts, harnessesForServiceAccount
  <1>6. UNION {mapToManagedNamespace(a) : a \in Changed(accounts)} \subseteq Namespace
    BY DEF mapToManagedNamespace, Managed
  <1>7. ASSUME NEW a \in Account, accounts[1][a] # accounts[2][a]
        PROVE  harnessesForServiceAccount(a) \subseteq HarnessesOfAccounts
    <2>1. a \in Changed(accounts)
      BY <1>4, <1>7
    <2>2. harnessesForServiceAccount(a) \in {harnessesForServiceAccount(b) : b \in Changed(accounts)}
      BY <2>1
    <2> QED
      BY <2>2 DEF HarnessesOfAccounts
  <1>8. harnessQueue' \subseteq Harness /\ harnessQueue \subseteq harnessQueue'
    BY <1>1, <1>5 DEF HarnessTyped
  <1>9. accessQueue' \subseteq Namespace
    BY <1>1, <1>6 DEF AccessTyped
  <1>10. \A a \in Account : accounts[1][a] # accounts[2][a] =>
            harnessesForServiceAccount(a) \subseteq harnessQueue'
    BY <1>1, <1>7
  <1> QED
    BY <1>1, <1>2, <1>8, <1>9, <1>10

LEMMA CollectEffect ==
    ASSUME HarnessTyped, CollectHarnessed
    PROVE  /\ UNCHANGED <<accounts, harnesses, harnessQueue, harnessWork>>
           /\ scopeRoles' \in [Harness -> Role]
           /\ \A h \in Harness : scopeRoles'[h] = scopeRoles[h] \/ Gone(scopeRoles[h].owner)
           /\ cas' \in Seq(CaState) /\ cas' # <<>> /\ Extends(cas, cas')
           /\ \A n \in Namespace : \/ Stored(cas')[n] = Stored(cas)[n]
                                   \/ Gone(Stored(cas)[n]) /\ Stored(cas')[n] = NoOwner
           /\ hooks' \in Seq(HookState) /\ hooks' # <<>> /\ Extends(hooks, hooks')
           /\ \A h \in Harness : Stored(hooks')[h] = Stored(hooks)[h] \/ Gone(Stored(hooks)[h].owner)
  <1>1. UNCHANGED <<accounts, harnesses, harnessQueue, harnessWork>>
    BY DEF CollectHarnessed
  <1>2. Extends(cas, cas) /\ Extends(hooks, hooks)
    BY SameExtends DEF HarnessTyped
  <1>3. CASE \E h \in Harness : /\ Gone(scopeRoles[h].owner)
                                /\ scopeRoles' = [scopeRoles EXCEPT ![h] = NoRole]
                                /\ UNCHANGED <<cas, hooks>>
    <2>1. PICK h \in Harness : /\ Gone(scopeRoles[h].owner)
                               /\ scopeRoles' = [scopeRoles EXCEPT ![h] = NoRole]
                               /\ UNCHANGED <<cas, hooks>>
      BY <1>3
    <2>2. scopeRoles' \in [Harness -> Role] /\ \A g \in Harness : scopeRoles'[g] = scopeRoles[g] \/ g = h
      BY <2>1, NothingTyped DEF HarnessTyped
    <2> QED
      BY <1>1, <1>2, <2>1, <2>2 DEF HarnessTyped
  <1>4. CASE \E n \in Namespace : /\ Gone(Stored(cas)[n])
                                  /\ cas' = Written(cas, [Stored(cas) EXCEPT ![n] = NoOwner])
                                  /\ UNCHANGED <<scopeRoles, hooks>>
    <2>1. PICK n \in Namespace : /\ Gone(Stored(cas)[n])
                                 /\ cas' = Written(cas, [Stored(cas) EXCEPT ![n] = NoOwner])
                                 /\ UNCHANGED <<scopeRoles, hooks>>
      BY <1>4
    <2> DEFINE state == [Stored(cas) EXCEPT ![n] = NoOwner]
    <2>2. state \in CaState /\ \A m \in Namespace : state[m] = Stored(cas)[m] \/ (m = n /\ state[m] = NoOwner)
      BY HarnessEnds, NothingTyped DEF CaState
    <2> HIDE DEF state
    <2>3. cas' = Written(cas, state)
      BY <2>1 DEF state
    <2>4. cas' \in Seq(CaState) /\ cas' # <<>> /\ Stored(cas') = state /\ Extends(cas, cas')
      BY <2>2, <2>3, WrittenExtends DEF HarnessTyped
    <2> QED
      BY <1>1, <1>2, <2>1, <2>2, <2>4 DEF HarnessTyped
  <1>5. CASE \E h \in Harness : /\ Gone(Stored(hooks)[h].owner)
                                /\ hooks' = Written(hooks, [Stored(hooks) EXCEPT ![h] = NoHook])
                                /\ UNCHANGED <<scopeRoles, cas>>
    <2>1. PICK h \in Harness : /\ Gone(Stored(hooks)[h].owner)
                               /\ hooks' = Written(hooks, [Stored(hooks) EXCEPT ![h] = NoHook])
                               /\ UNCHANGED <<scopeRoles, cas>>
      BY <1>5
    <2> DEFINE state == [Stored(hooks) EXCEPT ![h] = NoHook]
    <2>2. state \in HookState /\ \A g \in Harness : state[g] = Stored(hooks)[g] \/ g = h
      BY HarnessEnds, NothingTyped DEF HookState
    <2> HIDE DEF state
    <2>3. hooks' = Written(hooks, state)
      BY <2>1 DEF state
    <2>4. hooks' \in Seq(HookState) /\ hooks' # <<>> /\ Stored(hooks') = state /\ Extends(hooks, hooks')
      BY <2>2, <2>3, WrittenExtends DEF HarnessTyped
    <2> QED
      BY <1>1, <1>2, <2>1, <2>2, <2>4 DEF HarnessTyped
  <1> QED
    BY <1>3, <1>4, <1>5 DEF CollectHarnessed

\* Users create a harness, give it a new generation, or delete it.
Edited(old, next) ==
    \/ /\ ~old.live /\ next.live /\ next.uid = old.uid + 1
       /\ next.generation = 1 /\ next.ready = 0 /\ next.namespace \in Namespace
    \/ /\ old.live /\ next.live /\ next.uid = old.uid
       /\ next.generation = old.generation + 1 /\ next.ready = old.ready
       /\ next.namespace \in Namespace \cup {old.namespace}
    \/ old.live /\ ~next.live /\ next.uid = old.uid

EditsHarness ==
    /\ harnesses' \in Seq(HarnessState) /\ harnesses' # <<>>
    /\ harnesses' = Written(harnesses, Stored(harnesses'))
    /\ Extends(harnesses, harnesses')
    /\ \E h \in Harness : /\ Edited(Stored(harnesses)[h], Stored(harnesses')[h])
                          /\ \A g \in Harness \ {h} : Stored(harnesses')[g] = Stored(harnesses)[g]
    /\ UNCHANGED <<accounts, scopeRoles, cas, hooks, harnessQueue, harnessWork, accessVars, pods>>

LEMMA AppliedEffect ==
    ASSUME HarnessTyped, NEW h \in Harness, NEW next \in HarnessObject, Applied(h, next),
           Edited(Stored(harnesses)[h], next)
    PROVE  EditsHarness
  <1> DEFINE state == [Stored(harnesses) EXCEPT ![h] = next]
  <1>1. harnesses' = Written(harnesses, state)
        /\ UNCHANGED <<accounts, scopeRoles, cas, hooks, harnessQueue, harnessWork, accessVars, pods>>
    BY DEF Applied
  <1>2. state \in HarnessState /\ state[h] = next /\ \A g \in Harness \ {h} : state[g] = Stored(harnesses)[g]
    BY HarnessEnds DEF HarnessState
  <1> HIDE DEF state
  <1>3. /\ harnesses' \in Seq(HarnessState) /\ harnesses' # <<>>
        /\ Stored(harnesses') = state /\ Extends(harnesses, harnesses')
    BY <1>1, <1>2, WrittenExtends DEF HarnessTyped
  <1> QED
    BY <1>1, <1>2, <1>3 DEF EditsHarness

LEMMA HarnessUsers ==
    ASSUME HarnessTyped, NEW h \in Harness,
           CreateHarness(h) \/ MoveHarness(h) \/ EditHarness(h) \/ DeleteHarness(h)
    PROVE  EditsHarness
  <1> DEFINE old == Stored(harnesses)[h]
  <1>1. old \in HarnessObject
    BY HarnessEnds DEF HarnessState
  <1>6. old.uid + 1 \in Nat /\ old.generation + 1 \in Nat /\ (~old.inject) \in BOOLEAN
    BY <1>1 DEF HarnessObject
  <1> HIDE DEF old
  <1>2. CASE CreateHarness(h)
    <2>1. PICK n \in Namespace :
             ~old.live /\ Applied(h, [NoHarness EXCEPT !.live = TRUE, !.uid = old.uid + 1, !.generation = 1,
                                                       !.namespace = n, !.inject = TRUE])
      BY <1>2 DEF CreateHarness, old
    <2> DEFINE next == [NoHarness EXCEPT !.live = TRUE, !.uid = old.uid + 1, !.generation = 1,
                                         !.namespace = n, !.inject = TRUE]
    <2>2. next \in HarnessObject
      BY <1>6 DEF HarnessObject, NoHarness
    <2>3. next.live = TRUE /\ next.uid = old.uid + 1 /\ next.generation = 1
          /\ next.namespace = n /\ next.ready = 0
      BY DEF NoHarness
    <2> HIDE DEF next
    <2>4. Edited(old, next)
      BY <2>1, <2>3 DEF Edited
    <2>5. Applied(h, next)
      BY <2>1 DEF next
    <2> QED
      BY <2>2, <2>4, <2>5, AppliedEffect DEF old
  <1>3. CASE MoveHarness(h)
    <2>1. PICK n \in Namespace :
             old.live /\ Applied(h, [old EXCEPT !.namespace = n, !.generation = @ + 1])
      BY <1>3 DEF MoveHarness, old
    <2> DEFINE next == [old EXCEPT !.namespace = n, !.generation = @ + 1]
    <2>2. next \in HarnessObject
      BY <1>1, <1>6 DEF HarnessObject
    <2>3. /\ next.live = old.live /\ next.uid = old.uid /\ next.generation = old.generation + 1
          /\ next.ready = old.ready /\ next.namespace = n
      BY <1>1 DEF HarnessObject
    <2> HIDE DEF next
    <2>4. Edited(old, next)
      BY <2>1, <2>3 DEF Edited
    <2>5. Applied(h, next)
      BY <2>1 DEF next
    <2> QED
      BY <2>2, <2>4, <2>5, AppliedEffect DEF old
  <1>4. CASE EditHarness(h)
    <2>1. CASE \E names \in (SUBSET AccountName) \ {old.names} :
                  Applied(h, [old EXCEPT !.names = names, !.generation = @ + 1])
      <3>1. PICK names \in SUBSET AccountName :
               Applied(h, [old EXCEPT !.names = names, !.generation = @ + 1])
        BY <2>1
      <3> DEFINE next == [old EXCEPT !.names = names, !.generation = @ + 1]
      <3>2. old.live
        BY <1>4 DEF EditHarness, old
      <3>3. next \in HarnessObject
        BY <1>1, <1>6 DEF HarnessObject
      <3>4. /\ next.live = old.live /\ next.uid = old.uid /\ next.generation = old.generation + 1
            /\ next.ready = old.ready /\ next.namespace = old.namespace
        BY <1>1 DEF HarnessObject
      <3> HIDE DEF next
      <3>5. Edited(old, next)
        BY <3>2, <3>4 DEF Edited
      <3>6. Applied(h, next)
        BY <3>1 DEF next
      <3> QED
        BY <3>3, <3>5, <3>6, AppliedEffect DEF old
    <2>2. CASE Applied(h, [old EXCEPT !.inject = ~@, !.generation = @ + 1])
      <3> DEFINE next == [old EXCEPT !.inject = ~@, !.generation = @ + 1]
      <3>2. old.live
        BY <1>4 DEF EditHarness, old
      <3>3. next \in HarnessObject
        BY <1>1, <1>6 DEF HarnessObject
      <3>4. /\ next.live = old.live /\ next.uid = old.uid /\ next.generation = old.generation + 1
            /\ next.ready = old.ready /\ next.namespace = old.namespace
        BY <1>1 DEF HarnessObject
      <3> HIDE DEF next
      <3>5. Edited(old, next)
        BY <3>2, <3>4 DEF Edited
      <3>6. Applied(h, next)
        BY <2>2 DEF next
      <3> QED
        BY <3>3, <3>5, <3>6, AppliedEffect DEF old
    <2> QED
      BY <1>4, <2>1, <2>2 DEF EditHarness, old
  <1>5. CASE DeleteHarness(h)
    <2> DEFINE next == [NoHarness EXCEPT !.uid = old.uid]
    <2>1. old.live /\ Applied(h, next)
      BY <1>5 DEF DeleteHarness, old
    <2>2. next \in HarnessObject
      BY <1>1, NothingTyped DEF HarnessObject
    <2>3. next.live = FALSE /\ next.uid = old.uid
      BY DEF NoHarness
    <2> HIDE DEF next
    <2>4. Edited(old, next)
      BY <2>1, <2>3 DEF Edited
    <2> QED
      BY <2>1, <2>2, <2>4, AppliedEffect DEF old
  <1> QED
    BY <1>2, <1>3, <1>4, <1>5

\* Provide and Grants write roles and bindings of the right type, whatever part of
\* them is applied.
LEMMA ProvideTyped ==
    ASSUME AccessTyped, accessWork.stage # "idle", NEW kind \in Kind, NEW parts, Provide(kind, parts)
    PROVE  provided' \in [Namespace -> [Kind -> Grant]]
  <1> DEFINE n == accessWork.name
             old == provided[n][kind]
             grant == [rules |-> IF "role" \in parts THEN accessWork.manages ELSE old.rules,
                       subjects |-> IF "binding" \in parts THEN In(Cached(accounts), n)
                                    ELSE old.subjects]
  <1>1. n \in Namespace /\ accessWork.manages \in SUBSET (Group \X Nat)
    BY DEF AccessTyped, AccessWork
  <1>2. In(Cached(accounts), n) \in SUBSET Account
    BY DEF In, Exist
  <1>3. provided \in [Namespace -> [Kind -> Grant]]
    BY DEF AccessTyped
  <1>4. provided[n] \in [Kind -> Grant] /\ old \in Grant
    BY <1>1, <1>3
  <1>5. grant \in Grant
    BY <1>1, <1>2, <1>4 DEF Grant
  <1>6. provided' = [provided EXCEPT ![n] = [provided[n] EXCEPT ![kind] = grant]]
    BY <1>1, <1>3, <1>4 DEF Provide
  <1> HIDE DEF grant, n
  <1>7. [provided[n] EXCEPT ![kind] = grant] \in [Kind -> Grant]
    BY <1>4, <1>5
  <1> QED
    BY <1>1, <1>3, <1>6, <1>7

LEMMA GrantsTyped ==
    ASSUME AccessTyped, NEW roles, NEW bindings, Grants(roles, bindings)
    PROVE  access' \in [Namespace \X Namespace \X Group -> Grant]
  <1> DEFINE new(at) == [rules |-> IF at \in roles THEN {r \in accessWork.requires : r[1] = at[3]}
                                   ELSE access[at].rules,
                         subjects |-> IF at \in bindings THEN In(Cached(accounts), at[2])
                                      ELSE access[at].subjects]
  <1>1. access \in [Namespace \X Namespace \X Group -> Grant]
    BY DEF AccessTyped
  <1>2. accessWork.requires \in SUBSET (Group \X Nat)
    BY DEF AccessTyped, AccessWork
  <1>3. access' = [at \in Namespace \X Namespace \X Group |-> new(at)]
    BY <1>1 DEF Grants
  <1>4. ASSUME NEW at \in Namespace \X Namespace \X Group
        PROVE  new(at) \in Grant
    <2>1. access[at] \in Grant
      BY <1>1
    <2>2. {r \in accessWork.requires : r[1] = at[3]} \in SUBSET (Group \X Nat)
      BY <1>2
    <2>3. In(Cached(accounts), at[2]) \in SUBSET Account
      BY DEF In, Exist
    <2> QED
      BY <2>1, <2>2, <2>3 DEF Grant
  <1> HIDE DEF new
  <1> QED
    BY <1>3, <1>4

\* The other side: what is written for the namespaces has its type.
LEMMA AccessKeepsTypes ==
    ASSUME AccessTyped, AccessProgress
    PROVE  AccessTyped' /\ UNCHANGED accounts
  <1>1. UNCHANGED <<accounts, namespaces, rules, policies, policyQueue>>
    BY DEF AccessProgress, AccessGet, ensureScopedListPermissions, ensureClusterScopedRules, ensureRequiresRules
  <1>2. CASE AccessGet
    <2>1. PICK n \in accessQueue :
             LET ns == Cached(namespaces)[n]
             IN  /\ accessQueue' = accessQueue \ {n}
                 /\ accessWork' = [stage |-> "scopedlist", name |-> n,
                                   manages |-> dependencyGroupsForNames(ns.manages),
                                   requires |-> dependencyGroupsForNames(ns.requires)]
                 /\ UNCHANGED <<provided, access>>
      BY <1>2 DEF AccessGet
    <2>2. n \in Namespace /\ Cached(namespaces)[n] \in Labels
      BY AccessEnds DEF AccessTyped
    <2>3. ASSUME NEW names \in SUBSET Group
          PROVE  dependencyGroupsForNames(names) \in SUBSET (Group \X Nat)
      BY AccessEnds DEF dependencyGroupsForNames
    <2>4. /\ Cached(namespaces)[n].manages \in SUBSET Group
          /\ Cached(namespaces)[n].requires \in SUBSET Group
      BY <2>2 DEF Labels, LabelSet
    <2>5. /\ dependencyGroupsForNames(Cached(namespaces)[n].manages) \in SUBSET (Group \X Nat)
          /\ dependencyGroupsForNames(Cached(namespaces)[n].requires) \in SUBSET (Group \X Nat)
      BY <2>3, <2>4
    <2>6. accessWork' \in AccessWork /\ accessWork'.name \in Namespace
      BY <2>1, <2>2, <2>5 DEF AccessWork
    <2> QED
      BY <1>1, <2>1, <2>6 DEF AccessTyped
  <1>3. CASE ensureScopedListPermissions \/ ensureClusterScopedRules
    <2>1. /\ accessWork.stage \in {"scopedlist", "clusterscoped"}
          /\ \E kind \in Kind : Provide(kind, {"role", "binding"})
          /\ \E stage \in {"clusterscoped", "requires"} : AccessTo(stage)
          /\ access' = access
      BY <1>3 DEF ensureScopedListPermissions, ensureClusterScopedRules, Kind
    <2>2. provided' \in [Namespace -> [Kind -> Grant]]
      BY <2>1, ProvideTyped
    <2>3. accessWork' \in AccessWork /\ accessWork'.name \in Namespace /\ accessQueue' = accessQueue
      BY <2>1 DEF AccessTyped, AccessWork, AccessTo
    <2> QED
      BY <1>1, <2>1, <2>2, <2>3 DEF AccessTyped
  <1>4. CASE ensureRequiresRules
    <2>1. Grants(NeededRoles, NeededRoles) /\ accessWork' = AccessIdle /\ UNCHANGED <<provided, accessQueue>>
      BY <1>4 DEF ensureRequiresRules
    <2>2. access' \in [Namespace \X Namespace \X Group -> Grant]
      BY <2>1, GrantsTyped
    <2> QED
      BY <1>1, <2>1, <2>2, NothingTyped DEF AccessTyped
  <1> QED
    BY <1>1, <1>2, <1>3, <1>4 DEF AccessProgress

LEMMA AccessEventsKeepTypes ==
    ASSUME AccessTyped,
           AccessFails \/ ReconcilePolicy \/ WatchNamespaces \/ WatchGroups \/ ResyncNamespaces
    PROVE  AccessTyped' /\ UNCHANGED accounts
  <1>1. CASE AccessFails
    <2>1. /\ accessWork.stage # "idle" /\ accessWork' = AccessIdle
          /\ accessQueue' = accessQueue \cup {accessWork.name}
          /\ UNCHANGED <<accounts, namespaces, rules, policies, policyQueue>>
      BY <1>1 DEF AccessFails
    <2>2. \/ /\ access' = access
             /\ \E kind \in Kind : \E parts \in SUBSET {"role", "binding"} : Provide(kind, parts)
          \/ /\ provided' = provided
             /\ \E roles, bindings \in SUBSET NeededRoles : Grants(roles, bindings)
      BY <1>1, Zenon DEF AccessFails
    <2>3. provided' \in [Namespace -> [Kind -> Grant]]
      <3>1. CASE \E kind \in Kind : \E parts \in SUBSET {"role", "binding"} : Provide(kind, parts)
        BY <2>1, <3>1, ProvideTyped
      <3>2. CASE provided' = provided
        BY <3>2 DEF AccessTyped
      <3> QED
        BY <2>2, <3>1, <3>2
    <2>4. access' \in [Namespace \X Namespace \X Group -> Grant]
      <3>1. CASE \E roles, bindings \in SUBSET NeededRoles : Grants(roles, bindings)
        BY <3>1, GrantsTyped
      <3>2. CASE access' = access
        BY <3>2 DEF AccessTyped
      <3> QED
        BY <2>2, <3>1, <3>2
    <2> QED
      BY <2>1, <2>3, <2>4, NothingTyped DEF AccessTyped
  <1>2. CASE ReconcilePolicy
    <2>1. PICK n \in policyQueue :
             /\ policyQueue' = policyQueue \ {n}
             /\ policies' = [policies EXCEPT ![n] = Cached(namespaces)[n].requires]
             /\ UNCHANGED <<accounts, namespaces, rules, provided, access, accessQueue, accessWork>>
      BY <1>2 DEF ReconcilePolicy
    <2>2. Cached(namespaces)[n].requires \in SUBSET Group
      BY AccessEnds DEF AccessTyped, Labels, LabelSet
    <2>3. policies' \in [Namespace -> SUBSET Group]
      BY <2>1, <2>2 DEF AccessTyped
    <2> QED
      BY <2>1, <2>3 DEF AccessTyped
  <1>3. CASE WatchNamespaces
    <2>1. Lagging(namespaces) /\ namespaces' = Delivered(namespaces)
      BY <1>3 DEF WatchNamespaces
    <2>2. namespaces' \in Seq([Namespace -> Labels]) /\ namespaces' # <<>>
      BY <2>1, DeliveredWindow DEF AccessTyped
    <2> QED
      BY <1>3, <2>2 DEF WatchNamespaces, AccessTyped
  <1>4. CASE WatchGroups
    <2>1. Lagging(rules) /\ rules' = Delivered(rules)
      BY <1>4 DEF WatchGroups
    <2>2. rules' \in Seq([Group -> Nat]) /\ rules' # <<>>
      BY <2>1, DeliveredWindow DEF AccessTyped
    <2> QED
      BY <1>4, <2>2 DEF WatchGroups, mapToManagedNamespaces, Managed, AccessTyped
  <1>5. CASE ResyncNamespaces
    BY <1>5 DEF ResyncNamespaces, Managed, AccessTyped
  <1> QED
    BY <1>1, <1>2, <1>3, <1>4, <1>5

\* An account is created or deleted.
LEMMA EditAccountEffect ==
    ASSUME HarnessTyped, NEW a \in Account, EditAccount(a)
    PROVE  /\ accounts' \in Seq(AccountState) /\ accounts' # <<>> /\ Extends(accounts, accounts')
           /\ \A b \in Account \ {a} : Stored(accounts')[b] = Stored(accounts)[b]
           /\ Stored(accounts')[a] # Stored(accounts)[a]
           /\ UNCHANGED <<harnessVars, accessVars, pods>>
  <1> DEFINE state == [Stored(accounts) EXCEPT ![a] = IF @ = Absent THEN Unscoped ELSE Absent]
  <1>1. accounts' = Written(accounts, state) /\ UNCHANGED <<harnessVars, accessVars, pods>>
    BY DEF EditAccount
  <1>2. state \in AccountState /\ \A b \in Account \ {a} : state[b] = Stored(accounts)[b]
    BY HarnessEnds DEF AccountState
  <1>3. state[a] # Stored(accounts)[a]
    BY HarnessEnds DEF AccountState, Absent, Unscoped
  <1> HIDE DEF state
  <1>4. /\ accounts' \in Seq(AccountState) /\ accounts' # <<>>
        /\ Stored(accounts') = state /\ Extends(accounts, accounts')
    BY <1>1, <1>2, WrittenExtends DEF HarnessTyped
  <1> QED
    BY <1>1, <1>2, <1>3, <1>4

LEMMA HarnessKeepsTypes ==
    ASSUME HarnessTyped, HarnessProgress
    PROVE  HarnessTyped'
  <1>1. ASSUME NEW stage, Advances(stage), harnessWork.stage # "idle"
        PROVE  /\ harnessQueue' \subseteq Harness /\ harnessWork' \in HarnessWork
               /\ harnessWork'.stage # "idle" => harnessWork'.name \in Harness
    BY <1>1 DEF Advances, HarnessTyped
  <1>2. CASE HarnessGet
    <2>1. /\ UNCHANGED <<accounts, harnesses, scopeRoles, cas, hooks>> /\ harnessWork' \in HarnessWork
          /\ harnessQueue' \subseteq Harness
      BY <1>2, GetEffect DEF HarnessTyped
    <2>2. harnessWork'.stage # "idle" => harnessWork'.name \in Harness
      BY <1>2, GetEffect, NothingTyped DEF HarnessTyped
    <2> QED
      BY <2>1, <2>2 DEF HarnessTyped
  <1>3. CASE ensureServiceAccountScope
    <2>1. /\ accounts' \in Seq(AccountState) /\ accounts' # <<>>
          /\ harnessWork.stage = "scope" /\ Advances("rbac")
          /\ UNCHANGED <<harnesses, scopeRoles, cas, hooks>>
      BY <1>3, ScopeEffect
    <2> QED
      BY <2>1, <1>1 DEF HarnessTyped
  <1>4. CASE ensureScopedListRBAC
    <2>1. /\ scopeRoles' \in [Harness -> Role] /\ harnessWork.stage = "rbac"
          /\ Advances(IF Source.inject THEN "ca" ELSE "prune")
          /\ UNCHANGED <<accounts, harnesses, cas, hooks>>
      BY <1>4, RoleEffect
    <2> QED
      BY <2>1, <1>1 DEF HarnessTyped
  <1>5. CASE ensureProxyCACertificate
    <2>1. /\ cas' \in Seq(CaState) /\ cas' # <<>> /\ harnessWork.stage = "ca" /\ Advances("hook")
          /\ UNCHANGED <<accounts, harnesses, scopeRoles, hooks>>
      BY <1>5, CaEffect
    <2> QED
      BY <2>1, <1>1 DEF HarnessTyped
  <1>6. CASE ensureProxyInjectionWebhook
    <2>1. /\ hooks' \in Seq(HookState) /\ hooks' # <<>> /\ harnessWork.stage = "hook" /\ Advances("prune")
          /\ UNCHANGED <<accounts, harnesses, scopeRoles, cas>>
      BY <1>6, HookEffect
    <2> QED
      BY <2>1, <1>1 DEF HarnessTyped
  <1>7. CASE pruneProxyConfiguration
    <2>1. /\ cas' \in Seq(CaState) /\ cas' # <<>> /\ hooks' \in Seq(HookState) /\ hooks' # <<>>
          /\ harnessWork.stage = "prune" /\ Advances("flush")
          /\ UNCHANGED <<accounts, harnesses, scopeRoles>>
      BY <1>7, PruneEffect
    <2> QED
      BY <2>1, <1>1 DEF HarnessTyped
  <1>8. CASE flushStatus
    <2>1. /\ harnesses' \in Seq(HarnessState) /\ harnesses' # <<>>
          /\ harnessQueue' \subseteq Harness /\ harnessWork' = HarnessIdle
          /\ UNCHANGED <<accounts, scopeRoles, cas, hooks>>
      BY <1>8, FlushEffect DEF HarnessTyped
    <2> QED
      BY <2>1, NothingTyped DEF HarnessTyped
  <1> QED
    BY <1>2, <1>3, <1>4, <1>5, <1>6, <1>7, <1>8 DEF HarnessProgress

LEMMA HarnessEventsKeepTypes ==
    ASSUME HarnessTyped,
           HarnessFails \/ WatchHarnesses \/ WatchCAs \/ WatchHooks \/ CollectHarnessed
    PROVE  HarnessTyped' /\ UNCHANGED accounts
  <1>1. CASE HarnessFails
    <2>1. UNCHANGED <<accounts, harnesses, scopeRoles, cas, hooks>> /\ harnessWork.name \in Harness
      BY <1>1, FailsEffect
    <2>2. /\ harnessWork' \in HarnessWork /\ harnessQueue' \subseteq Harness
          /\ harnessWork'.stage # "idle" => harnessWork'.name \in Harness
      BY <1>1, FailsEffect, NothingTyped DEF HarnessTyped, Advances
    <2> QED
      BY <2>1, <2>2 DEF HarnessTyped
  <1>2. CASE WatchHarnesses
    BY <1>2, WatchEffect DEF HarnessTyped
  <1>3. CASE WatchCAs
    BY <1>3, WatchEffect DEF HarnessTyped
  <1>4. CASE WatchHooks
    BY <1>4, WatchEffect DEF HarnessTyped
  <1>5. CASE CollectHarnessed
    BY <1>5, CollectEffect DEF HarnessTyped
  <1> QED
    BY <1>1, <1>2, <1>3, <1>4, <1>5

\* The names and namespaces of Init.
LEMMA InitTyped == Init => Typed
  <1> SUFFICES ASSUME Init PROVE Typed
    OBVIOUS
  <1>1. accounts \in Seq(AccountState) /\ accounts # <<>>
    <2>1. [a \in Account |-> Unscoped] \in AccountState
      BY DEF AccountState
    <2> QED
      BY <2>1, SyncedWindow DEF Init
  <1>2. harnesses \in Seq(HarnessState) /\ harnesses # <<>>
    <2> DEFINE first == [NoHarness EXCEPT !.live = TRUE, !.uid = 1, !.generation = 1,
                                          !.namespace = Home, !.inject = TRUE]
               state == [h \in Harness |-> IF h = FirstHarness /\ ~AboutAccess THEN first ELSE NoHarness]
    <2>1. first \in HarnessObject
      BY HomeAssumption DEF NoHarness, HarnessObject
    <2>2. state \in HarnessState
      BY <2>1, NothingTyped DEF HarnessState
    <2>3. harnesses = Synced(state)
      BY DEF Init
    <2> QED
      BY <2>2, <2>3, SyncedWindow
  <1>3. scopeRoles \in [Harness -> Role]
    BY NothingTyped DEF Init
  <1>4. cas \in Seq(CaState) /\ cas # <<>>
    <2>1. [n \in Namespace |-> NoOwner] \in CaState
      BY NothingTyped DEF CaState
    <2> QED
      BY <2>1, SyncedWindow DEF Init
  <1>5. hooks \in Seq(HookState) /\ hooks # <<>>
    <2>1. [h \in Harness |-> NoHook] \in HookState
      BY NothingTyped DEF HookState
    <2> QED
      BY <2>1, SyncedWindow DEF Init
  <1>6. harnessQueue \subseteq Harness /\ harnessWork \in HarnessWork /\ harnessWork.stage = "idle"
    BY NothingTyped DEF Init
  <1>7. namespaces \in Seq([Namespace -> Labels]) /\ namespaces # <<>>
    <2> DEFINE Of(n) == IF AboutAccess THEN [managed |-> TRUE, manages |-> IF n = Home THEN Group ELSE {},
                                             valued |-> {}, requires |-> IF n = Home THEN {} ELSE Group]
                        ELSE NoLabels
    <2>1. \A n \in Namespace : Of(n) \in Labels
      BY NothingTyped DEF Labels, LabelSet
    <2>2. namespaces = Synced([n \in Namespace |-> Of(n)])
      BY DEF Init
    <2> HIDE DEF Of
    <2>3. [n \in Namespace |-> Of(n)] \in [Namespace -> Labels]
      BY <2>1
    <2> QED
      BY <2>2, <2>3, SyncedWindow
  <1>8. rules \in Seq([Group -> Nat]) /\ rules # <<>>
    <2>1. [g \in Group |-> 1] \in [Group -> Nat]
      OBVIOUS
    <2> QED
      BY <2>1, SyncedWindow DEF Init
  <1>9. /\ provided \in [Namespace -> [Kind -> Grant]]
        /\ access \in [Namespace \X Namespace \X Group -> Grant]
        /\ policies \in [Namespace -> SUBSET Group]
    BY NothingTyped DEF Init
  <1>10. /\ accessQueue \subseteq Namespace /\ policyQueue \subseteq Namespace
         /\ accessWork \in AccessWork /\ accessWork.stage = "idle"
    BY NothingTyped DEF Init, Managed
  <1>11. pods \in [Account -> {"none", "direct", "proxied"}]
    BY DEF Init
  <1> QED
    BY <1>1, <1>2, <1>3, <1>4, <1>5, <1>6, <1>7, <1>8, <1>9, <1>10, <1>11
    DEF Typed, HarnessTyped, AccessTyped, PodsTyped

\* A restart: every cache is what the API server holds, and all that exists is queued.
LEMMA RestartTyped == Typed /\ Restart => Typed'
  <1> SUFFICES ASSUME Typed, Restart PROVE Typed'
    OBVIOUS
  <1>1. HarnessTyped /\ AccessTyped
    BY DEF Typed
  <1>2. /\ accounts' \in Seq(AccountState) /\ accounts' # <<>>
        /\ harnesses' \in Seq(HarnessState) /\ harnesses' # <<>>
        /\ cas' \in Seq(CaState) /\ cas' # <<>>
        /\ hooks' \in Seq(HookState) /\ hooks' # <<>>
    BY <1>1, HarnessEnds, SyncedWindow DEF Restart
  <1>3. namespaces' \in Seq([Namespace -> Labels]) /\ namespaces' # <<>>
    BY <1>1, AccessEnds, SyncedWindow DEF Restart
  <1>4. rules' \in Seq([Group -> Nat]) /\ rules' # <<>>
    BY <1>1, AccessEnds, SyncedWindow DEF Restart
  <1>5. /\ harnessQueue' \subseteq Harness /\ accessQueue' \subseteq Namespace /\ policyQueue' \subseteq Namespace
        /\ harnessWork' = HarnessIdle /\ accessWork' = AccessIdle
        /\ UNCHANGED <<scopeRoles, provided, access, policies, pods>>
    BY DEF Restart
  <1>6. HarnessTyped'
    BY <1>1, <1>2, <1>5, NothingTyped DEF HarnessTyped
  <1>7. AccessTyped'
    BY <1>1, <1>3, <1>4, <1>5, NothingTyped DEF AccessTyped
  <1> QED
    BY <1>5, <1>6, <1>7 DEF Typed, PodsTyped

LEMMA UsersTyped == Typed /\ Users => Typed'
  <1> SUFFICES ASSUME Typed, Users PROVE Typed'
    OBVIOUS
  <1>1. HarnessTyped /\ AccessTyped /\ PodsTyped
    BY DEF Typed
  <1>2. ASSUME UNCHANGED accessVars PROVE AccessTyped'
    BY <1>1, <1>2 DEF AccessTyped, accessVars
  <1>3. ASSUME UNCHANGED <<accounts, harnessVars>> PROVE HarnessTyped'
    BY <1>1, <1>3 DEF HarnessTyped, harnessVars
  <1>4. ASSUME NEW h \in Harness,
               CreateHarness(h) \/ MoveHarness(h) \/ EditHarness(h) \/ DeleteHarness(h)
        PROVE  Typed'
    <2>1. EditsHarness
      BY <1>1, <1>4, HarnessUsers
    <2>2. HarnessTyped'
      BY <1>1, <2>1 DEF EditsHarness, HarnessTyped
    <2> QED
      BY <1>1, <1>2, <2>1, <2>2 DEF EditsHarness, Typed, PodsTyped
  <1>5. ASSUME NEW a \in Account, EditAccount(a) PROVE Typed'
    <2>1. /\ accounts' \in Seq(AccountState) /\ accounts' # <<>> /\ UNCHANGED <<harnessVars, accessVars, pods>>
      BY <1>1, <1>5, EditAccountEffect
    <2>2. HarnessTyped'
      BY <1>1, <2>1 DEF HarnessTyped, harnessVars
    <2> QED
      BY <1>1, <1>2, <2>1, <2>2 DEF Typed, PodsTyped
  <1>6. ASSUME NEW a \in Account, CreatePod(a) PROVE Typed'
    <2>1. pods' \in [Account -> {"none", "direct", "proxied"}]
      BY <1>1, <1>6 DEF CreatePod, Handle, PodsTyped
    <2> QED
      BY <1>2, <1>3, <1>6, <2>1 DEF CreatePod, Typed, PodsTyped
  <1>7. ASSUME NEW n \in Namespace, EditLabels(n) PROVE Typed'
    <2>1. PICK labels \in Labels : namespaces' = Written(namespaces, [Stored(namespaces) EXCEPT ![n] = labels])
      BY <1>7 DEF EditLabels
    <2> DEFINE state == [Stored(namespaces) EXCEPT ![n] = labels]
    <2>2. state \in [Namespace -> Labels]
      BY <1>1, AccessEnds
    <2> HIDE DEF state
    <2>5. namespaces' = Written(namespaces, state)
      BY <2>1 DEF state
    <2> DEFINE All == [Namespace -> Labels]
    <2>6. state \in All /\ namespaces \in Seq(All) /\ namespaces # <<>>
      BY <1>1, <2>2 DEF AccessTyped
    <2> HIDE DEF All
    <2>7. namespaces' \in Seq(All) /\ namespaces' # <<>>
      BY <2>5, <2>6, WrittenWindow
    <2>3. namespaces' \in Seq([Namespace -> Labels]) /\ namespaces' # <<>>
      BY <2>7 DEF All
    <2>4. AccessTyped'
      BY <1>1, <1>7, <2>3 DEF AccessTyped, EditLabels
    <2> QED
      BY <1>1, <1>3, <1>7, <2>4 DEF EditLabels, Typed, PodsTyped
  <1>8. ASSUME NEW g \in Group, EditGroup(g) PROVE Typed'
    <2>1. PICK version \in {0, Stored(rules)[g] + 1} :
             rules' = Written(rules, [Stored(rules) EXCEPT ![g] = version])
      BY <1>8 DEF EditGroup
    <2> DEFINE state == [Stored(rules) EXCEPT ![g] = version]
    <2>2. state \in [Group -> Nat]
      BY <1>1, AccessEnds
    <2> HIDE DEF state
    <2>3. rules' \in Seq([Group -> Nat]) /\ rules' # <<>>
      BY <1>1, <2>1, <2>2, WrittenWindow DEF AccessTyped, state
    <2>4. AccessTyped'
      BY <1>1, <1>8, <2>3 DEF AccessTyped, EditGroup
    <2> QED
      BY <1>1, <1>3, <1>8, <2>4 DEF EditGroup, Typed, PodsTyped
  <1> QED
    BY <1>4, <1>5, <1>6, <1>7, <1>8 DEF Users

LEMMA NextTyped == Typed /\ [Next]_vars => Typed'
  <1> SUFFICES ASSUME Typed, [Next]_vars PROVE Typed'
    OBVIOUS
  <1>1. HarnessTyped /\ AccessTyped /\ PodsTyped
    BY DEF Typed
  <1>2. ASSUME UNCHANGED accessVars PROVE AccessTyped'
    BY <1>1, <1>2 DEF AccessTyped, accessVars
  <1>3. ASSUME UNCHANGED <<accounts, harnessVars>> PROVE HarnessTyped'
    BY <1>1, <1>3 DEF HarnessTyped, harnessVars
  <1>4. ASSUME UNCHANGED pods PROVE PodsTyped'
    BY <1>1, <1>4 DEF PodsTyped
  <1>5. CASE HarnessStep
    BY <1>1, <1>2, <1>4, <1>5, HarnessKeepsTypes DEF HarnessStep, Typed
  <1>6. CASE AccessStep
    BY <1>1, <1>3, <1>4, <1>6, AccessKeepsTypes DEF AccessStep, Typed
  <1>7. CASE PolicyStep
    BY <1>1, <1>3, <1>4, <1>7, AccessEventsKeepTypes DEF PolicyStep, Typed
  <1>8. CASE Collect
    BY <1>1, <1>2, <1>4, <1>8, HarnessEventsKeepTypes DEF Collect, Typed
  <1>9. CASE DeliverHarness
    BY <1>1, <1>2, <1>4, <1>9, HarnessEventsKeepTypes DEF DeliverHarness, Typed
  <1>10. CASE DeliverCA
    BY <1>1, <1>2, <1>4, <1>10, HarnessEventsKeepTypes DEF DeliverCA, Typed
  <1>11. CASE DeliverHook
    BY <1>1, <1>2, <1>4, <1>11, HarnessEventsKeepTypes DEF DeliverHook, Typed
  <1>12. CASE DeliverNamespace
    BY <1>1, <1>3, <1>4, <1>12, AccessEventsKeepTypes DEF DeliverNamespace, Typed
  <1>13. CASE DeliverGroup
    BY <1>1, <1>3, <1>4, <1>13, AccessEventsKeepTypes DEF DeliverGroup, Typed
  <1>14. CASE DeliverAccount
    <2>1. HarnessTyped'
      BY <1>1, <1>14, AccountEffect DEF HarnessTyped
    <2>2. AccessTyped'
      BY <1>1, <1>14, AccountEffect DEF AccessTyped
    <2> QED
      BY <1>1, <1>4, <1>14, <2>1, <2>2, AccountEffect DEF Typed
  <1>15. CASE Resync
    <2>1. ResyncNamespaces /\ harnessQueue' \subseteq Harness
          /\ UNCHANGED <<accounts, harnesses, scopeRoles, cas, hooks, harnessWork, pods>>
      BY <1>15 DEF Resync, ResyncNamespaces
    <2>2. HarnessTyped'
      BY <1>1, <2>1 DEF HarnessTyped
    <2>3. AccessTyped'
      BY <1>1, <2>1, AccessEventsKeepTypes
    <2> QED
      BY <1>4, <2>1, <2>2, <2>3 DEF Typed
  <1>16. CASE Restart
    BY <1>16, RestartTyped
  <1>17. CASE Failure
    <2>1. UNCHANGED pods
      BY <1>17 DEF Failure
    <2>2. CASE HarnessFails /\ UNCHANGED accessVars
      BY <1>1, <1>2, <1>4, <2>1, <2>2, HarnessEventsKeepTypes DEF Typed
    <2>3. CASE AccessFails /\ UNCHANGED harnessVars
      BY <1>1, <1>3, <1>4, <2>1, <2>3, AccessEventsKeepTypes DEF Typed
    <2> QED
      BY <1>17, <2>2, <2>3 DEF Failure
  <1>18. CASE Users
    BY <1>18, UsersTyped
  <1>19. CASE UNCHANGED vars
    BY <1>2, <1>3, <1>4, <1>19 DEF vars, Typed
  <1> QED
    BY <1>5, <1>6, <1>7, <1>8, <1>9, <1>10, <1>11, <1>12, <1>13, <1>14, <1>15, <1>16, <1>17, <1>18, <1>19
    DEF Next

LEMMA AlwaysTyped == Spec => []Typed
  BY InitTyped, NextTyped, PTL DEF Spec

\* What the two managers, the garbage collector and users write has its type, in every
\* state that a cache still has to see too; the queues hold names of harnesses and of
\* namespaces, never the placeholder of an object that has no owner.
THEOREM TypeCorrect == Spec => []TypeOK
  BY AlwaysTyped, TypedImpliesTypeOK, PTL

-----------------------------------------------------------------------------
(* Harnesses move on.                                                      *)

SameSpec(a, b) ==
    /\ a.live = b.live /\ a.uid = b.uid /\ a.generation = b.generation
    /\ a.namespace = b.namespace /\ a.names = b.names /\ a.inject = b.inject

\* A later state of the harness: another object of the name, the same specification,
\* a newer generation of it, or its deletion.
Onward(a, b) ==
    \/ a.uid < b.uid
    \/ /\ a.uid = b.uid
       /\ SameSpec(a, b) \/ (a.live /\ (b.live => a.generation < b.generation))

LEMMA SameSpecEquivalence ==
    /\ \A a : SameSpec(a, a)
    /\ \A a, b : SameSpec(a, b) => SameSpec(b, a)
    /\ \A a, b, c : SameSpec(a, b) /\ SameSpec(b, c) => SameSpec(a, c)
  BY DEF SameSpec

LEMMA OnwardOrder ==
    ASSUME NEW a \in HarnessObject, NEW b \in HarnessObject, NEW c \in HarnessObject,
           Onward(a, b), Onward(b, c)
    PROVE  /\ Onward(a, c)
           /\ SameSpec(a, c) => SameSpec(a, b)
  BY DEF Onward, SameSpec, HarnessObject

LEMMA SameIsOnward ==
    ASSUME NEW a, NEW b, SameSpec(a, b)
    PROVE  Onward(a, b)
  BY DEF Onward, SameSpec

LEMMA EditedOnward ==
    ASSUME NEW old \in HarnessObject, NEW next \in HarnessObject, Edited(old, next), Born(old)
    PROVE  /\ Onward(old, next)
           /\ ~(next.live /\ next.ready = next.generation)
           /\ Born(next)
  BY DEF Edited, Onward, HarnessObject, Born

-----------------------------------------------------------------------------
(* A harness that says it is ready has its webhook.                        *)

HarnessPath == {p \in HarnessState \X HarnessState : \A h \in Harness : Onward(p[1][h], p[2][h])}

Ready(harness) == harness.live /\ harness.inject /\ harness.ready = harness.generation
Injected(h, harness) ==
    Stored(hooks)[h] = [owner |-> OwnedBy(h, harness), namespace |-> harness.namespace]
Working(h) == harnessWork.stage # "idle" /\ harnessWork.name = h

Ordered ==
    /\ Forward(harnesses, HarnessPath)
    /\ \A s \in States(harnesses) : \A h \in Harness : Born(s[h])

\* The worker has an earlier state of its harness, whatever it will see next.
Sourced ==
    harnessWork.stage # "idle" =>
        /\ Source.live /\ Born(Source)
        /\ \A s \in States(harnesses) : Onward(Source, s[harnessWork.name])

\* What it has done for the specification it has is still there, unless a newer one
\* is there as well.
Hooked ==
    /\ harnessWork.stage = "prune" \/ (harnessWork.stage = "flush" /\ harnessWork.ok)
    /\ Source.inject /\ SameSpec(Source, Stored(harnesses)[harnessWork.name])
    => Injected(harnessWork.name, Source)

\* A ready harness is known to the cache and to the worker as it is.
ReadyKnown ==
    \A h \in Harness : Ready(Stored(harnesses)[h]) =>
        /\ \A s \in States(harnesses) : SameSpec(s[h], Stored(harnesses)[h])
        /\ Working(h) => SameSpec(Source, Stored(harnesses)[h])
        /\ Injected(h, Stored(harnesses)[h])

ReadyInv == Ordered /\ Sourced /\ Hooked /\ ReadyKnown

LEMMA PathForward ==
    ASSUME NEW s \in HarnessState, NEW t \in HarnessState
    PROVE  <<s, t>> \in HarnessPath <=> \A h \in Harness : Onward(s[h], t[h])
  BY DEF HarnessPath

\* Everything between the cache and the API server.
LEMMA OrderedStates ==
    ASSUME HarnessTyped, Ordered
    PROVE  /\ Cached(harnesses) \in States(harnesses) /\ Stored(harnesses) \in States(harnesses)
           /\ States(harnesses) \subseteq HarnessState
           /\ \A s \in States(harnesses) : \A h \in Harness :
                 s[h] \in HarnessObject /\ Onward(Cached(harnesses)[h], s[h])
                                        /\ Onward(s[h], Stored(harnesses)[h])
  <1>1. /\ Cached(harnesses) \in States(harnesses) /\ Stored(harnesses) \in States(harnesses)
        /\ States(harnesses) \subseteq HarnessState
    BY EndsAreStates DEF HarnessTyped
  <1>2. \A s \in States(harnesses) : /\ <<Cached(harnesses), s>> \in HarnessPath
                                     /\ <<s, Stored(harnesses)>> \in HarnessPath
    BY ForwardEnds DEF HarnessTyped, Ordered
  <1>3. \A s \in States(harnesses) : \A h \in Harness :
           Onward(Cached(harnesses)[h], s[h]) /\ Onward(s[h], Stored(harnesses)[h])
    BY <1>1, <1>2, PathForward
  <1> QED
    BY <1>1, <1>3 DEF HarnessState

\* A write that moves each harness on keeps the order.
LEMMA WrittenOrdered ==
    ASSUME HarnessTyped, Ordered, NEW t \in HarnessState,
           \A h \in Harness : Onward(Stored(harnesses)[h], t[h]) /\ Born(t[h]),
           harnesses' = Written(harnesses, t)
    PROVE  Ordered'
  <1>1. ASSUME NEW s \in States(harnesses) PROVE <<s, t>> \in HarnessPath
    <2>1. s \in HarnessState
      BY OrderedStates
    <2>2. ASSUME NEW h \in Harness PROVE Onward(s[h], t[h])
      <3>1. s[h] \in HarnessObject /\ Stored(harnesses)[h] \in HarnessObject /\ t[h] \in HarnessObject
        BY OrderedStates DEF HarnessState
      <3>2. Onward(s[h], Stored(harnesses)[h]) /\ Onward(Stored(harnesses)[h], t[h])
        BY OrderedStates
      <3> QED
        BY <3>1, <3>2, OnwardOrder
    <2> QED
      BY <2>1, <2>2, PathForward
  <1>2. <<t, t>> \in HarnessPath
    <2>1. \A h \in Harness : Onward(t[h], t[h])
      BY SameSpecEquivalence, SameIsOnward
    <2> QED
      BY <2>1, PathForward
  <1>3. Forward(Written(harnesses, t), HarnessPath)
    BY <1>1, <1>2, WrittenForward DEF HarnessTyped, Ordered
  <1>4. States(Written(harnesses, t)) = States(harnesses) \cup {t}
    BY WrittenStates DEF HarnessTyped
  <1> QED
    BY <1>3, <1>4 DEF Ordered

LEMMA ReadyGet == HarnessTyped /\ ReadyInv /\ HarnessGet => ReadyInv'
  <1> SUFFICES ASSUME HarnessTyped, ReadyInv, HarnessGet PROVE ReadyInv'
    OBVIOUS
  <1>1. UNCHANGED <<harnesses, hooks>>
    BY GetEffect
  <1>2. Ordered'
    BY <1>1 DEF ReadyInv, Ordered
  <1>3. CASE harnessWork' = HarnessIdle
    <2>1. harnessWork'.stage = "idle"
      BY <1>3, NothingTyped
    <2> QED
      BY <1>1, <1>2, <2>1 DEF ReadyInv, Sourced, Hooked, ReadyKnown, Working, Injected
  <1>4. CASE \E h \in harnessQueue :
                /\ harnessWork'.stage = "scope" /\ harnessWork'.name = h
                /\ Cached(harnesses)[h].live /\ harnessWork'.source = Cached(harnesses)[h]
    <2>1. PICK h \in harnessQueue :
             /\ harnessWork'.stage = "scope" /\ harnessWork'.name = h
             /\ Cached(harnesses)[h].live /\ harnessWork'.source = Cached(harnesses)[h]
      BY <1>4
    <2>2. h \in Harness
      BY DEF HarnessTyped
    <2>3. Ordered
      BY DEF ReadyInv
    <2>4. Sourced'
      BY <1>1, <2>1, <2>2, <2>3, OrderedStates DEF Sourced, Source, Ordered
    <2>5. Hooked'
      BY <2>1 DEF Hooked
    <2>6. ReadyKnown'
      BY <1>1, <2>1, <2>2, <2>3, OrderedStates DEF ReadyInv, ReadyKnown, Working, Injected, Source
    <2> QED
      BY <1>2, <2>4, <2>5, <2>6 DEF ReadyInv
  <1> QED
    BY <1>3, <1>4, GetEffect

\* A step that leaves the harnesses and webhooks alone and does not turn to pruning.
LEMMA ReadyOnwards ==
    ASSUME ReadyInv, UNCHANGED <<harnesses, hooks>>, NEW stage, Advances(stage), harnessWork.stage # "idle",
           \/ stage \in {"rbac", "ca", "hook"}
           \/ stage = "prune" /\ ~Source.inject
           \/ stage = "flush" /\ harnessWork'.ok = FALSE
    PROVE  ReadyInv'
  <1>1. /\ harnessWork'.stage = stage /\ harnessWork'.name = harnessWork.name /\ Source' = Source
    BY DEF Advances, Source
  <1>2. Ordered'
    BY DEF ReadyInv, Ordered
  <1>3. Sourced'
    BY <1>1 DEF ReadyInv, Sourced
  <1>4. Hooked'
    BY <1>1 DEF Hooked
  <1>5. ReadyKnown'
    BY <1>1 DEF ReadyInv, ReadyKnown, Working, Injected
  <1> QED
    BY <1>2, <1>3, <1>4, <1>5 DEF ReadyInv

\* What is made for a harness is the same for the same specification.
LEMMA SameInjected ==
    ASSUME NEW h, NEW a, NEW b, SameSpec(a, b)
    PROVE  Injected(h, a) <=> Injected(h, b)
  BY DEF Injected, SameSpec, OwnedBy

LEMMA ReadyHook == HarnessTyped /\ ReadyInv /\ ensureProxyInjectionWebhook => ReadyInv'
  <1> SUFFICES ASSUME HarnessTyped, ReadyInv, ensureProxyInjectionWebhook PROVE ReadyInv'
    OBVIOUS
  <1> DEFINE h == harnessWork.name
  <1>1. /\ harnessWork.stage = "hook" /\ h \in Harness /\ Advances("prune") /\ UNCHANGED harnesses
        /\ Stored(hooks')[h] = [owner |-> OwnedBy(h, Source), namespace |-> Source.namespace]
        /\ \A g \in Harness \ {h} : Stored(hooks')[g] = Stored(hooks)[g]
    BY HookEffect
  <1>2. /\ harnessWork'.stage = "prune" /\ harnessWork'.name = h /\ Source' = Source
    BY <1>1 DEF Advances, Source
  <1>3. Ordered'
    BY <1>1 DEF ReadyInv, Ordered
  <1>4. Sourced'
    BY <1>1, <1>2 DEF ReadyInv, Sourced
  <1>5. Injected(h, Source)'
    BY <1>1, <1>2 DEF Injected, OwnedBy
  <1>6. Hooked'
    BY <1>2, <1>5 DEF Hooked
  <1>7. ASSUME NEW g \in Harness, Ready(Stored(harnesses)[g])
        PROVE  /\ \A s \in States(harnesses) : SameSpec(s[g], Stored(harnesses)[g])
               /\ Working(g)' => SameSpec(Source', Stored(harnesses)[g])
               /\ Stored(hooks')[g] = [owner |-> OwnedBy(g, Stored(harnesses)[g]),
                                       namespace |-> Stored(harnesses)[g].namespace]
    <2>1. /\ \A s \in States(harnesses) : SameSpec(s[g], Stored(harnesses)[g])
          /\ Working(g) => SameSpec(Source, Stored(harnesses)[g])
          /\ Injected(g, Stored(harnesses)[g])
      BY <1>7 DEF ReadyInv, ReadyKnown
    <2>2. Working(g)' => Working(g)
      BY <1>1, <1>2 DEF Working
    <2>3. CASE g = h
      BY <1>1, <1>2, <2>1, <2>2, <2>3 DEF Working, SameSpec, OwnedBy
    <2>4. CASE g # h
      BY <1>1, <1>2, <2>1, <2>2, <2>4 DEF Injected
    <2> QED
      BY <2>3, <2>4
  <1>8. ReadyKnown'
    BY <1>1, <1>7 DEF ReadyKnown, Injected, Working
  <1> QED
    BY <1>3, <1>4, <1>6, <1>8 DEF ReadyInv

LEMMA ReadyPrune == HarnessTyped /\ ReadyInv /\ pruneProxyConfiguration => ReadyInv'
  <1> SUFFICES ASSUME HarnessTyped, ReadyInv, pruneProxyConfiguration PROVE ReadyInv'
    OBVIOUS
  <1> DEFINE h == harnessWork.name
  <1>1. /\ harnessWork.stage = "prune" /\ h \in Harness /\ Advances("flush") /\ UNCHANGED harnesses
        /\ Source.inject => Stored(hooks')[h] = Stored(hooks)[h]
        /\ \A g \in Harness \ {h} : Stored(hooks')[g] = Stored(hooks)[g]
    BY PruneEffect
  <1>2. /\ harnessWork'.stage = "flush" /\ harnessWork'.name = h /\ Source' = Source
    BY <1>1 DEF Advances, Source
  <1>3. Ordered'
    BY <1>1 DEF ReadyInv, Ordered
  <1>4. Sourced'
    BY <1>1, <1>2 DEF ReadyInv, Sourced
  <1>5. Hooked'
    BY <1>1, <1>2 DEF ReadyInv, Hooked, Injected
  <1>6. ASSUME NEW g \in Harness, Ready(Stored(harnesses)[g])
        PROVE  /\ \A s \in States(harnesses) : SameSpec(s[g], Stored(harnesses)[g])
               /\ Working(g)' => SameSpec(Source', Stored(harnesses)[g])
               /\ Stored(hooks')[g] = Stored(hooks)[g] /\ Injected(g, Stored(harnesses)[g])
    <2>1. /\ \A s \in States(harnesses) : SameSpec(s[g], Stored(harnesses)[g])
          /\ Working(g) => SameSpec(Source, Stored(harnesses)[g])
          /\ Injected(g, Stored(harnesses)[g])
      BY <1>6 DEF ReadyInv, ReadyKnown
    <2>2. Working(g)' => Working(g)
      BY <1>1, <1>2 DEF Working
    <2>3. CASE g = h
      <3>1. SameSpec(Source, Stored(harnesses)[g])
        BY <1>1, <2>1, <2>3 DEF Working
      <3>2. Source.inject
        BY <3>1, <1>6 DEF SameSpec, Ready
      <3> QED
        BY <1>1, <1>2, <2>1, <2>2, <2>3, <3>2
    <2>4. CASE g # h
      BY <1>1, <1>2, <2>1, <2>2, <2>4
    <2> QED
      BY <2>3, <2>4
  <1>7. ReadyKnown'
    BY <1>1, <1>6 DEF ReadyKnown, Injected, Working
  <1> QED
    BY <1>3, <1>4, <1>5, <1>7 DEF ReadyInv

LEMMA ConcludedSpec ==
    ASSUME NEW harness \in HarnessObject
    PROVE  /\ SameSpec(harness, Concluded(harness))
           /\ Concluded(harness).ready = IF harnessWork.ok THEN harness.generation ELSE 0
  <1> DEFINE ready == IF harnessWork.ok THEN harness.generation ELSE 0
             new == [harness EXCEPT !.ready = ready]
  <1> HIDE DEF ready
  <1>1. /\ new.live = harness.live /\ new.uid = harness.uid /\ new.generation = harness.generation
        /\ new.namespace = harness.namespace /\ new.names = harness.names /\ new.inject = harness.inject
        /\ new.ready = ready
    BY DEF HarnessObject
  <1>2. Concluded(harness) = new
    BY DEF Concluded, ready
  <1> HIDE DEF new
  <1> QED
    BY <1>1, <1>2 DEF SameSpec, ready

\* The status says ready only of the state that has been worked on, and every cached
\* state since then has its specification.
LEMMA ReadyFlush == HarnessTyped /\ ReadyInv /\ flushStatus => ReadyInv'
  <1> SUFFICES ASSUME HarnessTyped, ReadyInv, flushStatus PROVE ReadyInv'
    OBVIOUS
  <1> DEFINE h == harnessWork.name
             old == Stored(harnesses)
             new == Stored(harnesses')
  <1>1. /\ harnessWork.stage = "flush" /\ h \in Harness /\ harnessWork' = HarnessIdle /\ UNCHANGED hooks
        /\ harnesses' \in Seq(HarnessState) /\ harnesses' # <<>> /\ Extends(harnesses, harnesses')
        /\ harnesses' = harnesses \/ harnesses' = Written(harnesses, new)
        /\ new[h] = IF old[h] = Source THEN Concluded(Source) ELSE old[h]
        /\ \A g \in Harness \ {h} : new[g] = old[g]
    BY FlushEffect
  <1>2. harnessWork'.stage = "idle"
    BY <1>1, NothingTyped
  <1>3. Ordered /\ Sourced /\ Hooked /\ ReadyKnown
    BY DEF ReadyInv
  <1>4. /\ Source.live /\ Born(Source) /\ Source \in HarnessObject
        /\ \A s \in States(harnesses) : Onward(Source, s[h])
    BY <1>1, <1>3, HarnessEnds DEF Sourced
  <1>5. /\ SameSpec(Source, Concluded(Source)) /\ Born(Concluded(Source))
        /\ Concluded(Source).ready = IF harnessWork.ok THEN Source.generation ELSE 0
    <2>1. /\ SameSpec(Source, Concluded(Source))
          /\ Concluded(Source).ready = IF harnessWork.ok THEN Source.generation ELSE 0
      BY <1>4, ConcludedSpec
    <2>2. Source.generation \in Nat
      BY <1>4 DEF HarnessObject
    <2>3. Concluded(Source).ready <= Source.generation /\ Concluded(Source).generation = Source.generation
      <3>1. CASE harnessWork.ok
        BY <3>1, <2>1, <2>2 DEF SameSpec
      <3>2. CASE ~harnessWork.ok
        BY <3>2, <2>1, <2>2 DEF SameSpec
      <3> QED
        BY <3>1, <3>2
    <2>4. Source.generation > 0 /\ Source.namespace \in Namespace
      BY <1>4 DEF Born
    <2>5. Born(Concluded(Source))
      BY <2>1, <2>3, <2>4 DEF SameSpec, Born
    <2> QED
      BY <2>1, <2>5
  <1>6. new \in HarnessState /\ old \in HarnessState
    BY <1>1, WindowEnds, HarnessEnds
  <1> HIDE DEF new
  <1>7. \A g \in Harness : SameSpec(old[g], new[g]) /\ Born(old[g]) /\ Born(new[g])
    <2>1. \A g \in Harness : Born(old[g])
      BY <1>3, OrderedStates DEF Ordered
    <2> QED
      BY <2>1, <1>1, <1>5, SameSpecEquivalence
  <1>8. Ordered'
    <2>1. CASE harnesses' = harnesses
      BY <1>3, <2>1 DEF Ordered
    <2>2. CASE harnesses' = Written(harnesses, new)
      BY <1>3, <1>6, <1>7, <2>2, WrittenOrdered, SameIsOnward
    <2> QED
      BY <1>1, <2>1, <2>2
  <1>9. Sourced' /\ Hooked'
    BY <1>2 DEF Sourced, Hooked
  <1>10. States(harnesses') = States(harnesses) \cup {new}
    BY <1>1 DEF Extends, new
  <1>11. ASSUME NEW g \in Harness, Ready(new[g])
         PROVE  (\A s \in States(harnesses) : SameSpec(s[g], old[g])) /\ Injected(g, old[g])
    <2>1. CASE new[g] = old[g]
      BY <2>1, <1>3, <1>11 DEF ReadyKnown
    <2>2. CASE new[g] # old[g]
      <3>1. g = h /\ old[h] = Source /\ new[h] = Concluded(Source)
        BY <1>1, <2>2
      <3>2. harnessWork.ok /\ Source.inject
        BY <1>4, <1>5, <3>1, <1>11 DEF Ready, Born, SameSpec, HarnessObject
      <3>3. Injected(g, old[g])
        BY <1>1, <1>3, <3>1, <3>2, SameSpecEquivalence DEF Hooked
      <3>4. ASSUME NEW s \in States(harnesses) PROVE SameSpec(s[g], old[g])
        <4>1. Onward(old[g], s[g]) /\ Onward(s[g], old[g])
          BY <1>3, <1>4, <3>1, OrderedStates
        <4>2. s[g] \in HarnessObject /\ old[g] \in HarnessObject
          BY <1>3, OrderedStates, <1>6 DEF HarnessState
        <4> QED
          BY <4>1, <4>2, OnwardOrder, SameSpecEquivalence
      <3> QED
        BY <3>3, <3>4
    <2> QED
      BY <2>1, <2>2
  <1>12. ASSUME NEW g \in Harness, Ready(new[g])
         PROVE  /\ \A s \in States(harnesses') : SameSpec(s[g], new[g])
                /\ Injected(g, new[g])
    BY <1>7, <1>10, <1>11, <1>12, SameSpecEquivalence, SameInjected
  <1>13. ReadyKnown'
    BY <1>1, <1>2, <1>12 DEF ReadyKnown, Working, Injected, new
  <1> QED
    BY <1>8, <1>9, <1>13 DEF ReadyInv

\* Steps that neither write harnesses nor touch the worker, nor a webhook in use.
LEMMA ReadyElsewhere ==
    ASSUME HarnessTyped, ReadyInv, UNCHANGED <<harnesses, harnessWork>>,
           \A h \in Harness : Stored(hooks')[h] = Stored(hooks)[h] \/ Gone(Stored(hooks)[h].owner)
    PROVE  ReadyInv'
  <1>1. Ordered' /\ Sourced'
    BY DEF ReadyInv, Ordered, Sourced, Source
  <1>2. ASSUME NEW h \in Harness, NEW harness \in HarnessObject, harness.live, Injected(h, harness),
               SameSpec(harness, Stored(harnesses)[h])
        PROVE  Stored(hooks')[h] = [owner |-> OwnedBy(h, harness), namespace |-> harness.namespace]
    <2>1. Stored(hooks)[h].owner = [harness |-> h, uid |-> harness.uid]
      BY <1>2 DEF Injected, OwnedBy
    <2>2. ~Gone(Stored(hooks)[h].owner)
      BY <2>1, <1>2 DEF Gone, SameSpec
    <2> QED
      BY <1>2, <2>2 DEF Injected
  <1>3. Hooked'
    <2>1. ASSUME harnessWork.stage = "prune" \/ (harnessWork.stage = "flush" /\ harnessWork.ok),
                 Source.inject, SameSpec(Source, Stored(harnesses)[harnessWork.name])
          PROVE  Stored(hooks')[harnessWork.name] =
                    [owner |-> OwnedBy(harnessWork.name, Source), namespace |-> Source.namespace]
      <3>1. Injected(harnessWork.name, Source)
        BY <2>1 DEF ReadyInv, Hooked
      <3>2. harnessWork.name \in Harness /\ Source \in HarnessObject /\ Source.live
        BY <2>1, HarnessEnds DEF ReadyInv, Sourced, HarnessTyped
      <3> QED
        BY <1>2, <2>1, <3>1, <3>2
    <2> QED
      BY <2>1 DEF Hooked, Injected, Source, OwnedBy
  <1>4. ReadyKnown'
    <2>1. ASSUME NEW h \in Harness, Ready(Stored(harnesses)[h])
          PROVE  Stored(hooks')[h] = [owner |-> OwnedBy(h, Stored(harnesses)[h]),
                                      namespace |-> Stored(harnesses)[h].namespace]
      <3>1. Injected(h, Stored(harnesses)[h]) /\ Stored(harnesses)[h].live
        BY <2>1 DEF ReadyInv, ReadyKnown, Ready
      <3>2. Stored(harnesses)[h] \in HarnessObject
        BY HarnessEnds DEF HarnessState
      <3> QED
        BY <1>2, <3>1, <3>2, SameSpecEquivalence
    <2> QED
      BY <2>1 DEF ReadyInv, ReadyKnown, Injected, Working, Source
  <1> QED
    BY <1>1, <1>3, <1>4 DEF ReadyInv

LEMMA ReadyDelivery == HarnessTyped /\ ReadyInv /\ WatchHarnesses => ReadyInv'
  <1> SUFFICES ASSUME HarnessTyped, ReadyInv, WatchHarnesses PROVE ReadyInv'
    OBVIOUS
  <1>1. /\ harnesses' = Delivered(harnesses) /\ Lagging(harnesses) /\ Follows(harnesses, harnesses')
        /\ UNCHANGED <<hooks, harnessWork>>
    BY WatchEffect
  <1>2. Stored(harnesses') = Stored(harnesses) /\ States(harnesses') \subseteq States(harnesses)
    BY <1>1 DEF Follows
  <1>3. Forward(harnesses', HarnessPath)
    BY <1>1, DeliveredForward DEF HarnessTyped, ReadyInv, Ordered
  <1>4. Ordered'
    BY <1>2, <1>3 DEF ReadyInv, Ordered
  <1>5. Sourced' /\ Hooked' /\ ReadyKnown'
    BY <1>1, <1>2 DEF ReadyInv, Sourced, Source, Hooked, Injected, ReadyKnown, Working
  <1> QED
    BY <1>4, <1>5 DEF ReadyInv

LEMMA ReadyEdits == HarnessTyped /\ ReadyInv /\ EditsHarness => ReadyInv'
  <1> SUFFICES ASSUME HarnessTyped, ReadyInv, EditsHarness PROVE ReadyInv'
    OBVIOUS
  <1> DEFINE old == Stored(harnesses)
             new == Stored(harnesses')
  <1>1. PICK h \in Harness : Edited(old[h], new[h]) /\ \A g \in Harness \ {h} : new[g] = old[g]
    BY DEF EditsHarness
  <1>2. /\ harnesses' = Written(harnesses, new) /\ States(harnesses') = States(harnesses) \cup {new}
        /\ UNCHANGED <<hooks, harnessWork>>
    BY DEF EditsHarness, Extends
  <1>3. old \in HarnessState /\ new \in HarnessState
    BY HarnessEnds, WindowEnds DEF EditsHarness
  <1>4. Ordered /\ Sourced /\ Hooked /\ ReadyKnown
    BY DEF ReadyInv
  <1> HIDE DEF new
  <1>5. old[h] \in HarnessObject /\ new[h] \in HarnessObject /\ Born(old[h])
    BY <1>3, <1>4, OrderedStates DEF Ordered, HarnessState
  <1>6. Onward(old[h], new[h]) /\ Born(new[h]) /\ ~Ready(new[h])
    BY <1>1, <1>5, EditedOnward DEF Ready
  <1>7. \A g \in Harness : Onward(old[g], new[g]) /\ Born(new[g])
    <2>1. \A g \in Harness : Born(old[g])
      BY <1>4, OrderedStates DEF Ordered
    <2> QED
      BY <1>1, <1>6, <2>1, SameSpecEquivalence, SameIsOnward
  <1>8. Ordered'
    BY <1>2, <1>3, <1>4, <1>7, WrittenOrdered
  <1>9. ASSUME harnessWork.stage # "idle"
        PROVE  LET g == harnessWork.name
               IN  /\ g \in Harness /\ Onward(Source, old[g]) /\ Onward(old[g], new[g])
                   /\ Source \in HarnessObject /\ old[g] \in HarnessObject /\ new[g] \in HarnessObject
    BY <1>3, <1>4, <1>7, <1>9, OrderedStates, HarnessEnds DEF HarnessTyped, Sourced, HarnessState
  <1>10. Sourced'
    <2>1. ASSUME harnessWork.stage # "idle" PROVE Onward(Source, new[harnessWork.name])
      BY <1>9, <2>1, OnwardOrder
    <2> QED
      BY <1>2, <1>4, <2>1 DEF Sourced, Source
  <1>11. Hooked'
    <2>1. ASSUME harnessWork.stage # "idle", SameSpec(Source, new[harnessWork.name])
          PROVE  SameSpec(Source, old[harnessWork.name])
      BY <1>9, <2>1, OnwardOrder
    <2> QED
      BY <1>2, <1>4, <2>1 DEF Hooked, Source, Injected, new
  <1>12. ASSUME NEW g \in Harness, Ready(new[g])
         PROVE  new[g] = old[g] /\ Ready(old[g])
    BY <1>1, <1>6, <1>12
  <1>13. ASSUME NEW g \in Harness, Ready(new[g])
         PROVE  /\ \A s \in States(harnesses') : SameSpec(s[g], new[g])
                /\ Working(g) => SameSpec(Source, new[g])
                /\ Injected(g, new[g])
    BY <1>2, <1>4, <1>12, <1>13, SameSpecEquivalence DEF ReadyKnown
  <1>14. ReadyKnown'
    BY <1>2, <1>13 DEF ReadyKnown, Injected, Working, Source, new
  <1> QED
    BY <1>8, <1>10, <1>11, <1>14 DEF ReadyInv

LEMMA ReadyRestart == HarnessTyped /\ ReadyInv /\ Restart => ReadyInv'
  <1> SUFFICES ASSUME HarnessTyped, ReadyInv, Restart PROVE ReadyInv'
    OBVIOUS
  <1>1. harnesses' = Synced(Stored(harnesses)) /\ hooks' = Synced(Stored(hooks)) /\ harnessWork' = HarnessIdle
    BY DEF Restart
  <1>2. /\ Stored(harnesses') = Stored(harnesses) /\ States(harnesses') = {Stored(harnesses)}
        /\ Stored(hooks') = Stored(hooks) /\ Stored(harnesses) \in HarnessState
    BY <1>1, HarnessEnds, SyncedWindow, SyncedStates
  <1>3. harnessWork'.stage = "idle"
    BY <1>1, NothingTyped
  <1>4. Ordered'
    <2>1. <<Stored(harnesses), Stored(harnesses)>> \in HarnessPath
      BY <1>2, PathForward, SameSpecEquivalence, SameIsOnward
    <2>2. Forward(harnesses', HarnessPath)
      BY <1>1, <2>1, SyncedForward
    <2> QED
      BY <1>2, <2>2, OrderedStates DEF ReadyInv, Ordered
  <1>5. Sourced' /\ Hooked'
    BY <1>3 DEF Sourced, Hooked
  <1>6. ReadyKnown'
    BY <1>2, <1>3, SameSpecEquivalence DEF ReadyInv, ReadyKnown, Injected, Working
  <1> QED
    BY <1>4, <1>5, <1>6 DEF ReadyInv

LEMMA ReadyInit == Init => ReadyInv
  <1> SUFFICES ASSUME Init PROVE ReadyInv
    OBVIOUS
  <1> DEFINE first == [NoHarness EXCEPT !.live = TRUE, !.uid = 1, !.generation = 1,
                                        !.namespace = Home, !.inject = TRUE]
             state == [h \in Harness |-> IF h = FirstHarness /\ ~AboutAccess THEN first ELSE NoHarness]
  <1>1. harnesses = Synced(state) /\ harnessWork = HarnessIdle
    BY DEF Init
  <1>2. Born(first) /\ ~Ready(first) /\ Born(NoHarness) /\ ~Ready(NoHarness)
    BY HomeAssumption DEF Born, Ready, NoHarness
  <1> HIDE DEF first
  <1>3. \A h \in Harness : Born(state[h]) /\ ~Ready(state[h])
    BY <1>2
  <1>4. Typed
    BY InitTyped
  <1> HIDE DEF state
  <1>5. Stored(harnesses) = state /\ States(harnesses) = {state} /\ state \in HarnessState
    <2>1. Stored(Synced(state)) = state
      BY SyncedWindow
    <2> QED
      BY <1>1, <1>4, <2>1, HarnessEnds, SyncedStates DEF Typed
  <1>6. Ordered
    <2>1. <<state, state>> \in HarnessPath
      BY <1>5, PathForward, SameSpecEquivalence, SameIsOnward
    <2> QED
      BY <1>1, <1>3, <1>5, <2>1, SyncedForward DEF Ordered
  <1>7. harnessWork.stage = "idle"
    BY <1>1, NothingTyped
  <1> QED
    BY <1>3, <1>5, <1>6, <1>7 DEF ReadyInv, Sourced, Hooked, ReadyKnown

LEMMA NextReady == Typed /\ ReadyInv /\ [Next]_vars => ReadyInv'
  <1> SUFFICES ASSUME Typed, ReadyInv, [Next]_vars PROVE ReadyInv'
    OBVIOUS
  <1>1. HarnessTyped /\ AccessTyped
    BY DEF Typed
  <1>2. ASSUME UNCHANGED <<harnesses, harnessWork>>, Stored(hooks') = Stored(hooks) PROVE ReadyInv'
    BY <1>1, <1>2, ReadyElsewhere
  <1>3. CASE HarnessProgress
    <2>1. CASE HarnessGet
      BY <1>1, <2>1, ReadyGet
    <2>2. CASE ensureServiceAccountScope
      BY <1>1, <2>2, ScopeEffect, ReadyOnwards
    <2>3. CASE ensureScopedListRBAC
      <3>1. /\ UNCHANGED <<harnesses, hooks>> /\ harnessWork.stage = "rbac"
            /\ Advances(IF Source.inject THEN "ca" ELSE "prune")
        BY <1>1, <2>3, RoleEffect
      <3>2. CASE Source.inject
        BY <3>1, <3>2, ReadyOnwards
      <3>3. CASE ~Source.inject
        BY <3>1, <3>3, ReadyOnwards
      <3> QED
        BY <3>2, <3>3
    <2>4. CASE ensureProxyCACertificate
      BY <1>1, <2>4, CaEffect, ReadyOnwards
    <2>5. CASE ensureProxyInjectionWebhook
      BY <1>1, <2>5, ReadyHook
    <2>6. CASE pruneProxyConfiguration
      BY <1>1, <2>6, ReadyPrune
    <2>7. CASE flushStatus
      BY <1>1, <2>7, ReadyFlush
    <2> QED
      BY <1>3, <2>1, <2>2, <2>3, <2>4, <2>5, <2>6, <2>7 DEF HarnessProgress
  <1>4. CASE HarnessFails
    <2>1. UNCHANGED <<harnesses, hooks>> /\ harnessWork.stage # "idle"
      BY <1>1, <1>4, FailsEffect
    <2>2. CASE Advances("flush") /\ harnessWork'.ok = FALSE
      BY <2>1, <2>2, ReadyOnwards
    <2>3. CASE harnessWork' = HarnessIdle
      <3>1. harnessWork'.stage = "idle"
        BY <2>3, NothingTyped
      <3> QED
        BY <2>1, <3>1 DEF ReadyInv, Ordered, Sourced, Hooked, ReadyKnown, Injected, Working
    <2> QED
      BY <1>1, <1>4, <2>2, <2>3, FailsEffect
  <1>5. CASE WatchHarnesses
    BY <1>1, <1>5, ReadyDelivery
  <1>6. CASE WatchHooks
    BY <1>1, <1>2, <1>6, WatchEffect DEF Follows
  <1>7. CASE CollectHarnessed
    BY <1>1, <1>7, CollectEffect, ReadyElsewhere
  <1>8. CASE AccessStep \/ PolicyStep \/ DeliverNamespace \/ DeliverGroup
    BY <1>2, <1>8 DEF AccessStep, PolicyStep, DeliverNamespace, DeliverGroup, harnessVars
  <1>9. CASE DeliverCA \/ DeliverAccount \/ Resync
    BY <1>2, <1>9 DEF DeliverCA, WatchCAs, DeliverAccount, Resync
  <1>10. CASE Restart
    BY <1>1, <1>10, ReadyRestart
  <1>11. CASE Failure
    BY <1>2, <1>4, <1>11 DEF Failure, harnessVars
  <1>12. CASE Users
    <2>1. ASSUME NEW h \in Harness,
                 CreateHarness(h) \/ MoveHarness(h) \/ EditHarness(h) \/ DeleteHarness(h)
          PROVE  ReadyInv'
      BY <1>1, <2>1, HarnessUsers, ReadyEdits
    <2>2. ASSUME NEW a \in Account, EditAccount(a) \/ CreatePod(a) PROVE ReadyInv'
      BY <1>2, <2>2 DEF EditAccount, CreatePod, harnessVars
    <2>3. ASSUME NEW n \in Namespace, EditLabels(n) PROVE ReadyInv'
      BY <1>2, <2>3 DEF EditLabels, harnessVars
    <2>4. ASSUME NEW g \in Group, EditGroup(g) PROVE ReadyInv'
      BY <1>2, <2>4 DEF EditGroup, harnessVars
    <2> QED
      BY <1>12, <2>1, <2>2, <2>3, <2>4 DEF Users
  <1>13. CASE UNCHANGED vars
    BY <1>2, <1>13 DEF vars, harnessVars
  <1> QED
    BY <1>3, <1>5, <1>6, <1>7, <1>8, <1>9, <1>10, <1>11, <1>12, <1>13
    DEF Next, HarnessStep, Collect, DeliverHarness, DeliverHook

LEMMA AlwaysReadyInv == Spec => [](Typed /\ ReadyInv)
  <1>1. Init => Typed /\ ReadyInv
    BY InitTyped, ReadyInit
  <1>2. Typed /\ ReadyInv /\ [Next]_vars => (Typed /\ ReadyInv)'
    BY NextTyped, NextReady
  <1> QED
    BY <1>1, <1>2, PTL DEF Spec

\* The webhook finds a ready harness of the account, and the API server calls it.
LEMMA ReadyIsProxied ==
    ASSUME HarnessTyped, ReadyInv, NEW a \in Account, NEW h \in Harness,
           Ready(Stored(harnesses)[h]), harnessesServiceAccount(Stored(harnesses)[h], a)
    PROVE  Handle(a) = "proxied"
  <1>1. SameSpec(Cached(harnesses)[h], Stored(harnesses)[h]) /\ Injected(h, Stored(harnesses)[h])
    BY OrderedStates DEF ReadyInv, ReadyKnown
  <1>2. h \in matchingHarness(a)
    BY <1>1 DEF matchingHarness, SameSpec, Ready, harnessesServiceAccount
  <1>3. Stored(hooks)[h].namespace = a[1]
    BY <1>1 DEF Injected, harnessesServiceAccount
  <1> QED
    BY <1>2, <1>3 DEF Handle

LEMMA PodsComeUpProxied ==
    ASSUME Typed, ReadyInv, [Next]_vars, NEW a \in Account,
           pods'[a] # pods[a], pods'[a] = "direct", NEW h \in Harness,
           Ready(Stored(harnesses)[h]), harnessesServiceAccount(Stored(harnesses)[h], a)
    PROVE  FALSE
  <1>1. pods' # pods
    OBVIOUS
  <1>2. Users
    BY <1>1 DEF Next, HarnessStep, AccessStep, PolicyStep, Collect, DeliverHarness, DeliverCA, DeliverHook,
                DeliverNamespace, DeliverGroup, DeliverAccount, Resync, Restart, Failure, vars
  <1>3. PICK b \in Account : CreatePod(b)
    BY <1>1, <1>2 DEF Users, CreateHarness, MoveHarness, EditHarness, DeleteHarness, Applied,
                      EditAccount, EditLabels, EditGroup
  <1>4. pods' = [pods EXCEPT ![b] = Handle(b)]
    BY <1>3 DEF CreatePod
  <1>5. a = b /\ Handle(a) = "direct"
    BY <1>4 DEF Typed, PodsTyped
  <1>6. Handle(a) = "proxied"
    BY ReadyIsProxied DEF Typed
  <1> QED
    BY <1>5, <1>6

\* Whatever users, workers, watches, failures and restarts do, a pod of an account that
\* a ready harness is for never comes up talking to the API server directly: a harness
\* is only ready when every state the webhook may still see in its cache has the
\* specification that its configuration was made for.
THEOREM ReadyMeansInjected == Spec => ReadyIsInjected
  <1>1. ASSUME Typed, ReadyInv, [Next]_vars
        PROVE  [\A a \in Account :
                  pods'[a] # pods[a] /\ pods'[a] = "direct" =>
                      \A h \in Harness :
                          LET harness == Stored(harnesses)[h]
                          IN  ~(/\ harness.live /\ harness.inject /\ harness.ready = harness.generation
                                /\ harnessesServiceAccount(harness, a))]_vars
    BY <1>1, PodsComeUpProxied DEF Ready
  <1> QED
    BY <1>1, AlwaysReadyInv, PTL DEF Spec, ReadyIsInjected

-----------------------------------------------------------------------------
(* A worker at rest has left nothing undone.                               *)

Undisturbed == "interrupt" \notin DOMAIN budget

\* Some state that the cache still has to see differs from what is stored.
Moved(w, x) == \E s \in States(w) : s[x] # Stored(w)[x]

\* The ConfigMap was once its own and is to be seen as lost.
Lost(w, x, h) == \E s \in States(w) : s[x].harness = h /\ s[x] # Stored(w)[x]

Due(h) == h \in harnessQueue \/ Moved(harnesses, h)
At(h, stages) == harnessWork.stage \in stages /\ harnessWork.name = h

Mine(h) == {a \in Account : harnessesServiceAccount(Stored(harnesses)[h], a)}
WantedRole(h) == [owner |-> OwnedBy(h, Stored(harnesses)[h]), subjects |-> Mine(h) \cap Exist(Stored(accounts))]
WantedHook(h) ==
    IF Stored(harnesses)[h].inject
    THEN [owner |-> OwnedBy(h, Stored(harnesses)[h]), namespace |-> Stored(harnesses)[h].namespace]
    ELSE NoHook

\* Whatever is not in place is about to be seen to: the harness is queued or will be,
\* by an event on its way, or the worker has not come to it yet.
ReadyCovered(h) == Due(h) \/ Working(h) \/ Stored(harnesses)[h].ready = Stored(harnesses)[h].generation
ScopeCovered(h) ==
    \A a \in Mine(h) :
        Due(h) \/ At(h, {"scope"}) \/ Moved(accounts, a) \/ Stored(accounts)[a] \in {Absent, h}
RoleCovered(h) ==
    \/ Due(h) \/ At(h, {"scope", "rbac"}) \/ scopeRoles[h] = WantedRole(h)
    \/ \E a \in Mine(h) : Moved(accounts, a)
CaCovered(h) ==
    LET n == Stored(harnesses)[h].namespace
    IN  Stored(harnesses)[h].inject =>
            \/ Due(h) \/ At(h, {"scope", "rbac", "ca"})
            \/ Stored(cas)[n] = OwnedBy(h, Stored(harnesses)[h]) \/ Lost(cas, n, h)
PruneCovered(h) ==
    \A n \in Namespace :
        \/ Stored(harnesses)[h].inject /\ n = Stored(harnesses)[h].namespace
        \/ Stored(cas)[n].harness # h
        \/ Due(h) \/ At(h, {"scope", "rbac", "ca", "hook", "prune"}) \/ Moved(cas, n)
HookCovered(h) ==
    \/ Due(h) \/ At(h, {"scope", "rbac", "ca", "hook"})
    \/ At(h, {"prune"}) /\ ~Stored(harnesses)[h].inject
    \/ Moved(hooks, h) \/ Stored(hooks)[h] = WantedHook(h)

Covered(h) ==
    /\ ReadyCovered(h) /\ ScopeCovered(h) /\ RoleCovered(h)
    /\ CaCovered(h) /\ PruneCovered(h) /\ HookCovered(h)

WorkCurrent ==
    harnessWork.stage # "idle" =>
        Source = Stored(harnesses)[harnessWork.name] \/ Due(harnessWork.name)
FlushOk == harnessWork.stage = "flush" => harnessWork.ok /\ ~harnessWork.err
AllCovered == \A h \in Harness : Stored(harnesses)[h].live => Covered(h)

RestInv == Undisturbed => WorkCurrent /\ FlushOk /\ AllCovered

LEMMA DueCovers ==
    ASSUME NEW h, Due(h)'
    PROVE  Covered(h)'
  BY DEF Covered, ReadyCovered, ScopeCovered, RoleCovered, CaCovered, PruneCovered, HookCovered

LEMMA StoredDiffers ==
    ASSUME NEW S, NEW w \in Seq(S), w # <<>>, NEW v, Extends(w, v), NEW x, Stored(v)[x] # Stored(w)[x]
    PROVE  Moved(v, x)
  <1>1. Stored(w) \in States(w)
    BY EndsAreStates
  <1> QED
    BY <1>1 DEF Extends, Moved

LEMMA CachedDiffers ==
    ASSUME NEW S, NEW w \in Seq(S), w # <<>>, NEW x, Cached(w)[x] # Stored(w)[x]
    PROVE  Moved(w, x)
  BY EndsAreStates DEF Moved

\* Either the change is still to be seen, or there was none.
Still(w, v, x) == Moved(v, x) \/ (Stored(v)[x] = Stored(w)[x] /\ ~Moved(w, x))

LEMMA ExtendsStill ==
    ASSUME NEW S, NEW w \in Seq(S), w # <<>>, NEW v, Extends(w, v), NEW x
    PROVE  Still(w, v, x)
  <1>1. CASE Stored(v)[x] = Stored(w)[x]
    BY <1>1 DEF Extends, Moved, Still
  <1>2. CASE Stored(v)[x] # Stored(w)[x]
    BY <1>2, StoredDiffers DEF Still
  <1> QED
    BY <1>1, <1>2

LEMMA FollowsStill ==
    ASSUME NEW w, NEW v, Follows(w, v), NEW x, w[1][x] = w[2][x]
    PROVE  Still(w, v, x)
  BY DEF Follows, Moved, Still

\* A ConfigMap that is its own stays so or is seen as lost.
LEMMA ExtendsLost ==
    ASSUME NEW S, NEW w \in Seq(S), w # <<>>, NEW v, Extends(w, v), NEW n, NEW h, NEW uid,
           Stored(v)[n] = Stored(w)[n] \/ Stored(v)[n].harness # h,
           Stored(w)[n] = [harness |-> h, uid |-> uid] \/ Lost(w, n, h)
    PROVE  Stored(v)[n] = [harness |-> h, uid |-> uid] \/ Lost(v, n, h)
  <1>1. Stored(w) \in States(w) /\ States(v) = States(w) \cup {Stored(v)}
    BY EndsAreStates DEF Extends
  <1>2. CASE Stored(v)[n] = Stored(w)[n]
    BY <1>1, <1>2 DEF Lost
  <1>3. CASE Stored(v)[n].harness # h
    <2>1. CASE Stored(w)[n] = [harness |-> h, uid |-> uid]
      <3>1. Stored(w)[n].harness = h
        BY <2>1
      <3> QED
        BY <1>1, <1>3, <3>1 DEF Lost
    <2>2. CASE Lost(w, n, h)
      BY <1>1, <1>3, <2>2 DEF Lost
    <2> QED
      BY <2>1, <2>2
  <1> QED
    BY <1>2, <1>3

LEMMA FollowsLost ==
    ASSUME NEW w, NEW v, Follows(w, v), NEW n, NEW h, NEW uid,
           w[1][n] = w[2][n] \/ w[1][n].harness # h,
           Stored(w)[n] = [harness |-> h, uid |-> uid] \/ Lost(w, n, h)
    PROVE  Stored(v)[n] = [harness |-> h, uid |-> uid] \/ Lost(v, n, h)
  BY DEF Follows, Lost

\* What is covered stays so in a step that leaves the harness and its worker alone,
\* takes nothing from it unseen and brings no event of it.
LEMMA KeptCovered ==
    ASSUME NEW h \in Harness, Covered(h), Due(h) => Due(h)',
           Stored(harnesses')[h] = Stored(harnesses)[h],
           \/ harnessWork'.stage = harnessWork.stage /\ harnessWork'.name = harnessWork.name
           \/ ~Working(h) /\ ~Working(h)',
           \A a \in Mine(h) : Still(accounts, accounts', a),
           scopeRoles[h].owner = OwnedBy(h, Stored(harnesses)[h]) => scopeRoles'[h] = scopeRoles[h],
           \A n \in Namespace : Still(cas, cas', n) \/ Stored(cas')[n].harness # h,
           LET n == Stored(harnesses)[h].namespace
               own == OwnedBy(h, Stored(harnesses)[h])
           IN  Stored(cas)[n] = own \/ Lost(cas, n, h) => Stored(cas')[n] = own \/ Lost(cas', n, h),
           Still(hooks, hooks', h)
    PROVE  Covered(h)'
  <1>1. Mine(h)' = Mine(h) /\ Mine(h) \subseteq Account
    BY DEF Mine, harnessesServiceAccount
  <1>2. ASSUME NEW stages \in SUBSET {"scope", "rbac", "ca", "hook", "prune"}, At(h, stages)
        PROVE  At(h, stages)'
    BY <1>2 DEF At, Working
  <1>3. ReadyCovered(h)'
    BY DEF Covered, ReadyCovered, Working
  <1>4. ScopeCovered(h)'
    <2>1. ASSUME NEW a \in Mine(h)
          PROVE  Due(h)' \/ At(h, {"scope"})' \/ Moved(accounts', a) \/ Stored(accounts')[a] \in {Absent, h}
      <3>1. Due(h) \/ At(h, {"scope"}) \/ Moved(accounts, a) \/ Stored(accounts)[a] \in {Absent, h}
        BY DEF Covered, ScopeCovered
      <3>2. Still(accounts, accounts', a)
        BY <1>1
      <3> QED
        BY <1>2, <3>1, <3>2 DEF Still
    <2> QED
      BY <1>1, <2>1 DEF ScopeCovered
  <1>5. RoleCovered(h)'
    <2>1. CASE \E a \in Mine(h) : Moved(accounts', a)
      BY <1>1, <2>1 DEF RoleCovered
    <2>2. CASE \A a \in Mine(h) : Stored(accounts')[a] = Stored(accounts)[a] /\ ~Moved(accounts, a)
      <3>1. Mine(h) \cap Exist(Stored(accounts')) = Mine(h) \cap Exist(Stored(accounts))
        BY <2>2 DEF Exist
      <3>2. WantedRole(h)' = WantedRole(h)
        BY <1>1, <3>1 DEF WantedRole, OwnedBy
      <3>3. Due(h) \/ At(h, {"scope", "rbac"}) \/ scopeRoles[h] = WantedRole(h)
        BY <2>2 DEF Covered, RoleCovered
      <3>4. scopeRoles[h] = WantedRole(h) => scopeRoles'[h] = WantedRole(h)
        BY DEF WantedRole
      <3> QED
        BY <1>2, <3>2, <3>3, <3>4 DEF RoleCovered
    <2> QED
      BY <1>1, <2>1, <2>2 DEF Still
  <1>6. CaCovered(h)'
    BY <1>2 DEF Covered, CaCovered, OwnedBy
  <1>7. PruneCovered(h)'
    <2>1. ASSUME NEW n \in Namespace
          PROVE  \/ Stored(harnesses)[h].inject /\ n = Stored(harnesses)[h].namespace
                 \/ Stored(cas')[n].harness # h
                 \/ Due(h)' \/ At(h, {"scope", "rbac", "ca", "hook", "prune"})' \/ Moved(cas', n)
      <3>1. \/ Stored(harnesses)[h].inject /\ n = Stored(harnesses)[h].namespace
            \/ Stored(cas)[n].harness # h
            \/ Due(h) \/ At(h, {"scope", "rbac", "ca", "hook", "prune"}) \/ Moved(cas, n)
        BY DEF Covered, PruneCovered
      <3> QED
        BY <1>2, <3>1 DEF Still
    <2> QED
      BY <2>1 DEF PruneCovered
  <1>8. HookCovered(h)'
    <2>1. WantedHook(h)' = WantedHook(h)
      BY DEF WantedHook, OwnedBy
    <2>2. \/ Due(h) \/ At(h, {"scope", "rbac", "ca", "hook"})
          \/ At(h, {"prune"}) /\ ~Stored(harnesses)[h].inject
          \/ Moved(hooks, h) \/ Stored(hooks)[h] = WantedHook(h)
      BY DEF Covered, HookCovered
    <2> QED
      BY <1>2, <2>1, <2>2 DEF HookCovered, Still
  <1> QED
    BY <1>3, <1>4, <1>5, <1>6, <1>7, <1>8 DEF Covered

\* Writes for others, and by others.
LEMMA ExtendsCovered ==
    ASSUME HarnessTyped, NEW h \in Harness, Covered(h), Due(h) => Due(h)',
           Stored(harnesses')[h] = Stored(harnesses)[h], Stored(harnesses)[h].namespace \in Namespace,
           \/ harnessWork'.stage = harnessWork.stage /\ harnessWork'.name = harnessWork.name
           \/ ~Working(h) /\ ~Working(h)',
           Extends(accounts, accounts'), Extends(cas, cas'), Extends(hooks, hooks'),
           scopeRoles[h].owner = OwnedBy(h, Stored(harnesses)[h]) => scopeRoles'[h] = scopeRoles[h],
           \A n \in Namespace : Stored(cas')[n] = Stored(cas)[n] \/ Stored(cas')[n].harness # h
    PROVE  Covered(h)'
  <1>1. \A a \in Mine(h) : Still(accounts, accounts', a)
    BY ExtendsStill DEF HarnessTyped
  <1>2. \A n \in Namespace : Still(cas, cas', n)
    BY ExtendsStill DEF HarnessTyped
  <1>3. Still(hooks, hooks', h)
    BY ExtendsStill DEF HarnessTyped
  <1> DEFINE n == Stored(harnesses)[h].namespace
             uid == Stored(harnesses)[h].uid
  <1>4. Stored(cas)[n] = [harness |-> h, uid |-> uid] \/ Lost(cas, n, h)
        => Stored(cas')[n] = [harness |-> h, uid |-> uid] \/ Lost(cas', n, h)
    BY ExtendsLost DEF HarnessTyped
  <1>5. OwnedBy(h, Stored(harnesses)[h]) = [harness |-> h, uid |-> uid]
    BY DEF OwnedBy
  <1> QED
    BY <1>1, <1>2, <1>3, <1>4, <1>5, KeptCovered

LEMMA SameExtendsAll ==
    ASSUME HarnessTyped
    PROVE  /\ accounts' = accounts => Extends(accounts, accounts')
           /\ cas' = cas => Extends(cas, cas')
           /\ hooks' = hooks => Extends(hooks, hooks')
  BY SameExtends DEF HarnessTyped

\* A step of the worker for one harness does not uncover another one.
LEMMA OthersCovered ==
    ASSUME HarnessTyped, HarnessProgress, NEW h \in Harness, Covered(h),
           Stored(harnesses)[h].namespace \in Namespace, Stored(harnesses)[h].live,
           harnessWork.stage # "idle", h # harnessWork.name
    PROVE  Covered(h)' /\ Stored(harnesses')[h] = Stored(harnesses)[h]
  <1> DEFINE w == harnessWork.name
  <1>1. ~Working(h)
    BY DEF Working
  <1>2. ASSUME NEW stage, Advances(stage) PROVE ~Working(h)' /\ harnessQueue' = harnessQueue
    BY <1>2 DEF Working, Advances
  <1>3. ASSUME UNCHANGED <<harnesses, harnessQueue>> PROVE Due(h) => Due(h)'
    BY <1>3 DEF Due
  <1>4. h # None /\ w \in Harness
    BY PlaceholderAssumption DEF HarnessTyped
  <1>5. CASE ensureServiceAccountScope
    <2>1. /\ Advances("rbac") /\ Extends(accounts, accounts') /\ UNCHANGED <<harnesses, scopeRoles, cas, hooks>>
      BY <1>5, ScopeEffect
    <2> QED
      BY <1>1, <1>2, <1>3, <2>1, SameExtendsAll, ExtendsCovered
  <1>6. CASE ensureScopedListRBAC
    <2>1. /\ \E stage \in {"ca", "prune"} : Advances(stage)
          /\ scopeRoles'[h] = scopeRoles[h] /\ UNCHANGED <<accounts, harnesses, cas, hooks>>
      BY <1>6, RoleEffect
    <2> QED
      BY <1>1, <1>2, <1>3, <2>1, SameExtendsAll, ExtendsCovered
  <1>7. CASE ensureProxyCACertificate
    <2>1. /\ Advances("hook") /\ UNCHANGED <<accounts, harnesses, scopeRoles, hooks>> /\ Extends(cas, cas')
          /\ \A n \in Namespace : Stored(cas')[n] = IF n = Source.namespace THEN OwnedBy(w, Source)
                                                    ELSE Stored(cas)[n]
      BY <1>7, CaEffect
    <2>2. OwnedBy(w, Source).harness # h
      BY DEF OwnedBy
    <2>3. \A n \in Namespace : Stored(cas')[n] = Stored(cas)[n] \/ Stored(cas')[n].harness # h
      BY <2>1, <2>2
    <2> QED
      BY <1>1, <1>2, <1>3, <2>1, <2>3, SameExtendsAll, ExtendsCovered
  <1>8. CASE ensureProxyInjectionWebhook
    <2>1. /\ Advances("prune") /\ UNCHANGED <<accounts, harnesses, scopeRoles, cas>> /\ Extends(hooks, hooks')
      BY <1>8, HookEffect
    <2> QED
      BY <1>1, <1>2, <1>3, <2>1, SameExtendsAll, ExtendsCovered
  <1>9. CASE pruneProxyConfiguration
    <2>1. /\ Advances("flush") /\ UNCHANGED <<accounts, harnesses, scopeRoles>>
          /\ Extends(cas, cas') /\ Extends(hooks, hooks')
          /\ \A n \in Namespace : Stored(cas')[n] = NoOwner \/ Stored(cas')[n] = Stored(cas)[n]
      BY <1>9, PruneEffect
    <2>2. NoOwner.harness # h
      BY <1>4 DEF NoOwner
    <2>3. \A n \in Namespace : Stored(cas')[n] = Stored(cas)[n] \/ Stored(cas')[n].harness # h
      BY <2>1, <2>2
    <2> QED
      BY <1>1, <1>2, <1>3, <2>1, <2>3, SameExtendsAll, ExtendsCovered
  <1>10. CASE flushStatus
    <2>1. /\ harnessWork' = HarnessIdle /\ harnessQueue \subseteq harnessQueue'
          /\ UNCHANGED <<accounts, scopeRoles, cas, hooks>> /\ Extends(harnesses, harnesses')
          /\ Stored(harnesses')[h] = Stored(harnesses)[h]
      BY <1>10, FlushEffect
    <2>2. ~Working(h)'
      BY <2>1, NothingTyped DEF Working
    <2>3. Due(h) => Due(h)'
      BY <2>1 DEF Due, Moved, Extends
    <2> QED
      BY <1>1, <2>1, <2>2, <2>3, SameExtendsAll, ExtendsCovered
  <1>11. ~HarnessGet
    BY GetEffect
  <1> QED
    BY <1>5, <1>6, <1>7, <1>8, <1>9, <1>10, <1>11 DEF HarnessProgress

\* The steps of the worker for the harness itself, from the state that is stored.
LEMMA ScopeCovers ==
    ASSUME HarnessTyped, ensureServiceAccountScope, NEW h \in Harness, h = harnessWork.name,
           Source = Stored(harnesses)[h]
    PROVE  Covered(h)'
  <1> DEFINE wrong == {a \in harnessedServiceAccounts(Source) : Cached(accounts)[a] # h}
  <1>1. /\ Advances("rbac") /\ Extends(accounts, accounts') /\ UNCHANGED <<harnesses, scopeRoles, cas, hooks>>
        /\ \A a \in Account : Stored(accounts')[a] =
              IF a \in wrong /\ Stored(accounts)[a] # Absent THEN h ELSE Stored(accounts)[a]
    BY ScopeEffect
  <1>2. harnessWork'.stage = "rbac" /\ harnessWork'.name = h
    BY <1>1 DEF Advances
  <1>3. Mine(h)' = Mine(h)
    BY <1>1 DEF Mine
  <1>4. ASSUME NEW a \in Mine(h) PROVE Moved(accounts', a) \/ Stored(accounts')[a] \in {Absent, h}
    <2>1. a \in Account
      BY DEF Mine
    <2>2. CASE a \in wrong
      BY <1>1, <2>1, <2>2
    <2>3. CASE a \notin wrong
      <3>1. Cached(accounts)[a] \in {Absent, h}
        BY <2>1, <2>3 DEF harnessedServiceAccounts, Exist, Mine
      <3>2. Stored(accounts')[a] = Stored(accounts)[a] /\ Cached(accounts') = Cached(accounts)
        BY <1>1, <2>1, <2>3 DEF Extends
      <3>3. CASE Stored(accounts)[a] = Cached(accounts)[a]
        BY <3>1, <3>2, <3>3
      <3>4. CASE Stored(accounts)[a] # Cached(accounts)[a]
        BY <3>2, <3>4, CachedDiffers, ScopeEffect
      <3> QED
        BY <3>3, <3>4
    <2> QED
      BY <2>2, <2>3
  <1>5. ScopeCovered(h)'
    BY <1>3, <1>4 DEF ScopeCovered
  <1> QED
    BY <1>2, <1>5 DEF Covered, ReadyCovered, Working, RoleCovered, CaCovered, PruneCovered, HookCovered, At

LEMMA RoleCovers ==
    ASSUME HarnessTyped, ensureScopedListRBAC, NEW h \in Harness, h = harnessWork.name,
           Source = Stored(harnesses)[h], Covered(h)
    PROVE  Covered(h)'
  <1>1. /\ Advances(IF Source.inject THEN "ca" ELSE "prune") /\ UNCHANGED <<accounts, harnesses, cas, hooks>>
        /\ harnessWork.stage = "rbac"
        /\ scopeRoles'[h] = [owner |-> OwnedBy(h, Source), subjects |-> harnessedServiceAccounts(Source)]
    BY RoleEffect
  <1>2. harnessWork'.stage = (IF Source.inject THEN "ca" ELSE "prune") /\ harnessWork'.name = h
        /\ harnessQueue' = harnessQueue
    BY <1>1 DEF Advances
  <1>3. Mine(h)' = Mine(h) /\ (Due(h) => Due(h)')
    BY <1>1, <1>2 DEF Mine, Due
  <1>4. ScopeCovered(h)'
    BY <1>1, <1>3 DEF Covered, ScopeCovered, At
  <1>5. RoleCovered(h)'
    <2>1. CASE \E a \in Mine(h) : Cached(accounts)[a] # Stored(accounts)[a]
      <3>1. \E a \in Mine(h) : Moved(accounts, a)
        BY <2>1, CachedDiffers DEF HarnessTyped
      <3> QED
        BY <1>1, <1>3, <3>1 DEF RoleCovered
    <2>2. CASE \A a \in Mine(h) : Cached(accounts)[a] = Stored(accounts)[a]
      <3>1. harnessedServiceAccounts(Source) = Mine(h) \cap Exist(Stored(accounts))
        BY <2>2 DEF harnessedServiceAccounts, Mine, Exist
      <3>2. scopeRoles'[h] = WantedRole(h)
        BY <1>1, <3>1 DEF WantedRole
      <3>3. WantedRole(h)' = WantedRole(h)
        BY <1>1, <1>3 DEF WantedRole, OwnedBy
      <3> QED
        BY <3>2, <3>3 DEF RoleCovered
    <2> QED
      BY <2>1, <2>2
  <1>6. CASE Source.inject
    <2>1. CaCovered(h)' /\ PruneCovered(h)' /\ HookCovered(h)'
      BY <1>2, <1>6 DEF CaCovered, PruneCovered, HookCovered, At
    <2> QED
      BY <1>2, <1>4, <1>5, <1>6, <2>1 DEF Covered, ReadyCovered, Working
  <1>7. CASE ~Source.inject
    <2>1. CaCovered(h)' /\ PruneCovered(h)' /\ HookCovered(h)'
      BY <1>1, <1>2, <1>7 DEF CaCovered, PruneCovered, HookCovered, At
    <2> QED
      BY <1>2, <1>4, <1>5, <1>7, <2>1 DEF Covered, ReadyCovered, Working
  <1> QED
    BY <1>6, <1>7

\* Once the role is made, nothing of the accounts is left to the worker.
LEMMA AccountsCovered ==
    ASSUME NEW h, Covered(h), UNCHANGED <<accounts, harnesses, scopeRoles>>, Due(h) => Due(h)',
           harnessWork.stage \notin {"scope", "rbac"}
    PROVE  ScopeCovered(h)' /\ RoleCovered(h)'
  <1>1. Mine(h)' = Mine(h) /\ WantedRole(h)' = WantedRole(h)
    BY DEF Mine, WantedRole, OwnedBy
  <1> QED
    BY <1>1 DEF Covered, ScopeCovered, RoleCovered, At

LEMMA CaCovers ==
    ASSUME HarnessTyped, ensureProxyCACertificate, NEW h \in Harness, h = harnessWork.name,
           Source = Stored(harnesses)[h], Source.namespace \in Namespace, Covered(h)
    PROVE  Covered(h)'
  <1>1. /\ Advances("hook") /\ UNCHANGED <<accounts, harnesses, scopeRoles, hooks>> /\ harnessWork.stage = "ca"
        /\ Stored(cas')[Source.namespace] = OwnedBy(h, Source)
    BY CaEffect
  <1>2. harnessWork'.stage = "hook" /\ harnessWork'.name = h /\ harnessQueue' = harnessQueue
    BY <1>1 DEF Advances
  <1>3. Due(h) => Due(h)'
    BY <1>1, <1>2 DEF Due
  <1>4. ScopeCovered(h)' /\ RoleCovered(h)'
    BY <1>1, <1>3, AccountsCovered
  <1>5. CaCovered(h)'
    BY <1>1 DEF CaCovered, OwnedBy
  <1> QED
    BY <1>2, <1>4, <1>5 DEF Covered, ReadyCovered, Working, PruneCovered, HookCovered, At

LEMMA HookCovers ==
    ASSUME HarnessTyped, ensureProxyInjectionWebhook, NEW h \in Harness, h = harnessWork.name,
           Source = Stored(harnesses)[h], Covered(h)
    PROVE  Covered(h)'
  <1>1. /\ Advances("prune") /\ UNCHANGED <<accounts, harnesses, scopeRoles, cas>> /\ harnessWork.stage = "hook"
        /\ Stored(hooks')[h] = [owner |-> OwnedBy(h, Source), namespace |-> Source.namespace]
    BY HookEffect
  <1>2. harnessWork'.stage = "prune" /\ harnessWork'.name = h /\ harnessQueue' = harnessQueue
    BY <1>1 DEF Advances
  <1>3. Due(h) => Due(h)'
    BY <1>1, <1>2 DEF Due
  <1>4. ScopeCovered(h)' /\ RoleCovered(h)'
    BY <1>1, <1>3, AccountsCovered
  <1>5. CaCovered(h)'
    BY <1>1, <1>3 DEF Covered, CaCovered, At, OwnedBy
  <1>6. HookCovered(h)'
    <2>1. CASE Source.inject
      <3>1. Stored(hooks')[h] = WantedHook(h)
        BY <1>1, <2>1 DEF WantedHook
      <3>2. WantedHook(h)' = WantedHook(h)
        BY <1>1 DEF WantedHook, OwnedBy
      <3> QED
        BY <3>1, <3>2 DEF HookCovered
    <2>2. CASE ~Source.inject
      BY <1>1, <1>2, <2>2 DEF HookCovered, At
    <2> QED
      BY <2>1, <2>2
  <1> QED
    BY <1>2, <1>4, <1>5, <1>6 DEF Covered, ReadyCovered, Working, PruneCovered, At

LEMMA PruneCovers ==
    ASSUME HarnessTyped, pruneProxyConfiguration, NEW h \in Harness, h = harnessWork.name,
           Source = Stored(harnesses)[h], Source.namespace \in Namespace, Covered(h)
    PROVE  Covered(h)'
  <1> DEFINE keep == IF Source.inject THEN Source.namespace ELSE None
  <1>1. /\ Advances("flush") /\ UNCHANGED <<accounts, harnesses, scopeRoles>> /\ harnessWork.stage = "prune"
        /\ Extends(cas, cas') /\ Extends(hooks, hooks')
        /\ \A n \in Namespace : Stored(cas')[n] =
              IF n # keep /\ Cached(cas)[n].harness = h THEN NoOwner ELSE Stored(cas)[n]
        /\ Stored(hooks')[h] = IF ~Source.inject /\ Cached(hooks)[h] # NoHook
                               THEN NoHook ELSE Stored(hooks)[h]
    BY PruneEffect
  <1>2. harnessWork'.stage = "flush" /\ harnessWork'.name = h /\ harnessQueue' = harnessQueue
    BY <1>1 DEF Advances
  <1>3. Due(h) => Due(h)'
    BY <1>1, <1>2 DEF Due
  <1>4. ScopeCovered(h)' /\ RoleCovered(h)'
    BY <1>1, <1>3, AccountsCovered
  <1>5. CaCovered(h)'
    <2> DEFINE n == Source.namespace
               own == [harness |-> h, uid |-> Source.uid]
    <2>1. OwnedBy(h, Source) = own
      BY DEF OwnedBy
    <2>2. ASSUME Source.inject, ~Due(h) PROVE Stored(cas')[n] = own \/ Lost(cas', n, h)
      <3>1. Stored(cas)[n] = own \/ Lost(cas, n, h)
        BY <1>1, <2>1, <2>2 DEF Covered, CaCovered, At
      <3>2. Stored(cas')[n] = Stored(cas)[n]
        BY <1>1, <2>2
      <3> QED
        BY <1>1, <3>1, <3>2, ExtendsLost DEF HarnessTyped
    <2> QED
      BY <1>1, <1>3, <2>1, <2>2 DEF CaCovered, OwnedBy
  <1>6. PruneCovered(h)'
    <2>1. ASSUME NEW n \in Namespace, ~(Source.inject /\ n = Source.namespace)
          PROVE  Stored(cas')[n].harness # h \/ Moved(cas', n)
      <3>1. n # keep
        BY <2>1, PlaceholderAssumption
      <3>2. CASE Cached(cas)[n].harness = h
        <4>1. Stored(cas')[n] = NoOwner
          BY <1>1, <3>1, <3>2
        <4> QED
          BY <4>1, PlaceholderAssumption DEF NoOwner
      <3>3. CASE Cached(cas)[n].harness # h
        <4>1. Cached(cas') = Cached(cas)
          BY <1>1 DEF Extends
        <4>2. cas' \in Seq(CaState) /\ cas' # <<>>
          BY PruneEffect
        <4>3. CASE Stored(cas')[n].harness = h
          BY <3>3, <4>1, <4>2, <4>3, CachedDiffers
        <4> QED
          BY <4>3
      <3> QED
        BY <3>2, <3>3
    <2> QED
      BY <1>1, <2>1 DEF PruneCovered
  <1>7. HookCovered(h)'
    <2>1. WantedHook(h)' = WantedHook(h)
      BY <1>1 DEF WantedHook, OwnedBy
    <2>2. CASE Source.inject
      <3>1. Due(h) \/ Moved(hooks, h) \/ Stored(hooks)[h] = WantedHook(h)
        BY <1>1, <2>2 DEF Covered, HookCovered, At
      <3>2. Still(hooks, hooks', h)
        BY <1>1, ExtendsStill DEF HarnessTyped
      <3> QED
        BY <1>3, <2>1, <3>1, <3>2 DEF HookCovered, Still
    <2>3. CASE ~Source.inject
      <3>1. WantedHook(h) = NoHook
        BY <2>3 DEF WantedHook
      <3>2. CASE Stored(hooks')[h] = NoHook
        BY <2>1, <3>1, <3>2 DEF HookCovered
      <3>3. CASE Stored(hooks')[h] # NoHook
        <4>1. Cached(hooks')[h] = NoHook
          BY <1>1, <2>3, <3>3 DEF Extends
        <4>2. hooks' \in Seq(HookState) /\ hooks' # <<>>
          BY PruneEffect
        <4>3. Moved(hooks', h)
          BY <3>3, <4>1, <4>2, CachedDiffers
        <4> QED
          BY <4>3 DEF HookCovered
      <3> QED
        BY <3>2, <3>3
    <2> QED
      BY <2>2, <2>3
  <1> QED
    BY <1>2, <1>4, <1>5, <1>6, <1>7 DEF Covered, ReadyCovered, Working

\* The status write is an event of the harness, unless it says nothing new.
LEMMA FlushCovers ==
    ASSUME HarnessTyped, flushStatus, NEW h \in Harness, h = harnessWork.name,
           WorkCurrent, FlushOk, Covered(h)
    PROVE  Covered(h)'
  <1>1. /\ harnessWork.stage = "flush" /\ harnessWork' = HarnessIdle /\ harnessQueue \subseteq harnessQueue'
        /\ UNCHANGED <<accounts, scopeRoles, cas, hooks>> /\ Extends(harnesses, harnesses')
        /\ Stored(harnesses')[h] = IF Stored(harnesses)[h] = Source
                                   THEN Concluded(Source) ELSE Stored(harnesses)[h]
    BY FlushEffect
  <1>2. CASE Stored(harnesses')[h] # Stored(harnesses)[h]
    <2>1. Due(h)'
      BY <1>1, <1>2, StoredDiffers DEF Due, HarnessTyped
    <2> QED
      BY <2>1, DueCovers
  <1>3. CASE Stored(harnesses')[h] = Stored(harnesses)[h]
    <2>1. Due(h) => Due(h)'
      BY <1>1, <1>3 DEF Due, Moved, Extends
    <2>2. CASE Stored(harnesses)[h] # Source
      <3>1. Due(h)
        BY <1>1, <2>2 DEF WorkCurrent
      <3> QED
        BY <2>1, <3>1, DueCovers
    <2>3. CASE Stored(harnesses)[h] = Source
      <3>1. Source \in HarnessObject /\ Concluded(Source) = Source /\ harnessWork.ok
        BY <1>1, <1>3, <2>3, HarnessEnds DEF FlushOk
      <3>2. Source.ready = Source.generation
        BY <3>1, ConcludedSpec
      <3>3. ReadyCovered(h)'
        BY <1>3, <2>3, <3>2 DEF ReadyCovered
      <3>4. Mine(h)' = Mine(h) /\ WantedRole(h)' = WantedRole(h) /\ WantedHook(h)' = WantedHook(h)
        BY <1>1, <1>3 DEF Mine, WantedRole, WantedHook, OwnedBy
      <3>5. ScopeCovered(h)' /\ RoleCovered(h)'
        BY <1>1, <2>1, <3>4 DEF Covered, ScopeCovered, RoleCovered, At
      <3>6. CaCovered(h)' /\ PruneCovered(h)'
        BY <1>1, <1>3, <2>1 DEF Covered, CaCovered, PruneCovered, At, OwnedBy
      <3>7. HookCovered(h)'
        BY <1>1, <2>1, <3>4 DEF Covered, HookCovered, At
      <3> QED
        BY <3>3, <3>5, <3>6, <3>7 DEF Covered
    <2> QED
      BY <2>2, <2>3
  <1> QED
    BY <1>2, <1>3

LEMMA RestGet ==
    ASSUME HarnessTyped, Ordered, WorkCurrent, FlushOk, AllCovered, HarnessGet
    PROVE  WorkCurrent' /\ FlushOk' /\ AllCovered'
  <1>1. /\ harnessWork.stage = "idle" /\ UNCHANGED <<accounts, harnesses, scopeRoles, cas, hooks>>
    BY GetEffect
  <1>2. PICK h \in harnessQueue :
           /\ harnessQueue' = harnessQueue \ {h}
           /\ Cached(harnesses)[h].live =>
                 /\ harnessWork'.stage = "scope" /\ harnessWork'.name = h
                 /\ harnessWork'.source = Cached(harnesses)[h]
           /\ ~Cached(harnesses)[h].live => harnessWork' = HarnessIdle
    BY GetEffect
  <1>3. h \in Harness /\ HarnessIdle.stage = "idle"
    BY NothingTyped DEF HarnessTyped
  <1>4. Cached(harnesses)[h] = Stored(harnesses)[h] \/ Due(h)'
    BY <1>1, CachedDiffers DEF HarnessTyped, Due
  <1>5. WorkCurrent' /\ FlushOk'
    BY <1>1, <1>2, <1>3, <1>4 DEF WorkCurrent, FlushOk, Source
  <1>6. ASSUME NEW g \in Harness, Stored(harnesses)[g].live PROVE Covered(g)'
    <2>1. CASE Due(g)'
      BY <2>1, DueCovers
    <2>2. CASE ~Due(g)' /\ g = h
      <3>1. harnessWork'.stage = "scope" /\ harnessWork'.name = g
        BY <1>2, <1>4, <1>6, <2>2
      <3> QED
        BY <3>1 DEF Covered, ReadyCovered, Working, ScopeCovered, RoleCovered, CaCovered,
                    PruneCovered, HookCovered, At
    <2>3. CASE ~Due(g)' /\ g # h
      <3>1. Due(g) => Due(g)'
        BY <1>1, <1>2, <2>3 DEF Due
      <3>2. ~Working(g) /\ ~Working(g)'
        BY <1>1, <1>2, <1>3, <2>3 DEF Working
      <3>3. Covered(g) /\ Stored(harnesses)[g].namespace \in Namespace
        BY <1>6, OrderedStates DEF AllCovered, Ordered, Born
      <3> QED
        BY <1>1, <3>1, <3>2, <3>3, SameExtendsAll, ExtendsCovered
    <2> QED
      BY <2>1, <2>2, <2>3
  <1> QED
    BY <1>1, <1>5, <1>6 DEF AllCovered

LEMMA RestWorks ==
    ASSUME HarnessTyped, ReadyInv, WorkCurrent, FlushOk, AllCovered, HarnessProgress, ~HarnessGet
    PROVE  WorkCurrent' /\ FlushOk' /\ AllCovered'
  <1>7. harnessWork.stage # "idle" /\ harnessWork.name \in Harness
    BY ScopeEffect, RoleEffect, CaEffect, HookEffect, PruneEffect, FlushEffect DEF HarnessProgress
  <1>8. PICK w \in Harness : w = harnessWork.name
    BY <1>7
  <1>1. harnessWork.stage # "idle" /\ w \in Harness /\ w = harnessWork.name
    BY <1>7, <1>8
  <1>2. Ordered /\ Source.live /\ Born(Source)
    BY <1>1 DEF ReadyInv, Sourced
  <1>3. \A g \in Harness : Stored(harnesses)[g].live => Stored(harnesses)[g].namespace \in Namespace
    BY <1>2, OrderedStates DEF Ordered, Born
  <1>4. ASSUME NEW g \in Harness, g # w, Stored(harnesses')[g].live PROVE Covered(g)'
    <2>1. Stored(harnesses')[g] = Stored(harnesses)[g]
      BY <1>1, <1>4, ScopeEffect, RoleEffect, CaEffect, HookEffect, PruneEffect, FlushEffect DEF HarnessProgress
    <2> QED
      BY <1>1, <1>3, <1>4, <2>1, OthersCovered DEF AllCovered
  <1>5. CASE flushStatus
    <2>1. /\ harnessWork' = HarnessIdle
          /\ Stored(harnesses')[w] = IF Stored(harnesses)[w] = Source
                                     THEN Concluded(Source) ELSE Stored(harnesses)[w]
      BY <1>1, <1>5, FlushEffect
    <2>2. WorkCurrent' /\ FlushOk'
      BY <2>1, NothingTyped DEF WorkCurrent, FlushOk
    <2>3. Stored(harnesses')[w].live => Stored(harnesses)[w].live
      BY <1>2, <2>1
    <2>4. Stored(harnesses')[w].live => Covered(w)'
      BY <1>1, <1>5, <2>3, FlushCovers DEF AllCovered
    <2> QED
      BY <1>4, <2>2, <2>4 DEF AllCovered
  <1>6. CASE ~flushStatus
    <2>1. /\ harnesses' = harnesses /\ harnessQueue' = harnessQueue
          /\ harnessWork'.stage # "idle" /\ harnessWork'.name = w /\ Source' = Source
          /\ harnessWork'.stage = "flush" => harnessWork'.ok = TRUE /\ harnessWork'.err = FALSE
      BY <1>1, <1>6, ScopeEffect, RoleEffect, CaEffect, HookEffect, PruneEffect
      DEF HarnessProgress, Advances, Source
    <2>2. Due(w)' <=> Due(w)
      BY <2>1 DEF Due
    <2>3. WorkCurrent' /\ FlushOk'
      BY <1>1, <2>1, <2>2 DEF WorkCurrent, FlushOk
    <2>4. ASSUME Stored(harnesses)[w].live PROVE Covered(w)'
      <3>1. CASE Due(w)
        BY <2>2, <3>1, DueCovers
      <3>2. CASE ~Due(w)
        <4>1. /\ Source = Stored(harnesses)[w] /\ Source.namespace \in Namespace /\ Covered(w)
          BY <1>1, <1>2, <2>4, <3>2 DEF WorkCurrent, Born, AllCovered
        <4> QED
          BY <1>1, <1>6, <4>1, ScopeCovers, RoleCovers, CaCovers, HookCovers, PruneCovers
          DEF HarnessProgress
      <3> QED
        BY <3>1, <3>2
    <2> QED
      BY <1>4, <2>1, <2>3, <2>4 DEF AllCovered
  <1> QED
    BY <1>5, <1>6

\* A step that does not touch the worker and brings or makes no event of a harness
\* keeps its work current.
LEMMA CurrentStays ==
    ASSUME WorkCurrent, FlushOk, UNCHANGED harnessWork,
           \A h \in {harnessWork.name} :
              Due(h)' \/ (~Due(h) /\ Stored(harnesses')[h] = Stored(harnesses)[h])
    PROVE  WorkCurrent' /\ FlushOk'
  BY DEF WorkCurrent, FlushOk, Source

LEMMA RestHarnessDelivered ==
    ASSUME HarnessTyped, Ordered, WorkCurrent, FlushOk, AllCovered, WatchHarnesses
    PROVE  WorkCurrent' /\ FlushOk' /\ AllCovered'
  <1>1. /\ Follows(harnesses, harnesses') /\ harnessQueue \subseteq harnessQueue'
        /\ \A h \in Harness : harnesses[1][h] # harnesses[2][h] => h \in harnessQueue'
        /\ UNCHANGED <<accounts, scopeRoles, cas, hooks, harnessWork>>
    BY WatchEffect
  <1>2. Stored(harnesses') = Stored(harnesses)
    BY <1>1 DEF Follows
  <1>3. ASSUME NEW h \in Harness, Due(h) PROVE Due(h)'
    <2>1. CASE h \in harnessQueue'
      BY <2>1 DEF Due
    <2>2. CASE h \notin harnessQueue'
      <3>1. harnesses[1][h] = harnesses[2][h]
        BY <1>1, <2>2
      <3>2. Still(harnesses, harnesses', h)
        BY <1>1, <3>1, FollowsStill
      <3>3. Moved(harnesses, h)
        BY <1>1, <1>3, <2>2 DEF Due
      <3> QED
        BY <3>2, <3>3 DEF Still, Due
    <2> QED
      BY <2>1, <2>2
  <1>4. WorkCurrent' /\ FlushOk'
    <2>1. CASE harnessWork.stage = "idle"
      BY <1>1, <2>1 DEF WorkCurrent, FlushOk
    <2>2. CASE harnessWork.stage # "idle"
      BY <1>1, <1>2, <1>3, <2>2, CurrentStays DEF HarnessTyped
    <2> QED
      BY <2>1, <2>2
  <1>5. ASSUME NEW h \in Harness, Stored(harnesses)[h].live PROVE Covered(h)'
    <2>1. Covered(h) /\ Stored(harnesses)[h].namespace \in Namespace
      BY <1>5, OrderedStates DEF AllCovered, Ordered, Born
    <2> QED
      BY <1>1, <1>2, <1>3, <2>1, SameExtendsAll, ExtendsCovered
  <1> QED
    BY <1>2, <1>4, <1>5 DEF AllCovered

\* Steps that leave the harnesses and the worker alone.
LEMMA RestCurrent ==
    ASSUME WorkCurrent, FlushOk, UNCHANGED <<harnesses, harnessWork>>, harnessQueue \subseteq harnessQueue'
    PROVE  /\ WorkCurrent' /\ FlushOk'
           /\ \A h : Due(h) => Due(h)'
  <1>1. \A h : Due(h) => Due(h)'
    BY DEF Due
  <1> QED
    BY <1>1 DEF WorkCurrent, FlushOk, Source

LEMMA RestCaDelivered ==
    ASSUME HarnessTyped, WorkCurrent, FlushOk, AllCovered, WatchCAs,
           \A h \in Harness : Stored(harnesses)[h].live => Stored(harnesses)[h].namespace \in Namespace
    PROVE  WorkCurrent' /\ FlushOk' /\ AllCovered'
  <1>1. /\ Follows(cas, cas') /\ harnessQueue \subseteq harnessQueue'
        /\ \A n \in Namespace : cas[1][n] # cas[2][n] =>
              {cas[1][n].harness, cas[2][n].harness} \ {None} \subseteq harnessQueue'
        /\ UNCHANGED <<accounts, harnesses, scopeRoles, hooks, harnessWork>>
    BY WatchEffect
  <1>2. WorkCurrent' /\ FlushOk' /\ \A h : Due(h) => Due(h)'
    BY <1>1, RestCurrent
  <1>3. ASSUME NEW h \in Harness, Stored(harnesses)[h].live, ~Due(h)' PROVE Covered(h)'
    <2>1. h \notin harnessQueue' /\ h # None
      BY <1>3, PlaceholderAssumption DEF Due
    <2>2. \A n \in Namespace : cas[1][n] = cas[2][n] \/ (cas[1][n].harness # h /\ cas[2][n].harness # h)
      BY <1>1, <2>1
    <2>3. ASSUME NEW n \in Namespace PROVE Still(cas, cas', n) \/ Stored(cas')[n].harness # h
      <3>1. CASE cas[1][n] = cas[2][n]
        BY <1>1, <3>1, FollowsStill
      <3>2. CASE cas[2][n].harness # h
        <4>1. CASE Moved(cas', n)
          BY <4>1 DEF Still
        <4>2. CASE ~Moved(cas', n)
          BY <1>1, <3>2, <4>2 DEF Follows, Moved
        <4> QED
          BY <4>1, <4>2
      <3> QED
        BY <2>2, <3>1, <3>2
    <2> DEFINE n == Stored(harnesses)[h].namespace
               uid == Stored(harnesses)[h].uid
    <2>4. n \in Namespace /\ Covered(h)
      BY <1>3 DEF AllCovered
    <2>5. cas[1][n] = cas[2][n] \/ cas[1][n].harness # h
      BY <2>2, <2>4
    <2>6. Stored(cas)[n] = [harness |-> h, uid |-> uid] \/ Lost(cas, n, h)
          => Stored(cas')[n] = [harness |-> h, uid |-> uid] \/ Lost(cas', n, h)
      BY <1>1, <2>5, FollowsLost
    <2>7. OwnedBy(h, Stored(harnesses)[h]) = [harness |-> h, uid |-> uid]
      BY DEF OwnedBy
    <2>8. Still(hooks, hooks', h) /\ \A a \in Mine(h) : Still(accounts, accounts', a)
      BY <1>1 DEF Still
    <2> QED
      BY <1>1, <1>2, <2>3, <2>4, <2>6, <2>7, <2>8, KeptCovered
  <1> QED
    BY <1>1, <1>2, <1>3, DueCovers DEF AllCovered

LEMMA RestHookDelivered ==
    ASSUME HarnessTyped, WorkCurrent, FlushOk, AllCovered, WatchHooks
    PROVE  WorkCurrent' /\ FlushOk' /\ AllCovered'
  <1>1. /\ Follows(hooks, hooks') /\ harnessQueue \subseteq harnessQueue'
        /\ \A h \in Harness : hooks[1][h] # hooks[2][h] => h \in harnessQueue'
        /\ UNCHANGED <<accounts, harnesses, scopeRoles, cas, harnessWork>>
    BY WatchEffect
  <1>2. WorkCurrent' /\ FlushOk' /\ \A h : Due(h) => Due(h)'
    BY <1>1, RestCurrent
  <1>3. ASSUME NEW h \in Harness, Stored(harnesses)[h].live, ~Due(h)' PROVE Covered(h)'
    <2>1. hooks[1][h] = hooks[2][h]
      BY <1>1, <1>3 DEF Due
    <2>2. Still(hooks, hooks', h)
      BY <1>1, <2>1, FollowsStill
    <2>3. /\ \A a \in Mine(h) : Still(accounts, accounts', a)
          /\ \A n \in Namespace : Still(cas, cas', n)
      BY <1>1 DEF Still
    <2>4. Covered(h)
      BY <1>3 DEF AllCovered
    <2> QED
      BY <1>1, <1>2, <2>2, <2>3, <2>4, KeptCovered
  <1> QED
    BY <1>1, <1>2, <1>3, DueCovers DEF AllCovered

LEMMA RestAccountDelivered ==
    ASSUME HarnessTyped, AccessTyped, WorkCurrent, FlushOk, AllCovered, DeliverAccount
    PROVE  WorkCurrent' /\ FlushOk' /\ AllCovered'
  <1>1. /\ Follows(accounts, accounts') /\ harnessQueue \subseteq harnessQueue'
        /\ \A a \in Account : accounts[1][a] # accounts[2][a] =>
              harnessesForServiceAccount(a) \subseteq harnessQueue'
        /\ UNCHANGED <<harnesses, scopeRoles, cas, hooks, harnessWork>>
    BY AccountEffect
  <1>2. WorkCurrent' /\ FlushOk' /\ \A h : Due(h) => Due(h)'
    BY <1>1, RestCurrent
  <1>3. ASSUME NEW h \in Harness, Stored(harnesses)[h].live, ~Due(h)' PROVE Covered(h)'
    <2>1. Cached(harnesses)[h] = Stored(harnesses)[h]
      BY <1>1, <1>3, CachedDiffers DEF Due, HarnessTyped
    <2>2. Covered(h) /\ Mine(h) \subseteq Account
      BY <1>3 DEF AllCovered, Mine
    <2>3. ASSUME NEW a \in Mine(h) PROVE Still(accounts, accounts', a)
      <3>1. h \in harnessesForServiceAccount(a)
        BY <1>3, <2>1 DEF harnessesForServiceAccount, Mine
      <3>2. accounts[1][a] = accounts[2][a]
        BY <1>1, <1>3, <2>2, <3>1 DEF Due
      <3> QED
        BY <1>1, <3>2, FollowsStill
    <2>4. Still(hooks, hooks', h) /\ \A n \in Namespace : Still(cas, cas', n)
      BY <1>1 DEF Still
    <2> QED
      BY <1>1, <1>2, <2>2, <2>3, <2>4, KeptCovered
  <1> QED
    BY <1>1, <1>2, <1>3, DueCovers DEF AllCovered

LEMMA RestElsewhere ==
    ASSUME HarnessTyped, Ordered, WorkCurrent, FlushOk, AllCovered, UNCHANGED <<harnesses, harnessWork>>,
           harnessQueue \subseteq harnessQueue',
           Extends(accounts, accounts'), Extends(cas, cas'), Extends(hooks, hooks'),
           \A h \in Harness : scopeRoles'[h] = scopeRoles[h] \/ Gone(scopeRoles[h].owner),
           \A n \in Namespace : Stored(cas')[n] = Stored(cas)[n] \/ Stored(cas')[n] = NoOwner
    PROVE  WorkCurrent' /\ FlushOk' /\ AllCovered'
  <1>1. WorkCurrent' /\ FlushOk' /\ \A h : Due(h) => Due(h)'
    BY RestCurrent
  <1>2. ASSUME NEW h \in Harness, Stored(harnesses)[h].live PROVE Covered(h)'
    <2>1. Covered(h) /\ Stored(harnesses)[h].namespace \in Namespace
      BY <1>2, OrderedStates DEF AllCovered, Ordered, Born
    <2>2. NoOwner.harness # h
      BY PlaceholderAssumption DEF NoOwner
    <2>3. \A n \in Namespace : Stored(cas')[n] = Stored(cas)[n] \/ Stored(cas')[n].harness # h
      BY <2>2
    <2>4. ASSUME scopeRoles[h].owner = OwnedBy(h, Stored(harnesses)[h]) PROVE scopeRoles'[h] = scopeRoles[h]
      <3>1. ~Gone(scopeRoles[h].owner)
        BY <1>2, <2>4 DEF Gone, OwnedBy
      <3> QED
        BY <3>1
    <2> QED
      BY <1>1, <2>1, <2>3, <2>4, ExtendsCovered
  <1> QED
    BY <1>1, <1>2 DEF AllCovered

\* An edit of a harness is an event of it.
LEMMA RestEdits ==
    ASSUME HarnessTyped, Ordered, WorkCurrent, FlushOk, AllCovered, EditsHarness
    PROVE  WorkCurrent' /\ FlushOk' /\ AllCovered'
  <1> DEFINE old == Stored(harnesses)
             new == Stored(harnesses')
  <1>1. PICK h \in Harness : Edited(old[h], new[h]) /\ \A g \in Harness \ {h} : new[g] = old[g]
    BY DEF EditsHarness
  <1>2. /\ Extends(harnesses, harnesses')
        /\ UNCHANGED <<accounts, scopeRoles, cas, hooks, harnessQueue, harnessWork>>
    BY DEF EditsHarness
  <1>3. old[h] # new[h]
    <2>1. old[h].uid \in Nat /\ old[h].generation \in Nat
      BY HarnessEnds DEF HarnessState, HarnessObject
    <2> QED
      BY <1>1, <2>1 DEF Edited
  <1>4. Due(h)'
    BY <1>2, <1>3, StoredDiffers DEF Due, HarnessTyped
  <1>5. \A g \in Harness \ {h} : Due(g) => Due(g)'
    BY <1>1, <1>2 DEF Due, Moved, Extends
  <1>6. WorkCurrent' /\ FlushOk'
    <2>1. CASE harnessWork.stage = "idle"
      BY <1>2, <2>1 DEF WorkCurrent, FlushOk
    <2>2. CASE harnessWork.stage # "idle"
      <3>1. harnessWork.name \in Harness
        BY <2>2 DEF HarnessTyped
      <3> QED
        BY <1>1, <1>2, <1>4, <1>5, <3>1, CurrentStays
    <2> QED
      BY <2>1, <2>2
  <1>7. ASSUME NEW g \in Harness, new[g].live PROVE Covered(g)'
    <2>1. CASE g = h
      BY <1>4, <2>1, DueCovers
    <2>2. CASE g # h
      <3>1. new[g] = old[g]
        BY <1>1, <2>2
      <3>2. Covered(g) /\ old[g].namespace \in Namespace
        BY <1>7, <3>1, OrderedStates DEF AllCovered, Ordered, Born
      <3> QED
        BY <1>2, <1>5, <2>2, <3>1, <3>2, SameExtendsAll, ExtendsCovered
    <2> QED
      BY <2>1, <2>2
  <1> QED
    BY <1>6, <1>7 DEF AllCovered

\* A scenario without interruptions stays one, and nothing fails in it.
LEMMA Unspent == [Next]_vars => DOMAIN budget' = DOMAIN budget /\ ((Restart \/ Failure) => ~Undisturbed)
  <1> SUFFICES ASSUME [Next]_vars
               PROVE  DOMAIN budget' = DOMAIN budget /\ ((Restart \/ Failure) => ~Undisturbed)
    OBVIOUS
  <1>1. ASSUME NEW what, Spend(what) PROVE DOMAIN budget' = DOMAIN budget /\ what \in DOMAIN budget
    BY <1>1 DEF Spend
  <1>5. Restart \/ Failure => ~Undisturbed
    BY <1>1 DEF Restart, Failure, Undisturbed
  <1>2. CASE Restart \/ Failure
    BY <1>1, <1>2, <1>5 DEF Restart, Failure
  <1>3. CASE Users
    <2>1. ASSUME NEW h, CreateHarness(h) \/ MoveHarness(h) \/ EditHarness(h) \/ DeleteHarness(h)
          PROVE  \E what : Spend(what)
      BY <2>1 DEF CreateHarness, MoveHarness, EditHarness, DeleteHarness
    <2>2. ASSUME NEW a, EditAccount(a) \/ CreatePod(a) \/ EditLabels(a) \/ EditGroup(a)
          PROVE  \E what : Spend(what)
      BY <2>2 DEF EditAccount, CreatePod, EditLabels, EditGroup
    <2>3. \E what : Spend(what)
      BY <1>3, <2>1, <2>2 DEF Users
    <2> QED
      BY <1>1, <1>5, <2>3
  <1>4. CASE ~Restart /\ ~Failure /\ ~Users
    BY <1>4, <1>5 DEF Next, HarnessStep, AccessStep, PolicyStep, Collect, DeliverHarness, DeliverCA, DeliverHook,
                DeliverNamespace, DeliverGroup, DeliverAccount, Resync, vars
  <1> QED
    BY <1>2, <1>3, <1>4

LEMMA NextRest == Typed /\ ReadyInv /\ RestInv /\ [Next]_vars => RestInv'
  <1> SUFFICES ASSUME Typed, ReadyInv, RestInv, [Next]_vars, Undisturbed'
               PROVE  WorkCurrent' /\ FlushOk' /\ AllCovered'
    BY DEF RestInv
  <1>1. Undisturbed /\ ~Restart /\ ~Failure
    BY Unspent DEF Undisturbed
  <1>2. HarnessTyped /\ AccessTyped /\ Ordered /\ WorkCurrent /\ FlushOk /\ AllCovered
    BY <1>1 DEF Typed, ReadyInv, RestInv
  <1>3. ASSUME UNCHANGED <<harnesses, scopeRoles, cas, hooks, harnessWork>>,
               Extends(accounts, accounts'), harnessQueue \subseteq harnessQueue'
        PROVE  WorkCurrent' /\ FlushOk' /\ AllCovered'
    BY <1>2, <1>3, SameExtendsAll, RestElsewhere
  <1>4. ASSUME UNCHANGED <<accounts, harnessVars>> PROVE WorkCurrent' /\ FlushOk' /\ AllCovered'
    BY <1>2, <1>3, <1>4, SameExtendsAll DEF harnessVars
  <1>5. CASE HarnessStep
    BY <1>2, <1>5, RestGet, RestWorks DEF HarnessStep
  <1>6. CASE AccessStep \/ PolicyStep \/ DeliverNamespace \/ DeliverGroup
    <2>1. UNCHANGED accounts
      BY <1>2, <1>6, AccessKeepsTypes, AccessEventsKeepTypes DEF AccessStep, PolicyStep, DeliverNamespace, DeliverGroup
    <2> QED
      BY <1>4, <1>6, <2>1 DEF AccessStep, PolicyStep, DeliverNamespace, DeliverGroup
  <1>7. CASE Collect
    <2>1. CollectHarnessed
      BY <1>7 DEF Collect
    <2>2. /\ UNCHANGED <<accounts, harnesses, harnessQueue, harnessWork>>
          /\ Extends(cas, cas') /\ Extends(hooks, hooks')
          /\ \A h \in Harness : scopeRoles'[h] = scopeRoles[h] \/ Gone(scopeRoles[h].owner)
          /\ \A n \in Namespace : Stored(cas')[n] = Stored(cas)[n] \/ Stored(cas')[n] = NoOwner
      BY <1>2, <2>1, CollectEffect
    <2> QED
      BY <1>2, <2>2, SameExtendsAll, RestElsewhere
  <1>8. CASE DeliverHarness
    BY <1>2, <1>8, RestHarnessDelivered DEF DeliverHarness
  <1>9. CASE DeliverCA
    <2>1. \A h \in Harness : Stored(harnesses)[h].live => Stored(harnesses)[h].namespace \in Namespace
      BY <1>2, OrderedStates DEF Ordered, Born
    <2> QED
      BY <1>2, <1>9, <2>1, RestCaDelivered DEF DeliverCA
  <1>10. CASE DeliverHook
    BY <1>2, <1>10, RestHookDelivered DEF DeliverHook
  <1>11. CASE DeliverAccount
    BY <1>2, <1>11, RestAccountDelivered
  <1>12. CASE Resync
    <2>1. /\ UNCHANGED <<accounts, harnesses, scopeRoles, cas, hooks, harnessWork>>
          /\ harnessQueue \subseteq harnessQueue'
      BY <1>12 DEF Resync, ResyncNamespaces, HarnessesIdle
    <2> QED
      BY <1>2, <1>3, <2>1, SameExtendsAll
  <1>13. CASE Users
    <2>1. ASSUME NEW h \in Harness,
                 CreateHarness(h) \/ MoveHarness(h) \/ EditHarness(h) \/ DeleteHarness(h)
          PROVE  WorkCurrent' /\ FlushOk' /\ AllCovered'
      BY <1>2, <2>1, HarnessUsers, RestEdits
    <2>2. ASSUME NEW a \in Account, EditAccount(a) PROVE WorkCurrent' /\ FlushOk' /\ AllCovered'
      BY <1>2, <1>3, <2>2, EditAccountEffect DEF harnessVars
    <2>3. ASSUME NEW a \in Account, CreatePod(a) PROVE WorkCurrent' /\ FlushOk' /\ AllCovered'
      BY <1>4, <2>3 DEF CreatePod
    <2>4. ASSUME NEW n \in Namespace, EditLabels(n) PROVE WorkCurrent' /\ FlushOk' /\ AllCovered'
      BY <1>4, <2>4 DEF EditLabels
    <2>5. ASSUME NEW g \in Group, EditGroup(g) PROVE WorkCurrent' /\ FlushOk' /\ AllCovered'
      BY <1>4, <2>5 DEF EditGroup
    <2> QED
      BY <1>13, <2>1, <2>2, <2>3, <2>4, <2>5 DEF Users
  <1>14. CASE UNCHANGED vars
    BY <1>4, <1>14 DEF vars
  <1> QED
    BY <1>1, <1>5, <1>6, <1>7, <1>8, <1>9, <1>10, <1>11, <1>12, <1>13, <1>14 DEF Next

LEMMA RestInit == Init => RestInv
  <1> SUFFICES ASSUME Init PROVE WorkCurrent /\ FlushOk /\ AllCovered
    BY DEF RestInv
  <1>1. harnessWork.stage = "idle"
    BY NothingTyped DEF Init
  <1>2. harnessQueue = {h \in Harness : Cached(harnesses)[h].live}
    BY DEF Init
  <1>3. Cached(harnesses) = Stored(harnesses)
    <2> DEFINE state == [h \in Harness |->
                  IF h = FirstHarness /\ ~AboutAccess
                  THEN [NoHarness EXCEPT !.live = TRUE, !.uid = 1, !.generation = 1,
                                         !.namespace = Home, !.inject = TRUE]
                  ELSE NoHarness]
    <2>1. harnesses = Synced(state)
      BY DEF Init
    <2> HIDE DEF state
    <2> QED
      BY <2>1 DEF Synced, Cached, Stored
  <1>4. ASSUME NEW h \in Harness, Stored(harnesses)[h].live PROVE Covered(h)
    <2>1. Due(h)
      BY <1>2, <1>3, <1>4 DEF Due
    <2> QED
      BY <2>1 DEF Covered, ReadyCovered, ScopeCovered, RoleCovered, CaCovered, PruneCovered, HookCovered
  <1> QED
    BY <1>1, <1>4 DEF WorkCurrent, FlushOk, AllCovered

LEMMA AlwaysRest == Spec => [](Typed /\ ReadyInv /\ RestInv)
  <1>1. Init => Typed /\ ReadyInv /\ RestInv
    BY InitTyped, ReadyInit, RestInit
  <1>2. Typed /\ ReadyInv /\ RestInv /\ [Next]_vars => (Typed /\ ReadyInv /\ RestInv)'
    BY NextTyped, NextReady, NextRest
  <1> QED
    BY <1>1, <1>2, PTL DEF Spec

LEMMA InSyncStates ==
    ASSUME NEW S, NEW w \in Seq(S), w # <<>>, ~Lagging(w)
    PROVE  \A x : ~Moved(w, x) /\ \A h : ~Lost(w, x, h)
  <1>3. Len(w) \in Nat /\ Len(w) # 0 /\ ~(Len(w) > 1)
    BY DEF Lagging
  <1>4. \A k \in Nat : k # 0 /\ ~(k > 1) => k = 1
    OBVIOUS
  <1>1. Len(w) = 1
    <2> DEFINE k == Len(w)
    <2>1. k \in Nat /\ k # 0 /\ ~(k > 1)
      BY <1>3
    <2> HIDE DEF k
    <2>2. k = 1
      BY <1>4, <2>1
    <2> QED
      BY <2>2 DEF k
  <1>2. States(w) = {Stored(w)}
    BY <1>1 DEF States, Stored
  <1> QED
    BY <1>2 DEF Moved, Lost

LEMMA RestSettles == Typed /\ RestInv => RestIsSettled
  <1> SUFFICES ASSUME Typed, RestInv, Undisturbed, Synchronous, HarnessesIdle,
                      NEW h \in Harness, Stored(harnesses)[h].live
               PROVE  HarnessInPlace(h)
    BY DEF RestIsSettled, Undisturbed, Alone
  <1>1. /\ ~Due(h) /\ \A x : ~Moved(accounts, x) /\ ~Moved(cas, x) /\ ~Moved(hooks, x) /\ ~Lost(cas, x, h)
    <2>1. \A x : ~Moved(harnesses, x) /\ ~Moved(accounts, x)
      BY InSyncStates DEF Synchronous, Typed, HarnessTyped
    <2>2. \A x : ~Moved(cas, x) /\ ~Moved(hooks, x) /\ ~Lost(cas, x, h)
      BY InSyncStates DEF Synchronous, Typed, HarnessTyped
    <2> QED
      BY <2>1, <2>2 DEF Due, HarnessesIdle
  <1>2. harnessWork.stage = "idle"
    BY NothingTyped DEF HarnessesIdle
  <1>3. Covered(h)
    BY DEF RestInv, AllCovered
  <1> DEFINE harness == Stored(harnesses)[h]
             mine == {a \in Exist(Stored(accounts)) : harnessesServiceAccount(harness, a)}
  <1>4. harness.ready = harness.generation
    BY <1>1, <1>2, <1>3 DEF Covered, ReadyCovered, Working
  <1>5. mine = Mine(h) \cap Exist(Stored(accounts))
    BY DEF Mine, Exist
  <1>6. \A a \in mine : Stored(accounts)[a] = h
    BY <1>1, <1>2, <1>3, <1>5 DEF Covered, ScopeCovered, At, Exist
  <1>7. scopeRoles[h] = [owner |-> OwnedBy(h, harness), subjects |-> mine]
    <2>1. scopeRoles[h] = WantedRole(h)
      BY <1>1, <1>2, <1>3 DEF Covered, RoleCovered, At
    <2> HIDE DEF mine
    <2> QED
      BY <1>5, <2>1 DEF WantedRole
  <1>8. ASSUME NEW n \in Namespace
        PROVE  (Stored(cas)[n] = OwnedBy(h, harness)) <=> (harness.inject /\ n = harness.namespace)
    <2>1. ASSUME Stored(cas)[n] = OwnedBy(h, harness) PROVE harness.inject /\ n = harness.namespace
      <3>1. Stored(cas)[n].harness = h
        BY <2>1 DEF OwnedBy
      <3> QED
        BY <1>1, <1>2, <1>3, <3>1 DEF Covered, PruneCovered, At
    <2>2. ASSUME harness.inject, n = harness.namespace PROVE Stored(cas)[n] = OwnedBy(h, harness)
      BY <1>1, <1>2, <1>3, <2>2 DEF Covered, CaCovered, At
    <2> QED
      BY <2>1, <2>2
  <1>9. Stored(hooks)[h] = IF harness.inject
                           THEN [owner |-> OwnedBy(h, harness), namespace |-> harness.namespace]
                           ELSE NoHook
    <2>1. Stored(hooks)[h] = WantedHook(h)
      BY <1>1, <1>2, <1>3 DEF Covered, HookCovered, At
    <2> QED
      BY <2>1 DEF WantedHook
  <1> QED
    BY <1>4, <1>6, <1>7, <1>8, <1>9 DEF HarnessInPlace

\* As long as no call fails, the watches are enough: when the worker and the caches are
\* at rest every harness that has its namespace for itself is ready, its accounts and
\* no others have its scope, and the proxy is set up in its namespace and no other,
\* although status errors are dropped and harnesses prune by name.
THEOREM AtRestSettled == Spec => []RestIsSettled
  BY AlwaysRest, RestSettles, PTL
=============================================================================
