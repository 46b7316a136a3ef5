-------------------------- MODULE OperatorHarnesses --------------------------
(***************************************************************************)
(* OperatorHarnessManager (controllers/operatorharness_controller.go): it  *)
(* confines the operator of a namespace to a scope, by an annotation on    *)
(* its service accounts and a role, and registers the webhook that points  *)
(* its pods at the proxy.  The webhook itself (PodProxyInjector,           *)
(* controllers/pod_proxy_injection_webhook.go) runs in the same process    *)
(* and reads the same caches.                                              *)
(***************************************************************************)
EXTENDS ServiceAccounts

VARIABLES
    harnesses,      \* window of the OperatorHarnesses
    scopeRoles,     \* for each harness, the scopedlist role and its binding
    cas,            \* window of the CA ConfigMaps, one per namespace
    hooks,          \* window of the MutatingWebhookConfigurations, one per harness
    harnessQueue,   \* harnesses on the workqueue
    harnessWork     \* the reconcile in progress

harnessVars == <<harnesses, scopeRoles, cas, hooks, harnessQueue, harnessWork>>

-----------------------------------------------------------------------------

None == "none"

\* The placeholders are no names.
ASSUME PlaceholderAssumption == None \notin Harness \cup Namespace /\ Absent \notin Harness

\* names: the accounts it is for, none for all; ready: the generation the Ready
\* condition was last true for.
HarnessObject == [live : BOOLEAN, uid : Nat, generation : Nat, namespace : Namespace \cup {None},
                  names : SUBSET AccountName, inject : BOOLEAN, ready : Nat]
NoHarness == [live |-> FALSE, uid |-> 0, generation |-> 0, namespace |-> None,
              names |-> {}, inject |-> FALSE, ready |-> 0]

\* The owner, by name and uid, of what is made for a harness.
NoOwner == [harness |-> None, uid |-> 0]
OwnedBy(h, harness) == [harness |-> h, uid |-> harness.uid]
NoRole == [owner |-> NoOwner, subjects |-> {}]
NoHook == [owner |-> NoOwner, namespace |-> None]

HarnessIdle == [stage |-> "idle", name |-> None, source |-> NoHarness, ok |-> FALSE, err |-> FALSE]

To(stage) == harnessWork' = [harnessWork EXCEPT !.stage = stage] /\ UNCHANGED harnessQueue
Source == harnessWork.source

-----------------------------------------------------------------------------

harnessesServiceAccount(harness, a) ==
    /\ harness.namespace = a[1]
    /\ harness.names = {} \/ a[2] \in harness.names

harnessedServiceAccounts(harness) ==
    {a \in Exist(Cached(accounts)) : harnessesServiceAccount(harness, a)}

harnessesForServiceAccount(a) ==
    {h \in Harness : Cached(harnesses)[h].live /\ harnessesServiceAccount(Cached(harnesses)[h], a)}

(* Reconcile.                                                              *)

HarnessGet ==
    \E h \in harnessQueue :
        /\ harnessWork.stage = "idle"
        /\ harnessQueue' = harnessQueue \ {h}
        /\ harnessWork' = IF Cached(harnesses)[h].live
                          THEN [HarnessIdle EXCEPT !.stage = "scope", !.name = h,
                                                   !.source = Cached(harnesses)[h]]
                          ELSE HarnessIdle
        /\ UNCHANGED <<accounts, harnesses, scopeRoles, cas, hooks>>

\* Patches, so that an account that is gone by now is not made.
ensureServiceAccountScope ==
    LET h == harnessWork.name
        wrong == {a \in harnessedServiceAccounts(Source) : Cached(accounts)[a] # h}
    IN  /\ harnessWork.stage = "scope"
        /\ accounts' = Wrote(accounts, [a \in Account |->
                            IF a \in wrong \cap Exist(Stored(accounts)) THEN h ELSE Stored(accounts)[a]])
        /\ To("rbac")
        /\ UNCHANGED <<harnesses, scopeRoles, cas, hooks>>

ensureScopedListRBAC ==
    /\ harnessWork.stage = "rbac"
    /\ scopeRoles' = [scopeRoles EXCEPT ![harnessWork.name] =
                        [owner |-> OwnedBy(harnessWork.name, Source),
                         subjects |-> harnessedServiceAccounts(Source)]]
    /\ To(IF Source.inject THEN "ca" ELSE "prune")
    /\ UNCHANGED <<accounts, harnesses, cas, hooks>>

\* The ConfigMap has the same name for every harness.
ensureProxyCACertificate ==
    /\ harnessWork.stage = "ca"
    /\ cas' = Wrote(cas, [Stored(cas) EXCEPT ![Source.namespace] = OwnedBy(harnessWork.name, Source)])
    /\ To("hook")
    /\ UNCHANGED <<accounts, harnesses, scopeRoles, hooks>>

ensureProxyInjectionWebhook ==
    /\ harnessWork.stage = "hook"
    /\ hooks' = Wrote(hooks, [Stored(hooks) EXCEPT ![harnessWork.name] =
                                [owner |-> OwnedBy(harnessWork.name, Source),
                                 namespace |-> Source.namespace]])
    /\ To("prune")
    /\ UNCHANGED <<accounts, harnesses, scopeRoles, cas>>

Conclude(ok, err) == harnessWork' = [harnessWork EXCEPT !.stage = "flush", !.ok = ok, !.err = err]

\* Mutant: nothing is pruned while there is something to keep.
pruneUnlessInjecting ==
    LET h == harnessWork.name
    IN  /\ harnessWork.stage = "prune"
        /\ IF Source.inject
           THEN UNCHANGED <<cas, hooks>>
           ELSE /\ cas' = Wrote(cas, [n \in Namespace |-> IF Cached(cas)[n].harness = h
                                                          THEN NoOwner ELSE Stored(cas)[n]])
                /\ hooks' = Wrote(hooks, [Stored(hooks) EXCEPT ![h] = NoHook])
        /\ Conclude(TRUE, FALSE)
        /\ UNCHANGED <<accounts, harnesses, scopeRoles, harnessQueue>>

\* Delete what the cache shows as labelled with the harness and is not wanted; by
\* name, whoever it belongs to by now.
pruneProxyConfiguration ==
    LET h == harnessWork.name
        keep == IF Source.inject THEN Source.namespace ELSE None
        stale == {n \in Namespace \ {keep} : Cached(cas)[n].harness = h}
    IN  /\ harnessWork.stage = "prune"
        /\ cas' = Wrote(cas, [n \in Namespace |-> IF n \in stale THEN NoOwner ELSE Stored(cas)[n]])
        /\ hooks' = IF ~Source.inject /\ Cached(hooks)[h] # NoHook
                    THEN Wrote(hooks, [Stored(hooks) EXCEPT ![h] = NoHook])
                    ELSE hooks
        /\ Conclude(TRUE, FALSE)
        /\ UNCHANGED <<accounts, harnesses, scopeRoles, harnessQueue>>

FinishHarness ==
    /\ harnessWork' = HarnessIdle
    /\ harnessQueue' = IF harnessWork.err THEN harnessQueue \cup {harnessWork.name} ELSE harnessQueue

Concluded(harness) == [harness EXCEPT !.ready = IF harnessWork.ok THEN harness.generation ELSE 0]

\* Mutant: the condition is for the generation that is there by now.
flushStatusOnLatest ==
    LET h == harnessWork.name
    IN  /\ harnessWork.stage = "flush"
        /\ harnesses' = IF Stored(harnesses)[h].live
                        THEN Wrote(harnesses, [Stored(harnesses) EXCEPT ![h] = Concluded(@)])
                        ELSE harnesses
        /\ FinishHarness
        /\ UNCHANGED <<accounts, scopeRoles, cas, hooks>>

\* The deferred status update, refused if the harness has changed since; its error
\* is only logged.
flushStatus ==
    LET h == harnessWork.name
    IN  /\ harnessWork.stage = "flush"
        /\ harnesses' = IF Stored(harnesses)[h] = Source
                        THEN Wrote(harnesses, [Stored(harnesses) EXCEPT ![h] = Concluded(Source)])
                        ELSE harnesses
        /\ FinishHarness
        /\ UNCHANGED <<accounts, scopeRoles, cas, hooks>>

\* A call fails, or the proxy's CA secret is not there yet.
HarnessFails ==
    /\ \/ /\ harnessWork.stage \in {"scope", "rbac", "ca", "hook", "prune"}
          /\ Conclude(FALSE, TRUE) /\ UNCHANGED harnessQueue
       \/ harnessWork.stage = "flush" /\ FinishHarness
    /\ UNCHANGED <<accounts, harnesses, scopeRoles, cas, hooks>>

HarnessProgress ==
    \/ HarnessGet \/ ensureServiceAccountScope \/ ensureScopedListRBAC
    \/ ensureProxyCACertificate \/ ensureProxyInjectionWebhook
    \/ pruneProxyConfiguration \/ flushStatus

-----------------------------------------------------------------------------
(* Watches: SetupWithManager.                                              *)

Changed(window) == {x \in DOMAIN window[1] : window[1][x] # window[2][x]}

WatchHarnesses ==
    /\ Lagging(harnesses)
    /\ harnesses' = Delivered(harnesses)
    /\ harnessQueue' = harnessQueue \cup Changed(harnesses)
    /\ UNCHANGED <<accounts, scopeRoles, cas, hooks, harnessWork>>

\* Mutant: the ConfigMaps are not watched.
WatchCAsUnnoticed ==
    /\ Lagging(cas)
    /\ cas' = Delivered(cas)
    /\ UNCHANGED <<accounts, harnesses, scopeRoles, hooks, harnessQueue, harnessWork>>

\* Mutant: an object without an owner enqueues the empty name.
WatchCAsOfNobody ==
    /\ Lagging(cas)
    /\ cas' = Delivered(cas)
    /\ harnessQueue' = harnessQueue \cup
         UNION {{cas[1][n].harness, cas[2][n].harness} : n \in Changed(cas)}
    /\ UNCHANGED <<accounts, harnesses, scopeRoles, hooks, harnessWork>>

\* The harness that owned the object and the one that owns it now.
WatchCAs ==
    /\ Lagging(cas)
    /\ cas' = Delivered(cas)
    /\ harnessQueue' = harnessQueue \cup
         ((UNION {{cas[1][n].harness, cas[2][n].harness} : n \in Changed(cas)}) \ {None})
    /\ UNCHANGED <<accounts, harnesses, scopeRoles, hooks, harnessWork>>

WatchHooks ==
    /\ Lagging(hooks)
    /\ hooks' = Delivered(hooks)
    /\ harnessQueue' = harnessQueue \cup Changed(hooks)
    /\ UNCHANGED <<accounts, harnesses, scopeRoles, cas, harnessWork>>

\* What an event of accounts does here (Operators delivers it).
HarnessesOfAccounts == UNION {harnessesForServiceAccount(a) : a \in Changed(accounts)}

-----------------------------------------------------------------------------
(* PodProxyInjector.                                                       *)

matchingHarness(a) ==
    {h \in Harness : /\ Cached(harnesses)[h].live /\ Cached(harnesses)[h].inject
                     /\ harnessesServiceAccount(Cached(harnesses)[h], a)}

\* The API server calls the webhook for pods in the namespaces of its configurations.
Handle(a) ==
    IF (\E h \in Harness : Stored(hooks)[h].namespace = a[1]) /\ matchingHarness(a) # {}
    THEN "proxied" ELSE "direct"

-----------------------------------------------------------------------------

\* The garbage collector deletes what belongs to a harness that is gone.
Gone(owner) == owner # NoOwner /\ (LET harness == Stored(harnesses)[owner.harness]
                                   IN  ~harness.live \/ harness.uid # owner.uid)

CollectHarnessed ==
    /\ \/ \E h \in Harness : /\ Gone(scopeRoles[h].owner)
                             /\ scopeRoles' = [scopeRoles EXCEPT ![h] = NoRole]
                             /\ UNCHANGED <<cas, hooks>>
       \/ \E n \in Namespace : /\ Gone(Stored(cas)[n])
                               /\ cas' = Written(cas, [Stored(cas) EXCEPT ![n] = NoOwner])
                               /\ UNCHANGED <<scopeRoles, hooks>>
       \/ \E h \in Harness : /\ Gone(Stored(hooks)[h].owner)
                             /\ hooks' = Written(hooks, [Stored(hooks) EXCEPT ![h] = NoHook])
                             /\ UNCHANGED <<scopeRoles, cas>>
    /\ UNCHANGED <<accounts, harnesses, harnessQueue, harnessWork>>
=============================================================================
