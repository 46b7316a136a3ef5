-------------------------- MODULE DependencyGrants --------------------------
(***************************************************************************)
(* What becomes of the verdict on a DependencyGroup: ReleaseController     *)
(* grants the CRDs of the group an instance provides to that instance      *)
(* (release_controller.go, ensureRelease and resolveGroupCRDs).  There is  *)
(* one instance per group here, named like the group.                      *)
(***************************************************************************)
EXTENDS DependencyGroups

VARIABLES
    granted,    \* rules of the ClusterRole chrysopoeia:provider:<instance>
    upToDate    \* history: instances reconciled since a group changed last

grantVars == <<granted, upToDate>>

\* The CRDs that resolveGroupCRDs finds in the cache for a group that is there.
\* It asks for the state of the group alone.
resolveGroupCRDs(g) == Cached(groups)[g].crds
Resolves(g) == Exists(g, Cached(groups)) /\ Cached(groups)[g].status.state = Accepted

\* A reconcile of the instance that provides g applies the provider role.  When
\* the group does not resolve it fails before that and the role stays as it was.
Provision(g) ==
    /\ upToDate' = upToDate \cup {g}
    /\ \/ /\ Resolves(g)
          /\ granted' = [granted EXCEPT ![g] = resolveGroupCRDs(g)]
       \/ /\ ~Resolves(g)
          /\ UNCHANGED granted
    /\ UNCHANGED vars

GroupStep ==
    /\ Next
    /\ upToDate' = IF groups' = groups THEN upToDate ELSE {}
    /\ UNCHANGED granted

GrantInit ==
    /\ Init
    /\ granted = [g \in Group |-> {}]
    /\ upToDate = {}

GrantNext == GroupStep \/ \E g \in Group : Provision(g)

GrantSpec == GrantInit /\ [][GrantNext]_<<vars, grantVars>>

\* "A CRD may belong to a single group only, so that two operators cannot end up
\* managing the same resources" (dependencygroup_controller.go:23): once all
\* verdicts are in and every instance has been reconciled after the last of them,
\* no two instances whose groups exist hold the right to manage the same CRD.
GrantsDisjoint ==
    Settled /\ upToDate = Group =>
        \A g, h \in Group :
            g # h /\ Live(g, Stored(groups)) /\ Live(h, Stored(groups))
            => granted[g] \cap granted[h] = {}
=============================================================================
