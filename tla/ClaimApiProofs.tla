--------------------------- MODULE ClaimApiProofs ---------------------------
(***************************************************************************)
(* Facts about the API objects of a claim kind that the proofs about its   *)
(* controllers share.                                                      *)
(***************************************************************************)
EXTENDS ClaimApi, InformerProofs, TLAPS

\* Some revisions, each with its approval.
Approvals == UNION {[D -> Approval] : D \in SUBSET Revision}

ApiTyped ==
    /\ claim \in Seq(Claim) /\ claim # <<>>
    /\ revs \in Seq(Approvals) /\ revs # <<>>
    /\ rv \in Nat
    /\ now \in Nat \ {0}

-----------------------------------------------------------------------------

LEMMA ApprovalsType ==
    /\ \A s \in Approvals : /\ DOMAIN s \subseteq Revision
                            /\ \A r \in DOMAIN s : s[r] \in Approval
                            /\ s = [r \in DOMAIN s |-> s[r]]
    /\ \A D \in SUBSET Revision : [D -> Approval] \subseteq Approvals
  BY DEF Approvals

\* The two ends of the windows have their types.
LEMMA ApiEnds ==
    ASSUME ApiTyped
    PROVE  /\ Stored(claim) \in Claim /\ Cached(claim) \in Claim
           /\ Stored(claim) \in States(claim) /\ Cached(claim) \in States(claim)
           /\ States(claim) \subseteq Claim
           /\ Stored(revs) \in Approvals /\ Cached(revs) \in Approvals
           /\ Stored(revs) \in States(revs) /\ Cached(revs) \in States(revs)
           /\ States(revs) \subseteq Approvals
  BY WindowEnds, EndsAreStates DEF ApiTyped

\* The missing revision is none.
LEMMA NoRevisionIsNone == \A r \in Revision : r # NoRevision
  <1>1. \A r \in Revision : DOMAIN r = {"uid", "version", "digest", "values", "platform"}
    BY DEF Revision
  <1>2. DOMAIN NoRevision = {"uid"}
    BY DEF NoRevision
  <1> QED
    BY <1>1, <1>2

LEMMA NoClaimType == NoClaim \in Claim
  BY DEF NoClaim, Claim

\* A write of the claim.
LEMMA PutClaimWindow ==
    ASSUME ApiTyped, NEW c \in Claim, PutClaim(c)
    PROVE  /\ claim' \in Seq(Claim) /\ claim' # <<>>
           /\ rv' = rv + 1 /\ rv' \in Nat
           /\ Stored(claim') = [c EXCEPT !.rv = rv + 1]
           /\ Stored(claim') \in Claim
           /\ Cached(claim') = Cached(claim)
           /\ States(claim') = States(claim) \cup {Stored(claim')}
  <1> DEFINE d == [c EXCEPT !.rv = rv + 1]
  <1>1. rv + 1 \in Nat
    BY DEF ApiTyped
  <1>2. d \in Claim
    BY <1>1 DEF Claim
  <1>3. claim' = Written(claim, d) /\ rv' = rv + 1
    BY DEF PutClaim
  <1> HIDE DEF d
  <1>4. claim \in Seq(Claim) /\ claim # <<>>
    BY DEF ApiTyped
  <1>5. claim' \in Seq(Claim) /\ claim' # <<>> /\ Stored(claim') = d /\ Cached(claim') = Cached(claim)
    BY <1>2, <1>3, <1>4, WrittenWindow
  <1>6. States(claim') = States(claim) \cup {d}
    BY <1>2, <1>3, <1>4, WrittenStates
  <1> QED
    BY <1>1, <1>2, <1>3, <1>5, <1>6 DEF d

\* A write of the revisions.
LEMMA WriteRevisions ==
    ASSUME ApiTyped, NEW s \in Approvals, revs' = Written(revs, s)
    PROVE  /\ revs' \in Seq(Approvals) /\ revs' # <<>>
           /\ Stored(revs') = s
           /\ Cached(revs') = Cached(revs)
           /\ States(revs') = States(revs) \cup {s}
  <1>1. revs \in Seq(Approvals) /\ revs # <<>>
    BY DEF ApiTyped
  <1> QED
    BY <1>1, WrittenWindow, WrittenStates

LEMMA PutRevisionWindow ==
    ASSUME ApiTyped, NEW r \in Revision, NEW a \in Approval, PutRevision(r, a)
    PROVE  /\ revs' \in Seq(Approvals) /\ revs' # <<>>
           /\ Cached(revs') = Cached(revs)
           /\ DOMAIN Stored(revs') = DOMAIN Stored(revs) \cup {r}
           /\ Stored(revs')[r] = a
           /\ \A q \in DOMAIN Stored(revs) \ {r} : Stored(revs')[q] = Stored(revs)[q]
           /\ States(revs') = States(revs) \cup {Stored(revs')}
  <1> DEFINE s == [q \in DOMAIN Stored(revs) \cup {r} |-> IF q = r THEN a ELSE Stored(revs)[q]]
  <1>1. Stored(revs) \in Approvals /\ Stored(revs) \in States(revs)
    BY ApiEnds
  <1>2. s \in Approvals
    <2>1. DOMAIN Stored(revs) \cup {r} \subseteq Revision
      BY <1>1, ApprovalsType
    <2>2. s \in [DOMAIN Stored(revs) \cup {r} -> Approval]
      BY <1>1, ApprovalsType
    <2> QED
      BY <2>1, <2>2 DEF Approvals
  <1>3. CASE r \in DOMAIN Stored(revs) /\ Stored(revs)[r] = a
    <2>1. revs' = revs
      BY <1>3 DEF PutRevision
    <2> QED
      BY <1>1, <1>3, <2>1 DEF ApiTyped
  <1>4. CASE ~(r \in DOMAIN Stored(revs) /\ Stored(revs)[r] = a)
    <2>1. revs' = Written(revs, s)
      BY <1>4 DEF PutRevision
    <2>2. /\ DOMAIN s = DOMAIN Stored(revs) \cup {r} /\ s[r] = a
          /\ \A q \in DOMAIN Stored(revs) \ {r} : s[q] = Stored(revs)[q]
      OBVIOUS
    <2> HIDE DEF s
    <2> QED
      BY <1>2, <2>1, <2>2, WriteRevisions
  <1> QED
    BY <1>3, <1>4

\* A revision is taken away.
LEMMA DropRevisionWindow ==
    ASSUME ApiTyped, NEW r,
           revs' = Written(revs, [q \in DOMAIN Stored(revs) \ {r} |-> Stored(revs)[q]])
    PROVE  /\ revs' \in Seq(Approvals) /\ revs' # <<>>
           /\ Cached(revs') = Cached(revs)
           /\ DOMAIN Stored(revs') = DOMAIN Stored(revs) \ {r}
           /\ \A q \in DOMAIN Stored(revs') : Stored(revs')[q] = Stored(revs)[q]
           /\ States(revs') = States(revs) \cup {Stored(revs')}
  <1> DEFINE s == [q \in DOMAIN Stored(revs) \ {r} |-> Stored(revs)[q]]
  <1>1. s \in Approvals
    <2>1. Stored(revs) \in Approvals
      BY ApiEnds
    <2>2. DOMAIN Stored(revs) \ {r} \subseteq Revision
      BY <2>1, ApprovalsType
    <2>3. s \in [DOMAIN Stored(revs) \ {r} -> Approval]
      BY <2>1, ApprovalsType
    <2> QED
      BY <2>2, <2>3 DEF Approvals
  <1>2. /\ DOMAIN s = DOMAIN Stored(revs) \ {r}
        /\ \A q \in DOMAIN s : s[q] = Stored(revs)[q]
    OBVIOUS
  <1> HIDE DEF s
  <1>3. revs' = Written(revs, s)
    BY DEF s
  <1> QED
    BY <1>1, <1>2, <1>3, WriteRevisions

\* The cache of the claim or of the revisions advances.
LEMMA DeliverClaimWindow ==
    ASSUME ApiTyped, Lagging(claim), claim' = Delivered(claim)
    PROVE  /\ claim' \in Seq(Claim) /\ claim' # <<>>
           /\ Stored(claim') = Stored(claim)
           /\ Cached(claim') \in States(claim)
           /\ States(claim') \subseteq States(claim)
  <1>1. claim' \in Seq(Claim) /\ claim' # <<>> /\ Stored(claim') = Stored(claim)
    BY DeliveredWindow DEF ApiTyped
  <1>2. States(claim') \subseteq States(claim)
    BY DeliveredStates DEF ApiTyped
  <1>3. Cached(claim') \in States(claim')
    BY <1>1, EndsAreStates
  <1> QED
    BY <1>1, <1>2, <1>3

LEMMA DeliverRevisionWindow ==
    ASSUME ApiTyped, Lagging(revs), revs' = Delivered(revs)
    PROVE  /\ revs' \in Seq(Approvals) /\ revs' # <<>>
           /\ Stored(revs') = Stored(revs)
           /\ States(revs') \subseteq States(revs)
  BY DeliveredWindow, DeliveredStates DEF ApiTyped

\* The informers list afresh.
LEMMA RelistWindows ==
    ASSUME ApiTyped, claim' = Synced(Stored(claim)), revs' = Synced(Stored(revs))
    PROVE  /\ claim' \in Seq(Claim) /\ claim' # <<>>
           /\ Stored(claim') = Stored(claim) /\ Cached(claim') = Stored(claim)
           /\ States(claim') = {Stored(claim)}
           /\ revs' \in Seq(Approvals) /\ revs' # <<>>
           /\ Stored(revs') = Stored(revs) /\ States(revs') = {Stored(revs)}
  BY ApiEnds, SyncedWindow, SyncedStates

\* What the controllers pick is one of the revisions of the claim.
LEMMA NewestIsOwned ==
    ASSUME NEW uid, NEW s, NEW r \in NewestFirst(uid, s)
    PROVE  r \in DOMAIN s /\ r.uid = uid
  BY DEF NewestFirst, OwnedBy
=============================================================================
