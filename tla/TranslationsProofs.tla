------------------------- MODULE TranslationsProofs -------------------------
(***************************************************************************)
(* Proofs about the scoping proxy, for any objects and scopes, and about   *)
(* charts and claims, for values.yaml with any paths.                      *)
(***************************************************************************)
EXTENDS Translations, WellFoundedInduction, TLAPS

-----------------------------------------------------------------------------
(* The scoping proxy: requests.                                            *)

\* What has to be so for a request to be sent on with the proxy's credentials.
LEMMA OwnIsGranted ==
    ASSUME NEW c \in Caller, NEW verb, NEW ns, NEW sel, NEW failure, NEW may,
           Serve(c, verb, ns, sel, failure, may).own
    PROVE  /\ getScopeLabel(c) \in granted
           /\ getScopeLabel(c) \in Scope
           /\ c.header \in {getScopeLabel(c), Unset}
  <1>1. RewriteStatus(c, verb, ns, failure) = 200 /\ requestNeedsRewrite(verb, ns)
    BY DEF Serve, requestNeedsRewrite
  <1>2. 500 # 200
    OBVIOUS
  <1>3. 403 # 200
    OBVIOUS
  <1>4. 422 # 200
    OBVIOUS
  <1>5. ~Unknown(c, failure)
    BY <1>1, <1>2, Zenon DEF RewriteStatus
  <1>6. checkCustomVerbAccess(c)
    BY <1>1, <1>2, <1>3, Zenon DEF RewriteStatus
  <1>7. getScopeLabel(c) # Malformed
    BY <1>1, <1>2, <1>3, <1>4, Zenon DEF RewriteStatus
  <1>8. getScopeLabel(c) \in Label /\ c.header \in {getScopeLabel(c), Unset}
    BY <1>5 DEF Caller, Unknown, getScopeLabel, Label
  <1> QED
    BY <1>6, <1>7, <1>8 DEF checkCustomVerbAccess, Label

\* For a caller that is known, a list is forbidden exactly when it is not granted.
LEMMA GrantedIsServed ==
    ASSUME NEW c, ~Unknown(c, "none"), checkCustomVerbAccess(c)
    PROVE  RewriteStatus(c, "list", "", "none") # 403
  <1>1. requestNeedsRewrite("list", "")
    BY DEF requestNeedsRewrite
  <1> QED
    BY <1>1 DEF RewriteStatus, Unknown, requestNeedsRewrite, checkCustomVerbAccess

LEMMA NotGrantedIsForbidden ==
    ASSUME NEW c, ~Unknown(c, "none"), ~checkCustomVerbAccess(c)
    PROVE  RewriteStatus(c, "list", "", "none") = 403
  BY DEF RewriteStatus, Unknown, requestNeedsRewrite, checkCustomVerbAccess

LEMMA ForbiddenIsNotGranted ==
    ASSUME NEW c, ~Unknown(c, "none")
    PROVE  (RewriteStatus(c, "list", "", "none") # 403) = checkCustomVerbAccess(c)
  <1>1. CASE checkCustomVerbAccess(c)
    BY <1>1, GrantedIsServed DEF checkCustomVerbAccess, Unknown
  <1>2. CASE ~checkCustomVerbAccess(c)
    <2>1. (RewriteStatus(c, "list", "", "none") # 403) = FALSE
      BY <1>2, NotGrantedIsForbidden, Zenon
    <2>2. checkCustomVerbAccess(c) = FALSE
      BY <1>2 DEF checkCustomVerbAccess, Unknown
    <2> QED
      BY <2>1, <2>2, Zenon
  <1> QED
    BY <1>1, <1>2, Zenon

\* A review that is answered is answered as the list would be.
Served(answer) == answer.status = 200

AsListed(c, about, may) ==
    IF ~may /\ about[1] \in {"list", "watch"} /\ about[2] = ""
    THEN RewriteStatus(c, "list", "", "none") # 403
    ELSE may

LEMMA AnsweredAsListed ==
    ASSUME NEW c, NEW about, NEW failure, NEW may \in BOOLEAN,
           Served(ModifyResponse(c, about, failure, may))
    PROVE  ModifyResponse(c, about, failure, may).allowed = AsListed(c, about, may)
  <1>1. ~Unknown(c, failure)
    <2>1. ASSUME Unknown(c, failure) PROVE ModifyResponse(c, about, failure, may).status = 500
      BY <2>1 DEF ModifyResponse, Unknown
    <2>2. ModifyResponse(c, about, failure, may).status # 500
      BY DEF Served
    <2> QED
      BY <2>1, <2>2, Zenon
  <1>2. ~Unknown(c, "none")
    BY <1>1 DEF Unknown
  <1>3. (RewriteStatus(c, "list", "", "none") # 403) = checkCustomVerbAccess(c)
    BY <1>2, ForbiddenIsNotGranted, Zenon
  <1> QED
    BY <1>3 DEF AsListed, ModifyResponse, Asks, requestNeedsRewrite, checkCustomVerbAccess

\* A write is no review.
LEMMA WritesAreWrites ==
    ASSUME NEW how \in How
    PROVE  how[1] # "review"
  BY DEF How

\* Only a list or a watch is answered with the proxy's own credentials.
LEMMA OthersUseTheirOwn ==
    ASSUME ProxyNext, ~Read
    PROVE  exchange' = Unset \/ exchange'.own = FALSE
  <1>1. CASE Write
    <2>1. PICK c \in Caller, o \in Object, body \in SUBSET Scope, how \in How,
               failure \in Failure \ {"access review"}, may \in BOOLEAN :
               InjectLabelIntoRequest(c, o, body, how, failure, may)
      BY <1>1, Zenon DEF Write
    <2> QED
      BY <2>1 DEF InjectLabelIntoRequest
  <1>2. CASE Review
    <2>1. PICK c \in Caller, failure \in Failure, may \in BOOLEAN,
               about \in {<<"list", "">>, <<"watch", "">>, <<"list", "home">>, <<"create", "">>,
                          <<"path", "">>} :
               exchange' = ModifyResponse(c, about, failure, may)
      BY <1>2, Zenon DEF Review
    <2> QED
      BY <2>1 DEF ModifyResponse
  <1>3. CASE Answered \/ Grant \/ Reflect \/ Others
    BY <1>3 DEF Answered, Grant, Reflect, Others
  <1> QED
    BY <1>1, <1>2, <1>3, Zenon DEF ProxyNext

-----------------------------------------------------------------------------

\* The proxy's own credentials serve cluster-wide lists and watches only, under a
\* label the caller holds a grant for, and the answer is what the caller selects
\* among the objects with it (Rewrite in proxy.go).
THEOREM StaysInScope == ProxySpec => NothingOutOfScope
  <1> DEFINE Kept ==
        exchange' # Unset /\ exchange'.own =>
          /\ exchange'.verb \in {"list", "watch"} /\ exchange'.ns = ""
          /\ \E s \in granted \cap Scope :
                /\ exchange'.caller.header \in {s, Unset}
                /\ exchange'.seen = {o \in DOMAIN objects : {s} \cup exchange'.sel \subseteq objects[o]}
  <1>1. ASSUME ProxyNext PROVE Kept
    <2>1. CASE Read
      <3>1. PICK c \in Caller, verb \in {"list", "watch"}, ns \in {"", "home"}, sel \in SUBSET Scope,
                 failure \in Failure \ {"body"}, may \in BOOLEAN :
                 exchange' = Serve(c, verb, ns, sel, failure, may)
        BY <2>1, Zenon DEF Read
      <3>2. SUFFICES ASSUME exchange'.own PROVE Kept
        OBVIOUS
      <3>3. RewriteStatus(c, verb, ns, failure) = 200 /\ requestNeedsRewrite(verb, ns)
        BY <3>1, <3>2 DEF Serve
      <3>4. /\ getScopeLabel(c) \in granted
            /\ getScopeLabel(c) \in Scope
            /\ c.header \in {getScopeLabel(c), Unset}
        BY <3>1, <3>2, OwnIsGranted, Zenon
      <3>5. exchange'.verb \in {"list", "watch"} /\ exchange'.ns = ""
        BY <3>1, <3>3 DEF Serve, requestNeedsRewrite
      <3>6. exchange'.seen = {o \in DOMAIN objects : RewriteSelector(c, sel) \subseteq objects[o]}
        BY <3>1, <3>3 DEF Serve
      <3>7. RewriteSelector(c, sel) = {getScopeLabel(c)} \cup exchange'.sel
        BY <3>1 DEF Serve, RewriteSelector
      <3>8. exchange'.caller.header = c.header
        BY <3>1 DEF Serve
      <3> QED
        BY <3>4, <3>5, <3>6, <3>7, <3>8
    <2>2. CASE ~Read
      BY <1>1, <2>2, OthersUseTheirOwn
    <2> QED
      BY <2>1, <2>2
  <1>2. ASSUME UNCHANGED proxyVars PROVE [Kept]_proxyVars
    BY <1>2
  <1> QED
    BY <1>1, PTL DEF ProxySpec, NothingOutOfScope

-----------------------------------------------------------------------------

\* An access review through the proxy agrees with what the proxy does with the list
\* it asks about (ModifyResponse and Rewrite in proxy.go).
THEOREM ReviewsAgree == ProxySpec => ReviewMatchesList
  <1> DEFINE Kept ==
        exchange' # Unset /\ exchange'.verb = "review" /\ exchange'.status = 200 =>
          exchange'.allowed =
             IF ~exchange'.may /\ exchange'.about[1] \in {"list", "watch"} /\ exchange'.about[2] = ""
             THEN RewriteStatus(exchange'.caller, "list", "", "none") # 403
             ELSE exchange'.may
  <1>1. ASSUME ProxyNext PROVE Kept
    <2>1. CASE Read
      <3>1. PICK c \in Caller, verb \in {"list", "watch"}, ns \in {"", "home"}, sel \in SUBSET Scope,
                 failure \in Failure \ {"body"}, may \in BOOLEAN :
                 exchange' = Serve(c, verb, ns, sel, failure, may)
        BY <2>1, Zenon DEF Read
      <3>2. exchange'.verb # "review"
        BY <3>1 DEF Serve
      <3> QED
        BY <3>2
    <2>2. CASE Write
      <3>1. PICK c \in Caller, o \in Object, body \in SUBSET Scope, how \in How,
                 failure \in Failure \ {"access review"}, may \in BOOLEAN :
                 InjectLabelIntoRequest(c, o, body, how, failure, may)
        BY <2>2, Zenon DEF Write
      <3>2. exchange'.verb = how[1]
        BY <3>1 DEF InjectLabelIntoRequest
      <3>3. how[1] # "review"
        BY WritesAreWrites, Zenon
      <3> QED
        BY <3>2, <3>3
    <2>3. CASE Review
      <3>1. PICK c \in Caller, failure \in Failure, may \in BOOLEAN,
                 about \in {<<"list", "">>, <<"watch", "">>, <<"list", "home">>, <<"create", "">>,
                            <<"path", "">>} :
                 exchange' = ModifyResponse(c, about, failure, may)
        BY <2>3, Zenon DEF Review
      <3>2. /\ exchange'.caller = c /\ exchange'.about = about /\ exchange'.may = may
        BY <3>1 DEF ModifyResponse
      <3>3. SUFFICES ASSUME exchange'.status = 200 PROVE Kept
        OBVIOUS
      <3>4. exchange'.allowed = AsListed(c, about, may)
        <4>1. Served(ModifyResponse(c, about, failure, may))
          BY <3>1, <3>3, Zenon DEF Served
        <4>2. ModifyResponse(c, about, failure, may).allowed = AsListed(c, about, may)
          BY <4>1, AnsweredAsListed, Zenon
        <4> QED
          BY <3>1, <4>2, Zenon
      <3> QED
        BY <3>2, <3>4, Zenon DEF AsListed
    <2>4. CASE Answered \/ Grant \/ Reflect \/ Others
      <3>1. exchange' = Unset
        BY <2>4 DEF Answered, Grant, Reflect, Others
      <3> QED
        BY <3>1
    <2> QED
      BY <1>1, <2>1, <2>2, <2>3, <2>4, Zenon DEF ProxyNext
  <1> QED
    BY <1>1, PTL DEF ProxySpec, ReviewMatchesList

-----------------------------------------------------------------------------
(* Objects.  OwnObjectsAreSeen alone is not inductive: a write by others   *)
(* must not make an object of one that is recorded and not there.          *)

MadeAreThere ==
    /\ DOMAIN made \subseteq DOMAIN objects
    /\ OwnObjectsAreSeen

\* What an object is recorded under is among the labels it was written with.
LEMMA RecordedIsInjected ==
    ASSUME NEW c, NEW o, NEW body, NEW how \in How, Recorded(o, how) # {}
    PROVE  getScopeLabel(c) \in Injected(c, body, how)
  <1>1. Injects(how[1], how[2])
    BY DEF Recorded, Injects, How
  <1> QED
    BY <1>1 DEF Injected

LEMMA StoreKeeps ==
    ASSUME NEW c, NEW o, NEW body, NEW how \in How,
           MadeAreThere, Store(c, o, Injected(c, body, how), how)
    PROVE  MadeAreThere'
  <1> DEFINE labels == Injected(c, body, how)
             kept == IF how[2] = "apply-patch" /\ o \in DOMAIN objects THEN objects[o] ELSE {}
  <1>1. /\ objects' = [p \in DOMAIN objects \cup {o} |-> IF p = o THEN kept \cup labels ELSE objects[p]]
        /\ made' = [p \in (DOMAIN made \ {o}) \cup Recorded(o, how) |->
                       IF p = o THEN getScopeLabel(c) ELSE made[p]]
    BY Zenon DEF Store
  <1>2. Recorded(o, how) \subseteq {o}
    BY DEF Recorded
  <1>3. o \in DOMAIN made' => getScopeLabel(c) \in labels
    <2>1. o \in DOMAIN made' => Recorded(o, how) # {}
      BY <1>1, <1>2
    <2> QED
      BY <2>1, RecordedIsInjected, Zenon
  <1> HIDE DEF labels, kept
  <1>4. DOMAIN made' \subseteq DOMAIN objects'
    BY <1>1, <1>2 DEF MadeAreThere
  <1>5. ASSUME NEW p \in DOMAIN made' PROVE made'[p] \in objects'[p]
    <2>1. CASE p = o
      BY <1>1, <1>2, <1>3, <2>1
    <2>2. CASE p # o
      BY <1>1, <1>2, <2>2 DEF MadeAreThere, OwnObjectsAreSeen
    <2> QED
      BY <2>1, <2>2
  <1> QED
    BY <1>4, <1>5 DEF MadeAreThere, OwnObjectsAreSeen

\* With injection, an object that was last created, updated or applied through the
\* proxy has the label of its writer (InjectLabelIntoRequest in proxy.go).
THEOREM OwnAreSeen == ProxySpec => []OwnObjectsAreSeen
  <1>1. ProxyInit => MadeAreThere
    BY DEF ProxyInit, MadeAreThere, OwnObjectsAreSeen
  <1>2. MadeAreThere /\ [ProxyNext]_proxyVars => MadeAreThere'
    <2> SUFFICES ASSUME MadeAreThere, [ProxyNext]_proxyVars PROVE MadeAreThere'
      OBVIOUS
    <2> USE DEF MadeAreThere, OwnObjectsAreSeen
    <2>1. CASE UNCHANGED <<objects, made>>
      BY <2>1
    <2>2. CASE Write
      <3>1. PICK c \in Caller, o \in Object, body \in SUBSET Scope, how \in How,
                 failure \in Failure \ {"access review"}, may \in BOOLEAN :
                 InjectLabelIntoRequest(c, o, body, how, failure, may)
        BY <2>2, Zenon DEF Write
      <3>2. Store(c, o, Injected(c, body, how), how) \/ UNCHANGED <<objects, made>>
        BY <3>1, Zenon DEF InjectLabelIntoRequest
      <3> QED
        BY <2>1, <3>2, StoreKeeps, Zenon
    <2>3. CASE Others
      <3>1. PICK o \in Object, labels \in SUBSET Scope :
                 objects' = [p \in DOMAIN objects \cup {o} |-> IF p = o THEN labels ELSE objects[p]]
        BY <2>3, Zenon DEF Others
      <3>2. made' = [p \in {q \in DOMAIN made : objects'[q] = objects[q]} |-> made[p]]
        BY <2>3, Zenon DEF Others
      <3> QED
        BY <3>1, <3>2
    <2>4. CASE Read \/ Review \/ Answered \/ Grant \/ Reflect \/ UNCHANGED proxyVars
      BY <2>1, <2>4 DEF Read, Review, Answered, Grant, Reflect, proxyVars
    <2> QED
      BY <2>2, <2>3, <2>4, Zenon DEF ProxyNext
  <1>3. MadeAreThere => OwnObjectsAreSeen
    BY DEF MadeAreThere
  <1> QED
    BY <1>1, <1>2, <1>3, PTL DEF ProxySpec

-----------------------------------------------------------------------------
(* Paths.                                                                  *)

Paths == Seq(STRING \cup {Schemas!AnyKey})

LEMMA StringPaths ==
    ASSUME NEW p \in Seq(STRING)
    PROVE  p \in Paths
  BY DEF Paths

\* A path begins with another one if it has the same elements as far as that goes.
LEMMA PrefixElements ==
    ASSUME NEW s \in Paths, NEW t \in Paths
    PROVE  IsPrefix(s, t) <=> Len(s) <= Len(t) /\ \A i \in 1 .. Len(s) : s[i] = t[i]
  BY DEF IsPrefix, Paths

LEMMA PrefixOrder ==
    ASSUME NEW s \in Paths, NEW t \in Paths, NEW u \in Paths
    PROVE  /\ IsPrefix(s, s)
           /\ IsPrefix(s, t) /\ IsPrefix(t, u) => IsPrefix(s, u)
           /\ IsPrefix(s, t) /\ IsPrefix(t, s) => s = t
           /\ IsPrefix(s, u) /\ IsPrefix(t, u) => IsPrefix(s, t) \/ IsPrefix(t, s)
  <1>1. IsPrefix(s, s)
    BY PrefixElements
  <1>2. IsPrefix(s, t) /\ IsPrefix(t, u) => IsPrefix(s, u)
    BY PrefixElements DEF Paths
  <1>3. IsPrefix(s, t) /\ IsPrefix(t, s) => s = t
    BY PrefixElements DEF Paths
  <1>4. IsPrefix(s, u) /\ IsPrefix(t, u) => IsPrefix(s, t) \/ IsPrefix(t, s)
    BY PrefixElements DEF Paths
  <1> QED
    BY <1>1, <1>2, <1>3, <1>4

\* The beginnings of a path.
LEMMA Beginnings ==
    ASSUME NEW p \in Paths, NEW n \in 1 .. Len(p)
    PROVE  /\ SubSeq(p, 1, n) \in Paths
           /\ Len(SubSeq(p, 1, n)) = n
           /\ \A m \in 1 .. n : SubSeq(SubSeq(p, 1, n), 1, m) = SubSeq(p, 1, m)
           /\ SubSeq(p, 1, Len(p)) = p
  <1>1. SubSeq(p, 1, n) \in Paths /\ Len(SubSeq(p, 1, n)) = n
    BY DEF Paths
  <1>2. \A i \in 1 .. n : SubSeq(p, 1, n)[i] = p[i]
    BY DEF Paths
  <1>3. ASSUME NEW m \in 1 .. n PROVE SubSeq(SubSeq(p, 1, n), 1, m) = SubSeq(p, 1, m)
    BY <1>1, <1>2 DEF Paths
  <1>4. SubSeq(p, 1, Len(p)) = p
    BY DEF Paths
  <1> QED
    BY <1>1, <1>3, <1>4

\* Of some natural numbers one is the smallest.
LEMMA Smallest ==
    ASSUME NEW T, T \subseteq Nat, T # {}
    PROVE  \E n \in T : \A m \in T : n <= m
  <1> DEFINE R == OpToRel(<, Nat)
  <1>1. PICK n \in T : \A m \in T : <<m, n>> \notin R
    BY NatLessThanWellFounded, WFMin, Zenon
  <1>2. \A m \in T : m < n => <<m, n>> \in R
    BY SMT DEF OpToRel
  <1>3. \A m \in T : ~(m < n)
    BY <1>1, <1>2, Zenon
  <1> HIDE DEF R
  <1> QED
    BY <1>3

\* The operators of the instances are those of this module.
LEMMA SamePrefix ==
    ASSUME NEW s, NEW t
    PROVE  /\ Schemas!IsPrefix(s, t) <=> IsPrefix(s, t)
           /\ Cel!IsPrefix(s, t) <=> IsPrefix(s, t)
  BY DEF IsPrefix, Schemas!IsPrefix, Cel!IsPrefix

-----------------------------------------------------------------------------
(* Releases that break nothing.                                            *)

\* The paths of a schema: with a property, the tables around it.
Closed(paths) ==
    /\ paths \subseteq Paths
    /\ \A p \in paths : \A n \in 1 .. Len(p) : SubSeq(p, 1, n) \in paths

\* What stands for any key is no path of its own: a path to a property has none.
LEMMA EntriesAreBelow ==
    ASSUME NEW p \in Paths, ~Schemas!IsEntry(p), NEW n \in 1 .. Len(p)
    PROVE  ~Schemas!IsEntry(SubSeq(p, 1, n))
  <1>1. \A i \in 1 .. n : SubSeq(p, 1, n)[i] = p[i]
    BY DEF Paths
  <1>2. DOMAIN SubSeq(p, 1, n) = 1 .. n /\ DOMAIN p = 1 .. Len(p) /\ n <= Len(p)
    BY DEF Paths
  <1> QED
    BY <1>1, <1>2 DEF Schemas!IsEntry

\* checkSchemaProperties skips what is below a property that it has reported.  Yet if
\* it reports nothing, no property is gone or has another type: of a path with such
\* a property on it, the first one would have been reported.
LEMMA NothingBreaks ==
    ASSUME NEW old, NEW new, Closed(DOMAIN old), Schemas!checkSchemaProperties(old, new) = {},
           NEW p \in DOMAIN old, p # <<>>, ~Schemas!IsEntry(p)
    PROVE  p \in DOMAIN new /\ new[p] = old[p]
  <1> DEFINE Kept(q) == q \in DOMAIN new /\ new[q] = old[q]
             Changed == {n \in 1 .. Len(p) : ~Kept(SubSeq(p, 1, n))}
  <1>1. p \in Paths /\ Len(p) \in 1 .. Len(p) /\ SubSeq(p, 1, Len(p)) = p
    BY DEF Closed, Paths
  <1>2. SUFFICES ASSUME Changed # {} PROVE FALSE
    BY <1>1
  <1>3. PICK n \in Changed : \A m \in Changed : n <= m
    <2>1. Changed \subseteq Nat
      OBVIOUS
    <2> HIDE DEF Changed
    <2> QED
      BY <1>2, <2>1, Smallest
  <1> DEFINE q == SubSeq(p, 1, n)
  <1>4. q \in DOMAIN old /\ ~Kept(q) /\ n \in 1 .. Len(p)
    BY <1>3 DEF Closed
  <1>5. Len(q) = n /\ \A m \in 1 .. n : SubSeq(q, 1, m) = SubSeq(p, 1, m)
    BY <1>1, <1>4, Beginnings
  <1>6. ASSUME NEW m \in 1 .. Len(q) - 1 PROVE Kept(SubSeq(q, 1, m))
    <2>1. m \in 1 .. n /\ m \in 1 .. Len(p) /\ m < n
      BY <1>4, <1>5
    <2>2. Kept(SubSeq(p, 1, m))
      BY <1>3, <1>4, <2>1
    <2> QED
      BY <1>5, <2>1, <2>2
  <1>7. ~Schemas!IsEntry(q)
    BY <1>1, <1>4, EntriesAreBelow
  <1> HIDE DEF q, Changed
  <1>8. q \in Schemas!checkSchemaProperties(old, new)
    BY <1>4, <1>6, <1>7 DEF Schemas!checkSchemaProperties, Schemas!Properties
  <1> QED
    BY <1>8

-----------------------------------------------------------------------------
(* What is settable.                                                       *)

\* A values.yaml, in which no leaf is below another one.
WellFormed(c) ==
    /\ DOMAIN c.leaf \subseteq Path
    /\ \A p, q \in DOMAIN c.leaf : p # q => ~IsPrefix(p, q)
    /\ DOMAIN c.items \subseteq Mapped
    /\ c.shape \in {<<>>, Shape}

\* A path that a chart can have: of keys with names.
Named(p) == p \in Paths /\ ~Schemas!IsEntry(p)

LEMMA NamedPaths ==
    ASSUME NEW c, WellFormed(c)
    PROVE  /\ \A p \in DOMAIN c.leaf : Named(p)
           /\ \A t \in DOMAIN c.items \cup DOMAIN c.shape : t \in Paths
           /\ \A t \in DOMAIN c.items : Named(t)
           /\ \A t \in DOMAIN c.shape : \A p \in c.shape[t] : Named(p) /\ IsPrefix(t, p) /\ p # t
  <1>1. \A p \in Path \cup Mapped \cup UNION {Shape[t] : t \in DOMAIN Shape} :
           p \in Paths => Named(p)
    BY PathAssumption DEF Named, Schemas!IsEntry, Schemas!AnyKey
  <1>2. \A p \in DOMAIN c.leaf : Named(p)
    BY <1>1, PathAssumption, StringPaths DEF WellFormed
  <1>3. \A t \in DOMAIN c.items : Named(t) /\ t \in Paths
    BY <1>1, PathAssumption, StringPaths DEF WellFormed
  <1>4. CASE c.shape = Shape
    <2>1. \A t \in DOMAIN Shape : t \in Paths
      BY PathAssumption, StringPaths
    <2>2. \A t \in DOMAIN Shape : \A p \in Shape[t] : p \in Paths /\ IsPrefix(t, p) /\ p # t
      BY PathAssumption, StringPaths
    <2>3. \A t \in DOMAIN Shape : \A p \in Shape[t] : Named(p)
      BY <1>1, <2>2
    <2> QED
      BY <1>2, <1>3, <1>4, <2>1, <2>2, <2>3
  <1>5. CASE c.shape = <<>>
    <2>1. DOMAIN c.shape = {}
      BY <1>5
    <2> QED
      BY <1>2, <1>3, <2>1
  <1> QED
    BY <1>4, <1>5 DEF WellFormed

\* A table that is replaced is around a leaf of the values, or is empty there.
LEMMA ReplacedTables ==
    ASSUME NEW c, NEW t \in Schemas!Replaced(c)
    PROVE  /\ t \in DOMAIN c.items \cup DOMAIN c.shape
           /\ \E r \in DOMAIN c.leaf : IsPrefix(t, r) /\ (r = t => c.leaf[r] = <<"empty">>)
  BY SamePrefix DEF Schemas!Replaced

\* The leaves of a schema are exported leaves of the values, the entries of a map, or
\* come from the shape of a table that is there.
LEMMA LeavesComeFrom ==
    ASSUME NEW c, NEW q \in DOMAIN Schemas!SchemaLeaves(c)
    PROVE  \/ q \in DOMAIN c.leaf /\ Schemas!exported(Schemas!PreprocessYAML(c), q)
           \/ \E t \in Schemas!Maps(c) : q = Append(t, Schemas!AnyKey)
           \/ \E t \in Schemas!Replaced(c) \ Schemas!Maps(c) : q \in c.shape[t]
  BY DEF Schemas!SchemaLeaves

\* An expression is not exported, whatever its hint.
LEMMA ExpressionsAreHidden ==
    ASSUME NEW c, NEW p \in Schemas!Marked(c), p \in Paths
    PROVE  ~Schemas!exported(Schemas!PreprocessYAML(c), p)
  <1> DEFINE hints == Schemas!PreprocessYAML(c)
             marked == {q \in DOMAIN hints : Schemas!IsPrefix(q, p)}
  <1>1. p \in DOMAIN hints /\ hints[p] = FALSE
    BY DEF Schemas!PreprocessYAML
  <1> HIDE DEF hints
  <1>2. p \in marked
    BY <1>1, SamePrefix, PrefixOrder
  <1> QED
    BY <1>1, <1>2 DEF Schemas!exported, hints

\* What a claim sets at a path of named keys meets only what is on, above or below it;
\* an entry of a map, only what is above or below the map.
LEMMA MeetsIsComparable ==
    ASSUME NEW p \in Paths, NEW q \in Paths, ~Schemas!IsEntry(q), Meets(q, p)
    PROVE  IsPrefix(p, q) \/ IsPrefix(q, p)
  <1>1. \A i \in DOMAIN q : q[i] # Schemas!AnyKey
    BY DEF Schemas!IsEntry
  <1>2. \A i \in DOMAIN p \cap DOMAIN q : q[i] = p[i]
    BY <1>1 DEF Meets
  <1>3. /\ DOMAIN p = 1 .. Len(p) /\ DOMAIN q = 1 .. Len(q)
        /\ Len(p) \in Nat /\ Len(q) \in Nat
    BY DEF Paths
  <1>4. CASE Len(p) <= Len(q)
    <2>1. \A i \in 1 .. Len(p) : p[i] = q[i]
      BY <1>2, <1>3, <1>4
    <2> QED
      BY <1>4, <2>1, PrefixElements
  <1>5. CASE Len(q) <= Len(p)
    <2>1. \A i \in 1 .. Len(q) : q[i] = p[i]
      BY <1>2, <1>3, <1>5
    <2> QED
      BY <1>5, <2>1, PrefixElements
  <1> QED
    BY <1>3, <1>4, <1>5

LEMMA MeetsEntry ==
    ASSUME NEW p \in Paths, NEW t \in Paths, Meets(Append(t, Schemas!AnyKey), p), ~Schemas!IsEntry(t)
    PROVE  IsPrefix(p, t) \/ IsPrefix(t, p)
  <1> DEFINE q == Append(t, Schemas!AnyKey)
  <1>1. Len(q) = Len(t) + 1 /\ DOMAIN t = 1 .. Len(t) /\ Len(t) \in Nat
    BY DEF Paths
  <1>2. DOMAIN t \subseteq DOMAIN q /\ \A i \in DOMAIN t : q[i] = t[i]
    BY DEF Paths
  <1>3. Meets(t, p)
    BY <1>2 DEF Meets
  <1> QED
    BY <1>3, MeetsIsComparable

\* What the chart computes is not in the schema, nor is anything above or below it,
\* outside of the tables that a hint replaces.
LEMMA ComputedIsHidden ==
    ASSUME NEW c, WellFormed(c), NEW p \in Schemas!Marked(c), NEW q \in DOMAIN Schemas!SchemaLeaves(c),
           \A t \in Schemas!Replaced(c) : ~IsPrefix(t, p)
    PROVE  ~Meets(q, p)
  <1>1. p \in DOMAIN c.leaf /\ Named(p) /\ p \in Paths
    BY NamedPaths DEF Schemas!Marked, Schemas!Exprs, Named
  <1>2. CASE q \in DOMAIN c.leaf /\ Schemas!exported(Schemas!PreprocessYAML(c), q)
    <2>1. q # p
      BY <1>1, <1>2, ExpressionsAreHidden
    <2>2. ~IsPrefix(p, q) /\ ~IsPrefix(q, p)
      BY <1>1, <1>2, <2>1 DEF WellFormed
    <2>3. q \in Paths /\ ~Schemas!IsEntry(q)
      BY <1>2, NamedPaths DEF Named
    <2> QED
      BY <1>1, <2>2, <2>3, MeetsIsComparable
  <1>3. ASSUME NEW t \in Schemas!Replaced(c)
        PROVE  t \in Paths /\ ~IsPrefix(t, p) /\ ~IsPrefix(p, t)
    <2>1. t \in Paths
      BY ReplacedTables, NamedPaths
    <2>2. PICK r \in DOMAIN c.leaf : IsPrefix(t, r)
      BY ReplacedTables
    <2>3. r \in Paths
      BY NamedPaths DEF Named
    <2>4. ASSUME IsPrefix(p, t) PROVE FALSE
      <3>1. IsPrefix(p, r)
        BY <1>1, <2>1, <2>2, <2>3, <2>4, PrefixOrder
      <3>2. p = r
        BY <1>1, <3>1 DEF WellFormed
      <3> QED
        BY <2>2, <3>2
    <2> QED
      BY <2>1, <2>4
  <1>4. ASSUME NEW t \in Schemas!Maps(c), q = Append(t, Schemas!AnyKey) PROVE ~Meets(q, p)
    <2>1. t \in Schemas!Replaced(c) /\ Named(t)
      BY NamedPaths DEF Schemas!Maps
    <2> QED
      BY <1>1, <1>3, <1>4, <2>1, MeetsEntry DEF Named
  <1>5. ASSUME NEW t \in Schemas!Replaced(c) \ Schemas!Maps(c), q \in c.shape[t] PROVE ~Meets(q, p)
    <2>1. t \in DOMAIN c.shape
      BY ReplacedTables DEF Schemas!Maps
    <2>2. Named(q) /\ q \in Paths /\ IsPrefix(t, q)
      BY <1>5, <2>1, NamedPaths DEF Named
    <2>3. t \in Paths /\ ~IsPrefix(t, p) /\ ~IsPrefix(p, t)
      BY <1>3
    <2>4. ~IsPrefix(q, p)
      BY <1>1, <2>2, <2>3, PrefixOrder
    <2>5. ~IsPrefix(p, q)
      BY <1>1, <2>2, <2>3, PrefixOrder
    <2> QED
      BY <1>1, <2>2, <2>4, <2>5, MeetsIsComparable DEF Named
  <1> QED
    BY <1>2, <1>4, <1>5, LeavesComeFrom

\* A schema has, with every leaf and every map, the tables around it, which are objects.
LEMMA SchemaPaths ==
    ASSUME NEW c, WellFormed(c)
    PROVE  LET schema == Schemas!valuesSchema(c)
           IN  /\ Closed(DOMAIN schema)
               /\ <<>> \notin DOMAIN schema
               /\ \A p \in DOMAIN schema : schema[p] # "object" => p \in DOMAIN Schemas!SchemaLeaves(c)
  <1> DEFINE leaves == Schemas!SchemaLeaves(c)
             ends == DOMAIN leaves \cup Schemas!Maps(c)
             nodes == UNION {{SubSeq(p, 1, n) : n \in 1 .. Len(p)} : p \in ends}
             schema == Schemas!valuesSchema(c)
  <1>1. ends \subseteq Paths
    <2>1. ASSUME NEW t \in Schemas!Maps(c)
          PROVE  t \in Paths /\ Append(t, Schemas!AnyKey) \in Paths
      <3>1. t \in Paths
        BY NamedPaths DEF Schemas!Maps
      <3> QED
        BY <3>1 DEF Paths
    <2>2. \A t \in Schemas!Replaced(c) \ Schemas!Maps(c) : c.shape[t] \subseteq Paths
      BY ReplacedTables, NamedPaths DEF Schemas!Maps, Named
    <2>3. DOMAIN leaves \subseteq Paths
      BY <2>1, <2>2, LeavesComeFrom, NamedPaths DEF Named
    <2> QED
      BY <2>1, <2>3
  <1>2. /\ DOMAIN schema = nodes
        /\ \A p \in nodes : schema[p] # "object" => p \in DOMAIN leaves
    BY DEF Schemas!valuesSchema
  <1> HIDE DEF leaves, ends, schema
  <1>3. ASSUME NEW p \in nodes
        PROVE  p \in Paths /\ p # <<>> /\ \A n \in 1 .. Len(p) : SubSeq(p, 1, n) \in nodes
    <2>1. PICK l \in ends : \E n \in 1 .. Len(l) : p = SubSeq(l, 1, n)
      OBVIOUS
    <2>2. PICK k \in 1 .. Len(l) : p = SubSeq(l, 1, k)
      BY <2>1
    <2>3. l \in Paths /\ Len(l) \in Nat
      BY <1>1, <2>1 DEF Paths
    <2>4. /\ p \in Paths /\ Len(p) = k
          /\ \A m \in 1 .. k : SubSeq(p, 1, m) = SubSeq(l, 1, m)
      BY <2>2, <2>3, Beginnings
    <2>5. p # <<>>
      BY <2>2, <2>3, <2>4
    <2>6. ASSUME NEW n \in 1 .. Len(p) PROVE SubSeq(p, 1, n) \in nodes
      <3>1. n \in 1 .. Len(l) /\ SubSeq(p, 1, n) = SubSeq(l, 1, n)
        BY <2>2, <2>3, <2>4, <2>6
      <3> QED
        BY <3>1
    <2> QED
      BY <2>4, <2>5, <2>6
  <1> HIDE DEF nodes
  <1> QED
    BY <1>2, <1>3 DEF Closed, leaves, schema

\* The entries of maps are leaves of the schema: it has nothing below them.
LEMMA EntriesAreLeaves ==
    ASSUME NEW c, WellFormed(c), NEW q \in DOMAIN Schemas!valuesSchema(c), Schemas!IsEntry(q)
    PROVE  q \in DOMAIN Schemas!SchemaLeaves(c)
  <1> DEFINE leaves == Schemas!SchemaLeaves(c)
             ends == DOMAIN leaves \cup Schemas!Maps(c)
  <1>1. PICK l \in ends : \E n \in 1 .. Len(l) : q = SubSeq(l, 1, n)
    BY DEF Schemas!valuesSchema
  <1>2. PICK n \in 1 .. Len(l) : q = SubSeq(l, 1, n)
    BY <1>1
  <1>3. ASSUME Named(l) PROVE FALSE
    BY <1>2, <1>3, EntriesAreBelow DEF Named
  <1>4. \A t \in Schemas!Maps(c) : Named(t)
    BY NamedPaths DEF Schemas!Maps
  <1>5. \A t \in Schemas!Replaced(c) \ Schemas!Maps(c) : \A p \in c.shape[t] : Named(p)
    BY ReplacedTables, NamedPaths DEF Schemas!Maps
  <1>6. l \in DOMAIN leaves
    BY <1>3, <1>4
  <1>7. PICK t \in Schemas!Maps(c) : l = Append(t, Schemas!AnyKey)
    BY <1>3, <1>5, <1>6, LeavesComeFrom, NamedPaths
  <1>8. t \in Paths /\ ~Schemas!IsEntry(t)
    BY <1>4 DEF Named
  <1>9. n = Len(l)
    <2>1. Len(l) = Len(t) + 1 /\ Len(t) \in Nat
      BY <1>7, <1>8 DEF Paths
    <2>2. CASE n <= Len(t)
      <3>1. n \in 1 .. Len(t) /\ SubSeq(l, 1, n) = SubSeq(t, 1, n)
        BY <1>2, <1>7, <1>8, <2>1, <2>2 DEF Paths
      <3> QED
        BY <1>2, <1>8, <3>1, EntriesAreBelow
    <2> QED
      BY <1>2, <2>1, <2>2
  <1>10. l \in Paths
    BY <1>7, <1>8 DEF Paths
  <1>11. q = l
    BY <1>2, <1>9, <1>10, Beginnings
  <1> QED
    BY <1>6, <1>11

-----------------------------------------------------------------------------
(* A chart and its claims over time.                                       *)

\* The CRD is that of the chart, and the properties in the claim fit it; it sets no
\* tables.
ChartInv ==
    part = "chart" =>
        /\ WellFormed(chart)
        /\ crd = Schemas!GenerateCRD(chart, 1)
        /\ \A p \in DOMAIN claim : claim[p] # "object"
        /\ StoredClaimsFit

LEMMA ReleasesWellFormed ==
    ASSUME NEW new \in Releases
    PROVE  WellFormed(new.chart) /\ new.crd = Schemas!GenerateCRD(new.chart, 1)
  <1>1. PICK c \in Charts(Leaf) : new = [chart |-> c, crd |-> Schemas!GenerateCRD(c, 1)]
    BY DEF Releases
  <1>2. WellFormed(c)
    <2>1. PICK l \in Trees(Path, Leaf), i \in UNION {[M -> Entry] : M \in SUBSET Mapped} :
             c.leaf = l /\ c.items = i /\ c.shape \in {<<>>, Shape}
      BY DEF Charts
    <2>2. PICK ps \in SUBSET Path : l \in [ps -> Leaf] /\ \A p, q \in ps : p # q => ~IsPrefix(p, q)
      BY DEF Trees
    <2>3. DOMAIN i \subseteq Mapped
      OBVIOUS
    <2> QED
      BY <2>1, <2>2, <2>3 DEF WellFormed
  <1> QED
    BY <1>1, <1>2

LEMMA ChartInvInit == TInit => ChartInv
  <1> SUFFICES ASSUME TInit PROVE ChartInv
    OBVIOUS
  <1>1. chart = Schemas!NoChart /\ crd = Schemas!GenerateCRD(Schemas!NoChart, 1) /\ claim = <<>>
    BY DEF TInit
  <1>2. DOMAIN claim = {} /\ DOMAIN chart.leaf = {} /\ DOMAIN chart.items = {} /\ chart.shape = <<>>
    BY <1>1 DEF Schemas!NoChart
  <1> QED
    BY <1>1, <1>2 DEF ChartInv, WellFormed, StoredClaimsFit, Fits

LEMMA ChartInvStep == ChartInv /\ [TNext]_vars => ChartInv'
  <1> SUFFICES ASSUME ChartInv, [TNext]_vars PROVE ChartInv'
    OBVIOUS
  <1>1. CASE Publish
    <2>1. PICK new \in Releases :
             /\ Schemas!Check(crd, new.crd) = {} /\ chart' = new.chart /\ crd' = new.crd
             /\ part = "chart" /\ part' = part /\ claim' = claim
      BY <1>1 DEF Publish
    <2>2. WellFormed(chart') /\ crd' = Schemas!GenerateCRD(chart', 1)
      BY <2>1, ReleasesWellFormed
    <2>3. WellFormed(chart) /\ crd = Schemas!GenerateCRD(chart, 1)
      BY <2>1 DEF ChartInv
    <2>4. crd.schema = Schemas!valuesSchema(chart) /\ crd.group = crd'.group
      BY <2>2, <2>3 DEF Schemas!GenerateCRD
    <2>5. Closed(DOMAIN crd.schema) /\ <<>> \notin DOMAIN crd.schema
      BY <2>3, <2>4, SchemaPaths
    <2>6. Schemas!checkSchemaProperties(crd.schema, crd'.schema) = {}
      BY <2>1, <2>4 DEF Schemas!Check
    <2>7. \A p \in DOMAIN crd.schema : ~Schemas!IsEntry(p) =>
             p \in DOMAIN crd'.schema /\ crd'.schema[p] = crd.schema[p]
      BY <2>5, <2>6, NothingBreaks
    <2> QED
      BY <2>1, <2>2, <2>7 DEF ChartInv, StoredClaimsFit, Fits
  <1>2. CASE WriteClaim
    <2>1. /\ UNCHANGED <<part, chart, crd>> /\ part = "chart"
          /\ \E paths \in SUBSET {p \in DOMAIN crd.schema : crd.schema[p] # "object"} :
                claim' = [p \in paths |-> crd.schema[p]]
      BY <1>2 DEF WriteClaim
    <2>2. \A p \in DOMAIN claim' :
             p \in DOMAIN crd.schema /\ crd.schema[p] # "object" /\ claim'[p] = crd.schema[p]
      BY <2>1
    <2> QED
      BY <2>1, <2>2 DEF ChartInv, StoredClaimsFit, Fits
  <1>3. CASE Calculate \/ Discover
    BY <1>3 DEF Calculate, Discover, ChartInv
  <1>4. CASE ConfigMaps \/ Proxy \/ UNCHANGED vars
    <2>1. UNCHANGED <<part, chart, crd, claim>>
      BY <1>4 DEF ConfigMaps, Proxy, vars, chartVars
    <2> QED
      BY <2>1 DEF ChartInv, StoredClaimsFit, Fits
  <1> QED
    BY <1>1, <1>2, <1>3, <1>4 DEF TNext

\* What a claim has set as a property stays settable, with the type it had, through any
\* number of releases that Check lets through (breakagedetection), for charts and claims
\* with any paths and hints.  The entries of maps are not among it: nothing compares them.
THEOREM ClaimsStayValid == TSpec => []StoredClaimsFit
  <1>1. ChartInv => StoredClaimsFit
    BY DEF ChartInv, StoredClaimsFit
  <1> QED
    BY <1>1, ChartInvInit, ChartInvStep, PTL DEF TSpec

\* A claim sets nothing on, above or below a value that the chart computes, also if it
\* was written for an earlier chart that did not compute it (PreprocessYAML and the
\* walk of schemagen), if PreprocessYAML recognises the expression and no hint replaces
\* the table it is in; other expressions a claim can set.
THEOREM ComputedStaysHidden == TSpec => []ComputedIsNotSettable
  <1>1. ChartInv => ComputedIsNotSettable
    <2> SUFFICES ASSUME ChartInv, part = "chart",
                        NEW p \in Schemas!Marked(chart), NEW q \in DOMAIN claim,
                        Schemas!IsEntry(q) => q \in DOMAIN crd.schema,
                        \A t \in Schemas!Replaced(chart) : ~IsPrefix(t, p)
                 PROVE  ~Meets(q, p)
      BY DEF ComputedIsNotSettable, Settable
    <2>1. WellFormed(chart) /\ crd.schema = Schemas!valuesSchema(chart)
      BY DEF ChartInv, Schemas!GenerateCRD
    <2>2. q \in DOMAIN Schemas!SchemaLeaves(chart)
      <3>1. CASE Schemas!IsEntry(q)
        BY <2>1, <3>1, EntriesAreLeaves
      <3>2. CASE ~Schemas!IsEntry(q)
        <4>1. q \in DOMAIN crd.schema /\ crd.schema[q] # "object"
          BY <3>2 DEF ChartInv, StoredClaimsFit, Fits
        <4> QED
          BY <2>1, <4>1, SchemaPaths
      <3> QED
        BY <3>1, <3>2
    <2> QED
      BY <2>1, <2>2, ComputedIsHidden
  <1> QED
    BY <1>1, ChartInvInit, ChartInvStep, PTL DEF TSpec
=============================================================================
