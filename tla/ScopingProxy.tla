---------------------------- MODULE ScopingProxy ----------------------------
(***************************************************************************)
(* The scoping proxy (proxy/proxy.go) between an operator and the API      *)
(* server.  A cluster-wide list or watch is narrowed to the objects that   *)
(* carry the caller's scope label and sent with the proxy's own            *)
(* credentials; every other request goes on with the caller's; the label   *)
(* is put on what the caller writes.                                       *)
(*                                                                         *)
(* One resource, one caller.  An object is the set of scope labels on it,  *)
(* a selector the set of labels it asks for.  What the API server answers  *)
(* to the caller's own credentials, and whether a review or a decoding     *)
(* fails, is any outcome.                                                  *)
(***************************************************************************)
EXTENDS Integers, FiniteSets

CONSTANTS
    Object,         \* names of objects
    Scope,          \* scope labels
    Malformed,      \* a string that is no label
    Unset,          \* no header, no annotation, no injection
    Absent          \* the caller is not in the proxy's store

VARIABLES
    injection,      \* the label injection the proxy is started with: Unset or all
    objects,        \* the objects of the resource, each the labels on it
    made,           \* objects last written through the proxy, each under which scope
    granted,        \* the names the caller may scopedlist
    store,          \* the caller's scope annotation in the proxy's store
    exchange        \* the request just answered, Unset between two requests

proxyVars == <<injection, objects, made, granted, store, exchange>>

-----------------------------------------------------------------------------

Label == Scope \cup {Malformed}
\* A service account or a person, with a bearer token or (either way) basic authentication.
Caller == [token : {"bearer"}, header : Label \cup {Unset}, sa : BOOLEAN]
          \cup [token : {"basic"}, header : Scope, sa : {TRUE}]
Failure == {"none", "token review", "access review", "body"}

\* The header, or the annotation of the service account as it is in the store.
getScopeLabel(c) ==
    IF c.header # Unset THEN c.header
    ELSE IF c.sa /\ store \in Label THEN store
    ELSE Unset

\* What is refused before anything is looked at: a caller that the token review
\* does not know, or one without a scope.
Unknown(c, failure) ==
    \/ c.token # "bearer"
    \/ failure = "token review"
    \/ getScopeLabel(c) = Unset

requestNeedsRewrite(verb, ns) == verb \in {"list", "watch"} /\ ns = ""

checkCustomVerbAccess(c) == getScopeLabel(c) \in granted

\* What Rewrite answers to a list or a watch in place of the API server; 200 when
\* the request is sent on.
RewriteStatus(c, verb, ns, failure) ==
    IF Unknown(c, failure) THEN 500
    ELSE IF ~requestNeedsRewrite(verb, ns) THEN 200
    ELSE IF failure = "access review" THEN 500
    ELSE IF ~checkCustomVerbAccess(c) THEN 403
    ELSE IF getScopeLabel(c) = Malformed THEN 422
    ELSE 200

\* Mutant: the scope takes the place of the caller's selector.
RewriteSelectorOnly(c, sel) == {getScopeLabel(c)}

RewriteSelector(c, sel) == sel \cup {getScopeLabel(c)}

\* The answer of the API server, with the credentials the request arrives with.
Serve(c, verb, ns, sel, failure, may) ==
    LET narrowed == requestNeedsRewrite(verb, ns)
        sent == RewriteStatus(c, verb, ns, failure)
        status == IF sent # 200 THEN sent ELSE IF narrowed \/ may THEN 200 ELSE 403
        selector == IF narrowed THEN RewriteSelector(c, sel) ELSE sel
    IN  [caller |-> c, verb |-> verb, ns |-> ns, sel |-> sel,
         status |-> status,
         own |-> sent = 200 /\ narrowed,
         seen |-> IF status = 200 THEN {o \in DOMAIN objects : selector \subseteq objects[o]}
                  ELSE {}]

\* A list or a watch, in a namespace (where all objects are) or in all.
Read ==
    /\ exchange = Unset
    /\ \E c \in Caller, verb \in {"list", "watch"}, ns \in {"", "home"}, sel \in SUBSET Scope,
          failure \in Failure \ {"body"}, may \in BOOLEAN :
          exchange' = Serve(c, verb, ns, sel, failure, may)
    /\ UNCHANGED <<injection, objects, made, granted, store>>

\* Mutant: an apply patch is left alone as the other patches are.
InjectsBodies(verb, content) == injection = "all" /\ verb \in {"create", "update"}

\* The injector leaves alone what has no body, and the three patches of parts.
Injects(verb, content) ==
    injection = "all" /\ verb \in {"create", "update", "patch"} /\ content # "merge-patch"

\* What the injector is there for: every write that can create the object.
Recorded(o, how) == IF injection = "all" /\ how[2] # "merge-patch" THEN {o} ELSE {}

\* A write: how it is made, and the labels of the body as they arrive.
How == {<<"create", "object">>, <<"update", "object">>, <<"patch", "apply-patch">>, <<"patch", "merge-patch">>}
Injected(c, body, how) == IF Injects(how[1], how[2]) THEN body \cup {getScopeLabel(c)} ELSE body

\* What the proxy answers to a write, or else the API server.
WriteStatus(c, o, labels, how, failure, may) ==
    IF Unknown(c, failure) \/ (Injects(how[1], how[2]) /\ failure = "body") THEN 500
    ELSE IF ~may THEN 403
    ELSE IF how[1] = "create" /\ o \in DOMAIN objects THEN 409
    ELSE IF how[1] # "create" /\ how[2] # "apply-patch" /\ o \notin DOMAIN objects THEN 404
    ELSE IF Malformed \in labels THEN 422
    ELSE 200

\* The API server stores it; an apply keeps the labels of others.
Store(c, o, labels, how) ==
    LET kept == IF how[2] = "apply-patch" /\ o \in DOMAIN objects THEN objects[o] ELSE {}
    IN  /\ objects' = [p \in DOMAIN objects \cup {o} |-> IF p = o THEN kept \cup labels ELSE objects[p]]
        /\ made' = [p \in (DOMAIN made \ {o}) \cup Recorded(o, how) |->
                       IF p = o THEN getScopeLabel(c) ELSE made[p]]

\* A write to an object itself: create, update, apply (which may create), or a
\* patch of parts.
InjectLabelIntoRequest(c, o, body, how, failure, may) ==
    LET labels == Injected(c, body, how)
        status == WriteStatus(c, o, labels, how, failure, may)
    IN  /\ exchange' = [caller |-> c, verb |-> how[1], status |-> status, own |-> FALSE, seen |-> {}]
        /\ IF status = 200 THEN Store(c, o, labels, how) ELSE UNCHANGED <<objects, made>>

Write ==
    /\ exchange = Unset
    /\ \E c \in Caller, o \in Object, body \in SUBSET Scope, how \in How,
          failure \in Failure \ {"access review"}, may \in BOOLEAN :
          InjectLabelIntoRequest(c, o, body, how, failure, may)
    /\ UNCHANGED <<injection, granted, store>>

\* Mutant: any review that is answered no is answered by the grants.
AsksAnything(about, may) == ~may

\* Whether the answer is replaced: it is no, and about a list of all namespaces.
Asks(about, may) == ~may /\ requestNeedsRewrite(about[1], about[2])

\* ModifyResponse: the API server's answer to a SelfSubjectAccessReview is
\* replaced when it is no and a scoped list is asked about.  A review of a path,
\* not of a resource, that is answered no is dereferenced as if it were one: the
\* handler panics and the connection ends.
ModifyResponse(c, about, failure, may) ==
    LET asks == Asks(about, may)
        status == IF Unknown(c, failure) THEN 500
                  ELSE IF ~may /\ about[1] = "path" THEN 0
                  ELSE IF asks /\ failure = "access review" THEN 500
                  ELSE IF failure = "body" THEN 500
                  ELSE 200
    IN  [caller |-> c, verb |-> "review", about |-> about, status |-> status, own |-> FALSE,
         may |-> may, seen |-> {}, allowed |-> IF asks THEN checkCustomVerbAccess(c) ELSE may]

Review ==
    /\ exchange = Unset
    /\ \E c \in Caller, failure \in Failure, may \in BOOLEAN,
          about \in {<<"list", "">>, <<"watch", "">>, <<"list", "home">>, <<"create", "">>,
                     <<"path", "">>} :
          exchange' = ModifyResponse(c, about, failure, may)
    /\ UNCHANGED <<injection, objects, made, granted, store>>

\* The client has its answer.
Answered ==
    /\ exchange # Unset
    /\ exchange' = Unset
    /\ UNCHANGED <<injection, objects, made, granted, store>>

\* Grants, the annotation in the store and the objects change behind the proxy.
Grant ==
    /\ exchange = Unset
    /\ granted' \in SUBSET Label
    /\ UNCHANGED <<injection, objects, made, store, exchange>>

Reflect ==
    /\ exchange = Unset
    /\ store' \in Label \cup {Unset, Absent}
    /\ UNCHANGED <<injection, objects, made, granted, exchange>>

Others ==
    /\ exchange = Unset
    /\ \E o \in Object, labels \in SUBSET Scope :
          objects' = [p \in DOMAIN objects \cup {o} |-> IF p = o THEN labels ELSE objects[p]]
    /\ made' = [p \in {q \in DOMAIN made : objects'[q] = objects[q]} |-> made[p]]
    /\ UNCHANGED <<injection, granted, store, exchange>>

ProxyInit ==
    /\ injection \in {Unset, "all"}
    /\ objects = [o \in {} |-> {}]
    /\ made = [o \in {} |-> {}]
    /\ granted = {}
    /\ store = Absent
    /\ exchange = Unset

ProxyNext == Read \/ Write \/ Review \/ Answered \/ Grant \/ Reflect \/ Others

ProxySpec == ProxyInit /\ [][ProxyNext]_proxyVars

-----------------------------------------------------------------------------

\* The proxy lends its cluster-wide credentials to a cluster-wide list or watch
\* only, under a label the caller holds a grant for at that moment, and the
\* answer is what the caller selects among the objects with that label: no
\* header, annotation, selector or failing review shows the caller more or hides
\* what is its own.
NothingOutOfScope ==
    [][exchange' # Unset /\ exchange'.own =>
          /\ exchange'.verb \in {"list", "watch"} /\ exchange'.ns = ""
          /\ \E s \in granted \cap Scope :
                /\ exchange'.caller.header \in {s, Unset}
                /\ exchange'.seen = {o \in DOMAIN objects : {s} \cup exchange'.sel \subseteq objects[o]}]_proxyVars

\* With injection, what the caller last created, updated or applied through the
\* proxy has the label it was written under, so that a list under that label
\* sees it, until a patch or somebody behind the proxy takes the label away.
OwnObjectsAreSeen ==
    \A o \in DOMAIN made : made[o] \in objects[o]

\* A SelfSubjectAccessReview through the proxy agrees with the proxy: a no of the
\* API server becomes a yes exactly when the list it asks about would not be
\* forbidden, and no other answer is touched.
ReviewMatchesList ==
    [][exchange' # Unset /\ exchange'.verb = "review" /\ exchange'.status = 200 =>
          exchange'.allowed =
             IF ~exchange'.may /\ exchange'.about[1] \in {"list", "watch"} /\ exchange'.about[2] = ""
             THEN RewriteStatus(exchange'.caller, "list", "", "none") # 403
             ELSE exchange'.may]_proxyVars
=============================================================================
