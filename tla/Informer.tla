------------------------------ MODULE Informer ------------------------------
(***************************************************************************)
(* What the controllers rely on of the API server and of the informer      *)
(* caches of controller-runtime.  Neither is part of the repository.       *)
(*                                                                         *)
(* The objects of one kind are a window: the sequence of the states that   *)
(* the kind went through, from the one the informer has delivered last     *)
(* (what r.Get and r.List read) to the one the API server holds now (what  *)
(* writes act on).  One watch serves a kind, so its events arrive in       *)
(* order; windows of different kinds advance independently of each other.  *)
(***************************************************************************)
EXTENDS Naturals, Sequences

\* A kind whose cache is in sync.
Synced(state) == <<state>>

\* What the cache serves, and what the API server holds.
Cached(window) == window[1]
Stored(window) == window[Len(window)]

\* Some change of the kind has not reached the cache yet.
Lagging(window) == Len(window) > 1

\* A write that the API server has accepted, and the delivery of a change.
Written(window, state) == Append(window, state)
Delivered(window) == Tail(window)
=============================================================================
