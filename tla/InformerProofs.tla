--------------------------- MODULE InformerProofs ---------------------------
(* What writes and deliveries do to the two ends of a window.              *)
EXTENDS Informer, TLAPS

\* A write leaves the cache alone and makes it lag behind the API server.
LEMMA WrittenWindow ==
    ASSUME NEW S, NEW w \in Seq(S), w # <<>>, NEW s \in S
    PROVE  /\ Written(w, s) \in Seq(S)
           /\ Written(w, s) # <<>>
           /\ Cached(Written(w, s)) = Cached(w)
           /\ Stored(Written(w, s)) = s
           /\ Lagging(Written(w, s))
  BY DEF Written, Cached, Stored, Lagging

\* A delivery moves the cache and leaves the API server alone.
LEMMA DeliveredWindow ==
    ASSUME NEW S, NEW w \in Seq(S), Lagging(w)
    PROVE  /\ Delivered(w) \in Seq(S)
           /\ Delivered(w) # <<>>
           /\ Cached(Delivered(w)) = w[2]
           /\ Stored(Delivered(w)) = Stored(w)
  <1>1. Len(w) \in Nat /\ Len(w) > 1 /\ w # <<>>
    BY DEF Lagging
  <1>2. Tail(w) \in Seq(S) /\ Len(Tail(w)) = Len(w) - 1
    BY <1>1
  <1>3. \A i \in 1 .. Len(w) - 1 : Tail(w)[i] = w[i + 1]
    BY <1>1, <1>2
  <1>4. Tail(w)[1] = w[2] /\ Tail(w)[Len(w) - 1] = w[Len(w)]
    BY <1>1, <1>3
  <1>5. Len(Tail(w)) # 0
    BY <1>1, <1>2
  <1>6. ASSUME Tail(w) = <<>> PROVE FALSE
    <2>1. Len(Tail(w)) = Len(<<>>)
      BY <1>6
    <2>2. Len(<<>>) = 0
      OBVIOUS
    <2> QED
      BY <2>1, <2>2, <1>5
  <1> QED
    BY <1>2, <1>4, <1>6 DEF Delivered, Stored, Cached

\* A window holds states of its kind, and a cache that does not lag is current.
LEMMA WindowEnds ==
    ASSUME NEW S, NEW w \in Seq(S), w # <<>>
    PROVE  /\ Cached(w) \in S
           /\ Stored(w) \in S
           /\ ~Lagging(w) => Cached(w) = Stored(w)
  BY DEF Cached, Stored, Lagging

\* A fresh informer is in sync.
LEMMA SyncedWindow ==
    ASSUME NEW S, NEW s \in S
    PROVE  /\ Synced(s) \in Seq(S)
           /\ Synced(s) # <<>>
           /\ Cached(Synced(s)) = s
           /\ Stored(Synced(s)) = s
           /\ ~Lagging(Synced(s))
  BY DEF Synced, Cached, Stored, Lagging

-----------------------------------------------------------------------------
(* Everything a window holds.                                              *)

States(window) == {window[i] : i \in 1 .. Len(window)}

\* The two ends are among the states.
LEMMA EndsAreStates ==
    ASSUME NEW S, NEW w \in Seq(S), w # <<>>
    PROVE  Cached(w) \in States(w) /\ Stored(w) \in States(w) /\ States(w) \subseteq S
  <1>1. Len(w) \in Nat /\ 1 \in 1 .. Len(w) /\ Len(w) \in 1 .. Len(w)
    OBVIOUS
  <1> QED
    BY <1>1 DEF Cached, Stored, States

\* A write adds a state, a delivery adds none, a fresh informer has one.
LEMMA WrittenStates ==
    ASSUME NEW S, NEW w \in Seq(S), NEW s \in S
    PROVE  States(Written(w, s)) = States(w) \cup {s}
  <1>1. /\ Len(Written(w, s)) = Len(w) + 1 /\ Len(w) \in Nat
        /\ \A i \in 1 .. Len(w) : Written(w, s)[i] = w[i]
        /\ Written(w, s)[Len(w) + 1] = s
    BY DEF Written
  <1>2. 1 .. Len(w) + 1 = (1 .. Len(w)) \cup {Len(w) + 1}
    BY <1>1
  <1> QED
    BY <1>1, <1>2 DEF States

LEMMA DeliveredStates ==
    ASSUME NEW S, NEW w \in Seq(S), Lagging(w)
    PROVE  States(Delivered(w)) \subseteq States(w)
  <1>1. Len(w) \in Nat /\ Len(w) > 1 /\ w # <<>>
    BY DEF Lagging
  <1>2. Len(Tail(w)) = Len(w) - 1 /\ \A i \in 1 .. Len(w) - 1 : Tail(w)[i] = w[i + 1]
    BY <1>1
  <1>3. ASSUME NEW i \in 1 .. Len(w) - 1 PROVE i + 1 \in 1 .. Len(w)
    BY <1>1
  <1> QED
    BY <1>1, <1>2, <1>3 DEF States, Delivered

LEMMA SyncedStates ==
    ASSUME NEW s
    PROVE  States(Synced(s)) = {s}
  BY DEF States, Synced

-----------------------------------------------------------------------------
(* Windows whose states only ever move forward along a relation.           *)

Forward(window, R) ==
    \A i, j \in 1 .. Len(window) : i <= j => <<window[i], window[j]>> \in R

\* What a forward window says about its states and its ends.
LEMMA ForwardEnds ==
    ASSUME NEW S, NEW w \in Seq(S), w # <<>>, NEW R, Forward(w, R)
    PROVE  \A s \in States(w) : <<Cached(w), s>> \in R /\ <<s, Stored(w)>> \in R
  <1>1. Len(w) \in Nat /\ 1 \in 1 .. Len(w) /\ Len(w) \in 1 .. Len(w)
    OBVIOUS
  <1>2. \A i \in 1 .. Len(w) : 1 <= i /\ i <= Len(w)
    BY <1>1
  <1> QED
    BY <1>1, <1>2 DEF Cached, Stored, States, Forward

\* A write that moves forward from what is stored keeps the window forward.
LEMMA WrittenForward ==
    ASSUME NEW S, NEW w \in Seq(S), w # <<>>, NEW s \in S, NEW R, Forward(w, R),
           <<s, s>> \in R, \A t \in States(w) : <<t, s>> \in R
    PROVE  Forward(Written(w, s), R)
  <1>1. /\ Len(Written(w, s)) = Len(w) + 1 /\ Len(w) \in Nat
        /\ \A i \in 1 .. Len(w) : Written(w, s)[i] = w[i]
        /\ Written(w, s)[Len(w) + 1] = s
    BY DEF Written
  <1>2. ASSUME NEW i \in 1 .. Len(w) + 1, NEW j \in 1 .. Len(w) + 1, i <= j
        PROVE  <<Written(w, s)[i], Written(w, s)[j]>> \in R
    <2>1. CASE j \in 1 .. Len(w)
      <3>1. i \in 1 .. Len(w)
        BY <1>1, <1>2, <2>1
      <3> QED
        BY <1>1, <1>2, <2>1, <3>1 DEF Forward
    <2>2. CASE i \in 1 .. Len(w) /\ j = Len(w) + 1
      <3>1. w[i] \in States(w)
        BY <2>2 DEF States
      <3> QED
        BY <1>1, <2>2, <3>1
    <2>3. CASE i = Len(w) + 1 /\ j = Len(w) + 1
      BY <1>1, <2>3
    <2> QED
      BY <1>1, <1>2, <2>1, <2>2, <2>3
  <1> QED
    BY <1>1, <1>2 DEF Forward

LEMMA DeliveredForward ==
    ASSUME NEW S, NEW w \in Seq(S), Lagging(w), NEW R, Forward(w, R)
    PROVE  Forward(Delivered(w), R)
  <1>1. Len(w) \in Nat /\ Len(w) > 1 /\ w # <<>>
    BY DEF Lagging
  <1>2. Len(Tail(w)) = Len(w) - 1 /\ \A i \in 1 .. Len(w) - 1 : Tail(w)[i] = w[i + 1]
    BY <1>1
  <1>3. ASSUME NEW i \in 1 .. Len(w) - 1 PROVE i + 1 \in 1 .. Len(w)
    BY <1>1
  <1>4. ASSUME NEW i \in 1 .. Len(w) - 1, NEW j \in 1 .. Len(w) - 1, i <= j
        PROVE  <<Tail(w)[i], Tail(w)[j]>> \in R
    <2>1. i + 1 <= j + 1
      BY <1>4
    <2> QED
      BY <1>2, <1>3, <2>1 DEF Forward
  <1> QED
    BY <1>2, <1>4 DEF Forward, Delivered

LEMMA SyncedForward ==
    ASSUME NEW s, NEW R, <<s, s>> \in R
    PROVE  Forward(Synced(s), R)
  BY DEF Forward, Synced
=============================================================================
