-------------------------- MODULE FrontDoor_proofs --------------------------
(***************************************************************************)
(* Proofs about what a request meets first.  RateLimiter, for every set of *)
(* keys and every limit, with a clock that never stops at any particular   *)
(* bound: the window really slides, and Retry-After is enough.  BodyLimit, *)
(* for every set of requests and every limit: no body slot is lost, or     *)
(* given back twice, on any way through the middleware; the memory for     *)
(* bodies is bounded as a whole; the slots are a BoundedModel.             *)
(***************************************************************************)
EXTENDS RateLimiter, BodyLimit, SequenceTheorems, FiniteSetTheorems,
        WellFoundedInduction, TLAPS


-----------------------------------------------------------------------------
(* Pruning.                                                                *)

\* The window in half seconds.
LEMMA SpanIsNat == Span \in Nat
  BY RateAssumption DEF Span

\* popleft() takes away a prefix that has left the window, and all of it.
LEMMA PruningStops ==
    ASSUME NEW s \in Seq(Nat)
    PROVE  \E g \in 0 .. Len(s) :
             /\ Pruned(s) = SubSeq(s, g + 1, Len(s))
             /\ \A i \in 1 .. g : Expired(s[i])
             /\ g < Len(s) => ~Expired(s[g + 1])
  <1> DEFINE Ends(n) == /\ \A i \in 1 .. n : Expired(s[i])
                        /\ n < Len(s) => ~Expired(s[n + 1])
             late == {n \in 1 .. Len(s) : ~Expired(s[n])}
             gone == CHOOSE n \in 0 .. Len(s) : Ends(n)
  <1>1. \E n \in 0 .. Len(s) : Ends(n)
    <2>1. CASE late = {}
      <3>1. Len(s) \in 0 .. Len(s) /\ Ends(Len(s))
        BY <2>1
      <3>2. QED
        BY <3>1
    <2>2. CASE late # {}
      <3>1. late \subseteq Nat
        OBVIOUS
      <3>2. PICK m \in late : \A n \in late : ~(<<n, m>> \in OpToRel(<, Nat))
        BY <2>2, <3>1, NatLessThanWellFounded, WFMin
      <3>3. \A n \in late : ~(n < m)
        BY <3>1, <3>2 DEF OpToRel
      <3>4. m - 1 \in 0 .. Len(s) /\ Ends(m - 1)
        BY <3>3
      <3>5. QED
        BY <3>4
    <2>3. QED
      BY <2>1, <2>2
  <1>2. gone \in 0 .. Len(s) /\ Ends(gone)
    BY <1>1
  <1>3. Pruned(s) = SubSeq(s, gone + 1, Len(s))
    BY DEF Pruned
  <1>4. QED
    BY <1>2, <1>3

-----------------------------------------------------------------------------
(* A deque is what is left of the grants.                                  *)

\* s are the last of the grants, and those before them have left the window.
Remains(s, grants_) ==
    /\ s \in Seq(Nat) /\ grants_ \in Seq(Nat) /\ Len(s) <= Len(grants_)
    /\ \A i \in 1 .. Len(s) : s[i] = grants_[Len(grants_) - Len(s) + i]
    /\ \A i \in 1 .. Len(grants_) - Len(s) : Expired(grants_[i])

\* No window holds more than Requests grants.
Spaced(grants_) ==
    \A i \in DOMAIN grants_ : i + Requests \in DOMAIN grants_ =>
        grants_[i] + Span <= grants_[i + Requests]

\* Pruning leaves a deque that is still what is left of the grants.
LEMMA PrunedRemains ==
    ASSUME NEW s, NEW grants_, Remains(s, grants_)
    PROVE  /\ Remains(Pruned(s), grants_) /\ Len(Pruned(s)) <= Len(s)
           /\ Len(Pruned(s)) > 0 => ~Expired(Pruned(s)[1])
           /\ Len(s) > 0 /\ Expired(s[1]) => Len(Pruned(s)) < Len(s)
  <1>1. s \in Seq(Nat) /\ grants_ \in Seq(Nat) /\ Len(s) \in Nat /\ Len(grants_) \in Nat
    BY DEF Remains
  <1>2. PICK g \in 0 .. Len(s) :
          /\ Pruned(s) = SubSeq(s, g + 1, Len(s))
          /\ \A i \in 1 .. g : Expired(s[i])
          /\ g < Len(s) => ~Expired(s[g + 1])
    BY <1>1, PruningStops
  <1>3. /\ Pruned(s) \in Seq(Nat) /\ Len(Pruned(s)) = Len(s) - g
        /\ \A i \in 1 .. Len(s) - g : Pruned(s)[i] = s[g + i]
    BY <1>1, <1>2
  <1>4. Remains(Pruned(s), grants_)
    <2>1. \A i \in 1 .. Len(Pruned(s)) :
            Pruned(s)[i] = grants_[Len(grants_) - Len(Pruned(s)) + i]
      <3>1. SUFFICES ASSUME NEW i \in 1 .. Len(s) - g
                     PROVE  s[g + i] = grants_[Len(grants_) - (Len(s) - g) + i]
        BY <1>3
      <3>2. g + i \in 1 .. Len(s)
            /\ Len(grants_) - Len(s) + (g + i) = Len(grants_) - (Len(s) - g) + i
        BY <1>1
      <3>3. QED
        BY <3>2 DEF Remains
    <2>2. \A i \in 1 .. Len(grants_) - Len(Pruned(s)) : Expired(grants_[i])
      <3>1. SUFFICES ASSUME NEW i \in 1 .. Len(grants_) - Len(s) + g
                     PROVE  Expired(grants_[i])
        BY <1>1, <1>3
      <3>2. CASE i <= Len(grants_) - Len(s)
        <4>1. i \in 1 .. Len(grants_) - Len(s)
          BY <1>1, <3>1, <3>2
        <4>2. QED
          BY <4>1 DEF Remains
      <3>3. CASE i > Len(grants_) - Len(s)
        <4>1. PICK j \in 1 .. g : i = Len(grants_) - Len(s) + j
          <5>1. Len(grants_) - Len(s) \in Nat
            BY <1>1 DEF Remains
          <5>2. /\ i - (Len(grants_) - Len(s)) \in 1 .. g
                /\ i = Len(grants_) - Len(s) + (i - (Len(grants_) - Len(s)))
            BY <1>1, <3>1, <3>3, <5>1
          <5>3. QED
            BY <5>2
        <4>2. grants_[i] = s[j] /\ Expired(s[j])
          <5>1. j \in 1 .. Len(s)
            BY <1>1
          <5>2. QED
            BY <1>2, <4>1, <5>1 DEF Remains
        <4>3. QED
          BY <4>2
      <3>4. QED
        BY <1>1, <3>2, <3>3 DEF Remains
    <2>3. QED
      BY <1>1, <1>3, <2>1, <2>2 DEF Remains
  <1>5. QED
    BY <1>1, <1>2, <1>3, <1>4

\* A grant is entered in both.
LEMMA GrantRemains ==
    ASSUME NEW s, NEW grants_, Remains(s, grants_), now \in Nat
    PROVE  Remains(Append(s, now), Append(grants_, now))
  <1> DEFINE t == Append(s, now)
             h == Append(grants_, now)
  <1>1. /\ s \in Seq(Nat) /\ grants_ \in Seq(Nat) /\ Len(s) \in Nat /\ Len(grants_) \in Nat
        /\ Len(s) <= Len(grants_)
    BY DEF Remains
  <1>2. /\ t \in Seq(Nat) /\ h \in Seq(Nat)
        /\ Len(t) = Len(s) + 1 /\ Len(h) = Len(grants_) + 1
        /\ t[Len(s) + 1] = now /\ h[Len(grants_) + 1] = now
        /\ \A i \in 1 .. Len(s) : t[i] = s[i]
        /\ \A i \in 1 .. Len(grants_) : h[i] = grants_[i]
    BY <1>1
  <1> HIDE DEF t, h
  <1>3. ASSUME NEW i \in 1 .. Len(t)
        PROVE  t[i] = h[Len(h) - Len(t) + i]
    <2>1. CASE i = Len(s) + 1
      BY <1>1, <1>2, <2>1
    <2>2. CASE i \in 1 .. Len(s)
      <3>1. Len(h) - Len(t) + i = Len(grants_) - Len(s) + i
            /\ Len(grants_) - Len(s) + i \in 1 .. Len(grants_)
        BY <1>1, <1>2, <2>2
      <3>2. QED
        BY <1>2, <2>2, <3>1 DEF Remains
    <2>3. QED
      BY <1>1, <1>2, <2>1, <2>2
  <1>4. ASSUME NEW i \in 1 .. Len(h) - Len(t)
        PROVE  Expired(h[i])
    <2>1. i \in 1 .. Len(grants_) - Len(s) /\ i \in 1 .. Len(grants_)
      BY <1>1, <1>2
    <2>2. QED
      BY <1>2, <2>1 DEF Remains
  <1>5. Len(t) <= Len(h)
    BY <1>1, <1>2
  <1>6. Remains(t, h)
    BY <1>2, <1>3, <1>4, <1>5 DEF Remains
  <1>7. QED
    BY <1>6 DEF t, h

\* A grant that finds fewer than Requests in the window keeps them apart.
LEMMA GrantSpaced ==
    ASSUME NEW s, NEW grants_, Remains(s, grants_), Spaced(grants_), now \in Nat,
           Len(s) < Requests
    PROVE  Spaced(Append(grants_, now))
  <1> DEFINE h == Append(grants_, now)
  <1>1. /\ grants_ \in Seq(Nat) /\ Len(s) \in Nat /\ Len(grants_) \in Nat
        /\ Requests \in Nat /\ Requests > 0 /\ DOMAIN grants_ = 1 .. Len(grants_)
    BY RateAssumption DEF Remains
  <1>2. /\ DOMAIN h = 1 .. Len(grants_) + 1 /\ h[Len(grants_) + 1] = now
        /\ \A i \in 1 .. Len(grants_) : h[i] = grants_[i]
    BY <1>1
  <1> HIDE DEF h
  <1>3. ASSUME NEW i \in DOMAIN h, i + Requests \in DOMAIN h
        PROVE  h[i] + Span <= h[i + Requests]
    <2>1. i \in 1 .. Len(grants_)
      BY <1>1, <1>2, <1>3
    <2>2. CASE i + Requests = Len(grants_) + 1
      <3>1. i \in 1 .. Len(grants_) - Len(s)
        BY <1>1, <2>1, <2>2
      <3>2. Expired(grants_[i])
        BY <3>1 DEF Remains
      <3>3. QED
        BY <1>2, <2>1, <2>2, <3>2 DEF Expired
    <2>3. CASE i + Requests \in 1 .. Len(grants_)
      BY <1>1, <1>2, <2>1, <2>3 DEF Spaced
    <2>4. QED
      BY <1>1, <1>2, <1>3, <2>1, <2>2, <2>3
  <1>4. Spaced(h)
    BY <1>3 DEF Spaced
  <1>5. QED
    BY <1>4 DEF h

-----------------------------------------------------------------------------
(* The inductive invariant.                                                *)

\* The deque of a key, which is empty for one that is not tracked.
Deque(k) == IF k \in Tracked THEN stamps[k] ELSE <<>>

Shapes ==
    /\ now \in Nat
    /\ stamps \in [Tracked -> Seq(Nat)] /\ Tracked \subseteq Keys
    /\ order \in Seq(Keys) /\ Tracked = {order[i] : i \in DOMAIN order}
    /\ grants \in [Keys -> Seq(Nat)]
    /\ retryAt \in [Keys -> Nat \cup {Never}]

\* Of each key: its deque is what is left of its grants, these are apart, and
\* Retry-After lasts until the oldest one leaves the window.
KeyInv(k) ==
    /\ Remains(Deque(k), grants[k])
    /\ Spaced(grants[k])
    /\ Len(Deque(k)) <= Requests
    /\ (retryAt[k] # Never /\ Len(Deque(k)) > 0) => Deque(k)[1] + Span <= retryAt[k]

RateInv == Shapes /\ \A k \in Keys : KeyInv(k)

\* The invariant gives both properties.
LEMMA InvImpliesProperties == ASSUME RateInv PROVE SlidingWindow /\ RetryAfterSuffices
  <1>1. SlidingWindow
    BY DEF RateInv, Shapes, KeyInv, Spaced, SlidingWindow
  <1>2. ASSUME NEW k \in Keys, retryAt[k] # Never, now >= retryAt[k], Full(k)
        PROVE  FALSE
    <2>1. /\ now \in Nat /\ retryAt[k] \in Nat /\ Span \in Nat
          /\ Requests \in Nat /\ Requests > 0
      BY <1>2, SpanIsNat, RateAssumption DEF RateInv, Shapes
    <2>2. CASE k \notin Tracked
      <3>1. Len(Stamps(k)) = 0
        BY <2>2 DEF Stamps
      <3>2. QED
        BY <1>2, <2>1, <3>1 DEF Full
    <2>3. CASE k \in Tracked
      <3>1. Remains(stamps[k], grants[k]) /\ Len(stamps[k]) <= Requests
        BY <2>3 DEF RateInv, KeyInv, Deque
      <3>2. Len(Pruned(stamps[k])) >= Requests
        BY <1>2, <2>3 DEF Full, Stamps
      <3>3. Len(stamps[k]) \in Nat /\ Len(Pruned(stamps[k])) \in Nat
            /\ Len(Pruned(stamps[k])) <= Len(stamps[k])
        BY <3>1, PrunedRemains DEF Remains
      <3>4. Len(stamps[k]) > 0 /\ stamps[k][1] \in Nat
        BY <2>1, <3>1, <3>2, <3>3 DEF Remains
      <3>5. stamps[k][1] + Span <= retryAt[k]
        BY <1>2, <2>3, <3>4 DEF RateInv, KeyInv, Deque
      <3>6. Expired(stamps[k][1])
        BY <1>2, <2>1, <3>4, <3>5 DEF Expired
      <3>7. Len(Pruned(stamps[k])) < Len(stamps[k])
        BY <3>1, <3>4, <3>6, PrunedRemains
      <3>8. QED
        BY <2>1, <3>1, <3>2, <3>3, <3>7
    <2>4. QED
      BY <2>2, <2>3
  <1>3. QED
    BY <1>1, <1>2 DEF RetryAfterSuffices

\* At first no key is tracked.
LEMMA RateInvInitially == ASSUME RlInit PROVE RateInv
  <1>1. Tracked = {}
    BY DEF RlInit, Tracked
  <1>2. Shapes
    BY <1>1 DEF RlInit, Shapes
  <1>3. ASSUME NEW k \in Keys
        PROVE  KeyInv(k)
    <2>1. Deque(k) = <<>> /\ grants[k] = <<>> /\ retryAt[k] = Never
      BY <1>1 DEF RlInit, Deque
    <2>2. Remains(<<>>, <<>>) /\ Spaced(<<>>) /\ Len(<<>>) = 0
      BY DEF Remains, Spaced
    <2>3. QED
      BY <2>1, <2>2, RateAssumption DEF KeyInv
  <1>4. QED
    BY <1>2, <1>3 DEF RateInv

\* As time passes, what has left the window stays out.
LEMMA TickKeepsInv == ASSUME RateInv, Tick PROVE RateInv'
  <1>1. Shapes'
    BY DEF RateInv, Shapes, Tick, Tracked
  <1>2. ASSUME NEW k \in Keys
        PROVE  KeyInv(k)'
    <2>1. Deque(k)' = Deque(k) /\ grants' = grants /\ retryAt' = retryAt
      BY DEF Tick, Deque, Tracked
    <2>2. Remains(Deque(k), grants[k])'
      <3>1. now \in Nat /\ now' = now + 1 /\ Span \in Nat /\ grants[k] \in Seq(Nat)
            /\ Len(Deque(k)) \in Nat /\ Len(grants[k]) \in Nat
        BY SpanIsNat DEF RateInv, Shapes, Tick, KeyInv, Remains
      <3>2. ASSUME NEW i \in 1 .. Len(grants[k]) - Len(Deque(k))
            PROVE  grants[k][i] + Span <= now'
        <4>1. i \in 1 .. Len(grants[k]) /\ grants[k][i] \in Nat
          BY <3>1
        <4>2. grants[k][i] + Span <= now
          BY DEF RateInv, KeyInv, Remains, Expired
        <4>3. QED
          BY <3>1, <4>1, <4>2
      <3>3. QED
        BY <2>1, <3>2 DEF RateInv, KeyInv, Remains, Expired
    <2>3. QED
      BY <2>1, <2>2 DEF RateInv, KeyInv, Spaced
  <1>3. QED
    BY <1>1, <1>2 DEF RateInv

\* The pruned deque that check() goes on with.
LEMMA StampsRemain ==
    ASSUME RateInv, NEW k \in Keys
    PROVE  /\ Remains(Stamps(k), grants[k]) /\ Len(Stamps(k)) <= Requests
           /\ Len(Stamps(k)) > 0 => k \in Tracked /\ ~Expired(Stamps(k)[1])
  <1>1. Remains(Deque(k), grants[k]) /\ Len(Deque(k)) <= Requests
        /\ Len(Deque(k)) \in Nat
    BY DEF RateInv, KeyInv, Remains
  <1>2. CASE k \in Tracked
    <2>1. /\ Stamps(k) = Pruned(Deque(k)) /\ Remains(Stamps(k), grants[k])
          /\ Len(Stamps(k)) <= Len(Deque(k))
          /\ Len(Stamps(k)) > 0 => ~Expired(Stamps(k)[1])
      BY <1>1, <1>2, PrunedRemains DEF Stamps, Deque
    <2>2. Len(Stamps(k)) \in Nat
      BY <2>1 DEF Remains
    <2>3. QED
      BY <1>1, <1>2, <2>1, <2>2, RateAssumption
  <1>3. CASE k \notin Tracked
    BY <1>1, <1>3 DEF Stamps, Deque
  <1>4. QED
    BY <1>2, <1>3

\* A sequence without one of its places.
LEMMA Removal ==
    ASSUME NEW S, NEW s \in Seq(S), NEW p \in 1 .. Len(s)
    PROVE  /\ RemoveAt(s, p) \in Seq(S) /\ Len(RemoveAt(s, p)) = Len(s) - 1
           /\ \A i \in 1 .. Len(s) - 1 :
                 RemoveAt(s, p)[i] = IF i < p THEN s[i] ELSE s[i + 1]
  <1> DEFINE a == SubSeq(s, 1, p - 1)
             b == SubSeq(s, p + 1, Len(s))
  <1>1. Len(s) \in Nat /\ \A i \in 1 .. Len(s) : s[i] \in S
    OBVIOUS
  <1>2. /\ a \in Seq(S) /\ Len(a) = p - 1
        /\ \A i \in 1 .. p - 1 : a[i] = s[i]
    BY <1>1
  <1>3. /\ b \in Seq(S) /\ Len(b) = Len(s) - p
        /\ \A i \in 1 .. Len(s) - p : b[i] = s[p + i]
    BY <1>1
  <1> HIDE DEF a, b
  <1>4. /\ a \o b \in Seq(S) /\ Len(a \o b) = Len(s) - 1
        /\ \A i \in 1 .. Len(s) - 1 : (a \o b)[i] = IF i <= p - 1 THEN a[i] ELSE b[i - (p - 1)]
    BY <1>1, <1>2, <1>3, ConcatProperties
  <1>5. ASSUME NEW i \in 1 .. Len(s) - 1
        PROVE  (a \o b)[i] = IF i < p THEN s[i] ELSE s[i + 1]
    <2>1. CASE i < p
      BY <1>1, <1>2, <1>4, <2>1
    <2>2. CASE ~(i < p)
      <3>1. i - (p - 1) \in 1 .. Len(s) - p /\ p + (i - (p - 1)) = i + 1
        BY <1>1, <2>2
      <3>2. b[i - (p - 1)] = s[i + 1]
        BY <1>3, <3>1
      <3>3. QED
        BY <1>1, <1>4, <2>2, <3>2
    <2>3. QED
      BY <2>1, <2>2
  <1>6. RemoveAt(s, p) = a \o b
    BY DEF RemoveAt, a, b
  <1>7. QED
    BY <1>4, <1>5, <1>6

\* pop() and reinsertion lose no key and bring in no other.
LEMMA MovingKeepsKeys ==
    ASSUME Shapes, NEW k \in Keys
    PROVE  /\ MovedLast(k) \in Seq(Keys)
           /\ {MovedLast(k)[i] : i \in DOMAIN MovedLast(k)} = Tracked \cup {k}
  <1>1. /\ order \in Seq(Keys) /\ Len(order) \in Nat /\ DOMAIN order = 1 .. Len(order)
        /\ Tracked = {order[i] : i \in 1 .. Len(order)}
    BY DEF Shapes
  <1>2. ASSUME NEW line \in Seq(Keys), {line[i] : i \in 1 .. Len(line)} \cup {k} = Tracked \cup {k},
               MovedLast(k) = Append(line, k)
        PROVE  /\ MovedLast(k) \in Seq(Keys)
               /\ {MovedLast(k)[i] : i \in DOMAIN MovedLast(k)} = Tracked \cup {k}
    <2> DEFINE longer == Append(line, k)
    <2>1. /\ longer \in Seq(Keys) /\ Len(line) \in Nat /\ DOMAIN longer = 1 .. Len(line) + 1
          /\ longer[Len(line) + 1] = k /\ \A i \in 1 .. Len(line) : longer[i] = line[i]
      OBVIOUS
    <2> HIDE DEF longer
    <2>2. {longer[i] : i \in DOMAIN longer} = {line[i] : i \in 1 .. Len(line)} \cup {k}
      <3>1. \A i \in 1 .. Len(line) + 1 : i \in 1 .. Len(line) \/ i = Len(line) + 1
        BY <2>1
      <3>2. \A i \in 1 .. Len(line) : i \in 1 .. Len(line) + 1
        BY <2>1
      <3>3. Len(line) + 1 \in 1 .. Len(line) + 1
        BY <2>1
      <3>4. QED
        BY <2>1, <3>1, <3>2, <3>3
    <2>3. QED
      BY <1>2, <2>1, <2>2 DEF longer
  <1>3. CASE k \notin Tracked
    BY <1>1, <1>2, <1>3 DEF MovedLast
  <1>4. CASE k \in Tracked
    <2> DEFINE at == CHOOSE i \in DOMAIN order : order[i] = k
               rest == RemoveAt(order, at)
    <2>1. at \in 1 .. Len(order) /\ order[at] = k
      BY <1>1, <1>4
    <2>2. MovedLast(k) = Append(rest, k)
      BY <1>4 DEF MovedLast
    <2> HIDE DEF at
    <2>3. /\ rest \in Seq(Keys) /\ Len(rest) = Len(order) - 1
          /\ \A i \in 1 .. Len(order) - 1 : rest[i] = IF i < at THEN order[i] ELSE order[i + 1]
      BY <1>1, <2>1, Removal
    <2> HIDE DEF rest
    <2>4. \A i \in 1 .. Len(rest) : rest[i] \in Tracked
      BY <1>1, <2>1, <2>3
    <2>5. ASSUME NEW j \in Tracked, j # k
          PROVE  \E i \in 1 .. Len(rest) : rest[i] = j
      <3>1. PICK i \in 1 .. Len(order) : order[i] = j
        BY <1>1
      <3>2. CASE i < at
        BY <1>1, <2>1, <2>3, <3>1, <3>2
      <3>3. CASE i > at
        <4>1. i - 1 \in 1 .. Len(order) - 1 /\ ~(i - 1 < at) /\ (i - 1) + 1 = i
          BY <1>1, <2>1, <3>3
        <4>2. QED
          BY <2>3, <3>1, <4>1
      <3>4. QED
        BY <2>1, <2>5, <3>1, <3>2, <3>3
    <2>6. {rest[i] : i \in 1 .. Len(rest)} \cup {k} = Tracked \cup {k}
      BY <2>4, <2>5
    <2>7. QED
      BY <1>2, <2>2, <2>3, <2>6
  <1>5. QED
    BY <1>3, <1>4

-----------------------------------------------------------------------------
(* Steps.                                                                  *)

\* int(x) + 1 whole seconds are no shorter than x.
LEMMA RetryIsEnough ==
    ASSUME now \in Nat, NEW oldest \in Nat, ~Expired(oldest)
    PROVE  /\ now + RetryAfter(oldest) * PerSecond \in Nat
           /\ oldest + Span <= now + RetryAfter(oldest) * PerSecond
  <1> DEFINE left == oldest + Span - now
             q == left \div PerSecond
  <1>1. left \in Nat /\ left > 0 /\ PerSecond \in Nat /\ PerSecond > 0
        /\ oldest + Span = now + left
    BY SpanIsNat, RateAssumption DEF Expired
  <1> HIDE DEF left
  <1>2. q \in Nat /\ left = (PerSecond * q) + (left % PerSecond)
        /\ (left % PerSecond) \in 0 .. PerSecond - 1
    BY <1>1
  <1>3. RetryAfter(oldest) = q + 1
    BY <1>2 DEF RetryAfter, left
  <1> HIDE DEF q
  <1>4. (q + 1) * PerSecond = PerSecond * q + PerSecond /\ (q + 1) * PerSecond \in Nat
    BY <1>1, <1>2
  <1>5. left <= (q + 1) * PerSecond
    BY <1>1, <1>2, <1>4
  <1>6. QED
    BY <1>1, <1>3, <1>4, <1>5

\* A refusal prunes the deque, and tells when the oldest grant leaves.
LEMMA RefuseKeepsInv == ASSUME RateInv, NEW k \in Keys, Refuse(k) PROVE RateInv'
  <1>1. /\ Remains(Stamps(k), grants[k]) /\ Len(Stamps(k)) <= Requests
        /\ k \in Tracked /\ Len(Stamps(k)) > 0 /\ ~Expired(Stamps(k)[1])
    <2>1. Len(Stamps(k)) > 0
      BY StampsRemain, RateAssumption DEF Refuse, Full, Remains
    <2>2. QED
      BY <2>1, StampsRemain
  <1>2. Stamps(k) \in Seq(Nat) /\ Stamps(k)[1] \in Nat /\ now \in Nat
    BY <1>1 DEF Remains, RateInv, Shapes
  <1>3. /\ stamps' \in [Tracked -> Seq(Nat)] /\ Tracked' = Tracked
        /\ stamps'[k] = Stamps(k) /\ \A j \in Tracked \ {k} : stamps'[j] = stamps[j]
    BY <1>1, <1>2 DEF Refuse, RateInv, Shapes, Tracked
  <1> DEFINE until == now + RetryAfter(Stamps(k)[1]) * PerSecond
  <1>4. until \in Nat /\ Stamps(k)[1] + Span <= until
    BY <1>1, <1>2, RetryIsEnough
  <1> HIDE DEF until
  <1>5. /\ retryAt' \in [Keys -> Nat \cup {Never}] /\ retryAt'[k] = until
        /\ \A j \in Keys \ {k} : retryAt'[j] = retryAt[j]
    BY <1>4 DEF Refuse, RateInv, Shapes, until
  <1>6. Shapes'
    <2>1. order' \in Seq(Keys) /\ Tracked = {order'[i] : i \in DOMAIN order'}
      <3>1. order' = MovedLast(k) /\ Tracked \cup {k} = Tracked
        BY <1>1 DEF Refuse
      <3>2. /\ MovedLast(k) \in Seq(Keys)
            /\ {MovedLast(k)[i] : i \in DOMAIN MovedLast(k)} = Tracked \cup {k}
        BY MovingKeepsKeys DEF RateInv
      <3>3. QED
        BY <3>1, <3>2
    <2>2. now' = now /\ grants' = grants
      BY DEF Refuse
    <2>3. QED
      BY <1>3, <1>5, <2>1, <2>2 DEF RateInv, Shapes
  <1>7. ASSUME NEW j \in Keys
        PROVE  KeyInv(j)'
    <2>1. now' = now /\ grants' = grants
      BY DEF Refuse
    <2>2. CASE j = k
      <3>1. Deque(k)' = Stamps(k)
        BY <1>1, <1>3 DEF Deque
      <3>2. Remains(Deque(k), grants[k])'
        BY <1>1, <2>1, <3>1 DEF Remains, Expired
      <3>3. Spaced(grants[k])'
        BY <2>1 DEF RateInv, KeyInv, Spaced
      <3>4. Len(Deque(k)') <= Requests /\ Deque(k)'[1] + Span <= retryAt'[k]
        BY <1>1, <1>4, <1>5, <3>1
      <3>5. QED
        BY <2>2, <3>2, <3>3, <3>4 DEF KeyInv
    <2>3. CASE j # k
      <3>1. Deque(j)' = Deque(j) /\ retryAt'[j] = retryAt[j]
        BY <1>3, <1>5, <2>3 DEF Deque
      <3>2. QED
        BY <2>1, <3>1 DEF KeyInv, RateInv, Remains, Expired, Spaced
    <2>4. QED
      BY <2>2, <2>3
  <1>8. QED
    BY <1>6, <1>7 DEF RateInv

\* A grant is appended to the pruned deque; a key that is pushed out starts
\* afresh, with its deque and its grants empty.
LEMMA AllowKeepsInv == ASSUME RateInv, NEW k \in Keys, Allow(k) PROVE RateInv'
  <1> DEFINE entered == Append(Stamps(k), now)
             line == {order'[i] : i \in DOMAIN order'}
  <1>1. /\ Remains(Stamps(k), grants[k]) /\ Len(Stamps(k)) \in Nat
        /\ Len(Stamps(k)) < Requests /\ now \in Nat /\ now' = now
    <2>1. Remains(Stamps(k), grants[k]) /\ Len(Stamps(k)) \in Nat
      BY StampsRemain DEF Remains
    <2>2. QED
      BY <2>1, RateAssumption DEF Allow, Full, RateInv, Shapes
  <1>2. /\ Remains(entered, Append(grants[k], now)) /\ Spaced(Append(grants[k], now))
        /\ entered \in Seq(Nat) /\ Len(entered) <= Requests
        /\ Append(grants[k], now) \in Seq(Nat)
    <2>1. Remains(entered, Append(grants[k], now))
      BY <1>1, GrantRemains
    <2>2. Spaced(Append(grants[k], now))
      BY <1>1, GrantSpaced DEF RateInv, KeyInv
    <2>3. Stamps(k) \in Seq(Nat) /\ Requests \in Nat
      BY <1>1, RateAssumption DEF Remains
    <2>4. entered \in Seq(Nat) /\ Len(entered) <= Requests
      BY <1>1, <2>3
    <2>5. QED
      BY <2>1, <2>2, <2>4 DEF Remains
  <1> HIDE DEF entered
  <1>3. order' \in Seq(Keys) /\ line \subseteq Tracked \cup {k}
    <2> DEFINE moved == MovedLast(k)
    <2>1. moved \in Seq(Keys) /\ {moved[i] : i \in DOMAIN moved} = Tracked \cup {k}
      BY MovingKeepsKeys DEF RateInv
    <2>2. (order' = Tail(moved) /\ Len(moved) > MaxKeys) \/ order' = moved
      BY DEF Allow, EvictOldest
    <2> HIDE DEF moved
    <2>3. CASE order' = moved
      BY <2>1, <2>3
    <2>4. CASE order' = Tail(moved) /\ Len(moved) > MaxKeys
      <3>1. Len(moved) \in Nat /\ Len(moved) > 0 /\ moved # <<>>
        BY <2>1, <2>4, RateAssumption
      <3>2. /\ order' \in Seq(Keys) /\ DOMAIN order' = 1 .. Len(moved) - 1
            /\ \A i \in 1 .. Len(moved) - 1 : order'[i] = moved[i + 1]
        BY <2>1, <2>4, <3>1, HeadTailProperties
      <3>3. \A i \in 1 .. Len(moved) - 1 : i + 1 \in DOMAIN moved
        BY <2>1, <3>1
      <3>4. QED
        BY <2>1, <3>2, <3>3
    <2>5. QED
      BY <2>2, <2>3, <2>4
  <1>4. /\ stamps' = [j \in line |-> IF j = k THEN entered ELSE stamps[j]]
        /\ grants' = [j \in Keys |-> IF j \notin DOMAIN stamps' THEN <<>>
                                     ELSE IF j = k THEN Append(grants[k], now) ELSE grants[j]]
        /\ retryAt' = [retryAt EXCEPT ![k] = Never]
    BY DEF Allow, entered
  <1> HIDE DEF line
  <1>5. Tracked' = line
    BY <1>4 DEF Tracked
  <1>6. Shapes'
    <2>1. stamps' \in [line -> Seq(Nat)]
      BY <1>2, <1>3, <1>4 DEF RateInv, Shapes
    <2>2. grants' \in [Keys -> Seq(Nat)]
      <3>1. <<>> \in Seq(Nat) /\ grants \in [Keys -> Seq(Nat)]
        BY DEF RateInv, Shapes
      <3>2. QED
        BY <1>2, <1>4, <3>1
    <2>3. retryAt' \in [Keys -> Nat \cup {Never}]
      BY <1>4 DEF RateInv, Shapes
    <2>4. line \subseteq Keys /\ order' \in Seq(Keys) /\ now' \in Nat
      BY <1>1, <1>3 DEF RateInv, Shapes
    <2>5. line = {order'[i] : i \in DOMAIN order'}
      BY DEF line
    <2>6. QED
      BY <1>5, <2>1, <2>2, <2>3, <2>4, <2>5 DEF Shapes
  <1>7. ASSUME NEW j \in Keys
        PROVE  KeyInv(j)'
    <2>1. CASE j \notin line
      <3>1. Deque(j)' = <<>> /\ grants'[j] = <<>>
        BY <1>4, <1>5, <2>1 DEF Deque
      <3>2. Remains(<<>>, <<>>)' /\ Spaced(<<>>) /\ Len(<<>>) = 0
        BY DEF Remains, Spaced
      <3>3. QED
        BY <3>1, <3>2, RateAssumption DEF KeyInv, Remains, Spaced
    <2>2. CASE j \in line /\ j = k
      <3>1. Deque(k)' = entered /\ grants'[k] = Append(grants[k], now) /\ retryAt'[k] = Never
        BY <1>4, <1>5, <2>2 DEF Deque, RateInv, Shapes
      <3>2. QED
        BY <1>1, <1>2, <2>2, <3>1 DEF KeyInv, Remains, Spaced, Expired
    <2>3. CASE j \in line /\ j # k
      <3>1. j \in Tracked
        BY <1>3, <2>3 DEF line
      <3>2. Deque(j)' = Deque(j) /\ grants'[j] = grants[j] /\ retryAt'[j] = retryAt[j]
        BY <1>4, <1>5, <2>3, <3>1 DEF Deque, RateInv, Shapes
      <3>3. QED
        BY <1>1, <3>2 DEF RateInv, KeyInv, Remains, Spaced, Expired
    <2>4. QED
      BY <2>1, <2>2, <2>3
  <1>8. QED
    BY <1>6, <1>7 DEF RateInv

\* Every call and every tick keeps the invariant.
LEMMA RateStepKeepsInv == ASSUME RateInv, [RlNext]_rlVars PROVE RateInv'
  <1>1. CASE UNCHANGED rlVars
    <2>1. Shapes'
      BY <1>1 DEF rlVars, RateInv, Shapes, Tracked
    <2>2. ASSUME NEW k \in Keys
          PROVE  KeyInv(k)'
      <3>1. Deque(k)' = Deque(k) /\ grants' = grants /\ retryAt' = retryAt /\ now' = now
        BY <1>1 DEF rlVars, Deque, Tracked
      <3>2. QED
        BY <3>1 DEF RateInv, KeyInv, Remains, Spaced, Expired
    <2>3. QED
      BY <2>1, <2>2 DEF RateInv
  <1>2. QED
    BY <1>1, TickKeepsInv, RefuseKeepsInv, AllowKeepsInv DEF RlNext

\* No window of Window seconds, wherever it begins, holds more than Requests
\* grants of a tracked key.
THEOREM WindowSlides == RlSpec => []SlidingWindow
  <1>1. QED
    BY RateInvInitially, RateStepKeepsInv, InvImpliesProperties, PTL DEF RlSpec

\* A caller that waits as long as Retry-After says finds a free place, unless
\* another call of its key took it.
THEOREM WaitingSuffices == RlSpec => []RetryAfterSuffices
  <1>1. QED
    BY RateInvInitially, RateStepKeepsInv, InvImpliesProperties, PTL DEF RlSpec

-----------------------------------------------------------------------------
(* The body limits.                                                        *)

Places == {"idle", "arrived", "inside", "over"} \cup Reading

\* A buffer holds no more than what was sent.
BufferWasSent == \A r \in Req : got[r] <= sent[r]

BodyInv == TypeOK /\ BufferWasSent /\ SlotsConserved

\* The steps, by name.
Step(r) ==
    \/ Arrive(r) \/ Reject(r) \/ StartReading(r) \/ TurnAway(r)
    \/ Chunk(r) \/ ReadTimeout(r) \/ GiveUp(r) \/ Replay(r) \/ AppEnds(r)

\* The holders change by the request that moves, and by no other.
LEMMA Moves ==
    ASSUME pc \in [Req -> Places], NEW r \in Req, NEW place \in Places, Go(r, place)
    PROVE  /\ pc' \in [Req -> Places]
           /\ Holders' = IF r \in Chats /\ place \in Reading \cup {"inside"}
                         THEN Holders \cup {r} ELSE Holders \ {r}
  <1>1. pc' = [pc EXCEPT ![r] = place]
    BY DEF Go
  <1>2. pc' \in [Req -> Places] /\ pc'[r] = place /\ \A q \in Req \ {r} : pc'[q] = pc[q]
    BY <1>1
  <1>3. QED
    BY <1>2, RequestAssumption DEF Holders

\* Sets of requests have a size, and it changes by one with one request.
LEMMA Sizes ==
    ASSUME NEW S \in SUBSET Req, NEW r \in Req
    PROVE  /\ Cardinality(S) \in Nat
           /\ r \notin S => Cardinality(S \cup {r}) = Cardinality(S) + 1
           /\ r \in S => Cardinality(S \ {r}) = Cardinality(S) - 1
           /\ r \in S => S \cup {r} = S
           /\ r \notin S => S \ {r} = S
  <1>1. IsFiniteSet(S)
    BY RequestAssumption, FS_Subset
  <1>2. Cardinality(S) \in Nat
    BY <1>1, FS_CardinalityType
  <1>3. r \notin S => Cardinality(S \cup {r}) = Cardinality(S) + 1
    BY <1>1, FS_AddElement
  <1>4. r \in S => Cardinality(S \ {r}) = Cardinality(S) - 1
    BY <1>1, FS_RemoveElement
  <1>5. (r \in S => S \cup {r} = S) /\ (r \notin S => S \ {r} = S)
    OBVIOUS
  <1>6. QED
    BY <1>2, <1>3, <1>4, <1>5

\* A step that leaves the semaphore and its holders alone.
LEMMA SlotsUntouched ==
    ASSUME SlotsConserved, free' = free, Holders' = Holders
    PROVE  SlotsConserved'
  BY DEF SlotsConserved

\* A step that takes a slot for a request that had none.
LEMMA SlotTaken ==
    ASSUME SlotsConserved, free \in 0 .. Slots, free > 0, free' = free - 1,
           NEW r \in Req, r \notin Holders, Holders' = Holders \cup {r},
           Holders \in SUBSET Req
    PROVE  SlotsConserved' /\ free' \in 0 .. Slots
  <1>1. Cardinality(Holders') = Cardinality(Holders) + 1 /\ Cardinality(Holders) \in Nat
    BY Sizes
  <1>2. QED
    BY <1>1, LimitAssumption DEF SlotsConserved

\* A step that gives back the slot of its request.
LEMMA SlotGiven ==
    ASSUME SlotsConserved, free \in 0 .. Slots, free' = free + 1,
           NEW r \in Req, r \in Holders, Holders' = Holders \ {r},
           Holders \in SUBSET Req
    PROVE  SlotsConserved' /\ free' \in 0 .. Slots
  <1>1. Cardinality(Holders') = Cardinality(Holders) - 1 /\ Cardinality(Holders) \in Nat
    BY Sizes
  <1>2. Cardinality(Holders') \in Nat
    BY Sizes
  <1>3. QED
    BY <1>1, <1>2, LimitAssumption DEF SlotsConserved

-----------------------------------------------------------------------------
(* Steps.                                                                  *)

\* Nobody holds a slot at the start.
LEMMA BodyInvInitially == ASSUME Init PROVE BodyInv
  <1>1. Holders = {}
    BY RequestAssumption DEF Init, Holders, Reading
  <1>2. Cardinality(Holders) = 0
    BY <1>1, FS_EmptySet
  <1>3. TypeOK /\ BufferWasSent
    BY LimitAssumption DEF Init, TypeOK, BufferWasSent
  <1>4. QED
    BY <1>2, <1>3, LimitAssumption DEF Init, BodyInv, SlotsConserved

\* What is not about the slots: places, buffers and what clients have sent.
Rest ==
    /\ pc \in [Req -> Places]
    /\ got \in [Req -> 0 .. MaxBody] /\ sent \in [Req -> 0 .. MaxBody]
    /\ delivered \in [Req -> BOOLEAN]
    /\ BufferWasSent

\* Each step keeps places and buffers in order.
LEMMA StepKeepsRest ==
    ASSUME Rest, NEW r \in Req, Step(r)
    PROVE  Rest'
  <1> USE LimitAssumption DEF Rest, BufferWasSent, Go, Places, Reading
  <1>1. CASE Arrive(r) \/ Reject(r) \/ StartReading(r) \/ TurnAway(r) \/ ReadTimeout(r)
    BY <1>1 DEF Arrive, Reject, StartReading, TurnAway, ReadTimeout
  <1>2. CASE Chunk(r)
    <2>1. PICK n \in 0 .. MaxBody - sent[r], more \in BOOLEAN :
             /\ sent' = [sent EXCEPT ![r] = @ + n]
             /\ \/ /\ got' = [got EXCEPT ![r] = @ + n]
                   /\ Go(r, IF more THEN "reading" ELSE "inside")
                \/ Go(r, "refusing") /\ got' = got
      BY <1>2 DEF Chunk
    <2>2. /\ sent[r] + n \in 0 .. MaxBody /\ got[r] + n \in 0 .. MaxBody
          /\ got[r] + n <= sent[r] + n /\ got[r] <= sent[r] + n
      OBVIOUS
    <2>3. /\ sent' \in [Req -> 0 .. MaxBody] /\ got' \in [Req -> 0 .. MaxBody]
          /\ \A q \in Req : got'[q] <= sent'[q]
      BY <2>1, <2>2
    <2>4. pc' \in [Req -> Places] /\ delivered' = delivered
      BY <1>2, <2>1 DEF Chunk
    <2>5. QED
      BY <2>3, <2>4
  <1>3. CASE GiveUp(r) \/ AppEnds(r)
    <2>1. got' \in [Req -> 0 .. MaxBody] /\ \A q \in Req : got'[q] <= got[q]
      <3>1. got' = [got EXCEPT ![r] = 0]
        BY <1>3 DEF GiveUp, AppEnds
      <3>2. \A q \in Req : got[q] \in 0 .. MaxBody /\ 0 <= got[q] /\ got[q] <= got[q]
        OBVIOUS
      <3>3. got' \in [Req -> 0 .. MaxBody]
        BY <3>1
      <3>4. \A q \in Req : got'[q] = 0 \/ got'[q] = got[q]
        BY <3>1
      <3>5. QED
        BY <3>2, <3>3, <3>4
    <2>2. pc' \in [Req -> Places] /\ sent' = sent /\ delivered' = delivered
      BY <1>3 DEF GiveUp, AppEnds
    <2>3. \A q \in Req : got'[q] <= sent'[q]
      BY <2>1, <2>2
    <2>4. QED
      BY <2>1, <2>2, <2>3
  <1>4. CASE Replay(r)
    BY <1>4 DEF Replay
  <1>5. QED
    BY <1>1, <1>2, <1>3, <1>4 DEF Step

\* Each step moves a slot with the request that takes it or gives it back.
LEMMA StepKeepsSlots ==
    ASSUME BodyInv, NEW r \in Req, Step(r)
    PROVE  SlotsConserved' /\ free' \in 0 .. Slots
  <1>1. /\ pc \in [Req -> Places] /\ free \in 0 .. Slots /\ SlotsConserved
        /\ Holders \in SUBSET Req
    BY RequestAssumption DEF BodyInv, TypeOK, Places, Holders
  <1>2. ASSUME pc[r] \in Reading \cup {"inside"}, NEW place \in Places,
               Go(r, place), place \in Reading \cup {"inside"}, free' = free
        PROVE  SlotsConserved' /\ free' \in 0 .. Slots
    <2>1. Holders' = Holders
      BY <1>1, <1>2, Moves, Sizes DEF Holders
    <2>2. QED
      BY <1>1, <1>2, <2>1, SlotsUntouched
  <1>3. ASSUME pc[r] \in {"idle", "arrived"}, NEW place \in Places, Go(r, place),
               place \in {"arrived", "over"}, free' = free
        PROVE  SlotsConserved' /\ free' \in 0 .. Slots
    <2>1. r \notin Holders
      BY <1>3 DEF Holders, Reading
    <2>2. Holders' = Holders
      BY <1>1, <1>3, <2>1, Moves, Sizes DEF Reading
    <2>3. QED
      BY <1>1, <1>3, <2>2, SlotsUntouched
  <1>4. ASSUME pc[r] \in Reading \cup {"inside"}, Go(r, "over"),
               IF r \in Chats THEN free' = free + 1 ELSE free' = free
        PROVE  SlotsConserved' /\ free' \in 0 .. Slots
    <2>1. Holders' = Holders \ {r} /\ (r \in Holders <=> r \in Chats)
      BY <1>1, <1>4, Moves DEF Holders, Places, Reading
    <2>2. CASE r \in Chats
      BY <1>1, <1>4, <2>1, <2>2, SlotGiven
    <2>3. CASE r \notin Chats
      BY <1>1, <1>4, <2>1, <2>3, Sizes, SlotsUntouched
    <2>4. QED
      BY <2>2, <2>3
  <1>5. CASE Arrive(r) \/ Reject(r) \/ TurnAway(r)
    BY <1>3, <1>5 DEF Arrive, Reject, TurnAway, Places
  <1>6. CASE StartReading(r)
    <2>1. /\ r \notin Holders
          /\ Holders' = IF r \in Chats THEN Holders \cup {r} ELSE Holders \ {r}
      BY <1>1, <1>6, Moves DEF StartReading, Holders, Places, Reading
    <2>2. CASE r \in Chats
      BY <1>1, <1>6, <2>1, <2>2, SlotTaken DEF StartReading, TakeSlot
    <2>3. CASE r \notin Chats
      BY <1>1, <1>6, <2>1, <2>3, Sizes, SlotsUntouched DEF StartReading, TakeSlot
    <2>4. QED
      BY <2>2, <2>3
  <1>7. CASE Chunk(r)
    <2>1. free' = free
      BY <1>7 DEF Chunk, Finally
    <2>2. \E place \in {"reading", "inside", "refusing"} : Go(r, place)
      BY <1>7 DEF Chunk
    <2>3. QED
      BY <1>2, <1>7, <2>1, <2>2 DEF Chunk, Places, Reading
  <1>8. CASE ReadTimeout(r)
    BY <1>2, <1>8 DEF ReadTimeout, Places, Reading
  <1>9. CASE GiveUp(r)
    BY <1>4, <1>9 DEF GiveUp, Finally
  <1>10. CASE Replay(r)
    <2>1. Holders' = Holders
      BY <1>10 DEF Replay, Holders
    <2>2. QED
      BY <1>1, <1>10, <2>1, SlotsUntouched DEF Replay
  <1>11. CASE AppEnds(r)
    BY <1>4, <1>11 DEF AppEnds
  <1>12. QED
    BY <1>5, <1>6, <1>7, <1>8, <1>9, <1>10, <1>11 DEF Step

\* Every step keeps the invariant.
LEMMA BodyStepKeepsInv == ASSUME BodyInv, [Next]_vars PROVE BodyInv'
  <1>1. CASE UNCHANGED vars
    BY <1>1 DEF BodyInv, vars, TypeOK, BufferWasSent, SlotsConserved, Holders
  <1>2. ASSUME NEW r \in Req, Step(r)
        PROVE  BodyInv'
    <2>1. Rest'
      BY <1>2, StepKeepsRest DEF BodyInv, TypeOK, Rest, Places
    <2>2. QED
      BY <1>2, <2>1, StepKeepsSlots DEF BodyInv, TypeOK, Rest, Places
  <1>3. QED
    BY <1>1, <1>2 DEF Next, Step, Idle

\* Every permit of api_body_slots is free or held by one gateway chat, however
\* bodies end: complete, too large, too slow, cut off or cancelled.
THEOREM NoBodySlotLost == Spec => []SlotsConserved
  <1>1. BodyInv => SlotsConserved
    BY DEF BodyInv
  <1>2. QED
    BY <1>1, BodyInvInitially, BodyStepKeepsInv, PTL DEF Spec

\* Every variable has its type; in particular there are never more permits
\* than at the start.
THEOREM TypeCorrect == Spec => []TypeOK
  <1>1. BodyInv => TypeOK
    BY DEF BodyInv
  <1>2. QED
    BY <1>1, BodyInvInitially, BodyStepKeepsInv, PTL DEF Spec

-----------------------------------------------------------------------------
(* The memory for bodies.                                                  *)

\* Only a request that is being read or served has anything in its buffer.
OnlyHeld == \A r \in Req : got[r] > 0 => pc[r] \in Reading \cup {"inside"}

BufferInv == BodyInv /\ WithinBound /\ OnlyHeld

\* Limits are numbers, so an empty buffer is within them.
LEMMA BoundIsNat == \A r \in Req : Bound(r) \in Nat
  BY LimitAssumption DEF Bound

\* A step that leaves buffers alone, and does not take a request with one
\* out of the middleware.
LEMMA BuffersUntouched ==
    ASSUME BufferInv, NEW r \in Req, NEW place \in Places, Go(r, place), got' = got,
           got[r] > 0 => place \in Reading \cup {"inside"}
    PROVE  WithinBound' /\ OnlyHeld'
  <1>1. pc \in [Req -> Places]
    BY DEF BufferInv, BodyInv, TypeOK, Places
  <1>2. pc'[r] = place /\ \A q \in Req \ {r} : pc'[q] = pc[q]
    BY <1>1 DEF Go
  <1>3. QED
    BY <1>2 DEF BufferInv, WithinBound, OnlyHeld, Bound, Reading

\* A step that empties the buffer of the request it ends.
LEMMA BufferEmptied ==
    ASSUME BufferInv, NEW r \in Req, Go(r, "over"), got' = [got EXCEPT ![r] = 0]
    PROVE  WithinBound' /\ OnlyHeld'
  <1>1. pc \in [Req -> Places] /\ got \in [Req -> 0 .. MaxBody]
    BY DEF BufferInv, BodyInv, TypeOK, Places
  <1>2. \A q \in Req \ {r} : pc'[q] = pc[q] /\ got'[q] = got[q]
    BY <1>1 DEF Go
  <1>3. got'[r] = 0
    BY <1>1
  <1>4. QED
    BY <1>2, <1>3, BoundIsNat DEF BufferInv, WithinBound, OnlyHeld, Bound, Reading

\* A chunk is added to a buffer only where it fits.
LEMMA ChunkKeepsBuffers ==
    ASSUME BufferInv, NEW r \in Req, Chunk(r)
    PROVE  WithinBound' /\ OnlyHeld'
  <1>1. /\ pc \in [Req -> Places] /\ got \in [Req -> 0 .. MaxBody]
        /\ sent \in [Req -> 0 .. MaxBody] /\ pc[r] = "reading"
    BY DEF BufferInv, BodyInv, TypeOK, Places, Chunk
  <1>2. PICK n \in 0 .. MaxBody - sent[r], more \in BOOLEAN :
           IF Fits(r, n)
           THEN /\ got' = [got EXCEPT ![r] = @ + n]
                /\ Go(r, IF more THEN "reading" ELSE "inside")
           ELSE Go(r, "refusing") /\ got' = got
    BY DEF Chunk
  <1>3. CASE ~Fits(r, n)
    BY <1>2, <1>3, BuffersUntouched DEF Places, Reading
  <1>4. CASE Fits(r, n)
    <2>1. /\ got'[r] <= Bound(r)
          /\ pc'[r] \in {"reading", "inside"}
      BY <1>1, <1>2, <1>4 DEF Fits, Go
    <2>2. \A q \in Req \ {r} : pc'[q] = pc[q] /\ got'[q] = got[q]
      BY <1>1, <1>2, <1>4 DEF Go
    <2>3. QED
      BY <2>1, <2>2 DEF BufferInv, WithinBound, OnlyHeld, Bound, Reading
  <1>5. QED
    BY <1>3, <1>4

\* Every step keeps the buffers within their limits.
LEMMA BufferStepKeepsInv == ASSUME BufferInv, [Next]_vars PROVE BufferInv'
  <1>1. BodyInv'
    BY BodyStepKeepsInv DEF BufferInv
  <1>2. CASE UNCHANGED vars
    BY <1>1, <1>2 DEF BufferInv, vars, WithinBound, OnlyHeld, Bound
  <1>3. ASSUME NEW r \in Req, Step(r)
        PROVE  WithinBound' /\ OnlyHeld'
    <2>1. CASE Arrive(r) \/ Reject(r) \/ TurnAway(r)
      <3>1. ~(got[r] > 0) /\ got' = got
        BY <2>1 DEF BufferInv, OnlyHeld, Arrive, Reject, TurnAway, Reading
      <3>2. Go(r, "arrived") \/ Go(r, "over")
        BY <2>1 DEF Arrive, Reject, TurnAway
      <3>3. QED
        BY <3>1, <3>2, BuffersUntouched DEF Places
    <2>2. CASE StartReading(r) \/ ReadTimeout(r)
      BY <2>2, BuffersUntouched DEF StartReading, ReadTimeout, Places, Reading
    <2>3. CASE Chunk(r)
      BY <2>3, ChunkKeepsBuffers
    <2>4. CASE GiveUp(r) \/ AppEnds(r)
      BY <2>4, BufferEmptied DEF GiveUp, AppEnds
    <2>5. CASE Replay(r)
      BY <2>5 DEF Replay, BufferInv, WithinBound, OnlyHeld, Bound
    <2>6. QED
      BY <1>3, <2>1, <2>2, <2>3, <2>4, <2>5 DEF Step
  <1>4. QED
    BY <1>1, <1>2, <1>3 DEF BufferInv, Next, Step, Idle

\* Buffers are empty at the start.
LEMMA BufferInvInitially == ASSUME Init PROVE BufferInv
  BY BodyInvInitially, BoundIsNat DEF Init, BufferInv, WithinBound, OnlyHeld

\* Chats with a body hold a slot each.
LEMMA BuffersNeedSlots == ASSUME BufferInv PROVE BuffersBounded
  <1> DEFINE Filled == {r \in Chats : got[r] > 0}
  <1>1. Filled \subseteq Holders
    BY RequestAssumption DEF BufferInv, OnlyHeld, Holders
  <1>2. IsFiniteSet(Holders)
    BY RequestAssumption, FS_Subset DEF Holders
  <1>3. Cardinality(Filled) <= Cardinality(Holders) /\ IsFiniteSet(Filled)
    BY <1>1, <1>2, FS_Subset
  <1>4. Cardinality(Filled) \in Nat /\ Cardinality(Holders) \in Nat
    BY <1>2, <1>3, FS_CardinalityType
  <1>5. Cardinality(Holders) <= Slots
    BY <1>4, LimitAssumption DEF BufferInv, BodyInv, TypeOK, SlotsConserved
  <1> HIDE DEF Filled
  <1>6. Cardinality(Filled) <= Slots
    BY <1>3, <1>4, <1>5, LimitAssumption
  <1>7. QED
    BY <1>6 DEF BufferInv, BuffersBounded, Filled

\* However many clients send at once, and however they stop, at most Slots
\* bodies of at most Maximum bytes are in memory for gateway chats, and every
\* other body is within its own limit.
THEOREM MemoryIsBounded == Spec => []BuffersBounded
  <1>1. QED
    BY BufferInvInitially, BufferStepKeepsInv, BuffersNeedSlots, PTL DEF Spec

-----------------------------------------------------------------------------
(* The slots as a bounded resource.                                        *)

\* The middleware implements the abstraction that the chat service does: a
\* chat is inside while it holds a slot, and uses the resource while the
\* application runs; both are bounded by the slots.
Served == {r \in Chats : pc[r] = "inside"}
Pool == INSTANCE BoundedModel WITH
            Req <- Chats, Capacity <- Slots, Concurrency <- Slots,
            inside <- Holders, using <- Served

\* The abstraction counts as this module does.
LEMMA SameSize == ASSUME NEW S PROVE Pool!Cardinality(S) = Cardinality(S)
  BY DEF Pool!Cardinality, Cardinality

\* At the start nobody holds a slot and nobody is served.
LEMMA PoolInitially == ASSUME Init PROVE Pool!Init
  BY RequestAssumption DEF Init, Pool!Init, Holders, Served, Reading

\* A step moves one request in the sets of the abstraction.
LEMMA PoolMoves ==
    ASSUME pc \in [Req -> Places], NEW r \in Req, NEW place \in Places, Go(r, place)
    PROVE  /\ Holders' = IF r \in Chats /\ place \in Reading \cup {"inside"}
                         THEN Holders \cup {r} ELSE Holders \ {r}
           /\ Served' = IF r \in Chats /\ place = "inside"
                        THEN Served \cup {r} ELSE Served \ {r}
  <1>1. pc'[r] = place /\ \A q \in Req \ {r} : pc'[q] = pc[q]
    BY DEF Go
  <1>2. QED
    BY <1>1, Moves, RequestAssumption DEF Served

\* A chat that holds no slot leaves one chat fewer inside than there are
\* slots, when there is a free one.
LEMMA RoomForOne ==
    ASSUME BodyInv, free > 0
    PROVE  Cardinality(Holders) < Slots
  <1>1. Cardinality(Holders) \in Nat
    <2>1. IsFiniteSet(Holders)
      BY RequestAssumption, FS_Subset DEF Holders
    <2>2. QED
      BY <2>1, FS_CardinalityType
  <1>2. free \in Nat
    BY LimitAssumption DEF BodyInv, TypeOK
  <1>3. QED
    BY <1>1, <1>2, LimitAssumption DEF BodyInv, SlotsConserved

\* While a chat with a slot is not served, fewer than all slots are.
LEMMA RoomToServe ==
    ASSUME BodyInv, NEW r \in Holders, r \notin Served
    PROVE  Cardinality(Served) < Slots
  <1>1. Served \subseteq Holders \ {r} /\ Holders \in SUBSET Req
    BY RequestAssumption DEF Served, Holders
  <1>2. /\ Cardinality(Holders) \in Nat /\ Cardinality(Holders) <= Slots
        /\ IsFiniteSet(Holders)
    <2>1. IsFiniteSet(Holders)
      BY <1>1, RequestAssumption, FS_Subset
    <2>2. Cardinality(Holders) \in Nat
      BY <2>1, FS_CardinalityType
    <2>3. QED
      BY <2>1, <2>2, LimitAssumption DEF BodyInv, TypeOK, SlotsConserved
  <1>3. Cardinality(Holders \ {r}) = Cardinality(Holders) - 1
    BY <1>1, Sizes
  <1>4. IsFiniteSet(Holders \ {r})
    BY <1>2, FS_Subset
  <1>5. Cardinality(Served) <= Cardinality(Holders \ {r}) /\ IsFiniteSet(Served)
    BY <1>1, <1>4, FS_Subset
  <1>6. Cardinality(Served) \in Nat
    BY <1>5, FS_CardinalityType
  <1>7. QED
    BY <1>2, <1>3, <1>5, <1>6, LimitAssumption

\* Every step of the middleware is one of the abstraction, or none.
LEMMA PoolStep == ASSUME BodyInv, [Next]_vars PROVE [Pool!Next]_(Pool!vars)
  <1>1. pc \in [Req -> Places] /\ Chats \subseteq Req /\ free \in 0 .. Slots
    BY RequestAssumption DEF BodyInv, TypeOK, Places
  <1>2. SUFFICES \/ Holders' = Holders /\ Served' = Served
                 \/ \E r \in Chats : Pool!Enter(r) \/ Pool!Begin(r) \/ Pool!Leave(r)
    BY DEF Pool!Next, Pool!vars
  <1>3. CASE UNCHANGED vars
    BY <1>3 DEF vars, Holders, Served
  <1>4. ASSUME NEW r \in Req, Step(r)
        PROVE  \/ Holders' = Holders /\ Served' = Served
               \/ r \in Chats /\ (Pool!Enter(r) \/ Pool!Begin(r) \/ Pool!Leave(r))
    <2>1. ASSUME NEW place \in Places, Go(r, place), r \notin Chats
          PROVE  Holders' = Holders /\ Served' = Served
      BY <1>1, <2>1, PoolMoves DEF Holders, Served
    <2>2. CASE Arrive(r) \/ Reject(r) \/ TurnAway(r)
      <3>1. PICK place \in {"arrived", "over"} : Go(r, place)
        BY <2>2 DEF Arrive, Reject, TurnAway
      <3>2. pc[r] \in {"idle", "arrived"}
        BY <2>2 DEF Arrive, Reject, TurnAway
      <3>3. Holders' = Holders \ {r} /\ Served' = Served \ {r}
        BY <1>1, <3>1, PoolMoves DEF Places, Reading
      <3>4. QED
        BY <3>2, <3>3 DEF Holders, Served, Reading
    <2>3. CASE StartReading(r)
      <3>1. Go(r, "reading") /\ pc[r] = "arrived"
        BY <2>3 DEF StartReading
      <3>2. CASE r \in Chats
        <4>1. free > 0
          BY <2>3, <3>2 DEF StartReading, TakeSlot
        <4>2. Holders' = Holders \cup {r} /\ Served' = Served \ {r}
          BY <1>1, <3>1, <3>2, PoolMoves DEF Places, Reading
        <4>3. r \notin Holders /\ Served \ {r} = Served
          BY <3>1 DEF Holders, Served, Reading
        <4>4. Pool!Enter(r)
          BY <4>1, <4>2, <4>3, RoomForOne, SameSize DEF Pool!Enter
        <4>5. QED
          BY <3>2, <4>4
      <3>3. QED
        BY <2>1, <3>1, <3>2 DEF Places, Reading
    <2>4. CASE Chunk(r)
      <3>1. PICK place \in {"reading", "inside", "refusing"} : Go(r, place)
        BY <2>4 DEF Chunk
      <3>2. pc[r] = "reading" /\ place \in Places
        BY <2>4 DEF Chunk, Places, Reading
      <3>3. CASE r \in Chats
        <4>1. r \in Holders /\ r \notin Served
          BY <3>2, <3>3 DEF Holders, Served, Reading
        <4>2. Holders' = Holders
          BY <1>1, <3>1, <3>2, <3>3, <4>1, PoolMoves DEF Reading
        <4>3. Served' = IF place = "inside" THEN Served \cup {r} ELSE Served
          BY <1>1, <3>1, <3>2, <3>3, <4>1, PoolMoves
        <4>4. place = "inside" => Pool!Begin(r)
          BY <4>1, <4>2, <4>3, RoomToServe, SameSize DEF Pool!Begin
        <4>5. QED
          BY <3>3, <4>2, <4>3, <4>4
      <3>4. QED
        BY <2>1, <3>1, <3>2, <3>3
    <2>5. CASE ReadTimeout(r)
      <3>1. Go(r, "timedOut") /\ pc[r] \in Reading
        BY <2>5 DEF ReadTimeout, Reading
      <3>2. CASE r \in Chats
        <4>1. r \in Holders /\ r \notin Served
          BY <3>1, <3>2 DEF Holders, Served, Reading
        <4>2. QED
          BY <1>1, <3>1, <3>2, <4>1, PoolMoves DEF Places, Reading
      <3>3. QED
        BY <2>1, <3>1, <3>2 DEF Places, Reading
    <2>6. CASE GiveUp(r) \/ AppEnds(r)
      <3>1. Go(r, "over") /\ pc[r] \in Reading \cup {"inside"}
        BY <2>6 DEF GiveUp, AppEnds
      <3>2. CASE r \in Chats
        <4>1. Holders' = Holders \ {r} /\ Served' = Served \ {r}
          BY <1>1, <3>1, <3>2, PoolMoves DEF Places, Reading
        <4>2. r \in Holders
          BY <3>1, <3>2 DEF Holders
        <4>3. QED
          BY <3>2, <4>1, <4>2 DEF Pool!Leave
      <3>3. QED
        BY <2>1, <3>1, <3>2 DEF Places
    <2>7. CASE Replay(r)
      BY <2>7 DEF Replay, Holders, Served
    <2>8. QED
      BY <1>4, <2>2, <2>3, <2>4, <2>5, <2>6, <2>7 DEF Step
  <1>5. QED
    BY <1>3, <1>4 DEF Next, Step, Idle

\* The body slots are a bounded resource: at most Slots chats are inside, they
\* come and go one at a time, and only one that holds a slot is served.
THEOREM SlotsAreAPool == Spec => Pool!Spec
  <1>1. QED
    BY BodyInvInitially, BodyStepKeepsInv, PoolInitially, PoolStep, PTL
       DEF Spec, Pool!Spec

=============================================================================
