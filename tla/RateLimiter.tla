----------------------------- MODULE RateLimiter -----------------------------
(***************************************************************************)
(* BoundedRateLimiter of security.py: a sliding window of Requests grants  *)
(* in Window seconds for each key, for at most MaxKeys keys.  check() has  *)
(* no suspension point while it holds its lock, so a call is one action.   *)
(*                                                                         *)
(* The clock counts fractions of a second, PerSecond of them, because      *)
(* Retry-After is a whole number of seconds computed from a fraction.      *)
(***************************************************************************)
EXTENDS Naturals, Sequences, FiniteSets, SequencesExt

CONSTANTS
    Keys,           \* what a limiter is asked about: addresses, users, tokens
    Requests, Window, MaxKeys,
    PerSecond,
    MaxNow,         \* bound: the clock stops here
    Never

ASSUME RateAssumption ==
    /\ {Requests, Window, MaxKeys, PerSecond} \subseteq Nat \ {0}
    /\ MaxNow \in Nat /\ Never \notin Nat

VARIABLES
    now,        \* time.monotonic()
    stamps,     \* the deque of each tracked key (the keys of _entries)
    order,      \* the order of _entries, the longest untouched key first
    grants,     \* history: when each key was allowed since it was last new
    retryAt     \* when the last refused caller of a key was told to return

rlVars == <<now, stamps, order, grants, retryAt>>

Tracked == DOMAIN stamps
Span == Window * PerSecond

RlInit ==
    /\ now = 0 /\ stamps = <<>> /\ order = <<>>
    /\ grants = [k \in Keys |-> <<>>]
    /\ retryAt = [k \in Keys |-> Never]

Tick == now < MaxNow /\ now' = now + 1
        /\ UNCHANGED <<stamps, order, grants, retryAt>>

Expired(t) == t + Span <= now

\* The deque after popleft() of what has left the window.
Pruned(s) ==
    LET gone == CHOOSE n \in 0 .. Len(s) :
                  /\ \A i \in 1 .. n : Expired(s[i])
                  /\ n < Len(s) => ~Expired(s[n + 1])
    IN SubSeq(s, gone + 1, Len(s))

Stamps(k) == IF k \in Tracked THEN Pruned(stamps[k]) ELSE <<>>

\* slip: one grant more.
FullTooLate(k) == Len(Stamps(k)) > Requests
Full(k) == Len(Stamps(k)) >= Requests

\* int(window - (now - oldest)) + 1, and the same without the + 1 (slip).
RetryTooSoon(oldest) ==
    LET seconds == (oldest + Span - now) \div PerSecond
    IN IF seconds < 1 THEN 1 ELSE seconds
RetryAfter(oldest) ==
    LET seconds == (oldest + Span - now) \div PerSecond + 1
    IN IF seconds < 1 THEN 1 ELSE seconds

\* pop() and reinsertion: the key becomes the last of _entries.
MovedLast(k) ==
    IF k \notin Tracked THEN Append(order, k)
    ELSE Append(RemoveAt(order, CHOOSE i \in DOMAIN order : order[i] = k), k)

\* popitem(last=False) until at most MaxKeys keys are left.
EvictOldest(line) == IF Len(line) > MaxKeys THEN Tail(line) ELSE line

\* check() refuses: the window of the key is full.
Refuse(k) ==
    /\ Full(k)
    /\ stamps' = [stamps EXCEPT ![k] = Stamps(k)]
    /\ order' = MovedLast(k)
    /\ retryAt' = [retryAt EXCEPT ![k] = now + RetryAfter(Stamps(k)[1]) * PerSecond]
    /\ UNCHANGED <<now, grants>>

\* check() allows; a new key may push the longest untouched one out.
Allow(k) ==
    /\ ~Full(k)
    /\ order' = EvictOldest(MovedLast(k))
    /\ stamps' = [j \in {order'[i] : i \in DOMAIN order'} |->
                    IF j = k THEN Append(Stamps(k), now) ELSE stamps[j]]
    /\ grants' = [j \in Keys |->
                    IF j \notin DOMAIN stamps' THEN <<>>
                    ELSE IF j = k THEN Append(grants[k], now) ELSE grants[j]]
    /\ retryAt' = [retryAt EXCEPT ![k] = Never]
    /\ UNCHANGED now

RlNext == Tick \/ \E k \in Keys : Refuse(k) \/ Allow(k)

RlSpec == RlInit /\ [][RlNext]_rlVars

-----------------------------------------------------------------------------
(* Properties.                                                             *)

\* Every variable has its type, and the limiter's memory is bounded: at most
\* MaxKeys keys with at most Requests timestamps each.
RlTypeOK ==
    /\ now \in 0 .. MaxNow
    /\ Tracked \subseteq Keys /\ Cardinality(Tracked) <= MaxKeys
    /\ \A k \in Tracked : stamps[k] \in Seq(Nat) /\ Len(stamps[k]) <= Requests
    /\ order \in Seq(Keys)
    /\ Len(order) = Cardinality(Tracked)
    /\ Tracked = {order[i] : i \in DOMAIN order}
    /\ \A k \in Keys : retryAt[k] \in Nat \cup {Never}

\* As long as a key is tracked, no window of Window seconds, wherever it
\* begins, holds more than Requests grants.
SlidingWindow ==
    \A k \in Tracked : \A i \in DOMAIN grants[k] :
        i + Requests \in DOMAIN grants[k] =>
            grants[k][i] + Span <= grants[k][i + Requests]

\* A caller that waits the Retry-After seconds it was told is allowed, unless
\* another call of the same key has taken the place in between.
RetryAfterSuffices ==
    \A k \in Keys :
        (retryAt[k] # Never /\ now >= retryAt[k]) => ~Full(k)

=============================================================================
