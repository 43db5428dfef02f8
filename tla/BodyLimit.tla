------------------------------ MODULE BodyLimit ------------------------------
(***************************************************************************)
(* RequestBodyLimitMiddleware of main.py: request bodies are read, bounded *)
(* and timed before any framework parser sees them, and a gateway chat     *)
(* holds one of api_body_slots from the first byte of its body to the end  *)
(* of its response, so the memory for bodies is bounded as a whole.        *)
(*                                                                         *)
(* Byte counts are small numbers.  A request is a gateway chat or one of   *)
(* the other writes, which take no slot.                                   *)
(***************************************************************************)
EXTENDS Naturals, FiniteSets, FiniteSetsExt

CONSTANTS
    Req,            \* requests, each used once
    Chats,          \* those that are POST /v1/chat/completions
    Slots,          \* permits of api_body_slots
    Maximum,        \* largest body of a gateway chat, and
    SmallMaximum,   \* of any other request
    MaxBody         \* bound: bytes a client sends

ASSUME RequestAssumption == IsFiniteSet(Req) /\ Chats \subseteq Req
ASSUME LimitAssumption ==
    /\ Slots \in Nat \ {0}
    /\ Maximum \in Nat /\ SmallMaximum \in Nat /\ MaxBody \in Nat

VARIABLES
    free,       \* api_body_slots: permits left
    pc,         \* where each request is suspended in the middleware
    got,        \* bytes in its buffer
    sent,       \* bytes its client has sent
    delivered   \* the buffered body has been replayed to the application

vars == <<free, pc, got, sent, delivered>>

Bound(r) == IF r \in Chats THEN Maximum ELSE SmallMaximum
Go(r, place) == pc' = [pc EXCEPT ![r] = place]
Reading == {"reading", "refusing", "timedOut"}
Holders == {r \in Chats : pc[r] \in Reading \cup {"inside"}}

Init ==
    /\ free = Slots
    /\ pc = [r \in Req |-> "idle"]
    /\ got = [r \in Req |-> 0] /\ sent = [r \in Req |-> 0]
    /\ delivered = [r \in Req |-> FALSE]

\* The request arrives; a gateway chat is rate-limited and authenticated.
Arrive(r) ==
    /\ pc[r] = "idle"
    /\ Go(r, "arrived")
    /\ UNCHANGED <<free, got, sent, delivered>>

\* 429 or 401 of a gateway chat, before its body is looked at.
Reject(r) ==
    /\ pc[r] = "arrived" /\ r \in Chats
    /\ Go(r, "over")
    /\ UNCHANGED <<free, got, sent, delivered>>

\* locked() is false, and acquire() takes the permit without suspension.
TakeSlot(r) == IF r \in Chats THEN free > 0 /\ free' = free - 1
               ELSE UNCHANGED free

\* Content-Length is absent (as it may always be) or small enough, and there
\* is a slot.
StartReading(r) ==
    /\ pc[r] = "arrived"
    /\ TakeSlot(r)
    /\ Go(r, "reading")
    /\ UNCHANGED <<got, sent, delivered>>

\* 400 or 413 for the declared length, or 503 because no slot is left.
TurnAway(r) ==
    /\ pc[r] = "arrived"
    /\ \/ \E declared \in 0 .. MaxBody : declared > Bound(r)
       \/ r \in Chats /\ free = 0
    /\ Go(r, "over")
    /\ UNCHANGED <<free, got, sent, delivered>>

\* slip: the finally after the body releases the slot in any case.
FinallyAlways(r, complete) ==
    IF r \in Chats THEN free' = free + 1 ELSE UNCHANGED free
\* The finally after the body: release unless the body is complete, for then
\* the finally after the application does.
Finally(r, complete) ==
    IF r \in Chats /\ ~complete THEN free' = free + 1 ELSE UNCHANGED free

\* slip: each chunk is compared with the limit by itself.
ChunkFits(r, n) == n <= Bound(r)
Fits(r, n) == got[r] + n <= Bound(r)

\* The next chunk.  The last one completes the body and calls the
\* application; one that does not fit is answered with 413.
Chunk(r) ==
    /\ pc[r] = "reading"
    /\ \E n \in 0 .. MaxBody - sent[r] : \E more \in BOOLEAN :
          /\ n > 0 \/ ~more
          /\ sent' = [sent EXCEPT ![r] = @ + n]
          /\ IF Fits(r, n)
             THEN /\ got' = [got EXCEPT ![r] = @ + n]
                  /\ Go(r, IF more THEN "reading" ELSE "inside")
                  /\ IF more THEN UNCHANGED free ELSE Finally(r, TRUE)
             ELSE Go(r, "refusing") /\ UNCHANGED <<got, free>>
    /\ UNCHANGED delivered

\* slip: the timeout is for the first byte only.
IdleTimeout(r) ==
    /\ pc[r] = "reading" /\ sent[r] = 0
    /\ Go(r, "timedOut")
    /\ UNCHANGED <<free, got, sent, delivered>>

\* The thirty seconds for the body are over: 408 is sent next.  The timeout
\* also covers the sending of a 413.
ReadTimeout(r) ==
    /\ pc[r] \in {"reading", "refusing"}
    /\ Go(r, "timedOut")
    /\ UNCHANGED <<free, got, sent, delivered>>

\* The middleware leaves without calling the application: the client has
\* disconnected, the 413 or 408 has been sent, or the request is cancelled.
GiveUp(r) ==
    /\ pc[r] \in Reading
    /\ Finally(r, FALSE)
    /\ Go(r, "over")
    /\ got' = [got EXCEPT ![r] = 0]
    /\ UNCHANGED <<sent, delivered>>

\* bounded_receive() replays the body once; later calls wait for the client.
Replay(r) ==
    /\ pc[r] = "inside" /\ ~delivered[r]
    /\ delivered' = [delivered EXCEPT ![r] = TRUE]
    /\ UNCHANGED <<free, pc, got, sent>>

\* The application returns, fails or is cancelled.
AppEnds(r) ==
    /\ pc[r] = "inside"
    /\ IF r \in Chats THEN free' = free + 1 ELSE UNCHANGED free
    /\ Go(r, "over")
    /\ got' = [got EXCEPT ![r] = 0]
    /\ UNCHANGED <<sent, delivered>>

\* Every request has been answered.
Idle == (\A r \in Req : pc[r] = "over") /\ UNCHANGED vars

Next ==
    \/ \E r \in Req :
          \/ Arrive(r) \/ Reject(r) \/ StartReading(r) \/ TurnAway(r)
          \/ Chunk(r) \/ ReadTimeout(r) \/ GiveUp(r) \/ Replay(r) \/ AppEnds(r)
    \/ Idle

Spec == Init /\ [][Next]_vars

\* The read timeout fires and a small 408 leaves.  Nothing is assumed of the
\* client, nor of the application, which may be streaming to a slow client.
Fairness ==
    \A r \in Req : /\ WF_vars(ReadTimeout(r))
                   /\ WF_vars(pc[r] = "timedOut" /\ GiveUp(r))

FairSpec == Spec /\ Fairness

-----------------------------------------------------------------------------
(* Properties.                                                             *)

\* Every variable has its type.
TypeOK ==
    /\ free \in 0 .. Slots
    /\ pc \in [Req -> {"idle", "arrived", "inside", "over"} \cup Reading]
    /\ got \in [Req -> 0 .. MaxBody] /\ sent \in [Req -> 0 .. MaxBody]
    /\ delivered \in [Req -> BOOLEAN]

\* Each permit is free or held by one gateway chat: on every way out of the
\* body and of the application it is released exactly once.
SlotsConserved == free + Cardinality(Holders) = Slots

\* The memory for bodies is bounded as a whole: no body outgrows the limit of
\* its request, in whatever chunks it comes, and no more gateway chats have
\* one in memory than there are slots, be it read, replayed or abandoned.
WithinBound == \A r \in Req : got[r] <= Bound(r)
BuffersBounded == WithinBound /\ Cardinality({r \in Chats : got[r] > 0}) <= Slots

\* A client that sends its body slowly, or not at all, does not keep a slot:
\* the request gets to the application or gives its slot back.
SlowBodyFreesSlot ==
    \A r \in Chats : (pc[r] \in Reading) ~> (pc[r] \in {"inside", "over"})

=============================================================================
