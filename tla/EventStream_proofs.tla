------------------------- MODULE EventStream_proofs -------------------------
(***************************************************************************)
(* Proofs about EventStream for every queue size and every number of       *)
(* events: order without gaps, and a verdict at the end of a stream that   *)
(* nobody cut off.                                                         *)
(***************************************************************************)
EXTENDS EventStream, TLAPS

-----------------------------------------------------------------------------
(* The inductive invariant.                                                *)

Open == stream \in {"getting", "sending"}
Entries == Events \cup {End}

\* Events that have left the queue.
Passed == Len(delivered) + (IF out.kind \in Kinds THEN 1 ELSE 0)

\* While the stream is open, the events in the queue and the one being put
\* continue the numbers of those that have left it.
Numbered ==
    /\ InOrder
    /\ Open =>
        /\ stream = "getting" <=> out = Nothing
        /\ out.kind \in Kinds => out.n = Len(delivered) + 1
        /\ \A i \in 1 .. Len(queue) : queue[i] # End => queue[i].n = Passed + i
        /\ \A i \in 1 .. Len(queue) : queue[i] = End => i = Len(queue) /\ worker = "over"
        /\ worker \in {"running", "closing"} => made = Passed + Len(queue)
        /\ worker \in {"putting", "concluding"} =>
              made = Passed + Len(queue) + 1 /\ item.n = made
        /\ worker = "putting" => item.kind = "progress"
        /\ worker = "concluding" => item.kind \in Verdicts
        /\ worker \in {"running", "putting"} => made <= MaxProgress

\* The event that ended the chat, once it is out of the worker's hands.
IsLast(n) == worker \in {"closing", "over"} /\ n = made

\* Unless somebody cuts the stream off, the last event and no other is a
\* verdict, and the terminator is behind it.
Told ==
    (~revoked /\ client # "gone") =>
        /\ Open =>
            /\ ~cancelled
            /\ \A i \in 1 .. Len(delivered) : delivered[i].kind \in Verdicts <=> IsLast(i)
            /\ out.kind \in Kinds => (out.kind \in Verdicts <=> IsLast(out.n))
            /\ \A i \in 1 .. Len(queue) :
                  queue[i] # End => (queue[i].kind \in Verdicts <=> IsLast(queue[i].n))
            /\ worker = "over" => /\ Len(queue) > 0 /\ queue[Len(queue)] = End
                                  /\ made = Passed + Len(queue) - 1
            /\ worker \in {"closing", "over"} => made >= 1
        /\ ~Open => /\ delivered # <<>>
                    /\ \A i \in 1 .. Len(delivered) :
                          delivered[i].kind \in Verdicts <=> i = Len(delivered)

\* Once the stream is closing nothing of it is sent any more, and its worker
\* is over or will be cancelled.
Quiet == ~Open => out = Nothing /\ (worker = "over" \/ cancelled)

IInv == TypeOK /\ Numbered /\ Told /\ Quiet

-----------------------------------------------------------------------------
(* Sequences of entries.                                                   *)

\* Appending an entry adds it behind all others.
LEMMA Appended ==
    ASSUME NEW S, NEW s \in Seq(S), NEW e \in S
    PROVE  /\ Append(s, e) \in Seq(S) /\ Len(Append(s, e)) = Len(s) + 1
           /\ Append(s, e)[Len(s) + 1] = e
           /\ \A i \in 1 .. Len(s) : Append(s, e)[i] = s[i]
           /\ Len(s) \in Nat
  OBVIOUS

\* Taking an entry moves all others one place forward.
LEMMA Taken ==
    ASSUME NEW S, NEW s \in Seq(S), s # <<>>
    PROVE  /\ Tail(s) \in Seq(S) /\ Len(Tail(s)) = Len(s) - 1
           /\ Head(s) = s[1] /\ Head(s) \in S /\ Len(s) \in Nat /\ Len(s) > 0
           /\ \A i \in 1 .. Len(s) - 1 : Tail(s)[i] = s[i + 1]
  OBVIOUS

\* The terminator, the heartbeat and Nothing are no events.
LEMMA Distinct ==
    /\ End \notin Events /\ Heartbeat \notin Events /\ Nothing \notin Events
    /\ \A e \in Events : e.kind \in Kinds /\ e.n \in 1 .. MaxProgress + 1 /\ e # End
    /\ End.kind \notin Kinds /\ Heartbeat.kind \notin Kinds /\ Nothing.kind \notin Kinds
    /\ \A kind \in Kinds : \A n \in 1 .. MaxProgress + 1 :
          Event(kind, n) \in Events /\ Event(kind, n).kind = kind /\ Event(kind, n).n = n
    /\ Verdicts \subseteq Kinds /\ "progress" \in Kinds /\ "progress" \notin Verdicts
  BY DEF End, Heartbeat, Nothing, Events, Kinds, Event, Verdicts

-----------------------------------------------------------------------------
(* Two ways in which the queue grows.                                      *)

\* Appending the next event keeps the numbers, whatever the worker does next.
LEMMA GrowKeepsNumbers ==
    ASSUME TypeOK, Numbered, Open, worker # "over",
           NEW e \in Events, e.n = Passed + Len(queue) + 1
    PROVE  /\ Append(queue, e) \in Seq(Entries)
           /\ Len(Append(queue, e)) = Len(queue) + 1
           /\ \A i \in 1 .. Len(queue) + 1 :
                 Append(queue, e)[i] # End /\ Append(queue, e)[i].n = Passed + i
  <1>1. queue \in Seq(Entries) /\ Len(queue) \in Nat /\ e \in Entries /\ e # End
    BY Distinct DEF TypeOK, Entries
  <1>2. /\ Append(queue, e) \in Seq(Entries) /\ Len(Append(queue, e)) = Len(queue) + 1
        /\ Append(queue, e)[Len(queue) + 1] = e
        /\ \A i \in 1 .. Len(queue) : Append(queue, e)[i] = queue[i]
    BY <1>1, Appended
  <1>3. \A i \in 1 .. Len(queue) : queue[i] # End /\ queue[i].n = Passed + i
    BY DEF Numbered
  <1>4. ASSUME NEW i \in 1 .. Len(queue) + 1
        PROVE  Append(queue, e)[i] # End /\ Append(queue, e)[i].n = Passed + i
    <2>1. CASE i \in 1 .. Len(queue)
      BY <1>2, <1>3, <2>1
    <2>2. CASE i = Len(queue) + 1
      <3>1. Passed \in Nat
        BY DEF Passed, TypeOK
      <3>2. Passed + (Len(queue) + 1) = Passed + Len(queue) + 1
        BY <1>1, <3>1
      <3>3. QED
        BY <1>1, <1>2, <2>2, <3>2
    <2>3. QED
      BY <1>1, <2>1, <2>2
  <1>5. QED
    BY <1>2, <1>4

\* A worker that is neither over nor cancelled still has its stream open.
LEMMA BusyIsOpen ==
    ASSUME Quiet, worker # "over", ~cancelled
    PROVE  Open
  BY DEF Quiet

\* What the invariant says of the numbers at hand.
LEMMA NumbersOfOpen ==
    ASSUME TypeOK, Numbered, Open
    PROVE  /\ Passed \in Nat /\ Len(queue) \in Nat /\ made \in Nat /\ Len(delivered) \in Nat
           /\ worker = "running" => made = Passed + Len(queue)
           /\ worker \in {"putting", "concluding"} =>
                 item \in Events /\ item.n = Passed + Len(queue) + 1 /\ item.n = made
  <1>1. Passed \in Nat /\ Len(queue) \in Nat /\ made \in Nat /\ Len(delivered) \in Nat
    BY DEF Passed, TypeOK
  <1>2. ASSUME worker \in {"putting", "concluding"}
        PROVE  item \in Events /\ item.n = Passed + Len(queue) + 1 /\ item.n = made
    <2>1. made = Passed + Len(queue) + 1 /\ item.n = made
      BY <1>2 DEF Numbered
    <2>2. item # Nothing
      BY <1>1, <2>1 DEF Nothing
    <2>3. QED
      BY <2>1, <2>2 DEF TypeOK
  <1>3. QED
    BY <1>1, <1>2 DEF Numbered

\* The next event enters the queue and the worker goes on: to the rest of
\* run_chat() after progress, to the terminator after a verdict.
LEMMA GrowKeepsInv ==
    ASSUME IInv, Open, worker \in {"running", "putting", "concluding"}, ~Full,
           NEW e \in Events, e.n = Passed + Len(queue) + 1,
           queue' = Append(queue, e), made' = e.n, item' = Nothing,
           UNCHANGED <<cancelled, revoked, streamVars, client>>,
           \/ worker' = "running" /\ e.kind \notin Verdicts /\ e.n <= MaxProgress
           \/ worker' = "closing" /\ e.kind \in Verdicts
    PROVE  IInv'
  <1>1. TypeOK /\ Numbered /\ Told
    BY DEF IInv
  <1>2. UNCHANGED <<cancelled, revoked, stream, out, delivered, client>> /\ Passed' = Passed
    BY DEF streamVars, Passed
  <1>3. Open' /\ worker # "over"
    BY <1>2 DEF Open
  <1>4. /\ Passed \in Nat /\ Len(queue) \in Nat /\ made \in Nat /\ Len(delivered) \in Nat
        /\ e.n \in 1 .. MaxProgress + 1 /\ e \in Entries
    BY <1>1, NumbersOfOpen, Distinct DEF Entries
  <1>5. /\ queue' \in Seq(Entries) /\ Len(queue') = Len(queue) + 1
        /\ \A i \in 1 .. Len(queue) + 1 : queue'[i] # End /\ queue'[i].n = Passed + i
    BY <1>1, <1>3, GrowKeepsNumbers
  <1>6. /\ queue'[Len(queue) + 1] = e
        /\ \A i \in 1 .. Len(queue) : queue'[i] = queue[i]
    BY <1>1, <1>4, Appended DEF TypeOK, Entries
  <1>7. TypeOK'
    <2>1. Len(queue') <= QueueSize
      BY <1>4, <1>5, SizeAssumption DEF Full
    <2>2. QED
      BY <1>1, <1>2, <1>4, <1>5, <2>1 DEF TypeOK, Entries
  <1>8. Numbered'
    <2>1. made' = Passed' + Len(queue')
      BY <1>2, <1>4, <1>5
    <2>2. InOrder'
      BY <1>1, <1>2 DEF Numbered, InOrder
    <2>3. /\ (stream = "getting" <=> out = Nothing)'
          /\ (out.kind \in Kinds => out.n = Len(delivered) + 1)'
      BY <1>1, <1>2 DEF Numbered
    <2>4. QED
      BY <1>2, <1>4, <1>5, <2>1, <2>2, <2>3 DEF Numbered
  <1>9. Told'
    <2> SUFFICES ASSUME ~revoked, client # "gone"
                 PROVE  Told'
      BY <1>2 DEF Told
    <2>1. /\ ~cancelled
          /\ \A i \in 1 .. Len(delivered) : delivered[i].kind \notin Verdicts
          /\ out.kind \in Kinds => out.kind \notin Verdicts
          /\ \A i \in 1 .. Len(queue) : queue[i].kind \notin Verdicts
      <3>1. \A i \in 1 .. Len(queue) : queue[i] # End
        BY <1>1, <1>3 DEF Numbered
      <3>2. QED
        BY <1>1, <3>1 DEF Told, IsLast
    <2>2. \A n \in 1 .. Passed + Len(queue) : ~IsLast(n)'
      BY <1>4 DEF IsLast
    <2>3. \A i \in 1 .. Len(delivered)' : (delivered[i].kind \in Verdicts <=> IsLast(i))'
      BY <1>2, <1>4, <2>1, <2>2 DEF Passed
    <2>4. (out.kind \in Kinds => (out.kind \in Verdicts <=> IsLast(out.n)))'
      BY <1>1, <1>2, <1>4, <2>1, <2>2 DEF Passed, Numbered
    <2>5. \A i \in 1 .. Len(queue') :
             (queue[i] # End => (queue[i].kind \in Verdicts <=> IsLast(queue[i].n)))'
      <3> SUFFICES ASSUME NEW i \in 1 .. Len(queue')
                   PROVE  (queue[i].kind \in Verdicts <=> IsLast(queue[i].n))'
        OBVIOUS
      <3>1. CASE i \in 1 .. Len(queue)
        <4>1. queue'[i].n \in 1 .. Passed + Len(queue)
          BY <1>4, <1>5, <3>1
        <4>2. QED
          BY <1>6, <2>1, <2>2, <3>1, <4>1
      <3>2. CASE i = Len(queue) + 1
        BY <1>6, <3>2 DEF IsLast
      <3>3. QED
        BY <1>4, <1>5, <3>1, <3>2
    <2>6. QED
      BY <1>2, <1>3, <1>4, <2>1, <2>3, <2>4, <2>5 DEF Told
  <1>10. Quiet'
    BY <1>3 DEF Quiet
  <1>11. QED
    BY <1>7, <1>8, <1>9, <1>10 DEF IInv

\* The terminator enters the queue, behind a verdict that is in it or out.
LEMMA EndKeepsInv ==
    ASSUME IInv, Open, worker = "closing", ~Full,
           queue' = Append(queue, End), worker' = "over",
           UNCHANGED <<item, made, cancelled, revoked, streamVars, client>>
    PROVE  IInv'
  <1>1. TypeOK /\ Numbered /\ Told
    BY DEF IInv
  <1>2. /\ UNCHANGED <<item, made, cancelled, revoked, stream, out, delivered, client>>
        /\ Passed' = Passed /\ Open'
    BY DEF streamVars, Passed, Open
  <1>3. Passed \in Nat /\ Len(queue) \in Nat /\ made \in Nat /\ End \in Entries
    BY <1>1, NumbersOfOpen DEF Entries
  <1>4. /\ queue' \in Seq(Entries) /\ Len(queue') = Len(queue) + 1
        /\ queue'[Len(queue) + 1] = End
        /\ \A i \in 1 .. Len(queue) : queue'[i] = queue[i]
    BY <1>1, <1>3, Appended DEF TypeOK, Entries
  <1>5. \A i \in 1 .. Len(queue) : queue[i] # End /\ queue[i].n = Passed + i
    BY <1>1 DEF Numbered
  <1>6. TypeOK'
    <2>1. Len(queue') <= QueueSize
      BY <1>3, <1>4, SizeAssumption DEF Full
    <2>2. QED
      BY <1>1, <1>2, <1>4, <2>1 DEF TypeOK, Entries
  <1>7. Numbered'
    <2>1. \A i \in 1 .. Len(queue') :
             /\ queue'[i] # End => queue'[i].n = Passed + i
             /\ queue'[i] = End => i = Len(queue')
      BY <1>3, <1>4, <1>5
    <2>2. QED
      BY <1>1, <1>2, <1>4, <2>1 DEF Numbered, InOrder
  <1>8. Told'
    <2> SUFFICES ASSUME ~revoked, client # "gone"
                 PROVE  Told'
      BY <1>2 DEF Told
    <2>1. \A n : IsLast(n)' <=> IsLast(n)
      BY <1>2 DEF IsLast
    <2>2. \A i \in 1 .. Len(queue') :
             (queue[i] # End => (queue[i].kind \in Verdicts <=> IsLast(queue[i].n)))'
      BY <1>1, <1>3, <1>4, <1>5, <2>1 DEF Told
    <2>3. /\ made' = Passed' + Len(queue') - 1 /\ made' >= 1
          /\ Len(queue') > 0 /\ queue'[Len(queue')] = End
      BY <1>1, <1>2, <1>3, <1>4 DEF Numbered, Told
    <2>4. QED
      BY <1>1, <1>2, <2>1, <2>2, <2>3 DEF Told
  <1>9. Quiet'
    BY <1>2 DEF Quiet
  <1>10. QED
    BY <1>6, <1>7, <1>8, <1>9 DEF IInv

\* A verdict and the terminator enter the queue together.
LEMMA GrowEndKeepsInv ==
    ASSUME IInv, Open, worker \in {"running", "concluding"},
           NEW e \in Events, e.n = Passed + Len(queue) + 1, e.kind \in Verdicts,
           Len(Append(queue, e)) < QueueSize,
           queue' = Append(Append(queue, e), End), worker' = "over",
           made' = e.n, item' = Nothing,
           UNCHANGED <<cancelled, revoked, streamVars, client>>
    PROVE  IInv'
  <1> DEFINE grown == Append(queue, e)
  <1>1. TypeOK /\ Numbered /\ Told
    BY DEF IInv
  <1>2. /\ UNCHANGED <<cancelled, revoked, stream, out, delivered, client>>
        /\ Passed' = Passed /\ Open' /\ worker # "over"
    BY DEF streamVars, Passed, Open
  <1>3. /\ Passed \in Nat /\ Len(queue) \in Nat /\ made \in Nat /\ Len(delivered) \in Nat
        /\ e.n \in 1 .. MaxProgress + 1 /\ e \in Entries /\ End \in Entries
    BY <1>1, NumbersOfOpen, Distinct DEF Entries
  <1>4. /\ grown \in Seq(Entries) /\ Len(grown) = Len(queue) + 1
        /\ \A i \in 1 .. Len(grown) : grown[i] # End /\ grown[i].n = Passed + i
    BY <1>1, <1>2, GrowKeepsNumbers
  <1>5. grown[Len(grown)] = e /\ \A i \in 1 .. Len(queue) : grown[i] = queue[i]
    BY <1>1, <1>3, <1>4, Appended DEF TypeOK, Entries
  <1> HIDE DEF grown
  <1>6. /\ queue' \in Seq(Entries) /\ Len(queue') = Len(grown) + 1
        /\ queue'[Len(grown) + 1] = End
        /\ \A i \in 1 .. Len(grown) : queue'[i] = grown[i]
    <2>1. queue' = Append(grown, End)
      BY DEF grown
    <2>2. QED
      BY <1>3, <1>4, <2>1, Appended
  <1>7. TypeOK'
    <2>1. Len(queue') <= QueueSize
      <3>1. Len(grown) < QueueSize
        BY DEF grown
      <3>2. QED
        BY <1>3, <1>4, <1>6, <3>1, SizeAssumption
    <2>2. QED
      BY <1>1, <1>2, <1>3, <1>6, <2>1 DEF TypeOK, Entries
  <1>8. Numbered'
    <2>1. \A i \in 1 .. Len(queue') :
             /\ queue'[i] # End => queue'[i].n = Passed + i
             /\ queue'[i] = End => i = Len(queue')
      BY <1>3, <1>4, <1>6
    <2>2. QED
      BY <1>1, <1>2, <1>6, <2>1 DEF Numbered, InOrder
  <1>9. Told'
    <2> SUFFICES ASSUME ~revoked, client # "gone"
                 PROVE  Told'
      BY <1>2 DEF Told
    <2>1. /\ ~cancelled
          /\ \A i \in 1 .. Len(delivered) : delivered[i].kind \notin Verdicts
          /\ out.kind \in Kinds => out.kind \notin Verdicts
          /\ \A i \in 1 .. Len(queue) : queue[i].kind \notin Verdicts
      <3>1. \A i \in 1 .. Len(queue) : queue[i] # End
        BY <1>1, <1>2 DEF Numbered
      <3>2. QED
        BY <1>1, <1>2, <3>1 DEF Told, IsLast
    <2>2. \A n \in 1 .. Passed + Len(queue) : ~IsLast(n)'
      BY <1>3 DEF IsLast
    <2>3. \A i \in 1 .. Len(delivered)' : (delivered[i].kind \in Verdicts <=> IsLast(i))'
      BY <1>2, <1>3, <2>1, <2>2 DEF Passed
    <2>4. (out.kind \in Kinds => (out.kind \in Verdicts <=> IsLast(out.n)))'
      BY <1>1, <1>2, <1>3, <2>1, <2>2 DEF Passed, Numbered
    <2>5. \A i \in 1 .. Len(grown) : grown[i].kind \in Verdicts <=> grown[i].n = made'
      <3> SUFFICES ASSUME NEW i \in 1 .. Len(grown)
                   PROVE  grown[i].kind \in Verdicts <=> grown[i].n = made'
        OBVIOUS
      <3>1. CASE i \in 1 .. Len(queue)
        <4>1. grown[i].n \in 1 .. Passed + Len(queue)
          BY <1>3, <1>4, <3>1
        <4>2. QED
          BY <1>3, <1>5, <2>1, <3>1, <4>1
      <3>2. CASE i = Len(grown)
        BY <1>5, <3>2
      <3>3. QED
        BY <1>3, <1>4, <3>1, <3>2
    <2>6. \A i \in 1 .. Len(queue') :
             (queue[i] # End => (queue[i].kind \in Verdicts <=> IsLast(queue[i].n)))'
      <3> SUFFICES ASSUME NEW i \in 1 .. Len(queue')
                   PROVE  (queue[i] # End => (queue[i].kind \in Verdicts <=> IsLast(queue[i].n)))'
        OBVIOUS
      <3>1. CASE i \in 1 .. Len(grown)
        BY <1>6, <2>5, <3>1 DEF IsLast
      <3>2. CASE i = Len(grown) + 1
        BY <1>6, <3>2
      <3>3. QED
        BY <1>3, <1>4, <1>6, <3>1, <3>2
    <2>7. /\ made' = Passed' + Len(queue') - 1 /\ made' >= 1
          /\ Len(queue') > 0 /\ queue'[Len(queue')] = End
      BY <1>2, <1>3, <1>4, <1>6
    <2>8. QED
      BY <1>2, <2>1, <2>3, <2>4, <2>6, <2>7 DEF Told
  <1>10. Quiet'
    BY <1>2 DEF Quiet
  <1>11. QED
    BY <1>7, <1>8, <1>9, <1>10 DEF IInv

\* A put that finds the queue full: the event waits with its number.
LEMMA BlockKeepsInv ==
    ASSUME IInv, Open, worker = "running",
           NEW e \in Events, e.n = made + 1, made' = made + 1, item' = e,
           UNCHANGED <<queue, cancelled, revoked, streamVars, client>>,
           \/ worker' = "putting" /\ e.kind = "progress" /\ made < MaxProgress
           \/ worker' = "concluding" /\ e.kind \in Verdicts
    PROVE  IInv'
  <1>1. TypeOK /\ Numbered /\ Told
    BY DEF IInv
  <1>2. /\ UNCHANGED <<queue, cancelled, revoked, stream, out, delivered, client>>
        /\ Passed' = Passed /\ Open'
    BY DEF streamVars, Passed, Open
  <1>3. /\ Passed \in Nat /\ Len(queue) \in Nat /\ made \in Nat
        /\ made = Passed + Len(queue) /\ made <= MaxProgress
    BY <1>1, NumbersOfOpen DEF Numbered
  <1>4. TypeOK'
    BY <1>1, <1>2, <1>3, SizeAssumption DEF TypeOK
  <1>5. Numbered'
    <2>1. \A i \in 1 .. Len(queue') : queue'[i] # End /\ queue'[i].n = Passed' + i
      BY <1>1, <1>2 DEF Numbered
    <2>2. made' = Passed' + Len(queue') + 1 /\ item'.n = made'
      BY <1>2, <1>3
    <2>3. InOrder' /\ (stream = "getting" <=> out = Nothing)'
          /\ (out.kind \in Kinds => out.n = Len(delivered) + 1)'
      BY <1>1, <1>2 DEF Numbered, InOrder
    <2>4. worker' = "putting" => made' <= MaxProgress
      BY <1>3, SizeAssumption
    <2>5. QED
      BY <2>1, <2>2, <2>3, <2>4, Distinct DEF Numbered
  <1>6. Told'
    <2>1. \A n : ~IsLast(n) /\ ~IsLast(n)'
      BY DEF IsLast
    <2>2. QED
      BY <1>1, <1>2, <2>1 DEF Told
  <1>7. Quiet'
    BY <1>2 DEF Quiet
  <1>8. QED
    BY <1>4, <1>5, <1>6, <1>7 DEF IInv

-----------------------------------------------------------------------------
(* The steps of the worker.                                                *)

\* The initial state.
LEMMA InitInv == Init => IInv
  <1> SUFFICES ASSUME Init
               PROVE  IInv
    OBVIOUS
  <1>1. queue = <<>> /\ delivered = <<>> /\ Open /\ out = Nothing /\ Passed = 0
    BY Distinct DEF Init, Open, Passed
  <1>2. TypeOK
    <2>1. 0 \in 0 .. MaxProgress + 1 /\ Len(<<>>) = 0 /\ Len(queue) <= QueueSize
      BY <1>1, SizeAssumption
    <2>2. queue \in Seq(Events \cup {End}) /\ delivered \in Seq(Events)
      BY <1>1
    <2>3. QED
      BY <2>1, <2>2 DEF Init, TypeOK
  <1>3. Numbered
    BY <1>1, SizeAssumption, Distinct DEF Init, Numbered, InOrder
  <1>4. Told
    BY <1>1, Distinct DEF Init, Told
  <1>5. QED
    BY <1>1, <1>2, <1>3, <1>4 DEF IInv, Quiet

\* emit() of run_chat().
LEMMA EmitKeepsInv == IInv /\ Emit => IInv'
  <1> SUFFICES ASSUME IInv, Emit
               PROVE  IInv'
    OBVIOUS
  <1> DEFINE e == Event("progress", made + 1)
  <1>1. /\ worker = "running" /\ ~cancelled /\ made < MaxProgress /\ made' = made + 1
        /\ UNCHANGED <<cancelled, revoked, streamVars, client>>
        /\ Full => worker' = "putting" /\ item' = e /\ UNCHANGED queue
        /\ ~Full => worker' = "running" /\ item' = Nothing /\ queue' = Append(queue, e)
    BY DEF Emit, Put
  <1>2. Open
    BY <1>1, BusyIsOpen DEF IInv
  <1>3. made \in Nat /\ made = Passed + Len(queue)
    BY <1>1, <1>2, NumbersOfOpen DEF IInv
  <1>4. e \in Events /\ e.kind = "progress" /\ e.n = made + 1
    <2>1. made + 1 \in 1 .. MaxProgress + 1
      BY <1>1, <1>3, SizeAssumption
    <2>2. QED
      BY <2>1, Distinct
  <1> HIDE DEF e
  <1>5. CASE Full
    BY <1>1, <1>2, <1>4, <1>5, BlockKeepsInv
  <1>6. CASE ~Full
    <2>1. e.kind \notin Verdicts /\ e.n <= MaxProgress /\ e.n = Passed + Len(queue) + 1
      BY <1>1, <1>3, <1>4, SizeAssumption, Distinct
    <2>2. QED
      BY <1>1, <1>2, <1>4, <1>6, <2>1, GrowKeepsInv
  <1>7. QED
    BY <1>5, <1>6

\* The blocked put() of a progress event.
LEMMA EmitResumesKeepsInv == IInv /\ EmitResumes => IInv'
  <1> SUFFICES ASSUME IInv, EmitResumes
               PROVE  IInv'
    OBVIOUS
  <1>1. Open
    BY BusyIsOpen DEF IInv, EmitResumes
  <1>2. item \in Events /\ item.n = Passed + Len(queue) + 1 /\ made' = item.n
    BY <1>1, NumbersOfOpen DEF IInv, EmitResumes
  <1>3. item.n <= MaxProgress /\ item.kind \notin Verdicts
    BY <1>1, <1>2, Distinct DEF IInv, Numbered, EmitResumes
  <1>4. QED
    BY <1>1, <1>2, <1>3, GrowKeepsInv DEF EmitResumes

\* The verdict: blocked, followed by a blocked terminator, or with it.
LEMMA VerdictKeepsInv ==
    ASSUME IInv, Open, worker \in {"running", "concluding"}, ~Full,
           NEW e \in Events, e.n = Passed + Len(queue) + 1, e.kind \in Verdicts,
           CloseQueue(Append(queue, e)), made' = e.n, item' = Nothing,
           UNCHANGED <<cancelled, revoked, streamVars, client>>
    PROVE  IInv'
  <1>1. CASE Len(Append(queue, e)) < QueueSize
    <2>1. Append(queue, e) \in Seq(Entries) /\ Len(Append(queue, e)) \in Nat
      BY GrowKeepsNumbers DEF IInv
    <2>2. worker' = "over" /\ queue' = Append(Append(queue, e), End)
      BY <1>1, <2>1, SizeAssumption DEF CloseQueue
    <2>3. QED
      BY <1>1, <2>2, GrowEndKeepsInv
  <1>2. CASE ~(Len(Append(queue, e)) < QueueSize)
    <2>1. Append(queue, e) \in Seq(Entries) /\ Len(Append(queue, e)) \in Nat
      BY GrowKeepsNumbers DEF IInv
    <2>2. worker' = "closing" /\ queue' = Append(queue, e)
      BY <1>2, <2>1, SizeAssumption DEF CloseQueue
    <2>3. QED
      BY <2>2, GrowKeepsInv
  <1>3. QED
    BY <1>1, <1>2

\* run_chat() is over.
LEMMA RunEndsKeepsInv == IInv /\ RunEnds => IInv'
  <1> SUFFICES ASSUME IInv, RunEnds
               PROVE  IInv'
    OBVIOUS
  <1>1. worker = "running" /\ ~cancelled
    BY DEF RunEnds
  <1>2. PICK kind \in Verdicts : Concludes(kind)
    BY DEF RunEnds
  <1> DEFINE e == Event(kind, made + 1)
  <1>3. /\ made' = made + 1
        /\ UNCHANGED <<cancelled, revoked, streamVars, client>>
        /\ Full => worker' = "concluding" /\ item' = e /\ UNCHANGED queue
        /\ ~Full => CloseQueue(Append(queue, e)) /\ item' = Nothing
    BY <1>2 DEF Concludes
  <1>4. Open
    BY <1>1, BusyIsOpen DEF IInv
  <1>5. made \in Nat /\ made = Passed + Len(queue) /\ made <= MaxProgress
    BY <1>1, <1>4, NumbersOfOpen DEF IInv, Numbered
  <1>6. e \in Events /\ e.kind \in Verdicts /\ e.n = made + 1
    <2>1. made + 1 \in 1 .. MaxProgress + 1 /\ kind \in Kinds
      BY <1>5, SizeAssumption, Distinct
    <2>2. QED
      BY <1>2, <2>1, Distinct
  <1> HIDE DEF e
  <1>7. CASE Full
    BY <1>1, <1>3, <1>4, <1>6, <1>7, BlockKeepsInv
  <1>8. CASE ~Full
    BY <1>1, <1>3, <1>4, <1>5, <1>6, <1>8, VerdictKeepsInv
  <1>9. QED
    BY <1>7, <1>8

\* The deadline of the chat replaces the event that waits.
LEMMA DeadlineKeepsInv == IInv /\ Deadline => IInv'
  <1> SUFFICES ASSUME IInv, Deadline
               PROVE  IInv'
    OBVIOUS
  <1>1. /\ worker = "putting" /\ ~cancelled /\ worker' = "concluding"
        /\ item' = Event("error", item.n)
        /\ UNCHANGED <<queue, made, cancelled, revoked, stream, out, delivered, client>>
    BY DEF Deadline, streamVars
  <1>2. Open /\ Open' /\ Passed' = Passed
    BY <1>1, BusyIsOpen DEF IInv, Open, Passed
  <1>3. item \in Events
    BY <1>1, <1>2, NumbersOfOpen DEF IInv
  <1>4. item' \in Events /\ item'.kind \in Verdicts /\ item'.n = item.n
    BY <1>1, <1>3, Distinct DEF Verdicts, Kinds
  <1>5. TypeOK'
    BY <1>1, <1>4 DEF IInv, TypeOK
  <1>6. Numbered'
    BY <1>1, <1>2, <1>4 DEF IInv, Numbered, InOrder
  <1>7. Told'
    <2>1. \A n : ~IsLast(n) /\ ~IsLast(n)'
      BY <1>1 DEF IsLast
    <2>2. QED
      BY <1>1, <1>2, <2>1 DEF IInv, Told
  <1>8. QED
    BY <1>2, <1>5, <1>6, <1>7 DEF IInv, Quiet

\* The blocked put() of the verdict.
LEMMA ConcludeKeepsInv == IInv /\ Conclude => IInv'
  <1> SUFFICES ASSUME IInv, Conclude
               PROVE  IInv'
    OBVIOUS
  <1>1. Open
    BY BusyIsOpen DEF IInv, Conclude
  <1>2. /\ item \in Events /\ item.n = Passed + Len(queue) + 1 /\ made' = item.n
        /\ item.kind \in Verdicts
    BY <1>1, NumbersOfOpen DEF IInv, Numbered, Conclude
  <1>3. QED
    BY <1>1, <1>2, VerdictKeepsInv DEF Conclude

\* The blocked put(None).
LEMMA CloseKeepsInv == IInv /\ Close => IInv'
  <1> SUFFICES ASSUME IInv, Close
               PROVE  IInv'
    OBVIOUS
  <1>1. Open
    BY BusyIsOpen DEF IInv, Close
  <1>2. QED
    BY <1>1, EndKeepsInv DEF Close

\* A cancelled worker leaves the terminator alone; nobody is promised more.
LEMMA CancelledKeepsInv == IInv /\ Cancelled => IInv'
  <1> SUFFICES ASSUME IInv, Cancelled
               PROVE  IInv'
    OBVIOUS
  <1>1. /\ worker # "over" /\ cancelled /\ queue' = <<End>> /\ worker' = "over"
        /\ item' = Nothing
        /\ UNCHANGED <<made, cancelled, revoked, stream, out, delivered, client>>
    BY DEF Cancelled, streamVars
  <1>2. (Open' <=> Open) /\ Passed' = Passed
    BY <1>1 DEF Open, Passed
  <1>3. queue' \in Seq(Entries) /\ Len(queue') = 1 /\ queue'[1] = End
    BY <1>1 DEF Entries
  <1>4. TypeOK'
    <2>1. Len(queue') <= QueueSize
      BY <1>3, SizeAssumption
    <2>2. QED
      BY <1>1, <1>3, <2>1 DEF IInv, TypeOK, Entries
  <1>5. Numbered'
    BY <1>1, <1>2, <1>3 DEF IInv, Numbered, InOrder
  <1>6. Told'
    BY <1>1, <1>2 DEF IInv, Told
  <1>7. QED
    BY <1>1, <1>2, <1>4, <1>5, <1>6 DEF IInv, Quiet

\* A revoking handler cancels the worker.
LEMMA RevokeKeepsInv == IInv /\ Revoke => IInv'
  <1> SUFFICES ASSUME IInv, Revoke
               PROVE  IInv'
    OBVIOUS
  <1>1. /\ cancelled' = TRUE /\ revoked' = TRUE
        /\ UNCHANGED <<queue, worker, item, made, stream, out, delivered, client>>
    BY DEF Revoke, streamVars
  <1>2. (Open' <=> Open) /\ Passed' = Passed
    BY <1>1 DEF Open, Passed
  <1>3. QED
    BY <1>1, <1>2 DEF IInv, TypeOK, Numbered, InOrder, Told, Quiet

-----------------------------------------------------------------------------
(* The steps of the stream and of the client.                              *)

\* get() returns an event.
LEMMA TakeEventKeepsInv == IInv /\ TakeEvent => IInv'
  <1> SUFFICES ASSUME IInv, TakeEvent
               PROVE  IInv'
    OBVIOUS
  <1>1. /\ stream = "getting" /\ queue # <<>> /\ Head(queue) # End
        /\ queue' = Tail(queue) /\ stream' = "sending" /\ out' = Head(queue)
        /\ UNCHANGED <<delivered, worker, item, made, cancelled, revoked, client>>
    BY DEF TakeEvent, workerVars
  <1>2. TypeOK /\ Numbered /\ Told /\ Open /\ Open'
    BY <1>1 DEF IInv, Open
  <1>3. /\ queue' \in Seq(Entries) /\ Len(queue') = Len(queue) - 1
        /\ out' = queue[1] /\ out' \in Events /\ Len(queue) \in Nat /\ Len(queue) > 0
        /\ \A i \in 1 .. Len(queue') : queue'[i] = queue[i + 1]
    <2>1. queue \in Seq(Entries)
      BY <1>2 DEF TypeOK, Entries
    <2>2. QED
      BY <1>1, <2>1, Taken DEF Entries
  <1>4. /\ Passed \in Nat /\ Passed = Len(delivered) /\ Passed' = Passed + 1
        /\ made \in Nat /\ Len(delivered) \in Nat
    <2>1. Passed \in Nat /\ made \in Nat /\ Len(delivered) \in Nat
      BY <1>2, NumbersOfOpen
    <2>2. out = Nothing
      BY <1>1, <1>2 DEF Numbered
    <2>3. out.kind \notin Kinds /\ out'.kind \in Kinds
      BY <1>3, <2>2, Distinct
    <2>4. Passed = Len(delivered) /\ Passed' = Len(delivered) + 1
      BY <1>1, <2>1, <2>3 DEF Passed
    <2>5. QED
      BY <2>1, <2>4
  <1>5. TypeOK'
    <2>1. Len(queue') <= QueueSize
      BY <1>2, <1>3, SizeAssumption DEF TypeOK
    <2>2. QED
      BY <1>1, <1>2, <1>3, <2>1 DEF TypeOK, Entries
  <1>6. Numbered'
    <2>1. ASSUME NEW i \in 1 .. Len(queue')
          PROVE  /\ queue'[i] # End => queue'[i].n = Passed' + i
                 /\ queue'[i] = End => i = Len(queue') /\ worker' = "over"
      <3>1. /\ i + 1 \in 1 .. Len(queue) /\ queue'[i] = queue[i + 1]
            /\ Passed + (i + 1) = Passed' + i
        BY <1>3, <1>4
      <3>2. /\ queue[i + 1] # End => queue[i + 1].n = Passed + (i + 1)
            /\ queue[i + 1] = End => i + 1 = Len(queue) /\ worker = "over"
        BY <1>2, <3>1 DEF Numbered
      <3>3. worker' = worker /\ Len(queue') = Len(queue) - 1 /\ i \in Nat /\ Len(queue) \in Nat
        BY <1>1, <1>3
      <3>4. i + 1 = Len(queue) => i = Len(queue')
        BY <3>3
      <3>5. QED
        BY <3>1, <3>2, <3>3, <3>4
    <2>2. out'.n = Len(delivered') + 1
      <3>1. queue[1].n = Passed + 1
        <4>1. 1 \in 1 .. Len(queue)
          BY <1>3
        <4>2. queue[1] # End
          BY <1>1, <1>3
        <4>3. QED
          BY <1>2, <4>1, <4>2 DEF Numbered
      <3>2. QED
        BY <1>1, <1>3, <1>4, <3>1
    <2>3. /\ InOrder' /\ stream' # "getting" /\ out' # Nothing
          /\ Passed' + Len(queue') = Passed + Len(queue)
      <3>1. InOrder'
        BY <1>1, <1>2 DEF Numbered, InOrder
      <3>2. stream' # "getting" /\ out' # Nothing
        BY <1>1, <1>3, Distinct
      <3>3. Passed' + Len(queue') = Passed + Len(queue)
        BY <1>3, <1>4
      <3>4. QED
        BY <3>1, <3>2, <3>3
    <2>4. /\ worker' \in {"running", "closing"} => made' = Passed' + Len(queue')
          /\ worker' \in {"putting", "concluding"} =>
                made' = Passed' + Len(queue') + 1 /\ item'.n = made'
          /\ worker' = "putting" => item'.kind = "progress"
          /\ worker' = "concluding" => item'.kind \in Verdicts
          /\ worker' \in {"running", "putting"} => made' <= MaxProgress
      BY <1>1, <1>2, <2>3 DEF Numbered
    <2>5. QED
      BY <2>1, <2>2, <2>3, <2>4 DEF Numbered
  <1>7. Told'
    <2> SUFFICES ASSUME ~revoked, client # "gone"
                 PROVE  Told'
      BY <1>1 DEF Told
    <2>1. \A n : IsLast(n)' <=> IsLast(n)
      BY <1>1 DEF IsLast
    <2>2. out'.kind \in Verdicts <=> IsLast(out'.n)
      <3>1. queue[1] # End /\ 1 \in 1 .. Len(queue)
        BY <1>1, <1>3
      <3>2. QED
        BY <1>2, <1>3, <3>1 DEF Told
    <2>3. ASSUME NEW i \in 1 .. Len(queue'), queue'[i] # End
          PROVE  queue'[i].kind \in Verdicts <=> IsLast(queue'[i].n)
      <3>1. i + 1 \in 1 .. Len(queue) /\ queue'[i] = queue[i + 1]
        BY <1>3
      <3>2. QED
        BY <1>2, <2>3, <3>1 DEF Told
    <2>4. ASSUME worker = "over"
          PROVE  /\ Len(queue') > 0 /\ queue'[Len(queue')] = End
                 /\ made = Passed' + Len(queue') - 1
      <3>1. queue[Len(queue)] = End /\ made = Passed + Len(queue) - 1
        BY <1>2, <2>4 DEF Told
      <3>2. Len(queue) # 1
        BY <1>1, <1>3, <3>1
      <3>3. QED
        BY <1>3, <1>4, <3>1, <3>2
    <2>5. QED
      BY <1>1, <1>2, <2>1, <2>2, <2>3, <2>4 DEF Told
  <1>8. QED
    BY <1>2, <1>5, <1>6, <1>7 DEF IInv, Quiet

\* The client receives what is sent.
LEMMA SentKeepsInv == IInv /\ Sent => IInv'
  <1> SUFFICES ASSUME IInv, Sent
               PROVE  IInv'
    OBVIOUS
  <1>1. /\ stream = "sending" /\ stream' = "getting" /\ out' = Nothing
        /\ delivered' = IF out = Heartbeat THEN delivered ELSE Append(delivered, out)
        /\ UNCHANGED <<queue, worker, item, made, cancelled, revoked, client>>
    BY DEF Sent, workerVars
  <1>2. TypeOK /\ Numbered /\ Told /\ Open /\ Open' /\ Len(delivered) \in Nat
    BY <1>1, NumbersOfOpen DEF IInv, Open
  <1>3. CASE out = Heartbeat
    <2>1. UNCHANGED delivered /\ Passed' = Passed
      BY <1>1, <1>2, <1>3, Distinct DEF Passed
    <2>2. QED
      BY <1>1, <1>2, <2>1, Distinct DEF IInv, TypeOK, Numbered, InOrder, Told, IsLast, Quiet
  <1>4. CASE out # Heartbeat
    <2>1. out \in Events /\ out.kind \in Kinds /\ out.n = Len(delivered) + 1
      BY <1>1, <1>2, <1>4, Distinct DEF Numbered, TypeOK
    <2>2. /\ delivered' \in Seq(Events) /\ Len(delivered') = Len(delivered) + 1
          /\ delivered'[Len(delivered) + 1] = out
          /\ \A i \in 1 .. Len(delivered) : delivered'[i] = delivered[i]
      BY <1>1, <1>2, <1>4, <2>1, Appended DEF TypeOK
    <2>3. Passed' = Passed
      BY <1>1, <1>2, <2>1, <2>2, Distinct DEF Passed
    <2>4. \A i \in 1 .. Len(delivered') : delivered'[i].n = i
      <3>1. \A i \in 1 .. Len(delivered) : delivered[i].n = i
        BY <1>2 DEF Numbered, InOrder, TypeOK
      <3>2. QED
        BY <1>2, <2>1, <2>2, <3>1
    <2>5. TypeOK'
      BY <1>1, <1>2, <2>2 DEF TypeOK
    <2>6. Numbered'
      BY <1>1, <1>2, <2>2, <2>3, <2>4, Distinct DEF Numbered, InOrder
    <2>7. Told'
      <3> SUFFICES ASSUME ~revoked, client # "gone"
                   PROVE  Told'
        BY <1>1 DEF Told
      <3>1. \A n : IsLast(n)' <=> IsLast(n)
        BY <1>1 DEF IsLast
      <3>2. \A i \in 1 .. Len(delivered') : delivered'[i].kind \in Verdicts <=> IsLast(i)
        BY <1>2, <2>1, <2>2 DEF Told
      <3>3. QED
        BY <1>1, <1>2, <2>3, <3>1, <3>2, Distinct DEF Told
    <2>8. QED
      BY <1>2, <2>5, <2>6, <2>7 DEF IInv, Quiet
  <1>5. QED
    BY <1>3, <1>4

\* A heartbeat is sent; it is no event.
LEMMA HeartbeatKeepsInv == IInv /\ SendHeartbeat => IInv'
  <1> SUFFICES ASSUME IInv, SendHeartbeat
               PROVE  IInv'
    OBVIOUS
  <1>1. /\ stream = "getting" /\ stream' = "sending" /\ out' = Heartbeat
        /\ UNCHANGED <<queue, delivered, worker, item, made, cancelled, revoked, client>>
    BY DEF SendHeartbeat, workerVars
  <1>2. Open /\ Open' /\ Passed' = Passed /\ Heartbeat # Nothing
    BY <1>1, Distinct DEF IInv, Numbered, Open, Passed, Heartbeat, Nothing
  <1>3. QED
    BY <1>1, <1>2, Distinct DEF IInv, TypeOK, Numbered, InOrder, Told, IsLast, Quiet

\* The terminator is taken: without a cut the last event is with the client.
LEMMA TakeEndKeepsInv == IInv /\ TakeEnd => IInv'
  <1> SUFFICES ASSUME IInv, TakeEnd
               PROVE  IInv'
    OBVIOUS
  <1>1. /\ stream = "getting" /\ queue # <<>> /\ Head(queue) = End
        /\ queue' = Tail(queue) /\ stream' = "leaving" /\ out' = Nothing
        /\ cancelled' = (cancelled \/ worker # "over")
        /\ UNCHANGED <<worker, item, made, revoked, delivered, client>>
    BY DEF TakeEnd, Leave
  <1>2. TypeOK /\ Numbered /\ Told /\ Open /\ ~Open'
    BY <1>1 DEF IInv, Open
  <1>3. /\ queue' \in Seq(Entries) /\ Len(queue') = Len(queue) - 1
        /\ queue[1] = End /\ Len(queue) \in Nat /\ Len(queue) > 0
    <2>1. queue \in Seq(Entries)
      BY <1>2 DEF TypeOK, Entries
    <2>2. QED
      BY <1>1, <2>1, Taken
  <1>4. worker = "over" /\ Len(queue) = 1
    BY <1>2, <1>3 DEF Numbered
  <1>5. TypeOK'
    <2>1. Len(queue') <= QueueSize
      BY <1>3, <1>4, SizeAssumption
    <2>2. QED
      BY <1>1, <1>2, <1>3, <2>1 DEF TypeOK, Entries
  <1>6. Numbered'
    BY <1>1, <1>2 DEF Numbered, InOrder
  <1>7. Told'
    <2> SUFFICES ASSUME ~revoked, client # "gone"
                 PROVE  Told'
      BY <1>1 DEF Told
    <2>1. Passed = Len(delivered) /\ Len(delivered) \in Nat
      BY <1>1, <1>2, Distinct, NumbersOfOpen DEF Numbered, Passed
    <2>2. made = Len(delivered) /\ made >= 1
      BY <1>2, <1>4, <2>1 DEF Told
    <2>3. \A i \in 1 .. Len(delivered) : delivered[i].kind \in Verdicts <=> i = Len(delivered)
      BY <1>2, <1>4, <2>2 DEF Told, IsLast
    <2>4. delivered # <<>>
      BY <2>1, <2>2
    <2>5. QED
      BY <1>1, <1>2, <2>3, <2>4 DEF Told
  <1>8. QED
    BY <1>1, <1>2, <1>4, <1>5, <1>6, <1>7 DEF IInv, Quiet

\* A client that has gone is promised nothing.
LEMMA DisconnectKeepsInv == IInv /\ Disconnect => IInv'
  <1> SUFFICES ASSUME IInv, Disconnect
               PROVE  IInv'
    OBVIOUS
  <1>1. /\ client' = "gone" /\ stream' = "leaving" /\ out' = Nothing
        /\ cancelled' = (cancelled \/ worker # "over")
        /\ UNCHANGED <<queue, worker, item, made, revoked, delivered>>
    BY DEF Disconnect, Leave
  <1>2. QED
    BY <1>1 DEF IInv, TypeOK, Numbered, InOrder, Told, Quiet, Open

\* The stream closes, and the client stalls or resumes.
LEMMA OthersKeepInv ==
    IInv /\ (StreamCloses \/ Stall \/ Resume \/ UNCHANGED vars) => IInv'
  <1> SUFFICES ASSUME IInv, StreamCloses \/ Stall \/ Resume \/ UNCHANGED vars
               PROVE  IInv'
    OBVIOUS
  <1>1. /\ UNCHANGED <<queue, worker, item, made, cancelled, revoked, out, delivered>>
        /\ stream' = stream \/ (stream = "leaving" /\ stream' = "closed")
        /\ client' = client \/ (client # "gone" /\ client' \in {"reading", "stalled"})
    <2>1. CASE StreamCloses
      BY <2>1 DEF StreamCloses, workerVars
    <2>2. CASE Stall
      BY <2>2 DEF Stall, workerVars, streamVars
    <2>3. CASE Resume
      BY <2>3 DEF Resume, workerVars, streamVars
    <2>4. CASE UNCHANGED vars
      BY <2>4 DEF vars
    <2>5. QED
      BY <2>1, <2>2, <2>3, <2>4
  <1>2. (Open' <=> Open) /\ Passed' = Passed
    BY <1>1 DEF Open, Passed
  <1>3. QED
    BY <1>1, <1>2 DEF IInv, TypeOK, Numbered, InOrder, Told, IsLast, Quiet

-----------------------------------------------------------------------------
(* The theorems.                                                           *)

\* Every step keeps the invariant.
LEMMA NextKeepsInv == IInv /\ [Next]_vars => IInv'
  BY EmitKeepsInv, EmitResumesKeepsInv, RunEndsKeepsInv, DeadlineKeepsInv,
     ConcludeKeepsInv, CloseKeepsInv, CancelledKeepsInv, RevokeKeepsInv,
     TakeEventKeepsInv, SentKeepsInv, HeartbeatKeepsInv, TakeEndKeepsInv,
     DisconnectKeepsInv, OthersKeepInv
  DEF Next, WorkerNext, StreamNext, Finished

\* The types, and with them the bound of the queue: the terminator that a
\* cancelled worker leaves always finds room.
THEOREM TypeCorrect == Spec => []TypeOK
  <1>1. IInv => TypeOK
    BY DEF IInv
  <1>2. QED
    BY <1>1, InitInv, NextKeepsInv, PTL DEF Spec

\* The client sees the events in the order in which the chat made them, from
\* the first and without a gap, whatever heartbeats, full queues, deadlines,
\* revocations and stalls come between.
THEOREM EventsComeInOrder == Spec => []InOrder
  <1>1. IInv => InOrder
    BY DEF IInv, Numbered
  <1>2. QED
    BY <1>1, InitInv, NextKeepsInv, PTL DEF Spec

\* A stream that ends and was cut by nobody ends with the chat's one verdict.
THEOREM VerdictComesLast == Spec => []UncutStreamHasVerdict
  <1>1. IInv => UncutStreamHasVerdict
    BY DEF IInv, Told, UncutStreamHasVerdict, Open, TypeOK
  <1>2. QED
    BY <1>1, InitInv, NextKeepsInv, PTL DEF Spec

-----------------------------------------------------------------------------
(* The contract with the worker, as ChatService sees it.                   *)

\* A worker that is over has left its terminator, in the queue or with the
\* stream; a stream whose client is gone has left.
Kept == /\ worker = "over" => TerminatorLeft
        /\ Open => client # "gone"

\* Nothing has happened at first.
LEMMA KeptInitially == Init => Kept
  BY DEF Init, Kept, Open

\* An entry behind all others is in the queue.
LEMMA EndIsLeft ==
    ASSUME NEW S, NEW s \in Seq(S), End \in S
    PROVE  \E i \in DOMAIN Append(s, End) : Append(s, End)[i] = End
  <1>1. /\ Append(s, End) \in Seq(S) /\ Len(Append(s, End)) = Len(s) + 1
        /\ Append(s, End)[Len(s) + 1] = End /\ Len(s) \in Nat
    BY Appended
  <1>2. Len(s) + 1 \in DOMAIN Append(s, End)
    BY <1>1
  <1>3. QED
    BY <1>1, <1>2

\* Closing the queue leaves the terminator or is not over yet.
LEMMA ClosingLeavesEnd ==
    ASSUME NEW q \in Seq(Entries), CloseQueue(q)
    PROVE  worker' = "closing" \/ (worker' = "over" /\ TerminatorLeft')
  <1>1. End \in Entries
    BY DEF Entries
  <1>2. \E i \in DOMAIN Append(q, End) : Append(q, End)[i] = End
    BY <1>1, EndIsLeft
  <1>3. QED
    BY <1>2 DEF CloseQueue, TerminatorLeft

\* Taking an event that is no terminator leaves a terminator behind it.
LEMMA TakingLeavesEnd ==
    ASSUME queue \in Seq(Entries), queue # <<>>, Head(queue) # End,
           NEW i \in DOMAIN queue, queue[i] = End
    PROVE  \E j \in DOMAIN Tail(queue) : Tail(queue)[j] = End
  <1>1. /\ Tail(queue) \in Seq(Entries) /\ Len(Tail(queue)) = Len(queue) - 1
        /\ Head(queue) = queue[1] /\ Len(queue) \in Nat /\ Len(queue) > 0
        /\ \A j \in 1 .. Len(queue) - 1 : Tail(queue)[j] = queue[j + 1]
    BY Taken
  <1>2. i \in 1 .. Len(queue) /\ i # 1
    BY <1>1
  <1>3. i - 1 \in 1 .. Len(queue) - 1 /\ (i - 1) + 1 = i
    BY <1>1, <1>2
  <1>4. Tail(queue)[i - 1] = End /\ i - 1 \in DOMAIN Tail(queue)
    BY <1>1, <1>3
  <1>5. QED
    BY <1>4

\* Every step leaves the terminator where the stream can read it.
LEMMA StepIsKept == IInv /\ Kept /\ [Next]_vars => Kept'
  <1> SUFFICES ASSUME IInv, Kept, [Next]_vars PROVE Kept'
    OBVIOUS
  <1> USE DEF Open
  <1>1. queue \in Seq(Entries) /\ (cancelled \/ worker = "over" \/ Open)
    BY DEF IInv, TypeOK, Entries, Quiet
  <1>2. CASE Emit
    BY <1>2 DEF Emit, Put, Kept, streamVars
  <1>3. CASE EmitResumes
    BY <1>3 DEF EmitResumes, Kept, streamVars
  <1>4. CASE RunEnds
    <2>1. PICK kind \in Verdicts : Concludes(kind)
      BY <1>4 DEF RunEnds
    <2>2. CASE Full
      BY <2>1, <2>2 DEF Concludes, Kept, streamVars
    <2>3. CASE ~Full
      <3>1. Event(kind, made + 1) \in Entries
        <4>1. made + 1 \in 1 .. MaxProgress + 1
          <5>1. made \in Nat /\ made <= MaxProgress
            BY <1>1, <1>4 DEF IInv, Numbered, RunEnds, TypeOK
          <5>2. QED
            BY <5>1, SizeAssumption
        <4>2. kind \in Kinds
          BY <2>1 DEF Verdicts, Kinds
        <4>3. QED
          BY <4>1, <4>2, Distinct DEF Entries
      <3> DEFINE q == Append(queue, Event(kind, made + 1))
      <3>2. q \in Seq(Entries)
        BY <1>1, <3>1
      <3>3. CloseQueue(q) /\ UNCHANGED <<stream, client>>
        BY <2>1, <2>3 DEF Concludes, streamVars
      <3>4. worker' = "closing" \/ (worker' = "over" /\ TerminatorLeft')
        BY <3>2, <3>3, ClosingLeavesEnd
      <3>5. QED
        BY <3>3, <3>4 DEF Kept
    <2>4. QED
      BY <2>2, <2>3
  <1>5. CASE Deadline
    BY <1>5 DEF Deadline, Kept, streamVars
  <1>6. CASE Conclude
    <2>1. item \in Entries
      BY <1>6, NumbersOfOpen DEF IInv, Conclude, Quiet, Entries
    <2> DEFINE q == Append(queue, item)
    <2>2. q \in Seq(Entries)
      BY <1>1, <2>1
    <2>3. CloseQueue(q) /\ UNCHANGED <<stream, client>>
      BY <1>6 DEF Conclude, streamVars
    <2>4. worker' = "closing" \/ (worker' = "over" /\ TerminatorLeft')
      BY <2>2, <2>3, ClosingLeavesEnd
    <2>5. QED
      BY <2>3, <2>4 DEF Kept
  <1>7. CASE Close
    <2>1. \E i \in DOMAIN Append(queue, End) : Append(queue, End)[i] = End
      BY <1>1, EndIsLeft DEF Entries
    <2>2. QED
      BY <1>7, <2>1 DEF Close, Kept, TerminatorLeft, streamVars
  <1>8. CASE Cancelled
    <2>1. \E i \in DOMAIN <<End>> : <<End>>[i] = End
      OBVIOUS
    <2>2. QED
      BY <1>8, <2>1 DEF Cancelled, Kept, TerminatorLeft, streamVars
  <1>9. CASE TakeEvent
    <2>1. CASE worker = "over"
      <3>1. PICK i \in DOMAIN queue : queue[i] = End
        BY <1>9, <2>1 DEF Kept, TerminatorLeft, TakeEvent
      <3>2. \E j \in DOMAIN Tail(queue) : Tail(queue)[j] = End
        BY <1>1, <1>9, <3>1, TakingLeavesEnd DEF TakeEvent
      <3>3. QED
        BY <1>9, <3>2 DEF TakeEvent, Kept, TerminatorLeft, workerVars
    <2>2. QED
      BY <1>9, <2>1 DEF TakeEvent, Kept, workerVars
  <1>10. CASE TakeEnd
    BY <1>10 DEF TakeEnd, Leave, Kept, TerminatorLeft
  <1>11. CASE Disconnect
    BY <1>11 DEF Disconnect, Leave, Kept, TerminatorLeft
  <1>12. CASE StreamCloses
    BY <1>12 DEF StreamCloses, Kept, TerminatorLeft, workerVars
  <1>13. CASE SendHeartbeat \/ Sent
    BY <1>13 DEF SendHeartbeat, Sent, Kept, TerminatorLeft, workerVars
  <1>14. CASE Revoke
    BY <1>14 DEF Revoke, Kept, TerminatorLeft, streamVars
  <1>15. CASE Stall \/ Resume
    BY <1>15 DEF Stall, Resume, Kept, TerminatorLeft, workerVars, streamVars
  <1>16. CASE Finished \/ UNCHANGED vars
    BY <1>16 DEF Finished, vars, Kept, TerminatorLeft
  <1>17. QED
    BY <1>2, <1>3, <1>4, <1>5, <1>6, <1>7, <1>8, <1>9, <1>10, <1>11, <1>12,
       <1>13, <1>14, <1>15, <1>16 DEF Next, WorkerNext, StreamNext

\* Worker and stream as the contract sees them.
Doomed == IF cancelled /\ worker # "over" THEN {Chat} ELSE {}
Reader == IF stream \in {"getting", "sending"} THEN "open" ELSE stream
View == <<Phase, Doomed, Reader>>

\* The steps of a contract with one chat.
OneStep ==
    \/ UNCHANGED View
    \/ Phase = "working" /\ Doomed = {} /\ Phase' = "ending" /\ UNCHANGED <<Doomed, Reader>>
    \/ Phase \in {"working", "ending"} /\ Phase' = "told" /\ Doomed' = {} /\ UNCHANGED Reader
    \/ Phase \in {"working", "ending"} /\ Doomed' = {Chat} /\ UNCHANGED <<Phase, Reader>>
    \/ Phase = "told" /\ Reader = "open" /\ Reader' = "leaving" /\ UNCHANGED <<Phase, Doomed>>
    \/ /\ Phase \in {"working", "ending"} /\ Reader = "open"
       /\ Reader' = "leaving" /\ Doomed' = {Chat} /\ UNCHANGED Phase
    \/ Phase = "told" /\ Reader = "leaving" /\ Reader' = "closed" /\ UNCHANGED <<Phase, Doomed>>

\* The contract allows each of them.
LEMMA OneStepIsKept == OneStep => [Contract!Next]_(Contract!vars)
  <1> SUFFICES ASSUME OneStep PROVE [Contract!Next]_(Contract!vars)
    OBVIOUS
  <1> DEFINE phase == [c \in {Chat} |-> Phase]
             reader == [c \in {Chat} |-> Reader]
  <1>1. Doomed \subseteq {Chat}
    BY DEF Doomed
  <1>2. /\ phase[Chat] = Phase /\ reader[Chat] = Reader
        /\ phase' = [phase EXCEPT ![Chat] = Phase'] /\ reader' = [reader EXCEPT ![Chat] = Reader']
    BY DEF Chat
  <1>3. /\ UNCHANGED Phase => UNCHANGED phase
        /\ UNCHANGED Reader => UNCHANGED reader
    OBVIOUS
  <1>4. CASE UNCHANGED View
    BY <1>3, <1>4 DEF View, Contract!vars, Doomed, Reader
  <1>5. CASE Phase = "working" /\ Doomed = {} /\ Phase' = "ending" /\ UNCHANGED <<Doomed, Reader>>
    <2>1. Contract!Concludes(Chat)
      BY <1>2, <1>3, <1>5 DEF Contract!Concludes, Contract!Turns, Doomed, Reader
    <2>2. QED
      BY <2>1 DEF Contract!Next, Contract!Step
  <1>6. CASE /\ Phase \in {"working", "ending"} /\ Phase' = "told" /\ Doomed' = {}
             /\ UNCHANGED Reader
    <2>1. Doomed' = Doomed \ {Chat}
      BY <1>1, <1>6
    <2>2. Contract!Tells(Chat)
      BY <1>2, <1>3, <1>6, <2>1 DEF Contract!Tells, Contract!Turns, Doomed, Reader
    <2>3. QED
      BY <2>2 DEF Contract!Next, Contract!Step
  <1>7. CASE /\ Phase \in {"working", "ending"} /\ Doomed' = {Chat}
             /\ UNCHANGED <<Phase, Reader>>
    <2>1. Doomed' \subseteq {Chat} /\ Doomed \subseteq Doomed'
      BY <1>1, <1>7
    <2>2. \A c \in Doomed' : phase[c] \in {"fresh", "working", "ending"}
      BY <1>2, <1>7
    <2>3. Contract!Dooms
      BY <1>3, <1>7, <2>1, <2>2 DEF Contract!Dooms, Contract!Alive, Doomed, Reader
    <2>4. QED
      BY <2>3 DEF Contract!Next
  <1>8. CASE /\ Phase = "told" /\ Reader = "open" /\ Reader' = "leaving"
             /\ UNCHANGED <<Phase, Doomed>>
    <2>1. Contract!ReadsEnd(Chat)
      BY <1>2, <1>3, <1>8 DEF Contract!ReadsEnd, Contract!Reads, Doomed, Reader
    <2>2. QED
      BY <2>1 DEF Contract!Next, Contract!Step
  <1>9. CASE /\ Phase \in {"working", "ending"} /\ Reader = "open"
             /\ Reader' = "leaving" /\ Doomed' = {Chat} /\ UNCHANGED Phase
    <2>1. Doomed' = Doomed \cup {Chat}
      BY <1>1, <1>9
    <2>2. Contract!Cuts(Chat)
      BY <1>2, <1>3, <1>9, <2>1
      DEF Contract!Cuts, Contract!Reads, Contract!Alive, Doomed, Reader
    <2>3. QED
      BY <2>2 DEF Contract!Next, Contract!Step
  <1>10. CASE /\ Phase = "told" /\ Reader = "leaving" /\ Reader' = "closed"
              /\ UNCHANGED <<Phase, Doomed>>
    <2>1. Contract!Closes(Chat)
      BY <1>2, <1>3, <1>10 DEF Contract!Closes, Contract!Reads, Contract!Gone, Doomed, Reader
    <2>2. QED
      BY <2>1 DEF Contract!Next, Contract!Step
  <1>11. QED
    BY <1>4, <1>5, <1>6, <1>7, <1>8, <1>9, <1>10 DEF OneStep

\* A worker that is over has told its end; before, its place says how far it is.
LEMMA PhaseIs ==
    ASSUME TypeOK, Kept
    PROVE  /\ worker \in {"running", "putting"} <=> Phase = "working"
           /\ worker \in {"concluding", "closing"} <=> Phase = "ending"
           /\ worker = "over" <=> Phase = "told"
  BY DEF TypeOK, Kept, Phase

\* Each step is one of the contract or none that it sees.
LEMMA StepKeepsContract ==
    ASSUME IInv, Kept, IInv', Kept', [Next]_vars
    PROVE  OneStep
  <1>1. /\ worker \in {"running", "putting"} <=> Phase = "working"
        /\ worker \in {"concluding", "closing"} <=> Phase = "ending"
        /\ worker = "over" <=> Phase = "told"
    BY PhaseIs DEF IInv
  <1>2. /\ worker' \in {"running", "putting"} <=> Phase' = "working"
        /\ worker' \in {"concluding", "closing"} <=> Phase' = "ending"
        /\ worker' = "over" <=> Phase' = "told"
    <2>1. /\ TypeOK' /\ Kept'
          /\ worker' \in {"running", "putting", "concluding", "closing", "over"}
      BY DEF IInv, TypeOK
    <2>2. QED
      BY <2>1 DEF Kept, Phase
  <1>3. /\ worker \in {"running", "putting", "concluding", "closing", "over"}
        /\ Open => client # "gone"
        /\ Open \/ worker = "over" \/ cancelled
    BY DEF IInv, TypeOK, Kept, Quiet
  <1> USE DEF OneStep, View, Doomed, Reader, Open
  <1>4. CASE Emit
    BY <1>1, <1>2, <1>4 DEF Emit, Put, streamVars
  <1>5. CASE EmitResumes
    BY <1>1, <1>2, <1>5 DEF EmitResumes, streamVars
  <1>6. CASE RunEnds
    <2>1. PICK kind \in Verdicts : Concludes(kind)
      BY <1>6 DEF RunEnds
    <2>2. worker' \in {"concluding", "closing", "over"}
      BY <2>1 DEF Concludes, CloseQueue
    <2>3. UNCHANGED <<cancelled, stream>>
      BY <2>1 DEF Concludes, streamVars
    <2>4. worker = "running" /\ ~cancelled
      BY <1>6 DEF RunEnds
    <2>5. QED
      BY <1>1, <1>2, <2>2, <2>3, <2>4
  <1>7. CASE Deadline
    BY <1>1, <1>2, <1>7 DEF Deadline, streamVars
  <1>8. CASE Conclude
    <2>1. worker' \in {"closing", "over"}
      BY <1>8 DEF Conclude, CloseQueue
    <2>2. QED
      BY <1>1, <1>2, <1>8, <2>1 DEF Conclude, streamVars
  <1>9. CASE Close
    BY <1>1, <1>2, <1>9 DEF Close, streamVars
  <1>10. CASE Cancelled
    BY <1>1, <1>2, <1>3, <1>10 DEF Cancelled, streamVars
  <1>11. CASE Revoke
    <2>1. Phase' = Phase
      BY <1>1, <1>2, <1>3, <1>11 DEF Revoke
    <2>2. QED
      BY <1>1, <1>3, <1>11, <2>1 DEF Revoke, streamVars
  <1>12. CASE SendHeartbeat \/ TakeEvent \/ Sent \/ Stall \/ Resume
    <2>1. /\ UNCHANGED <<worker, cancelled>> /\ Reader' = Reader
      BY <1>12 DEF SendHeartbeat, TakeEvent, Sent, Stall, Resume, workerVars, streamVars
    <2>2. Phase' = Phase
      BY <1>1, <1>2, <1>3, <2>1
    <2>3. QED
      BY <2>1, <2>2
  <1>13. CASE TakeEnd
    <2>1. worker = "over"
      <3>1. queue \in Seq(Entries) /\ queue # <<>> /\ Head(queue) = End
        BY <1>13 DEF IInv, TypeOK, Entries, TakeEnd
      <3>2. 1 \in 1 .. Len(queue) /\ queue[1] = End
        BY <3>1, Taken
      <3>3. QED
        BY <1>13, <3>2 DEF IInv, Numbered, TakeEnd
    <2>2. UNCHANGED worker /\ stream = "getting" /\ stream' = "leaving"
      BY <1>13 DEF TakeEnd, Leave
    <2>3. QED
      BY <1>1, <1>2, <2>1, <2>2
  <1>14. CASE Disconnect
    <2>1. /\ UNCHANGED worker /\ Reader = "open" /\ Reader' = "leaving"
          /\ cancelled' = (cancelled \/ worker # "over")
      BY <1>14 DEF Disconnect, Leave
    <2>2. Phase' = Phase
      BY <1>1, <1>2, <1>3, <2>1
    <2>3. QED
      BY <1>1, <1>3, <2>1, <2>2
  <1>15. CASE StreamCloses
    BY <1>1, <1>2, <1>15 DEF StreamCloses, workerVars
  <1>16. CASE Finished \/ UNCHANGED vars
    <2>1. UNCHANGED <<worker, cancelled, stream>>
      BY <1>16 DEF Finished, vars
    <2>2. Phase' = Phase
      BY <1>1, <1>2, <1>3, <2>1
    <2>3. QED
      BY <2>1, <2>2
  <1>17. QED
    BY <1>4, <1>5, <1>6, <1>7, <1>8, <1>9, <1>10, <1>11, <1>12, <1>13, <1>14, <1>15,
       <1>16 DEF Next, WorkerNext, StreamNext

\* A stream that has just got its first chance to read is one under way.
LEMMA ContractInitially == Init => Contract!Init
  <1> SUFFICES ASSUME Init PROVE Contract!Init
    OBVIOUS
  <1>1. Phase = "working" /\ Reader = "open" /\ Doomed = {}
    BY DEF Init, Phase, Reader, Doomed
  <1>2. /\ [c \in {Chat} |-> Phase] = [c \in {Chat} |-> IF c \in {Chat} THEN "working" ELSE "none"]
        /\ [c \in {Chat} |-> Reader] = [c \in {Chat} |-> IF c \in {Chat} THEN "open" ELSE "none"]
    BY <1>1
  <1>3. QED
    BY <1>1, <1>2 DEF Contract!Init, Reader, Doomed

\* The queue, its limits, heartbeats and deadlines implement the contract:
\* ChatService may take the stream for a terminator that is left or not.
THEOREM QueueKeepsContract == Spec => KeepsStreamContract
  <1>1. Init => IInv /\ Kept /\ Contract!Init
    BY InitInv, KeptInitially, ContractInitially
  <1>2. IInv /\ Kept /\ [Next]_vars => IInv' /\ Kept' /\ [Contract!Next]_(Contract!vars)
    BY NextKeepsInv, StepIsKept, StepKeepsContract, OneStepIsKept
  <1>3. QED
    BY <1>1, <1>2, PTL DEF Spec, KeepsStreamContract, Contract!Spec

=============================================================================
