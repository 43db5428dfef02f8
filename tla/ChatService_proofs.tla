------------------------- MODULE ChatService_proofs -------------------------
(***************************************************************************)
(* Proofs about ChatService for every set of requests, users and           *)
(* credentials and every limit: no slot and no permit is lost or returned  *)
(* twice, and revoked work stops.                                          *)
(***************************************************************************)
EXTENDS ChatService, FiniteSetTheorems, TLAPS

-----------------------------------------------------------------------------
(* Finite sets of requests.                                                *)

\* Sets of requests are finite, and so have a size.
LEMMA RequestSets ==
    ASSUME NEW S \in SUBSET Req
    PROVE  IsFiniteSet(S) /\ Cardinality(S) \in Nat
  BY ReqAssumption, FS_Subset, FS_CardinalityType

\* Adding a new request to a set makes its size one larger.
LEMMA OneMore ==
    ASSUME NEW S \in SUBSET Req, NEW r \in Req, r \notin S
    PROVE  Cardinality(S \cup {r}) = Cardinality(S) + 1
  BY RequestSets, FS_AddElement

\* Removing a request from a set makes its size one smaller.
LEMMA OneLess ==
    ASSUME NEW S \in SUBSET Req, NEW r \in S
    PROVE  Cardinality(S \ {r}) = Cardinality(S) - 1
  BY RequestSets, FS_RemoveElement

-----------------------------------------------------------------------------
(* What moving a request's task does to the derived sets.                  *)

\* The sets defined from pc change by the request that moves, and by no other.
LEMMA Moves ==
    ASSUME pc \in [Req -> Places], NEW r \in Req, NEW place \in Places,
           Go(r, place)
    PROVE  /\ pc' \in [Req -> Places]
           /\ pc'[r] = place
           /\ \A q \in Req \ {r} : pc'[q] = pc[q]
           /\ SlotHolders' = IF place \in Executing THEN SlotHolders \cup {r}
                                                    ELSE SlotHolders \ {r}
           /\ Inside' = IF place \in Admitted THEN Inside \cup {r}
                                              ELSE Inside \ {r}
           /\ Waiting' = IF place = "queued" THEN Waiting \cup {r}
                                             ELSE Waiting \ {r}
  <1>1. pc' = [pc EXCEPT ![r] = place]
    BY DEF Go
  <1>2. /\ pc' \in [Req -> Places] /\ pc'[r] = place
        /\ \A q \in Req \ {r} : pc'[q] = pc[q]
    BY <1>1
  <1>3. SlotHolders' = IF place \in Executing THEN SlotHolders \cup {r}
                                              ELSE SlotHolders \ {r}
    BY <1>2 DEF SlotHolders
  <1>4. Inside' = IF place \in Admitted THEN Inside \cup {r} ELSE Inside \ {r}
    BY <1>2 DEF Inside
  <1>5. Waiting' = IF place = "queued" THEN Waiting \cup {r} ELSE Waiting \ {r}
    BY <1>2 DEF Waiting
  <1>6. QED
    BY <1>2, <1>3, <1>4, <1>5

-----------------------------------------------------------------------------
(* The two semaphores, one lemma per way of using them.                    *)

SlotInv ==
    /\ slots \in Nat
    /\ granted \subseteq Waiting
    /\ SlotsConserved

AdmissionInv == admission \in Nat /\ AdmissionConserved

\* A step that leaves the semaphore, its holders and its line alone.
LEMMA SlotsKept ==
    ASSUME SlotInv, UNCHANGED <<slots, granted>>,
           SlotHolders' = SlotHolders, granted \subseteq Waiting'
    PROVE  SlotInv'
  BY DEF SlotInv, SlotsConserved

\* release() by a holder, or by a cancelled waiter that was already granted.
LEMMA SlotReturned ==
    ASSUME SlotInv, NEW r \in Req, ReturnSlot(r), r \in SlotHolders \cup granted,
           SlotHolders' = SlotHolders \ {r}, Waiting' = Waiting \ {r}
    PROVE  SlotInv'
  <1> DEFINE g == granted \ {r}
  <1>1. /\ granted \in SUBSET Req /\ SlotHolders \in SUBSET Req
        /\ SlotHolders \cap Waiting = {} /\ Waiting \in SUBSET Req
    BY DEF SlotInv, SlotHolders, Waiting, Executing
  <1>2. Cardinality(g) \in Nat /\ Cardinality(SlotHolders') \in Nat
        /\ Cardinality(granted) \in Nat /\ Cardinality(SlotHolders) \in Nat
    BY <1>1, RequestSets
  <1>3. slots + Cardinality(g) + Cardinality(SlotHolders') = CHAT_CONCURRENCY - 1
    <2>1. CASE r \in SlotHolders
      <3>1. g = granted
        BY <1>1, <2>1 DEF SlotInv
      <3>2. Cardinality(SlotHolders \ {r}) = Cardinality(SlotHolders) - 1
        BY <1>1, <2>1, OneLess
      <3>3. Cardinality(SlotHolders') = Cardinality(SlotHolders) - 1
        BY <3>2
      <3>4. Cardinality(g) = Cardinality(granted)
        BY <3>1
      <3>5. QED
        BY <1>2, <3>3, <3>4, LimitAssumption DEF SlotInv, SlotsConserved
    <2>2. CASE r \in granted
      <3>1. SlotHolders' = SlotHolders
        BY <1>1, <2>2 DEF SlotInv
      <3>2. Cardinality(g) = Cardinality(granted) - 1
        BY <1>1, <2>2, OneLess
      <3>3. Cardinality(SlotHolders') = Cardinality(SlotHolders)
        BY <3>1
      <3>4. QED
        BY <1>2, <3>2, <3>3, LimitAssumption DEF SlotInv, SlotsConserved
    <2>3. QED
      BY <2>1, <2>2
  <1>4. CASE Wakeable(r) = {} /\ slots' = slots + 1 /\ granted' = g
    BY <1>2, <1>3, <1>4, LimitAssumption DEF SlotInv, SlotsConserved
  <1>5. ASSUME NEW w \in FirstOf(Wakeable(r)), granted' = g \cup {w}, slots' = slots
        PROVE  SlotInv'
    <2>1. w \in Waiting /\ w \notin granted /\ w # r
      BY <1>5 DEF FirstOf, Wakeable
    <2>2. Cardinality(granted') = Cardinality(g) + 1
      BY <1>1, <1>5, <2>1, OneMore
    <2>3. granted' \subseteq Waiting'
      BY <1>5, <2>1 DEF SlotInv
    <2>4. QED
      BY <1>2, <1>3, <1>5, <2>2, <2>3, LimitAssumption DEF SlotInv, SlotsConserved
  <1>6. QED
    BY <1>4, <1>5 DEF ReturnSlot

\* acquire() by a task that neither holds a slot nor waits for one.
LEMMA SlotAcquired ==
    ASSUME SlotInv, pc \in [Req -> Places], NEW r \in Req, AcquireSlot(r),
           pc[r] \in {"spawned", "catalog"}
    PROVE  /\ SlotInv'
           /\ pc' \in [Req -> Places]
           /\ Inside' = Inside
  <1>1. "queued" \in Places /\ "checking" \in Places /\ r \in Inside
        /\ r \notin SlotHolders /\ r \notin Waiting
    BY DEF Places, Admitted, Executing, Inside, SlotHolders, Waiting
  <1>2. CASE SlotsLocked
    <2>1. Go(r, "queued") /\ UNCHANGED <<slots, granted>>
      BY <1>2 DEF AcquireSlot
    <2>2. SlotHolders' = SlotHolders /\ Inside' = Inside /\ Waiting \subseteq Waiting'
          /\ pc' \in [Req -> Places]
      <3>1. "queued" \notin Executing /\ "queued" \in Admitted
        BY DEF Executing, Admitted
      <3>2. /\ pc' \in [Req -> Places] /\ SlotHolders' = SlotHolders \ {r}
            /\ Inside' = Inside \cup {r} /\ Waiting' = Waiting \cup {r}
        BY <1>1, <2>1, <3>1, Moves
      <3>3. QED
        BY <1>1, <3>2
    <2>3. granted \subseteq Waiting'
      BY <2>2 DEF SlotInv
    <2>4. QED
      BY <2>1, <2>2, <2>3, SlotsKept
  <1>3. CASE ~SlotsLocked
    <2>1. Go(r, "checking") /\ slots' = slots - 1 /\ UNCHANGED granted /\ slots # 0
      BY <1>3 DEF AcquireSlot, SlotsLocked
    <2>2. SlotHolders' = SlotHolders \cup {r} /\ Inside' = Inside /\ Waiting' = Waiting
          /\ pc' \in [Req -> Places]
      BY <1>1, <2>1, Moves DEF Executing, Admitted
    <2>3. SlotHolders \in SUBSET Req /\ granted \in SUBSET Req
      BY DEF SlotHolders, SlotInv, Waiting
    <2>4. Cardinality(SlotHolders') = Cardinality(SlotHolders) + 1
      BY <1>1, <2>2, <2>3, OneMore
    <2>5. Cardinality(SlotHolders) \in Nat /\ Cardinality(granted) \in Nat
      BY <2>3, RequestSets
    <2>6. QED
      BY <2>1, <2>2, <2>4, <2>5 DEF SlotInv, SlotsConserved
  <1>4. QED
    BY <1>2, <1>3

\* A step that leaves the admission permits and their holders alone.
LEMMA AdmissionKept ==
    ASSUME AdmissionInv, UNCHANGED admission, Inside' = Inside
    PROVE  AdmissionInv'
  BY DEF AdmissionInv, AdmissionConserved

\* chat_admission.release() by a request that holds a permit.
LEMMA AdmissionReturned ==
    ASSUME AdmissionInv, NEW r \in Inside, admission' = admission + 1,
           Inside' = Inside \ {r}
    PROVE  AdmissionInv'
  <1>1. Inside \in SUBSET Req
    BY DEF Inside
  <1>2. Cardinality(Inside') = Cardinality(Inside) - 1 /\ Cardinality(Inside) \in Nat
    BY <1>1, OneLess, RequestSets
  <1>3. QED
    BY <1>2, LimitAssumption DEF AdmissionInv, AdmissionConserved, Capacity

-----------------------------------------------------------------------------
(* The ways in which a step of one request can affect both semaphores.     *)

Counts == pc \in [Req -> Places] /\ SlotInv /\ AdmissionInv

\* Nothing moves.
LEMMA CountsKept ==
    ASSUME Counts, UNCHANGED <<pc, admission, slots, granted>>
    PROVE  Counts'
  BY DEF Counts, SlotInv, SlotsConserved, AdmissionInv, AdmissionConserved,
         Waiting, SlotHolders, Inside

\* The task moves on and holds what it held.
LEMMA CountsMoveOn ==
    ASSUME Counts, NEW r \in Req, NEW place \in Places, Go(r, place),
           UNCHANGED <<admission, slots, granted>>,
           pc[r] \in Executing <=> place \in Executing,
           pc[r] \in Admitted <=> place \in Admitted,
           pc[r] # "queued", place # "queued"
    PROVE  Counts'
  <1>1. SlotHolders' = SlotHolders /\ Inside' = Inside /\ Waiting' = Waiting
        /\ pc' \in [Req -> Places]
    BY Moves DEF Counts, SlotHolders, Inside, Waiting
  <1>2. SlotInv'
    BY <1>1, SlotsKept DEF Counts, SlotInv
  <1>3. AdmissionInv'
    BY <1>1, AdmissionKept DEF Counts
  <1>4. QED
    BY <1>1, <1>2, <1>3 DEF Counts

\* The task gives back its permit; it had no slot and was promised none.
LEMMA CountsLeave ==
    ASSUME Counts, NEW r \in Req, NEW place \in Places \ Admitted, Go(r, place),
           admission' = admission + 1, UNCHANGED <<slots, granted>>,
           pc[r] \in Admitted \ Executing, r \notin granted
    PROVE  Counts'
  <1>1. place \notin Executing /\ place # "queued"
    BY DEF Admitted
  <1>2. SlotHolders' = SlotHolders /\ Inside' = Inside \ {r}
        /\ Waiting' = Waiting \ {r} /\ pc' \in [Req -> Places] /\ r \in Inside
    BY <1>1, Moves DEF Counts, SlotHolders, Inside
  <1>3. SlotInv'
    BY <1>2, SlotsKept DEF Counts, SlotInv
  <1>4. AdmissionInv'
    BY <1>2, AdmissionReturned DEF Counts
  <1>5. QED
    BY <1>2, <1>3, <1>4 DEF Counts

\* The task gives back its slot, or the grant of one, and its permit.
LEMMA CountsReleaseBoth ==
    ASSUME Counts, NEW r \in Req, NEW place \in Places \ Admitted, Go(r, place),
           ReturnSlot(r), admission' = admission + 1,
           pc[r] \in Executing \/ r \in granted
    PROVE  Counts'
  <1>1. place \notin Executing /\ place # "queued"
    BY DEF Admitted
  <1>2. r \in Inside /\ r \in SlotHolders \cup granted
    BY DEF Counts, SlotInv, Inside, SlotHolders, Waiting, Admitted
  <1>3. SlotHolders' = SlotHolders \ {r} /\ Inside' = Inside \ {r}
        /\ Waiting' = Waiting \ {r} /\ pc' \in [Req -> Places]
    BY <1>1, Moves DEF Counts
  <1>4. SlotInv'
    BY <1>2, <1>3, SlotReturned DEF Counts
  <1>5. AdmissionInv'
    BY <1>2, <1>3, AdmissionReturned DEF Counts
  <1>6. QED
    BY <1>3, <1>4, <1>5 DEF Counts

\* The task gives back its slot and keeps its permit.
LEMMA CountsReleaseSlot ==
    ASSUME Counts, NEW r \in Req, NEW place \in Admitted \ Executing,
           place # "queued", Go(r, place), ReturnSlot(r), UNCHANGED admission,
           pc[r] \in Executing
    PROVE  Counts'
  <1>1. r \in Inside /\ r \in SlotHolders /\ place \in Places
    BY DEF Inside, SlotHolders, Admitted, Places
  <1>2. SlotHolders' = SlotHolders \ {r} /\ Inside' = Inside
        /\ Waiting' = Waiting \ {r} /\ pc' \in [Req -> Places]
    BY <1>1, Moves DEF Counts
  <1>3. SlotInv'
    BY <1>1, <1>2, SlotReturned DEF Counts
  <1>4. AdmissionInv'
    BY <1>2, AdmissionKept DEF Counts
  <1>5. QED
    BY <1>2, <1>3, <1>4 DEF Counts

\* The task asks for a slot.
LEMMA CountsAcquire ==
    ASSUME Counts, NEW r \in Req, AcquireSlot(r), UNCHANGED admission,
           pc[r] \in {"spawned", "catalog"}
    PROVE  Counts'
  <1>1. SlotInv' /\ pc' \in [Req -> Places] /\ Inside' = Inside
    BY SlotAcquired DEF Counts
  <1>2. QED
    BY <1>1, AdmissionKept DEF Counts

\* Leaving the line wakes others as far as permits go, and loses none.
LEMMA LineServed ==
    ASSUME SlotInv, NEW r \in Req, NEW free \in Nat, WakeOn(r, free),
           Waiting' = Waiting \ {r}, SlotHolders' \in SUBSET Req,
           free + Cardinality(granted \ {r}) + Cardinality(SlotHolders') = CHAT_CONCURRENCY
    PROVE  SlotInv'
  <1>1. PICK woken \in SUBSET Wakeable(r) :
           /\ Cardinality(woken) <= free
           /\ slots' = free - Cardinality(woken)
           /\ granted' = (granted \ {r}) \cup woken
    BY DEF WakeOn
  <1> DEFINE kept == granted \ {r}
  <1>2. /\ kept \in SUBSET Req /\ woken \in SUBSET Req /\ kept \cap woken = {}
        /\ granted' \subseteq Waiting'
    BY <1>1 DEF SlotInv, Waiting, Wakeable
  <1>3. /\ IsFiniteSet(kept) /\ IsFiniteSet(woken)
        /\ Cardinality(kept) \in Nat /\ Cardinality(woken) \in Nat
        /\ Cardinality(SlotHolders') \in Nat
    BY <1>2, RequestSets
  <1>4. Cardinality(kept \cup woken) = Cardinality(kept) + Cardinality(woken)
    <2>1. Cardinality(kept \cup woken)
            = Cardinality(kept) + Cardinality(woken) - Cardinality(kept \cap woken)
      BY <1>3, FS_Union
    <2>2. Cardinality(kept \cap woken) = 0
      BY <1>2, FS_EmptySet
    <2>3. QED
      BY <1>3, <2>1, <2>2
  <1>5. Cardinality(granted') = Cardinality(kept) + Cardinality(woken)
    BY <1>1, <1>4
  <1>6. free + Cardinality(kept) + Cardinality(SlotHolders') = CHAT_CONCURRENCY
    OBVIOUS
  <1> HIDE DEF kept
  <1>7. slots' + Cardinality(granted') + Cardinality(SlotHolders') = CHAT_CONCURRENCY
    BY <1>1, <1>3, <1>5, <1>6
  <1>8. slots' \in Nat
    BY <1>1, <1>3
  <1>9. QED
    BY <1>2, <1>7, <1>8 DEF SlotInv, SlotsConserved

\* The waiter takes the slot that was promised to it.
LEMMA CountsResume ==
    ASSUME Counts, NEW r \in Req, SlotGranted(r)
    PROVE  Counts'
  <1>1. /\ pc[r] = "queued" /\ r \in granted /\ WakeOn(r, slots)
        /\ Go(r, "checking") /\ UNCHANGED admission
    BY DEF SlotGranted, At
  <1>2. /\ "checking" \in Places /\ "checking" \in Executing
        /\ "checking" \in Admitted /\ "queued" \notin Executing
        /\ "queued" \in Admitted
    BY DEF Places, Admitted, Executing
  <1>3. SlotHolders' = SlotHolders \cup {r} /\ Inside' = Inside
        /\ Waiting' = Waiting \ {r} /\ pc' \in [Req -> Places]
        /\ r \notin SlotHolders
    BY <1>1, <1>2, Moves DEF Counts, Inside, SlotHolders
  <1>4. SlotHolders \in SUBSET Req /\ granted \in SUBSET Req /\ SlotHolders' \in SUBSET Req
    BY <1>3 DEF SlotHolders, Counts, SlotInv, Waiting
  <1>5. Cardinality(granted \ {r}) = Cardinality(granted) - 1
    BY <1>1, <1>4, OneLess
  <1>6. Cardinality(SlotHolders') = Cardinality(SlotHolders) + 1
    BY <1>3, <1>4, OneMore
  <1>7. Cardinality(SlotHolders) \in Nat /\ Cardinality(granted) \in Nat /\ slots \in Nat
    BY <1>4, RequestSets DEF Counts, SlotInv
  <1>8. slots + Cardinality(granted \ {r}) + Cardinality(SlotHolders') = CHAT_CONCURRENCY
    BY <1>5, <1>6, <1>7 DEF Counts, SlotInv, SlotsConserved
  <1>9. SlotInv'
    BY <1>1, <1>3, <1>4, <1>7, <1>8, LineServed DEF Counts
  <1>10. AdmissionInv'
    BY <1>1, <1>3, AdmissionKept DEF Counts
  <1>11. QED
    BY <1>3, <1>9, <1>10 DEF Counts

\* A waiter leaves the line without a slot and gives back its permit.
LEMMA CountsLeaveLine ==
    ASSUME Counts, NEW r \in Req, NEW place \in Places \ Admitted, Go(r, place),
           LeaveLine(r), admission' = admission + 1, pc[r] = "queued"
    PROVE  Counts'
  <1> DEFINE free == slots + (IF r \in granted THEN 1 ELSE 0)
  <1>1. place \notin Executing /\ place # "queued" /\ "queued" \notin Executing
        /\ "queued" \in Admitted
    BY DEF Admitted, Executing
  <1>2. SlotHolders' = SlotHolders /\ Inside' = Inside \ {r} /\ r \in Inside
        /\ Waiting' = Waiting \ {r} /\ pc' \in [Req -> Places]
    BY <1>1, Moves DEF Counts, SlotHolders, Inside
  <1>3. SlotHolders \in SUBSET Req /\ granted \in SUBSET Req
    BY DEF SlotHolders, Counts, SlotInv, Waiting
  <1>4. /\ Cardinality(SlotHolders) \in Nat /\ Cardinality(granted) \in Nat
        /\ slots \in Nat /\ free \in Nat
    BY <1>3, RequestSets DEF Counts, SlotInv
  <1>5. free + Cardinality(granted \ {r}) + Cardinality(SlotHolders) = CHAT_CONCURRENCY
    <2>1. slots + Cardinality(granted) + Cardinality(SlotHolders) = CHAT_CONCURRENCY
      BY DEF Counts, SlotInv, SlotsConserved
    <2>2. CASE r \in granted
      <3>1. Cardinality(granted \ {r}) = Cardinality(granted) - 1
        BY <1>3, <2>2, OneLess
      <3>2. free = slots + 1
        BY <2>2
      <3> HIDE DEF free
      <3>3. QED
        BY <1>4, <2>1, <3>1, <3>2
    <2>3. CASE r \notin granted
      <3>1. granted \ {r} = granted
        BY <2>3
      <3>2. free = slots
        BY <1>4, <2>3
      <3> HIDE DEF free
      <3>3. QED
        BY <1>4, <2>1, <3>1, <3>2
    <2>4. QED
      BY <2>2, <2>3
  <1>6. WakeOn(r, free)
    BY DEF LeaveLine
  <1> HIDE DEF free
  <1>7. SlotInv'
    BY <1>2, <1>3, <1>4, <1>5, <1>6, LineServed DEF Counts
  <1>8. AdmissionInv'
    BY <1>2, AdmissionReturned DEF Counts
  <1>9. QED
    BY <1>2, <1>7, <1>8 DEF Counts

\* A request is admitted.
LEMMA CountsAdmit ==
    ASSUME Counts, NEW r \in Req, Admit(r, "catalog"), pc[r] = "authorized",
           UNCHANGED <<slots, granted>>
    PROVE  Counts'
  <1>1. /\ "catalog" \in Places /\ "catalog" \notin Executing
        /\ "catalog" \in Admitted /\ "authorized" \notin Executing
        /\ "authorized" \notin Admitted
    BY DEF Places, Admitted, Executing
  <1>2. Go(r, "catalog") /\ admission > 0 /\ admission' = admission - 1
    BY DEF Admit
  <1>3. SlotHolders' = SlotHolders /\ Inside' = Inside \cup {r}
        /\ Waiting' = Waiting /\ pc' \in [Req -> Places] /\ r \notin Inside
    BY <1>1, <1>2, Moves DEF Counts, Inside, SlotHolders, Waiting
  <1>4. Inside \in SUBSET Req
    BY DEF Inside
  <1>5. Cardinality(Inside') = Cardinality(Inside) + 1
        /\ Cardinality(Inside) \in Nat
    BY <1>3, <1>4, OneMore, RequestSets
  <1>6. AdmissionInv'
    BY <1>2, <1>5, LimitAssumption
    DEF Counts, AdmissionInv, AdmissionConserved, Capacity
  <1>7. SlotInv'
    BY <1>3, SlotsKept DEF Counts, SlotInv
  <1>8. QED
    BY <1>3, <1>6, <1>7 DEF Counts

-----------------------------------------------------------------------------
(* The inductive invariant: the counts, the types of the other variables,  *)
(* which kind of request can be where, and who is registered for           *)
(* cancellation.  RevokedWorkStops is inductive only together with the     *)
(* registration of whatever holds or awaits a slot.                        *)

Typed ==
    /\ ahead \in [Req -> SUBSET Req]
    /\ active \in [Users -> SUBSET Req]
    /\ status \in [Creds -> {"live", "expired", "revoked"}]
    /\ cred \in [Req -> Creds \cup {NoCred}]
    /\ cancel \in SUBSET Req
    /\ stream \in [Req -> {"none", "open", "leaving", "closed"}]
    /\ term \in SUBSET Req
    /\ revoker \in [Revokers -> {<<"idle", NoUser>>}
                        \cup ({"committed", "answered"} \X Users)]

WebOnly == {"returned", "spawned", "running", "emitting", "terminating",
            "unstreamed", "stillborn"}
ApiOnly == {"opening", "reading", "streaming", "draining", "closing"}

KindInv ==
    \A r \in Req : /\ pc[r] # "idle" => cred[r] \in Creds
                   /\ pc[r] \in WebOnly => IsWeb(r)
                   /\ pc[r] \in ApiOnly => IsApi(r)

MustBeRegistered(r) ==
    pc[r] \in Executing \cup {"queued", "spawned"} \/ (pc[r] = "catalog" /\ IsApi(r))

RegisteredInv == \A r \in Req : MustBeRegistered(r) => Registered(r)

NoStrangers ==
    \A u \in Users : \A r \in active[u] :
        /\ pc[r] # "idle" /\ u = UserOf(r)
        /\ IsWeb(r) => stream[r] \in {"open", "leaving"}
        /\ IsApi(r) => pc[r] \in Admitted

IInv == /\ Counts /\ Typed /\ KindInv /\ RegisteredInv /\ NoStrangers
        /\ RevokedWorkStops

\* Every step keeps the semaphores' counts.
LEMMA StepKeepsCounts ==
    ASSUME IInv, [Next]_vars
    PROVE  Counts'
  <1>1. ASSUME NEW r \in Req, WebCatalogFails(r) PROVE Counts'
    BY <1>1, CountsLeave
        DEF WebCatalogFails, At, Executing, Admitted, Over, Places, IInv,
        Counts, SlotInv, Waiting
  <1>2. ASSUME NEW r \in Req, WebCatalogOk(r) PROVE Counts'
    BY <1>2, CountsMoveOn
        DEF WebCatalogOk, At, Executing, Admitted, Over, Places, IInv, Counts,
        SlotInv, Waiting
  <1>3. ASSUME NEW r \in Req, WebStartFails(r) PROVE Counts'
    BY <1>3, CountsMoveOn
        DEF WebStartFails, At, Executing, Admitted, Over, Places, IInv,
        Counts, SlotInv, Waiting
  <1>4. ASSUME NEW r \in Req, WebStream(r) PROVE Counts'
    BY <1>4, CountsMoveOn
        DEF WebStream, At, Executing, Admitted, Over, Places, IInv, Counts,
        SlotInv, Waiting
  <1>5. ASSUME NEW r \in Req, WorkerStarts(r) PROVE Counts'
    BY <1>5, CountsAcquire
        DEF WorkerStarts, At, Executing, Admitted, Over, Places, IInv, Counts,
        SlotInv, Waiting
  <1>6. ASSUME NEW r \in Req, WorkerQueueTimeout(r) PROVE Counts'
    BY <1>6, CountsLeaveLine
        DEF WorkerQueueTimeout, At, WorkerEnds, Executing, Admitted, Over,
        Places, IInv, Counts, SlotInv, Waiting
  <1>7. ASSUME NEW r \in Req, WorkerRefused(r) PROVE Counts'
    BY <1>7, CountsReleaseBoth
        DEF WorkerRefused, At, WorkerEnds, Executing, Admitted, Over, Places,
        IInv, Counts, SlotInv, Waiting
  <1>8. ASSUME NEW r \in Req, WorkerRuns(r) PROVE Counts'
    BY <1>8, CountsMoveOn
        DEF WorkerRuns, At, Executing, Admitted, Over, Places, IInv, Counts,
        SlotInv, Waiting
  <1>9. ASSUME NEW r \in Req, WorkerRunEnds(r) PROVE Counts'
    BY <1>9, CountsReleaseSlot
        DEF WorkerRunEnds, At, Executing, Admitted, Over, Places, IInv,
        Counts, SlotInv, Waiting
  <1>10. ASSUME NEW r \in Req, WorkerEmits(r) PROVE Counts'
    BY <1>10, CountsLeave
        DEF WorkerEmits, At, Executing, Admitted, Over, Places, IInv, Counts,
        SlotInv, Waiting
  <1>11. ASSUME NEW r \in Req, WorkerTerminates(r) PROVE Counts'
    BY <1>11, CountsMoveOn
        DEF WorkerTerminates, At, Executing, Admitted, Over, Places, IInv,
        Counts, SlotInv, Waiting
  <1>12. ASSUME NEW r \in Req, WorkerStillborn(r) PROVE Counts'
    BY <1>12, CountsMoveOn
        DEF WorkerStillborn, At, Executing, Admitted, Over, Places, IInv,
        Counts, SlotInv, Waiting
  <1>13. ASSUME NEW r \in Req, WorkerCancelled(r) PROVE Counts'
    BY <1>13, CountsMoveOn, CountsLeave, CountsLeaveLine, CountsReleaseBoth
        DEF WorkerCancelled, At, WorkerEnds, Executing, Admitted, Over,
        Places, IInv, Counts, SlotInv, Waiting
  <1>14. ASSUME NEW r \in Req, StreamReadsTerminator(r) PROVE Counts'
    BY <1>14, CountsKept
        DEF StreamReadsTerminator, At, Executing, Admitted, Over, Places,
        IInv, Counts, SlotInv, Waiting
  <1>15. ASSUME NEW r \in Req, StreamDisconnected(r) PROVE Counts'
    BY <1>15, CountsKept
        DEF StreamDisconnected, At, Executing, Admitted, Over, Places, IInv,
        Counts, SlotInv, Waiting
  <1>16. ASSUME NEW r \in Req, StreamCloses(r) PROVE Counts'
    BY <1>16, CountsKept
        DEF StreamCloses, At, Executing, Admitted, Over, Places, IInv, Counts,
        SlotInv, Waiting
  <1>17. ASSUME NEW r \in Req, ApiQueues(r) PROVE Counts'
    BY <1>17, CountsAcquire
        DEF ApiQueues, At, Executing, Admitted, Over, Places, IInv, Counts,
        SlotInv, Waiting
  <1>18. ASSUME NEW r \in Req, ApiGivesUp(r) PROVE Counts'
    BY <1>18, CountsLeave, CountsLeaveLine
        DEF ApiGivesUp, At, ReleaseUnslotted, Executing, Admitted,
        Over, Places, IInv, Counts, SlotInv, Waiting
  <1>19. ASSUME NEW r \in Req, ApiOpens(r) PROVE Counts'
    BY <1>19, CountsMoveOn
        DEF ApiOpens, At, Executing, Admitted, Over, Places, IInv, Counts,
        SlotInv, Waiting
  <1>20. ASSUME NEW r \in Req, ApiFails(r) PROVE Counts'
    BY <1>20, CountsReleaseBoth
        DEF ApiFails, At, ReleaseAll, Executing, Admitted, Over, Places, IInv,
        Counts, SlotInv, Waiting
  <1>21. ASSUME NEW r \in Req, ApiAnswered(r) PROVE Counts'
    BY <1>21, CountsMoveOn
        DEF ApiAnswered, At, Executing, Admitted, Over, Places, IInv, Counts,
        SlotInv, Waiting
  <1>22. ASSUME NEW r \in Req, ApiReadEnds(r) PROVE Counts'
    BY <1>22, CountsMoveOn
        DEF ApiReadEnds, At, Executing, Admitted, Over, Places, IInv, Counts,
        SlotInv, Waiting
  <1>23. ASSUME NEW r \in Req, ApiDrained(r) PROVE Counts'
    BY <1>23, CountsReleaseBoth
        DEF ApiDrained, At, ReleaseAll, Executing, Admitted, Over, Places,
        IInv, Counts, SlotInv, Waiting
  <1>24. ASSUME NEW r \in Req, ApiStreamEnds(r) PROVE Counts'
    BY <1>24, CountsReleaseBoth
        DEF ApiStreamEnds, At, ReleaseAll, Executing, Admitted, Over, Places,
        IInv, Counts, SlotInv, Waiting
  <1>25. ASSUME NEW r \in Req, ApiClosed(r) PROVE Counts'
    BY <1>25, CountsMoveOn
        DEF ApiClosed, At, Executing, Admitted, Over, Places, IInv, Counts,
        SlotInv, Waiting
  <1>26. ASSUME NEW r \in Req, ApiCancelled(r) PROVE Counts'
    BY <1>26, CountsMoveOn, CountsLeave, CountsLeaveLine, CountsReleaseBoth
        DEF ApiCancelled, At, ReleaseAll, ReleaseUnslotted, Executing,
        Admitted, Over, Places, IInv, Counts, SlotInv, Waiting
  <1>27. ASSUME NEW r \in Req, SlotGranted(r) PROVE Counts'
    BY <1>27, CountsResume
        DEF SlotGranted, At, Executing, Admitted, Over, Places, IInv, Counts,
        SlotInv, Waiting
  <1>28. ASSUME NEW r \in Req, CheckRead(r) PROVE Counts'
    BY <1>28, CountsMoveOn
        DEF CheckRead, At, Executing, Admitted, Over, Places, IInv, Counts,
        SlotInv, Waiting
  <1>29. ASSUME NEW r \in Req, NEW c \in Creds, Authenticate(r, c) PROVE Counts'
    BY <1>29, CountsMoveOn DEF Authenticate, At, IInv, Executing, Admitted, Places
  <1>30. ASSUME NEW r \in Req, WebSubmit(r) PROVE Counts'
    <2>1. CASE Admit(r, "catalog")
      BY <1>30, <2>1, CountsAdmit DEF WebSubmit, At, IInv
    <2>2. CASE Refuse(r)
      BY <1>30, <2>2, CountsMoveOn
      DEF WebSubmit, Refuse, At, IInv, Executing, Admitted, Places
    <2>3. QED
      BY <1>30, <2>1, <2>2 DEF WebSubmit
  <1>31. ASSUME NEW r \in Req, ApiSubmit(r) PROVE Counts'
    <2>1. CASE Admit(r, "catalog")
      BY <1>31, <2>1, CountsAdmit DEF ApiSubmit, At, IInv
    <2>2. CASE Refuse(r)
      BY <1>31, <2>2, CountsMoveOn
      DEF ApiSubmit, Refuse, At, IInv, Executing, Admitted, Places
    <2>3. QED
      BY <1>31, <2>1, <2>2 DEF ApiSubmit
  <1>32. ASSUME NEW v \in Revokers, Revoke(v) PROVE Counts'
    BY <1>32, CountsKept DEF Revoke, RevokeCommits, RevokeCancels, IInv
  <1>33. ASSUME NEW c \in Creds, Expire(c) PROVE Counts'
    BY <1>33, CountsKept DEF Expire, IInv
  <1>34. CASE UNCHANGED vars
    BY <1>34, CountsKept DEF vars, IInv
  <1>35. CASE Quiet
    BY <1>34, <1>35 DEF Quiet
  <1>36. QED
        BY <1>1, <1>2, <1>3, <1>4, <1>5, <1>6, <1>7, <1>8, <1>9, <1>10, <1>11,
       <1>12, <1>13, <1>14, <1>15, <1>16, <1>17, <1>18, <1>19, <1>20, <1>21,
       <1>22, <1>23, <1>24, <1>25, <1>26, <1>27, <1>28, <1>29, <1>30, <1>31,
       <1>32, <1>33, <1>34, <1>35
    DEF Next, WebHandler, WebWorker, WebEvents, ApiTask

\* Every step keeps the types of the other variables.
LEMMA StepKeepsTypes ==
    ASSUME IInv, [Next]_vars
    PROVE  Typed'
  <1> USE DEF IInv, Typed, KindInv, At, Creds, IsWeb, IsApi, UserOf
  <1>1. ASSUME NEW r \in Req, WebCatalogFails(r) PROVE Typed'
    BY <1>1
    DEF WebCatalogFails
  <1>2. ASSUME NEW r \in Req, WebCatalogOk(r) PROVE Typed'
    BY <1>2
    DEF WebCatalogOk
  <1>3. ASSUME NEW r \in Req, WebStartFails(r) PROVE Typed'
    BY <1>3
    DEF WebStartFails
  <1>4. ASSUME NEW r \in Req, WebStream(r) PROVE Typed'
    BY <1>4
    DEF WebStream, Register
  <1>5. ASSUME NEW r \in Req, WorkerStarts(r) PROVE Typed'
    BY <1>5
    DEF WorkerStarts, AcquireSlot, Waiting
  <1>6. ASSUME NEW r \in Req, WorkerQueueTimeout(r) PROVE Typed'
    BY <1>6
    DEF WorkerQueueTimeout, WorkerEnds
  <1>7. ASSUME NEW r \in Req, WorkerRefused(r) PROVE Typed'
    BY <1>7
    DEF WorkerRefused, WorkerEnds
  <1>8. ASSUME NEW r \in Req, WorkerRuns(r) PROVE Typed'
    BY <1>8
    DEF WorkerRuns
  <1>9. ASSUME NEW r \in Req, WorkerRunEnds(r) PROVE Typed'
    BY <1>9
    DEF WorkerRunEnds
  <1>10. ASSUME NEW r \in Req, WorkerEmits(r) PROVE Typed'
    BY <1>10
    DEF WorkerEmits
  <1>11. ASSUME NEW r \in Req, WorkerTerminates(r) PROVE Typed'
    BY <1>11
    DEF WorkerTerminates
  <1>12. ASSUME NEW r \in Req, WorkerStillborn(r) PROVE Typed'
    BY <1>12
    DEF WorkerStillborn
  <1>13. ASSUME NEW r \in Req, WorkerCancelled(r) PROVE Typed'
    BY <1>13
    DEF WorkerCancelled, WorkerEnds
  <1>14. ASSUME NEW r \in Req, StreamReadsTerminator(r) PROVE Typed'
    BY <1>14
    DEF StreamReadsTerminator
  <1>15. ASSUME NEW r \in Req, StreamDisconnected(r) PROVE Typed'
    BY <1>15
    DEF StreamDisconnected
  <1>16. ASSUME NEW r \in Req, StreamCloses(r) PROVE Typed'
    BY <1>16
    DEF StreamCloses, Deregister
  <1>17. ASSUME NEW r \in Req, ApiQueues(r) PROVE Typed'
    BY <1>17
    DEF ApiQueues, AcquireSlot, Waiting
  <1>18. ASSUME NEW r \in Req, ApiGivesUp(r) PROVE Typed'
    BY <1>18
    DEF ApiGivesUp, ReleaseAll, ReleaseUnslotted, Deregister
  <1>19. ASSUME NEW r \in Req, ApiOpens(r) PROVE Typed'
    BY <1>19
    DEF ApiOpens
  <1>20. ASSUME NEW r \in Req, ApiFails(r) PROVE Typed'
    BY <1>20
    DEF ApiFails, ReleaseAll, Deregister
  <1>21. ASSUME NEW r \in Req, ApiAnswered(r) PROVE Typed'
    BY <1>21
    DEF ApiAnswered
  <1>22. ASSUME NEW r \in Req, ApiReadEnds(r) PROVE Typed'
    BY <1>22
    DEF ApiReadEnds
  <1>23. ASSUME NEW r \in Req, ApiDrained(r) PROVE Typed'
    BY <1>23
    DEF ApiDrained, ReleaseAll, Deregister
  <1>24. ASSUME NEW r \in Req, ApiStreamEnds(r) PROVE Typed'
    BY <1>24
    DEF ApiStreamEnds, ReleaseAll, Deregister
  <1>25. ASSUME NEW r \in Req, ApiClosed(r) PROVE Typed'
    BY <1>25
    DEF ApiClosed
  <1>26. ASSUME NEW r \in Req, ApiCancelled(r) PROVE Typed'
    BY <1>26
    DEF ApiCancelled, ReleaseAll, ReleaseUnslotted, Deregister
  <1>27. ASSUME NEW r \in Req, SlotGranted(r) PROVE Typed'
    BY <1>27
    DEF SlotGranted
  <1>28. ASSUME NEW r \in Req, CheckRead(r) PROVE Typed'
    BY <1>28
    DEF CheckRead
  <1>29. ASSUME NEW r \in Req, NEW c \in Creds, Authenticate(r, c) PROVE Typed'
    BY <1>29 DEF Authenticate
  <1>30. ASSUME NEW r \in Req, WebSubmit(r) PROVE Typed'
    BY <1>30 DEF WebSubmit, Admit, Refuse
  <1>31. ASSUME NEW r \in Req, ApiSubmit(r) PROVE Typed'
    BY <1>31 DEF ApiSubmit, Admit, Refuse, Register
  <1>32. ASSUME NEW v \in Revokers, NEW u \in Users, RevokeCommits(v, u)
         PROVE  Typed'
    BY <1>32 DEF RevokeCommits, CredsOf
  <1>33. ASSUME NEW v \in Revokers, NEW u \in Users, RevokeCancels(v, u)
         PROVE  Typed'
    BY <1>33 DEF RevokeCancels
  <1>34. ASSUME NEW c \in Creds, Expire(c) PROVE Typed'
    BY <1>34 DEF Expire
  <1>35. CASE UNCHANGED vars
    BY <1>35 DEF vars
  <1>36. CASE Quiet
    BY <1>35, <1>36 DEF Quiet
  <1>37. QED
    BY <1>1, <1>2, <1>3, <1>4, <1>5, <1>6, <1>7, <1>8, <1>9, <1>10, <1>11,
       <1>12, <1>13, <1>14, <1>15, <1>16, <1>17, <1>18, <1>19, <1>20, <1>21,
       <1>22, <1>23, <1>24, <1>25, <1>26, <1>27, <1>28, <1>29, <1>30, <1>31,
       <1>32, <1>33, <1>34, <1>35, <1>36
    DEF Next, WebHandler, WebWorker, WebEvents, ApiTask, Revoke

\* Every step keeps each kind of request where it belongs.
LEMMA StepKeepsKinds ==
    ASSUME IInv, [Next]_vars
    PROVE  KindInv'
  <1> USE DEF IInv, Counts, Typed, KindInv, At, Go, Creds, IsWeb, IsApi,
          WebOnly, ApiOnly
  <1>1. ASSUME NEW r \in Req, WebCatalogFails(r) PROVE KindInv'
    BY <1>1
    DEF WebCatalogFails
  <1>2. ASSUME NEW r \in Req, WebCatalogOk(r) PROVE KindInv'
    BY <1>2
    DEF WebCatalogOk
  <1>3. ASSUME NEW r \in Req, WebStartFails(r) PROVE KindInv'
    BY <1>3
    DEF WebStartFails
  <1>4. ASSUME NEW r \in Req, WebStream(r) PROVE KindInv'
    BY <1>4
    DEF WebStream, Register
  <1>5. ASSUME NEW r \in Req, WorkerStarts(r) PROVE KindInv'
    BY <1>5
    DEF WorkerStarts, AcquireSlot
  <1>6. ASSUME NEW r \in Req, WorkerQueueTimeout(r) PROVE KindInv'
    BY <1>6
    DEF WorkerQueueTimeout, WorkerEnds
  <1>7. ASSUME NEW r \in Req, WorkerRefused(r) PROVE KindInv'
    BY <1>7
    DEF WorkerRefused, WorkerEnds
  <1>8. ASSUME NEW r \in Req, WorkerRuns(r) PROVE KindInv'
    BY <1>8
    DEF WorkerRuns
  <1>9. ASSUME NEW r \in Req, WorkerRunEnds(r) PROVE KindInv'
    BY <1>9
    DEF WorkerRunEnds
  <1>10. ASSUME NEW r \in Req, WorkerEmits(r) PROVE KindInv'
    BY <1>10
    DEF WorkerEmits
  <1>11. ASSUME NEW r \in Req, WorkerTerminates(r) PROVE KindInv'
    BY <1>11
    DEF WorkerTerminates
  <1>12. ASSUME NEW r \in Req, WorkerStillborn(r) PROVE KindInv'
    BY <1>12
    DEF WorkerStillborn
  <1>13. ASSUME NEW r \in Req, WorkerCancelled(r) PROVE KindInv'
    BY <1>13
    DEF WorkerCancelled, WorkerEnds
  <1>14. ASSUME NEW r \in Req, StreamReadsTerminator(r) PROVE KindInv'
    BY <1>14
    DEF StreamReadsTerminator
  <1>15. ASSUME NEW r \in Req, StreamDisconnected(r) PROVE KindInv'
    BY <1>15
    DEF StreamDisconnected
  <1>16. ASSUME NEW r \in Req, StreamCloses(r) PROVE KindInv'
    BY <1>16
    DEF StreamCloses, Deregister
  <1>17. ASSUME NEW r \in Req, ApiQueues(r) PROVE KindInv'
    BY <1>17
    DEF ApiQueues, AcquireSlot
  <1>18. ASSUME NEW r \in Req, ApiGivesUp(r) PROVE KindInv'
    BY <1>18
    DEF ApiGivesUp, ReleaseAll, ReleaseUnslotted, Deregister
  <1>19. ASSUME NEW r \in Req, ApiOpens(r) PROVE KindInv'
    BY <1>19
    DEF ApiOpens
  <1>20. ASSUME NEW r \in Req, ApiFails(r) PROVE KindInv'
    BY <1>20
    DEF ApiFails, ReleaseAll, Deregister
  <1>21. ASSUME NEW r \in Req, ApiAnswered(r) PROVE KindInv'
    BY <1>21
    DEF ApiAnswered
  <1>22. ASSUME NEW r \in Req, ApiReadEnds(r) PROVE KindInv'
    BY <1>22
    DEF ApiReadEnds
  <1>23. ASSUME NEW r \in Req, ApiDrained(r) PROVE KindInv'
    BY <1>23
    DEF ApiDrained, ReleaseAll, Deregister
  <1>24. ASSUME NEW r \in Req, ApiStreamEnds(r) PROVE KindInv'
    BY <1>24
    DEF ApiStreamEnds, ReleaseAll, Deregister
  <1>25. ASSUME NEW r \in Req, ApiClosed(r) PROVE KindInv'
    BY <1>25
    DEF ApiClosed
  <1>26. ASSUME NEW r \in Req, ApiCancelled(r) PROVE KindInv'
    BY <1>26
    DEF ApiCancelled, ReleaseAll, ReleaseUnslotted, Deregister
  <1>27. ASSUME NEW r \in Req, SlotGranted(r) PROVE KindInv'
    BY <1>27
    DEF SlotGranted
  <1>28. ASSUME NEW r \in Req, CheckRead(r) PROVE KindInv'
    BY <1>28
    DEF CheckRead
  <1>29. ASSUME NEW r \in Req, NEW c \in Creds, Authenticate(r, c) PROVE KindInv'
    BY <1>29 DEF Authenticate
  <1>30. ASSUME NEW r \in Req, WebSubmit(r) PROVE KindInv'
    BY <1>30 DEF WebSubmit, Admit, Refuse
  <1>31. ASSUME NEW r \in Req, ApiSubmit(r) PROVE KindInv'
    BY <1>31 DEF ApiSubmit, Admit, Refuse, Register
  <1>32. ASSUME NEW v \in Revokers, NEW u \in Users, RevokeCommits(v, u)
         PROVE  KindInv'
    BY <1>32 DEF RevokeCommits, CredsOf
  <1>33. ASSUME NEW v \in Revokers, NEW u \in Users, RevokeCancels(v, u)
         PROVE  KindInv'
    BY <1>33 DEF RevokeCancels
  <1>34. ASSUME NEW c \in Creds, Expire(c) PROVE KindInv'
    BY <1>34 DEF Expire
  <1>35. CASE UNCHANGED vars
    BY <1>35 DEF vars
  <1>36. CASE Quiet
    BY <1>35, <1>36 DEF Quiet
  <1>37. QED
    BY <1>1, <1>2, <1>3, <1>4, <1>5, <1>6, <1>7, <1>8, <1>9, <1>10, <1>11,
       <1>12, <1>13, <1>14, <1>15, <1>16, <1>17, <1>18, <1>19, <1>20, <1>21,
       <1>22, <1>23, <1>24, <1>25, <1>26, <1>27, <1>28, <1>29, <1>30, <1>31,
       <1>32, <1>33, <1>34, <1>35, <1>36
    DEF Next, WebHandler, WebWorker, WebEvents, ApiTask, Revoke

\* Every step keeps whatever holds or awaits a slot registered.
LEMMA StepKeepsRegistered ==
    ASSUME IInv, [Next]_vars
    PROVE  RegisteredInv'
  <1> USE DEF IInv, Counts, Typed, KindInv, RegisteredInv, Registered,
          MustBeRegistered, At, Go, Creds, IsWeb, IsApi, UserOf, WebOnly,
          ApiOnly, Executing, Over
  <1>1. ASSUME NEW r \in Req, WebCatalogFails(r) PROVE RegisteredInv'
    BY <1>1, CredAssumption
    DEF WebCatalogFails
  <1>2. ASSUME NEW r \in Req, WebCatalogOk(r) PROVE RegisteredInv'
    BY <1>2, CredAssumption
    DEF WebCatalogOk
  <1>3. ASSUME NEW r \in Req, WebStartFails(r) PROVE RegisteredInv'
    BY <1>3, CredAssumption
    DEF WebStartFails
  <1>4. ASSUME NEW r \in Req, WebStream(r) PROVE RegisteredInv'
    BY <1>4, CredAssumption
    DEF WebStream, Register
  <1>5. ASSUME NEW r \in Req, WorkerStarts(r) PROVE RegisteredInv'
    BY <1>5, CredAssumption
    DEF WorkerStarts, AcquireSlot
  <1>6. ASSUME NEW r \in Req, WorkerQueueTimeout(r) PROVE RegisteredInv'
    BY <1>6, CredAssumption
    DEF WorkerQueueTimeout, WorkerEnds
  <1>7. ASSUME NEW r \in Req, WorkerRefused(r) PROVE RegisteredInv'
    BY <1>7, CredAssumption
    DEF WorkerRefused, WorkerEnds
  <1>8. ASSUME NEW r \in Req, WorkerRuns(r) PROVE RegisteredInv'
    BY <1>8, CredAssumption
    DEF WorkerRuns
  <1>9. ASSUME NEW r \in Req, WorkerRunEnds(r) PROVE RegisteredInv'
    BY <1>9, CredAssumption
    DEF WorkerRunEnds
  <1>10. ASSUME NEW r \in Req, WorkerEmits(r) PROVE RegisteredInv'
    BY <1>10, CredAssumption
    DEF WorkerEmits
  <1>11. ASSUME NEW r \in Req, WorkerTerminates(r) PROVE RegisteredInv'
    BY <1>11, CredAssumption
    DEF WorkerTerminates
  <1>12. ASSUME NEW r \in Req, WorkerStillborn(r) PROVE RegisteredInv'
    BY <1>12, CredAssumption
    DEF WorkerStillborn
  <1>13. ASSUME NEW r \in Req, WorkerCancelled(r) PROVE RegisteredInv'
    BY <1>13, CredAssumption
    DEF WorkerCancelled, WorkerEnds
  <1>14. ASSUME NEW r \in Req, StreamReadsTerminator(r) PROVE RegisteredInv'
    BY <1>14, CredAssumption
    DEF StreamReadsTerminator
  <1>15. ASSUME NEW r \in Req, StreamDisconnected(r) PROVE RegisteredInv'
    BY <1>15, CredAssumption
    DEF StreamDisconnected
  <1>16. ASSUME NEW r \in Req, StreamCloses(r) PROVE RegisteredInv'
    BY <1>16, CredAssumption
    DEF StreamCloses, Deregister
  <1>17. ASSUME NEW r \in Req, ApiQueues(r) PROVE RegisteredInv'
    BY <1>17, CredAssumption
    DEF ApiQueues, AcquireSlot
  <1>18. ASSUME NEW r \in Req, ApiGivesUp(r) PROVE RegisteredInv'
    BY <1>18, CredAssumption
    DEF ApiGivesUp, ReleaseAll, ReleaseUnslotted, Deregister
  <1>19. ASSUME NEW r \in Req, ApiOpens(r) PROVE RegisteredInv'
    BY <1>19, CredAssumption
    DEF ApiOpens
  <1>20. ASSUME NEW r \in Req, ApiFails(r) PROVE RegisteredInv'
    BY <1>20, CredAssumption
    DEF ApiFails, ReleaseAll, Deregister
  <1>21. ASSUME NEW r \in Req, ApiAnswered(r) PROVE RegisteredInv'
    BY <1>21, CredAssumption
    DEF ApiAnswered
  <1>22. ASSUME NEW r \in Req, ApiReadEnds(r) PROVE RegisteredInv'
    BY <1>22, CredAssumption
    DEF ApiReadEnds
  <1>23. ASSUME NEW r \in Req, ApiDrained(r) PROVE RegisteredInv'
    BY <1>23, CredAssumption
    DEF ApiDrained, ReleaseAll, Deregister
  <1>24. ASSUME NEW r \in Req, ApiStreamEnds(r) PROVE RegisteredInv'
    BY <1>24, CredAssumption
    DEF ApiStreamEnds, ReleaseAll, Deregister
  <1>25. ASSUME NEW r \in Req, ApiClosed(r) PROVE RegisteredInv'
    BY <1>25, CredAssumption
    DEF ApiClosed
  <1>26. ASSUME NEW r \in Req, ApiCancelled(r) PROVE RegisteredInv'
    BY <1>26, CredAssumption
    DEF ApiCancelled, ReleaseAll, ReleaseUnslotted, Deregister
  <1>27. ASSUME NEW r \in Req, SlotGranted(r) PROVE RegisteredInv'
    BY <1>27, CredAssumption
    DEF SlotGranted
  <1>28. ASSUME NEW r \in Req, CheckRead(r) PROVE RegisteredInv'
    BY <1>28, CredAssumption
    DEF CheckRead
  <1>29. ASSUME NEW r \in Req, NEW c \in Creds, Authenticate(r, c) PROVE RegisteredInv'
    BY <1>29, CredAssumption DEF Authenticate
  <1>30. ASSUME NEW r \in Req, WebSubmit(r) PROVE RegisteredInv'
    BY <1>30, CredAssumption DEF WebSubmit, Admit, Refuse
  <1>31. ASSUME NEW r \in Req, ApiSubmit(r) PROVE RegisteredInv'
    BY <1>31, CredAssumption DEF ApiSubmit, Admit, Refuse, Register
  <1>32. ASSUME NEW v \in Revokers, NEW u \in Users, RevokeCommits(v, u)
         PROVE  RegisteredInv'
    BY <1>32, CredAssumption DEF RevokeCommits, CredsOf
  <1>33. ASSUME NEW v \in Revokers, NEW u \in Users, RevokeCancels(v, u)
         PROVE  RegisteredInv'
    BY <1>33, CredAssumption DEF RevokeCancels
  <1>34. ASSUME NEW c \in Creds, Expire(c) PROVE RegisteredInv'
    BY <1>34, CredAssumption DEF Expire
  <1>35. CASE UNCHANGED vars
    BY <1>35 DEF vars
  <1>36. CASE Quiet
    BY <1>35, <1>36 DEF Quiet
  <1>37. QED
    BY <1>1, <1>2, <1>3, <1>4, <1>5, <1>6, <1>7, <1>8, <1>9, <1>10, <1>11,
       <1>12, <1>13, <1>14, <1>15, <1>16, <1>17, <1>18, <1>19, <1>20, <1>21,
       <1>22, <1>23, <1>24, <1>25, <1>26, <1>27, <1>28, <1>29, <1>30, <1>31,
       <1>32, <1>33, <1>34, <1>35, <1>36
    DEF Next, WebHandler, WebWorker, WebEvents, ApiTask, Revoke

\* Every step keeps the registry free of tasks that are over.
LEMMA StepKeepsStrangersOut ==
    ASSUME IInv, [Next]_vars
    PROVE  NoStrangers'
  <1> USE DEF IInv, Counts, Typed, KindInv, NoStrangers, At, Go, Creds,
          IsWeb, IsApi, UserOf, WebOnly, ApiOnly, Admitted, Executing
  <1>1. ASSUME NEW r \in Req, WebCatalogFails(r) PROVE NoStrangers'
    BY <1>1, CredAssumption
    DEF WebCatalogFails
  <1>2. ASSUME NEW r \in Req, WebCatalogOk(r) PROVE NoStrangers'
    BY <1>2, CredAssumption
    DEF WebCatalogOk
  <1>3. ASSUME NEW r \in Req, WebStartFails(r) PROVE NoStrangers'
    BY <1>3, CredAssumption
    DEF WebStartFails
  <1>4. ASSUME NEW r \in Req, WebStream(r) PROVE NoStrangers'
    BY <1>4, CredAssumption
    DEF WebStream, Register
  <1>5. ASSUME NEW r \in Req, WorkerStarts(r) PROVE NoStrangers'
    BY <1>5, CredAssumption
    DEF WorkerStarts, AcquireSlot
  <1>6. ASSUME NEW r \in Req, WorkerQueueTimeout(r) PROVE NoStrangers'
    BY <1>6, CredAssumption
    DEF WorkerQueueTimeout, WorkerEnds
  <1>7. ASSUME NEW r \in Req, WorkerRefused(r) PROVE NoStrangers'
    BY <1>7, CredAssumption
    DEF WorkerRefused, WorkerEnds
  <1>8. ASSUME NEW r \in Req, WorkerRuns(r) PROVE NoStrangers'
    BY <1>8, CredAssumption
    DEF WorkerRuns
  <1>9. ASSUME NEW r \in Req, WorkerRunEnds(r) PROVE NoStrangers'
    BY <1>9, CredAssumption
    DEF WorkerRunEnds
  <1>10. ASSUME NEW r \in Req, WorkerEmits(r) PROVE NoStrangers'
    BY <1>10, CredAssumption
    DEF WorkerEmits
  <1>11. ASSUME NEW r \in Req, WorkerTerminates(r) PROVE NoStrangers'
    BY <1>11, CredAssumption
    DEF WorkerTerminates
  <1>12. ASSUME NEW r \in Req, WorkerStillborn(r) PROVE NoStrangers'
    BY <1>12, CredAssumption
    DEF WorkerStillborn
  <1>13. ASSUME NEW r \in Req, WorkerCancelled(r) PROVE NoStrangers'
    BY <1>13, CredAssumption
    DEF WorkerCancelled, WorkerEnds
  <1>14. ASSUME NEW r \in Req, StreamReadsTerminator(r) PROVE NoStrangers'
    BY <1>14, CredAssumption
    DEF StreamReadsTerminator
  <1>15. ASSUME NEW r \in Req, StreamDisconnected(r) PROVE NoStrangers'
    BY <1>15, CredAssumption
    DEF StreamDisconnected
  <1>16. ASSUME NEW r \in Req, StreamCloses(r) PROVE NoStrangers'
    BY <1>16, CredAssumption
    DEF StreamCloses, Deregister
  <1>17. ASSUME NEW r \in Req, ApiQueues(r) PROVE NoStrangers'
    BY <1>17, CredAssumption
    DEF ApiQueues, AcquireSlot
  <1>18. ASSUME NEW r \in Req, ApiGivesUp(r) PROVE NoStrangers'
    BY <1>18, CredAssumption
    DEF ApiGivesUp, ReleaseAll, ReleaseUnslotted, Deregister
  <1>19. ASSUME NEW r \in Req, ApiOpens(r) PROVE NoStrangers'
    BY <1>19, CredAssumption
    DEF ApiOpens
  <1>20. ASSUME NEW r \in Req, ApiFails(r) PROVE NoStrangers'
    BY <1>20, CredAssumption
    DEF ApiFails, ReleaseAll, Deregister
  <1>21. ASSUME NEW r \in Req, ApiAnswered(r) PROVE NoStrangers'
    BY <1>21, CredAssumption
    DEF ApiAnswered
  <1>22. ASSUME NEW r \in Req, ApiReadEnds(r) PROVE NoStrangers'
    BY <1>22, CredAssumption
    DEF ApiReadEnds
  <1>23. ASSUME NEW r \in Req, ApiDrained(r) PROVE NoStrangers'
    BY <1>23, CredAssumption
    DEF ApiDrained, ReleaseAll, Deregister
  <1>24. ASSUME NEW r \in Req, ApiStreamEnds(r) PROVE NoStrangers'
    BY <1>24, CredAssumption
    DEF ApiStreamEnds, ReleaseAll, Deregister
  <1>25. ASSUME NEW r \in Req, ApiClosed(r) PROVE NoStrangers'
    BY <1>25, CredAssumption
    DEF ApiClosed
  <1>26. ASSUME NEW r \in Req, ApiCancelled(r) PROVE NoStrangers'
    BY <1>26, CredAssumption
    DEF ApiCancelled, ReleaseAll, ReleaseUnslotted, Deregister
  <1>27. ASSUME NEW r \in Req, SlotGranted(r) PROVE NoStrangers'
    BY <1>27, CredAssumption
    DEF SlotGranted
  <1>28. ASSUME NEW r \in Req, CheckRead(r) PROVE NoStrangers'
    BY <1>28, CredAssumption
    DEF CheckRead
  <1>29. ASSUME NEW r \in Req, NEW c \in Creds, Authenticate(r, c) PROVE NoStrangers'
    BY <1>29, CredAssumption DEF Authenticate
  <1>30. ASSUME NEW r \in Req, WebSubmit(r) PROVE NoStrangers'
    BY <1>30, CredAssumption DEF WebSubmit, Admit, Refuse
  <1>31. ASSUME NEW r \in Req, ApiSubmit(r) PROVE NoStrangers'
    BY <1>31, CredAssumption DEF ApiSubmit, Admit, Refuse, Register
  <1>32. ASSUME NEW v \in Revokers, NEW u \in Users, RevokeCommits(v, u)
         PROVE  NoStrangers'
    BY <1>32, CredAssumption DEF RevokeCommits, CredsOf
  <1>33. ASSUME NEW v \in Revokers, NEW u \in Users, RevokeCancels(v, u)
         PROVE  NoStrangers'
    BY <1>33, CredAssumption DEF RevokeCancels
  <1>34. ASSUME NEW c \in Creds, Expire(c) PROVE NoStrangers'
    BY <1>34, CredAssumption DEF Expire
  <1>35. CASE UNCHANGED vars
    BY <1>35 DEF vars
  <1>36. CASE Quiet
    BY <1>35, <1>36 DEF Quiet
  <1>37. QED
    BY <1>1, <1>2, <1>3, <1>4, <1>5, <1>6, <1>7, <1>8, <1>9, <1>10, <1>11,
       <1>12, <1>13, <1>14, <1>15, <1>16, <1>17, <1>18, <1>19, <1>20, <1>21,
       <1>22, <1>23, <1>24, <1>25, <1>26, <1>27, <1>28, <1>29, <1>30, <1>31,
       <1>32, <1>33, <1>34, <1>35, <1>36
    DEF Next, WebHandler, WebWorker, WebEvents, ApiTask, Revoke

\* Every step keeps revoked work cancelled or out of the model.
LEMMA StepStopsRevokedWork ==
    ASSUME IInv, [Next]_vars
    PROVE  RevokedWorkStops'
  <1> USE DEF IInv, Counts, Typed, KindInv, RegisteredInv, Registered,
          MustBeRegistered, NoStrangers, RevokedWorkStops, At, Go, Creds,
          IsWeb, IsApi, UserOf, WebOnly, ApiOnly, Executing, Using, Over
  <1>1. ASSUME NEW r \in Req, WebCatalogFails(r) PROVE RevokedWorkStops'
    BY <1>1, CredAssumption
    DEF WebCatalogFails
  <1>2. ASSUME NEW r \in Req, WebCatalogOk(r) PROVE RevokedWorkStops'
    BY <1>2, CredAssumption
    DEF WebCatalogOk
  <1>3. ASSUME NEW r \in Req, WebStartFails(r) PROVE RevokedWorkStops'
    BY <1>3, CredAssumption
    DEF WebStartFails
  <1>4. ASSUME NEW r \in Req, WebStream(r) PROVE RevokedWorkStops'
    BY <1>4, CredAssumption
    DEF WebStream, Register
  <1>5. ASSUME NEW r \in Req, WorkerStarts(r) PROVE RevokedWorkStops'
    BY <1>5, CredAssumption
    DEF WorkerStarts, AcquireSlot
  <1>6. ASSUME NEW r \in Req, WorkerQueueTimeout(r) PROVE RevokedWorkStops'
    BY <1>6, CredAssumption
    DEF WorkerQueueTimeout, WorkerEnds
  <1>7. ASSUME NEW r \in Req, WorkerRefused(r) PROVE RevokedWorkStops'
    BY <1>7, CredAssumption
    DEF WorkerRefused, WorkerEnds
  <1>8. ASSUME NEW r \in Req, WorkerRuns(r) PROVE RevokedWorkStops'
    BY <1>8, CredAssumption
    DEF WorkerRuns
  <1>9. ASSUME NEW r \in Req, WorkerRunEnds(r) PROVE RevokedWorkStops'
    BY <1>9, CredAssumption
    DEF WorkerRunEnds
  <1>10. ASSUME NEW r \in Req, WorkerEmits(r) PROVE RevokedWorkStops'
    BY <1>10, CredAssumption
    DEF WorkerEmits
  <1>11. ASSUME NEW r \in Req, WorkerTerminates(r) PROVE RevokedWorkStops'
    BY <1>11, CredAssumption
    DEF WorkerTerminates
  <1>12. ASSUME NEW r \in Req, WorkerStillborn(r) PROVE RevokedWorkStops'
    BY <1>12, CredAssumption
    DEF WorkerStillborn
  <1>13. ASSUME NEW r \in Req, WorkerCancelled(r) PROVE RevokedWorkStops'
    BY <1>13, CredAssumption
    DEF WorkerCancelled, WorkerEnds
  <1>14. ASSUME NEW r \in Req, StreamReadsTerminator(r) PROVE RevokedWorkStops'
    BY <1>14, CredAssumption
    DEF StreamReadsTerminator
  <1>15. ASSUME NEW r \in Req, StreamDisconnected(r) PROVE RevokedWorkStops'
    BY <1>15, CredAssumption
    DEF StreamDisconnected
  <1>16. ASSUME NEW r \in Req, StreamCloses(r) PROVE RevokedWorkStops'
    BY <1>16, CredAssumption
    DEF StreamCloses, Deregister
  <1>17. ASSUME NEW r \in Req, ApiQueues(r) PROVE RevokedWorkStops'
    BY <1>17, CredAssumption
    DEF ApiQueues, AcquireSlot
  <1>18. ASSUME NEW r \in Req, ApiGivesUp(r) PROVE RevokedWorkStops'
    BY <1>18, CredAssumption
    DEF ApiGivesUp, ReleaseAll, ReleaseUnslotted, Deregister
  <1>19. ASSUME NEW r \in Req, ApiOpens(r) PROVE RevokedWorkStops'
    BY <1>19, CredAssumption
    DEF ApiOpens
  <1>20. ASSUME NEW r \in Req, ApiFails(r) PROVE RevokedWorkStops'
    BY <1>20, CredAssumption
    DEF ApiFails, ReleaseAll, Deregister
  <1>21. ASSUME NEW r \in Req, ApiAnswered(r) PROVE RevokedWorkStops'
    BY <1>21, CredAssumption
    DEF ApiAnswered
  <1>22. ASSUME NEW r \in Req, ApiReadEnds(r) PROVE RevokedWorkStops'
    BY <1>22, CredAssumption
    DEF ApiReadEnds
  <1>23. ASSUME NEW r \in Req, ApiDrained(r) PROVE RevokedWorkStops'
    BY <1>23, CredAssumption
    DEF ApiDrained, ReleaseAll, Deregister
  <1>24. ASSUME NEW r \in Req, ApiStreamEnds(r) PROVE RevokedWorkStops'
    BY <1>24, CredAssumption
    DEF ApiStreamEnds, ReleaseAll, Deregister
  <1>25. ASSUME NEW r \in Req, ApiClosed(r) PROVE RevokedWorkStops'
    BY <1>25, CredAssumption
    DEF ApiClosed
  <1>26. ASSUME NEW r \in Req, ApiCancelled(r) PROVE RevokedWorkStops'
    BY <1>26, CredAssumption
    DEF ApiCancelled, ReleaseAll, ReleaseUnslotted, Deregister
  <1>27. ASSUME NEW r \in Req, SlotGranted(r) PROVE RevokedWorkStops'
    BY <1>27, CredAssumption
    DEF SlotGranted
  <1>28. ASSUME NEW r \in Req, CheckRead(r) PROVE RevokedWorkStops'
    BY <1>28, CredAssumption
    DEF CheckRead
  <1>29. ASSUME NEW r \in Req, NEW c \in Creds, Authenticate(r, c) PROVE RevokedWorkStops'
    BY <1>29, CredAssumption DEF Authenticate
  <1>30. ASSUME NEW r \in Req, WebSubmit(r) PROVE RevokedWorkStops'
    BY <1>30, CredAssumption DEF WebSubmit, Admit, Refuse
  <1>31. ASSUME NEW r \in Req, ApiSubmit(r) PROVE RevokedWorkStops'
    BY <1>31, CredAssumption DEF ApiSubmit, Admit, Refuse, Register
  <1>32. ASSUME NEW v \in Revokers, NEW u \in Users, RevokeCommits(v, u)
         PROVE  RevokedWorkStops'
    <2>1. /\ revoker[v] = <<"idle", NoUser>>
          /\ revoker' = [revoker EXCEPT ![v] = <<"committed", u>>]
          /\ UNCHANGED <<cred, pc, cancel>>
      BY <1>32 DEF RevokeCommits
    <2>2. \A c \in Creds : Owner[c] # u => status'[c] = status[c]
      BY <1>32 DEF RevokeCommits, CredsOf
    <2>3. SUFFICES ASSUME NEW q \in Req, pc[q] \in Using,
                          status'[cred[q]] = "revoked",
                          \A w \in Revokers :
                              revoker'[w] # <<"committed", UserOf(q)>>
                   PROVE  q \in cancel
      BY <2>1
    <2>4. cred[q] \in Creds /\ UserOf(q) # u
      BY <2>1, <2>3
    <2>5. \A w \in Revokers : revoker[w] # <<"committed", UserOf(q)>>
      BY <2>1, <2>3
    <2>6. QED
      BY <2>2, <2>3, <2>4, <2>5
  <1>33. ASSUME NEW v \in Revokers, NEW u \in Users, RevokeCancels(v, u)
         PROVE  RevokedWorkStops'
    <2>1. /\ revoker[v] = <<"committed", u>>
          /\ revoker' = [revoker EXCEPT ![v] = <<"answered", u>>]
          /\ cancel' = cancel \cup {r \in active[u] : pc[r] \notin Over}
          /\ UNCHANGED <<cred, pc, status>>
      BY <1>33 DEF RevokeCancels
    <2>2. SUFFICES ASSUME NEW q \in Req, pc[q] \in Using,
                          status[cred[q]] = "revoked",
                          \A w \in Revokers :
                              revoker'[w] # <<"committed", UserOf(q)>>
                   PROVE  q \in cancel'
      BY <2>1
    <2>3. CASE UserOf(q) = u
      <3>1. q \in active[u] /\ pc[q] \notin Over
        BY <2>2, <2>3
      <3>2. QED
        BY <2>1, <3>1
    <2>4. CASE UserOf(q) # u
      <3>1. \A w \in Revokers : revoker[w] # <<"committed", UserOf(q)>>
        BY <2>1, <2>2, <2>4
      <3>2. QED
        BY <2>1, <2>2, <3>1
    <2>5. QED
      BY <2>3, <2>4
  <1>34. ASSUME NEW c \in Creds, Expire(c) PROVE RevokedWorkStops'
    BY <1>34, CredAssumption DEF Expire
  <1>35. CASE UNCHANGED vars
    BY <1>35 DEF vars
  <1>36. CASE Quiet
    BY <1>35, <1>36 DEF Quiet
  <1>37. QED
    BY <1>1, <1>2, <1>3, <1>4, <1>5, <1>6, <1>7, <1>8, <1>9, <1>10, <1>11,
       <1>12, <1>13, <1>14, <1>15, <1>16, <1>17, <1>18, <1>19, <1>20, <1>21,
       <1>22, <1>23, <1>24, <1>25, <1>26, <1>27, <1>28, <1>29, <1>30, <1>31,
       <1>32, <1>33, <1>34, <1>35, <1>36
    DEF Next, WebHandler, WebWorker, WebEvents, ApiTask, Revoke

-----------------------------------------------------------------------------
(* The theorems.                                                           *)

\* The initial states satisfy the inductive invariant.
LEMMA InitIInv == Init => IInv
  <1> SUFFICES ASSUME Init PROVE IInv
    OBVIOUS
  <1>1. SlotHolders = {} /\ Inside = {} /\ Waiting = {}
    BY DEF Init, SlotHolders, Inside, Waiting, Executing, Admitted
  <1>2. Counts
    BY <1>1, FS_EmptySet, LimitAssumption
    DEF Init, Counts, SlotInv, SlotsConserved, AdmissionInv,
        AdmissionConserved, Capacity, Places
  <1>3. Typed
    BY DEF Init, Typed
  <1>4. KindInv /\ RegisteredInv /\ RevokedWorkStops
    BY DEF Init, KindInv, WebOnly, ApiOnly, RegisteredInv, MustBeRegistered,
           Executing, RevokedWorkStops, Using
  <1>5. NoStrangers
    BY DEF Init, NoStrangers
  <1>6. QED
    BY <1>2, <1>3, <1>4, <1>5 DEF IInv

\* The inductive invariant holds of every reachable state.
LEMMA Inductive == Spec => []IInv
  <1>1. IInv /\ [Next]_vars => IInv'
    BY StepKeepsCounts, StepKeepsTypes, StepKeepsKinds, StepKeepsRegistered,
       StepKeepsStrangersOut, StepStopsRevokedWork DEF IInv
  <1>2. QED
    BY InitIInv, <1>1, PTL DEF Spec

\* However requests, timeouts, cancellations and revocations interleave, every
\* slot is free, promised to one waiter or held by one request.
THEOREM NoSlotLost == Spec => []SlotsConserved
  <1>1. IInv => SlotsConserved
    BY DEF IInv, Counts, SlotInv
  <1>2. QED
    BY Inductive, <1>1, PTL

\* Every admission permit is free or held by one request.
THEOREM NoPermitLost == Spec => []AdmissionConserved
  <1>1. IInv => AdmissionConserved
    BY DEF IInv, Counts, AdmissionInv
  <1>2. QED
    BY Inductive, <1>1, PTL

\* Every variable keeps its type; the semaphores stay within their limits
\* because no slot and no permit is returned twice.
THEOREM TypeCorrect == Spec => []TypeOK
  <1>1. IInv => TypeOK
    <2> SUFFICES ASSUME IInv PROVE TypeOK
      OBVIOUS
    <2>1. /\ SlotHolders \in SUBSET Req /\ Inside \in SUBSET Req
          /\ granted \in SUBSET Req
      BY DEF SlotHolders, Inside, IInv, Counts, SlotInv, Waiting
    <2>2. /\ Cardinality(SlotHolders) \in Nat /\ Cardinality(Inside) \in Nat
          /\ Cardinality(granted) \in Nat
      BY <2>1, RequestSets
    <2>3. slots \in 0..CHAT_CONCURRENCY /\ admission \in 0..Capacity
      BY <2>2, LimitAssumption
      DEF IInv, Counts, SlotInv, SlotsConserved, AdmissionInv,
          AdmissionConserved, Capacity
    <2>4. QED
      BY <2>1, <2>3 DEF IInv, Counts, Typed, TypeOK
  <1>2. QED
    BY Inductive, <1>1, PTL

\* Whatever can still use the model is registered under its own user, and
\* nothing stays registered once it is over.
THEOREM RegistryIsComplete == Spec => []RegistryComplete
  <1>1. IInv => RegistryComplete
    BY DEF IInv, Counts, Typed, KindInv, RegisteredInv, MustBeRegistered,
           NoStrangers, RegistryComplete, Creds, IsWeb, IsApi, Admitted, Executing
  <1>2. QED
    BY Inductive, <1>1, PTL

\* Once a revoking handler has answered, no request that used the revoked
\* credential goes on to use the model.
THEOREM RevocationStopsWork == Spec => []RevokedWorkStops
  <1>1. IInv => RevokedWorkStops
    BY DEF IInv
  <1>2. QED
    BY Inductive, <1>1, PTL

-----------------------------------------------------------------------------
(* No lost wake-up.                                                        *)

\* A task that was not about to join the line moves on.
LEMMA WakeMoveOn ==
    ASSUME NoLostWakeup, pc \in [Req -> Places],
           NEW r \in Req, NEW place \in Places, place # "queued", Go(r, place),
           UNCHANGED <<slots, granted>>, cancel \ {r} \subseteq cancel'
    PROVE  NoLostWakeup'
  <1>1. Waiting' = Waiting \ {r}
    BY Moves
  <1>2. QED
    BY <1>1 DEF NoLostWakeup

\* A task returns its slot: it wakes a waiter, or there is none to wake.
LEMMA WakeReturn ==
    ASSUME NoLostWakeup, pc \in [Req -> Places],
           NEW r \in Req, NEW place \in Places, place # "queued", Go(r, place),
           ReturnSlot(r), cancel \ {r} \subseteq cancel'
    PROVE  NoLostWakeup'
  <1>1. Waiting' = Waiting \ {r}
    BY Moves
  <1>2. CASE Wakeable(r) = {} /\ granted' = granted \ {r}
    BY <1>1, <1>2 DEF NoLostWakeup, Wakeable
  <1>3. CASE \E w \in FirstOf(Wakeable(r)) : granted' = (granted \ {r}) \cup {w}
    BY <1>3 DEF NoLostWakeup
  <1>4. QED
    BY <1>2, <1>3 DEF ReturnSlot

\* A task leaves the line: it wakes all waiters or spends all free permits.
LEMMA WakeOnward ==
    ASSUME pc \in [Req -> Places],
           NEW r \in Req, NEW place \in Places, place # "queued", Go(r, place),
           NEW free \in Nat, WakeOn(r, free), cancel \ {r} \subseteq cancel'
    PROVE  NoLostWakeup'
  <1>1. Waiting' = Waiting \ {r}
    BY Moves
  <1>2. PICK woken \in SUBSET Wakeable(r) :
           /\ woken = Wakeable(r) \/ Cardinality(woken) = free
           /\ slots' = free - Cardinality(woken)
           /\ granted' = (granted \ {r}) \cup woken
    BY DEF WakeOn
  <1>3. CASE woken = Wakeable(r)
    BY <1>1, <1>2, <1>3 DEF NoLostWakeup, Wakeable
  <1>4. CASE Cardinality(woken) = free
    <2>1. slots' = 0
      BY <1>2, <1>4
    <2>2. QED
      BY <2>1 DEF NoLostWakeup
  <1>5. QED
    BY <1>2, <1>3, <1>4

\* A waiter gives up.
LEMMA WakeLeaveLine ==
    ASSUME Counts, NEW r \in Req, NEW place \in Places, place # "queued",
           Go(r, place), LeaveLine(r), cancel \ {r} \subseteq cancel'
    PROVE  NoLostWakeup'
  <1>1. slots + (IF r \in granted THEN 1 ELSE 0) \in Nat
    BY DEF Counts, SlotInv
  <1>2. QED
    BY <1>1, WakeOnward DEF LeaveLine, Counts

\* A task asks for a slot; it waits only when no permit is free or a granted
\* waiter will wake it.
LEMMA WakeAcquire ==
    ASSUME NoLostWakeup, Counts, NEW r \in Req, AcquireSlot(r), UNCHANGED cancel,
           pc[r] # "queued"
    PROVE  NoLostWakeup'
  <1>1. pc \in [Req -> Places] /\ slots \in Nat
        /\ "queued" \in Places /\ "checking" \in Places
    BY DEF Counts, SlotInv, Places, Admitted, Executing
  <1>2. CASE SlotsLocked
    <2>1. UNCHANGED <<slots, granted>> /\ (slots = 0 \/ granted # {})
      BY <1>1, <1>2 DEF AcquireSlot, SlotsLocked, NoLostWakeup
    <2>2. QED
      BY <1>1, <2>1 DEF NoLostWakeup
  <1>3. CASE ~SlotsLocked
    <2>1. Go(r, "checking")
      BY <1>3 DEF AcquireSlot
    <2>2. Waiting' = Waiting \ {r}
      BY <1>1, <2>1, Moves
    <2>3. Waiting \subseteq cancel
      BY <1>3 DEF SlotsLocked
    <2>4. QED
      BY <2>2, <2>3 DEF NoLostWakeup
  <1>4. QED
    BY <1>2, <1>3

\* Every step keeps free slots from sleeping waiters.
LEMMA StepKeepsWakeup ==
    ASSUME IInv, NoLostWakeup, [Next]_vars
    PROVE  NoLostWakeup'
  <1>1. Counts /\ pc \in [Req -> Places] /\ slots \in Nat
    BY DEF IInv, Counts, SlotInv
  <1>2. ASSUME NEW r \in Req, WebCatalogFails(r) PROVE NoLostWakeup'
    BY <1>1, <1>2, WakeMoveOn
    DEF WebCatalogFails, At, Places, Admitted, Executing
  <1>3. ASSUME NEW r \in Req, WebCatalogOk(r) PROVE NoLostWakeup'
    BY <1>1, <1>3, WakeMoveOn
    DEF WebCatalogOk, At, Places, Admitted, Executing
  <1>4. ASSUME NEW r \in Req, WebStartFails(r) PROVE NoLostWakeup'
    BY <1>1, <1>4, WakeMoveOn
    DEF WebStartFails, At, Places, Admitted, Executing
  <1>5. ASSUME NEW r \in Req, WebStream(r) PROVE NoLostWakeup'
    BY <1>1, <1>5, WakeMoveOn
    DEF WebStream, At, Places, Admitted, Executing
  <1>6. ASSUME NEW r \in Req, WorkerStarts(r) PROVE NoLostWakeup'
    BY <1>1, <1>6, WakeAcquire
    DEF WorkerStarts, At, Places, Admitted, Executing
  <1>7. ASSUME NEW r \in Req, WorkerQueueTimeout(r) PROVE NoLostWakeup'
    BY <1>1, <1>7, WakeLeaveLine
    DEF WorkerQueueTimeout, WorkerEnds, At, Places, Admitted, Executing
  <1>8. ASSUME NEW r \in Req, WorkerRefused(r) PROVE NoLostWakeup'
    BY <1>1, <1>8, WakeReturn
    DEF WorkerRefused, WorkerEnds, At, Places, Admitted, Executing
  <1>9. ASSUME NEW r \in Req, WorkerRuns(r) PROVE NoLostWakeup'
    BY <1>1, <1>9, WakeMoveOn
    DEF WorkerRuns, At, Places, Admitted, Executing
  <1>10. ASSUME NEW r \in Req, WorkerRunEnds(r) PROVE NoLostWakeup'
    BY <1>1, <1>10, WakeReturn
    DEF WorkerRunEnds, At, Places, Admitted, Executing
  <1>11. ASSUME NEW r \in Req, WorkerEmits(r) PROVE NoLostWakeup'
    BY <1>1, <1>11, WakeMoveOn
    DEF WorkerEmits, At, Places, Admitted, Executing
  <1>12. ASSUME NEW r \in Req, WorkerTerminates(r) PROVE NoLostWakeup'
    BY <1>1, <1>12, WakeMoveOn
    DEF WorkerTerminates, At, Places, Admitted, Executing
  <1>13. ASSUME NEW r \in Req, WorkerStillborn(r) PROVE NoLostWakeup'
    BY <1>1, <1>13, WakeMoveOn
    DEF WorkerStillborn, At, Places, Admitted, Executing
  <1>14. ASSUME NEW r \in Req, WorkerCancelled(r) PROVE NoLostWakeup'
    BY <1>1, <1>14, WakeMoveOn, WakeReturn, WakeLeaveLine
    DEF WorkerCancelled, WorkerEnds, At, Places, Admitted, Executing
  <1>15. ASSUME NEW r \in Req, ApiQueues(r) PROVE NoLostWakeup'
    BY <1>1, <1>15, WakeAcquire
    DEF ApiQueues, At, Places, Admitted, Executing
  <1>16. ASSUME NEW r \in Req, ApiGivesUp(r) PROVE NoLostWakeup'
    BY <1>1, <1>16, WakeMoveOn, WakeLeaveLine
    DEF ApiGivesUp, ReleaseUnslotted, At, Places, Admitted, Executing
  <1>17. ASSUME NEW r \in Req, ApiOpens(r) PROVE NoLostWakeup'
    BY <1>1, <1>17, WakeMoveOn
    DEF ApiOpens, At, Places, Admitted, Executing
  <1>18. ASSUME NEW r \in Req, ApiFails(r) PROVE NoLostWakeup'
    BY <1>1, <1>18, WakeReturn
    DEF ApiFails, ReleaseAll, At, Places, Admitted, Executing
  <1>19. ASSUME NEW r \in Req, ApiAnswered(r) PROVE NoLostWakeup'
    BY <1>1, <1>19, WakeMoveOn
    DEF ApiAnswered, At, Places, Admitted, Executing
  <1>20. ASSUME NEW r \in Req, ApiReadEnds(r) PROVE NoLostWakeup'
    BY <1>1, <1>20, WakeMoveOn
    DEF ApiReadEnds, At, Places, Admitted, Executing
  <1>21. ASSUME NEW r \in Req, ApiDrained(r) PROVE NoLostWakeup'
    BY <1>1, <1>21, WakeReturn
    DEF ApiDrained, ReleaseAll, At, Places, Admitted, Executing
  <1>22. ASSUME NEW r \in Req, ApiStreamEnds(r) PROVE NoLostWakeup'
    BY <1>1, <1>22, WakeReturn
    DEF ApiStreamEnds, ReleaseAll, At, Places, Admitted, Executing
  <1>23. ASSUME NEW r \in Req, ApiClosed(r) PROVE NoLostWakeup'
    BY <1>1, <1>23, WakeMoveOn
    DEF ApiClosed, At, Places, Admitted, Executing
  <1>24. ASSUME NEW r \in Req, ApiCancelled(r) PROVE NoLostWakeup'
    BY <1>1, <1>24, WakeMoveOn, WakeReturn, WakeLeaveLine
    DEF ApiCancelled, ReleaseAll, ReleaseUnslotted, At, Places, Admitted, Executing
  <1>25. ASSUME NEW r \in Req, CheckRead(r) PROVE NoLostWakeup'
    BY <1>1, <1>25, WakeMoveOn
    DEF CheckRead, At, Places, Admitted, Executing
  <1>26. ASSUME NEW r \in Req, SlotGranted(r) PROVE NoLostWakeup'
    BY <1>1, <1>26, WakeOnward DEF SlotGranted, Places, Admitted, Executing
  <1>27. ASSUME NEW r \in Req, StreamReadsTerminator(r) PROVE NoLostWakeup'
    BY <1>27 DEF StreamReadsTerminator, NoLostWakeup, Waiting
  <1>28. ASSUME NEW r \in Req, StreamDisconnected(r) PROVE NoLostWakeup'
    BY <1>28 DEF StreamDisconnected, NoLostWakeup, Waiting
  <1>29. ASSUME NEW r \in Req, StreamCloses(r) PROVE NoLostWakeup'
    BY <1>29 DEF StreamCloses, NoLostWakeup, Waiting
  <1>30. ASSUME NEW r \in Req, NEW c \in Creds, Authenticate(r, c) PROVE NoLostWakeup'
    BY <1>1, <1>30, WakeMoveOn DEF Authenticate, Places, Admitted, Executing
  <1>31. ASSUME NEW r \in Req, WebSubmit(r) PROVE NoLostWakeup'
    BY <1>1, <1>31, WakeMoveOn DEF WebSubmit, Admit, Refuse, Places, Admitted, Executing
  <1>32. ASSUME NEW r \in Req, ApiSubmit(r) PROVE NoLostWakeup'
    BY <1>1, <1>32, WakeMoveOn DEF ApiSubmit, Admit, Refuse, Places, Admitted, Executing
  <1>33. ASSUME NEW v \in Revokers, Revoke(v) PROVE NoLostWakeup'
    BY <1>33 DEF Revoke, RevokeCommits, RevokeCancels, NoLostWakeup, Waiting
  <1>34. ASSUME NEW c \in Creds, Expire(c) PROVE NoLostWakeup'
    BY <1>34 DEF Expire, NoLostWakeup, Waiting
  <1>35. CASE UNCHANGED vars \/ Quiet
    BY <1>35 DEF vars, Quiet, NoLostWakeup, Waiting
  <1>36. QED
    BY <1>2, <1>3, <1>4, <1>5, <1>6, <1>7, <1>8, <1>9, <1>10, <1>11, <1>12,
       <1>13, <1>14, <1>15, <1>16, <1>17, <1>18, <1>19, <1>20, <1>21, <1>22,
       <1>23, <1>24, <1>25, <1>26, <1>27, <1>28, <1>29, <1>30, <1>31, <1>32,
       <1>33, <1>34, <1>35
    DEF Next, WebHandler, WebWorker, WebEvents, ApiTask

\* However waiters time out, are cancelled or are granted a slot they no longer
\* want, a free slot never leaves a live waiter asleep.
THEOREM NoWakeupLost == Spec => []NoLostWakeup
  <1>1. Init => NoLostWakeup
    BY DEF Init, NoLostWakeup, Waiting
  <1>2. IInv /\ NoLostWakeup /\ [Next]_vars => NoLostWakeup'
    BY StepKeepsWakeup
  <1>3. QED
    BY <1>1, <1>2, Inductive, PTL DEF Spec

-----------------------------------------------------------------------------
(* No barging.                                                             *)

Early == {"idle", "authorized", "catalog", "returned", "spawned"}     \* not yet in line

\* Of any two waiters one was there when the other joined, so the line is
\* total; nobody counts as ahead of a waiter before having joined; and a grant
\* never goes past a live waiter.
LineInv ==
    /\ \A q, w \in Waiting : q # w => (q \in ahead[w] <=> w \notin ahead[q])
    /\ \A w \in Waiting : \A q \in ahead[w] : pc[q] \notin Early
    /\ \A g \in granted : \A w \in Waiting \ (granted \cup cancel) : g \in ahead[w]

\* Whoever comes to hold a slot in this step is ahead of every live waiter.
InTurn ==
    \A r \in Req : r \in SlotHolders' \ SlotHolders =>
        \A w \in Waiting \cap Waiting' :
            w \in granted \/ w \in cancel \/ (w # r /\ pc[r] = "queued" /\ r \in ahead[w])

Orderly == LineInv' /\ InTurn

\* No request moves and nothing is granted; waiters may be cancelled.
LEMMA LineKept ==
    ASSUME Counts, LineInv, UNCHANGED <<pc, granted, ahead>>, cancel \subseteq cancel'
    PROVE  Orderly
  <1>1. Waiting' = Waiting /\ SlotHolders' = SlotHolders
    BY DEF Waiting, SlotHolders
  <1>2. QED
    BY <1>1 DEF Orderly, LineInv, InTurn

\* Request r leaves the line, or was not in it, and the grants that are made go
\* to waiters that nobody waiting for a grant is ahead of.
LEMMA LineServedInOrder ==
    ASSUME Counts, LineInv, NEW r \in Req, NEW place \in Places \ Early,
           place # "queued", Go(r, place), UNCHANGED ahead,
           cancel \ {r} \subseteq cancel',
           NEW woken \in SUBSET Wakeable(r),
           granted' = (granted \ {r}) \cup woken,
           \A w \in woken : ahead[w] \cap Wakeable(r) \subseteq woken
    PROVE  LineInv'
  <1>1. /\ pc \in [Req -> Places] /\ granted \subseteq Waiting
        /\ Waiting' = Waiting \ {r} /\ \A q \in Req \ {r} : pc'[q] = pc[q]
        /\ pc'[r] = place
    BY Moves DEF Counts, SlotInv
  <1>2. \A q, w \in Waiting' : q # w => (q \in ahead'[w] <=> w \notin ahead'[q])
    BY <1>1 DEF LineInv
  <1>3. ASSUME NEW w \in Waiting', NEW q \in ahead'[w] PROVE pc'[q] \notin Early
    BY <1>1, <1>3 DEF LineInv, Go
  <1>4. ASSUME NEW g \in granted', NEW w \in Waiting' \ (granted' \cup cancel')
        PROVE  g \in ahead'[w]
    <2>1. w \in Waiting \ (granted \cup cancel) /\ w # r /\ w \in Wakeable(r)
      BY <1>1 DEF Wakeable
    <2>2. CASE g \in granted
      BY <2>1, <2>2 DEF LineInv
    <2>3. CASE g \in woken
      <3>1. w \notin ahead[g] /\ g \in Waiting /\ g # w
        BY <1>4, <2>1, <2>3 DEF Wakeable
      <3>2. QED
        BY <2>1, <3>1 DEF LineInv
    <2>4. QED
      BY <1>4, <2>2, <2>3
  <1>5. QED
    BY <1>2, <1>3, <1>4 DEF LineInv

\* A step in which nobody comes to hold a slot is in turn.
LEMMA NobodyEnters ==
    ASSUME Counts, NEW r \in Req, NEW place \in Places, Go(r, place),
           place \notin Executing \/ pc[r] \in Executing
    PROVE  InTurn
  <1>1. SlotHolders' \subseteq SlotHolders
    BY Moves DEF Counts, SlotHolders
  <1>2. QED
    BY <1>1 DEF InTurn

\* A task that is not in line moves on without joining it.
LEMMA LineMoveOn ==
    ASSUME Counts, LineInv, NEW r \in Req, NEW place \in Places, place # "queued",
           Go(r, place), place \notin Executing \/ pc[r] \in Executing,
           place \in Early => pc[r] \in Early, pc[r] # "queued",
           UNCHANGED <<granted, ahead>>, cancel \ {r} \subseteq cancel'
    PROVE  Orderly
  <1>1. /\ granted \subseteq Waiting /\ r \notin Waiting
        /\ Waiting' = Waiting /\ \A q \in Req \ {r} : pc'[q] = pc[q]
        /\ pc'[r] = place
    BY Moves DEF Counts, SlotInv, Waiting
  <1>2. ASSUME NEW w \in Waiting', NEW q \in ahead'[w] PROVE pc'[q] \notin Early
    BY <1>1, <1>2 DEF LineInv, Go
  <1>3. LineInv'
    BY <1>1, <1>2 DEF LineInv
  <1>4. QED
    BY <1>3, NobodyEnters DEF Orderly

\* A task returns its slot: the first live waiter, if any, is granted it.
LEMMA LineReturn ==
    ASSUME Counts, LineInv, NEW r \in Req, NEW place \in Places \ Early,
           place # "queued", Go(r, place), place \notin Executing,
           ReturnSlot(r), UNCHANGED ahead, cancel \ {r} \subseteq cancel'
    PROVE  Orderly
  <1>1. ASSUME granted' = granted \ {r} PROVE LineInv'
    <2>1. {} \in SUBSET Wakeable(r) /\ granted' = (granted \ {r}) \cup {}
      BY <1>1
    <2>2. QED
      BY <2>1, LineServedInOrder
  <1>2. ASSUME NEW w \in FirstOf(Wakeable(r)), granted' = (granted \ {r}) \cup {w}
        PROVE  LineInv'
    <2>1. {w} \in SUBSET Wakeable(r) /\ ahead[w] \cap Wakeable(r) = {}
      BY DEF FirstOf
    <2>2. QED
      BY <1>2, <2>1, LineServedInOrder
  <1>3. LineInv'
    BY <1>1, <1>2 DEF ReturnSlot
  <1>4. QED
    BY <1>3, NobodyEnters DEF Orderly

\* A waiter leaves the line; when it has come to hold a slot it was granted one,
\* and so was ahead of every live waiter.
LEMMA LineOnward ==
    ASSUME Counts, LineInv, NEW r \in Req, NEW place \in Places \ Early,
           place # "queued", Go(r, place), NEW free, WakeOn(r, free),
           UNCHANGED ahead, cancel \ {r} \subseteq cancel',
           place \in Executing => pc[r] = "queued" /\ r \in granted
    PROVE  Orderly
  <1>1. LineInv'
    BY LineServedInOrder DEF WakeOn
  <1>2. CASE place \notin Executing
    BY <1>1, <1>2, NobodyEnters DEF Orderly
  <1>3. CASE pc[r] = "queued" /\ r \in granted
    <2>1. SlotHolders' \subseteq SlotHolders \cup {r} /\ Waiting' = Waiting \ {r}
      BY Moves DEF Counts
    <2>2. \A w \in Waiting \ (granted \cup cancel) : r \in ahead[w]
      BY <1>3 DEF LineInv
    <2>3. InTurn
      BY <1>3, <2>1, <2>2 DEF InTurn
    <2>4. QED
      BY <1>1, <2>3 DEF Orderly
  <1>4. QED
    BY <1>2, <1>3

\* A waiter gives up.
LEMMA LineLeave ==
    ASSUME Counts, LineInv, NEW r \in Req, NEW place \in Places \ Early,
           place # "queued", Go(r, place), LeaveLine(r), place \notin Executing,
           UNCHANGED ahead, cancel \ {r} \subseteq cancel'
    PROVE  Orderly
  BY LineOnward DEF LeaveLine

\* A task asks for a slot: it takes one past cancelled waiters only, or joins
\* the end of the line.
LEMMA LineAcquire ==
    ASSUME Counts, Typed, LineInv, NEW r \in Req, AcquireSlot(r), UNCHANGED cancel,
           pc[r] \in {"spawned", "catalog"}
    PROVE  Orderly
  <1>1. /\ pc \in [Req -> Places] /\ granted \subseteq Waiting /\ r \notin Waiting
        /\ ahead \in [Req -> SUBSET Req] /\ Waiting \subseteq Req
        /\ "queued" \in Places /\ "checking" \in Places /\ pc[r] \in Early
        /\ \A q \in Waiting : pc[q] \notin Early
    BY DEF Counts, SlotInv, Typed, Waiting, Places, Admitted, Executing, Early
  <1>2. CASE SlotsLocked
    <2>1. /\ Go(r, "queued") /\ UNCHANGED granted
          /\ ahead' = [ahead EXCEPT ![r] = Waiting]
      BY <1>2 DEF AcquireSlot
    <2>2. /\ Waiting' = Waiting \cup {r} /\ pc'[r] = "queued"
          /\ \A q \in Req \ {r} : pc'[q] = pc[q]
      BY <1>1, <2>1, Moves
    <2>3. ahead'[r] = Waiting /\ \A w \in Waiting : ahead'[w] = ahead[w]
      BY <1>1, <2>1
    <2>4. \A w \in Waiting : r \notin ahead[w]
      BY <1>1 DEF LineInv
    <2>5. \A q, w \in Waiting' : q # w => (q \in ahead'[w] <=> w \notin ahead'[q])
      BY <1>1, <2>2, <2>3, <2>4 DEF LineInv
    <2>6. ASSUME NEW w \in Waiting', NEW q \in ahead'[w] PROVE pc'[q] \notin Early
      <3>1. q \in Req /\ q # r /\ pc[q] \notin Early
        BY <1>1, <2>2, <2>3, <2>4, <2>6 DEF LineInv
      <3>2. QED
        BY <2>2, <3>1
    <2>7. \A g \in granted' : \A w \in Waiting' \ (granted' \cup cancel') : g \in ahead'[w]
      BY <1>1, <2>1, <2>2, <2>3 DEF LineInv
    <2>8. LineInv'
      BY <2>5, <2>6, <2>7 DEF LineInv
    <2>9. InTurn
      BY <2>1, <1>1, NobodyEnters DEF Executing
    <2>10. QED
      BY <2>8, <2>9 DEF Orderly
  <1>3. CASE ~SlotsLocked
    <2>1. Go(r, "checking") /\ UNCHANGED <<ahead, granted>>
      BY <1>3 DEF AcquireSlot
    <2>2. Waiting' = Waiting /\ \A q \in Req \ {r} : pc'[q] = pc[q]
          /\ pc'[r] = "checking"
      BY <1>1, <2>1, Moves
    <2>3. \A w \in Waiting : w \notin granted /\ w \in cancel
      BY <1>3 DEF SlotsLocked
    <2>4. ASSUME NEW w \in Waiting', NEW q \in ahead'[w] PROVE pc'[q] \notin Early
      BY <1>1, <2>1, <2>2, <2>4 DEF LineInv, Early
    <2>5. LineInv'
      BY <2>1, <2>2, <2>4 DEF LineInv
    <2>6. InTurn
      BY <2>3 DEF InTurn
    <2>7. QED
      BY <2>5, <2>6 DEF Orderly
  <1>4. QED
    BY <1>2, <1>3

\* Every step keeps the line in order and hands slots over in that order.
LEMMA StepIsOrderly ==
    ASSUME IInv, LineInv, [Next]_vars
    PROVE  Orderly
  <1>1. Counts /\ Typed /\ LineInv
    BY DEF IInv
  <1>2. ASSUME NEW r \in Req, WebCatalogFails(r) PROVE Orderly
    BY <1>1, <1>2, LineMoveOn
    DEF WebCatalogFails, At, Places, Admitted, Executing, Early
  <1>3. ASSUME NEW r \in Req, WebCatalogOk(r) PROVE Orderly
    BY <1>1, <1>3, LineMoveOn
    DEF WebCatalogOk, At, Places, Admitted, Executing, Early
  <1>4. ASSUME NEW r \in Req, WebStartFails(r) PROVE Orderly
    BY <1>1, <1>4, LineMoveOn
    DEF WebStartFails, At, Places, Admitted, Executing, Early
  <1>5. ASSUME NEW r \in Req, WebStream(r) PROVE Orderly
    BY <1>1, <1>5, LineMoveOn
    DEF WebStream, At, Places, Admitted, Executing, Early
  <1>6. ASSUME NEW r \in Req, WorkerStarts(r) PROVE Orderly
    BY <1>1, <1>6, LineAcquire
    DEF WorkerStarts, At, Places, Admitted, Executing, Early
  <1>7. ASSUME NEW r \in Req, WorkerQueueTimeout(r) PROVE Orderly
    BY <1>1, <1>7, LineLeave
    DEF WorkerQueueTimeout, WorkerEnds, At, Places, Admitted, Executing, Early
  <1>8. ASSUME NEW r \in Req, WorkerRefused(r) PROVE Orderly
    BY <1>1, <1>8, LineReturn
    DEF WorkerRefused, WorkerEnds, At, Places, Admitted, Executing, Early
  <1>9. ASSUME NEW r \in Req, WorkerRuns(r) PROVE Orderly
    BY <1>1, <1>9, LineMoveOn
    DEF WorkerRuns, At, Places, Admitted, Executing, Early
  <1>10. ASSUME NEW r \in Req, WorkerRunEnds(r) PROVE Orderly
    BY <1>1, <1>10, LineReturn
    DEF WorkerRunEnds, At, Places, Admitted, Executing, Early
  <1>11. ASSUME NEW r \in Req, WorkerEmits(r) PROVE Orderly
    BY <1>1, <1>11, LineMoveOn
    DEF WorkerEmits, At, Places, Admitted, Executing, Early
  <1>12. ASSUME NEW r \in Req, WorkerTerminates(r) PROVE Orderly
    BY <1>1, <1>12, LineMoveOn
    DEF WorkerTerminates, At, Places, Admitted, Executing, Early
  <1>13. ASSUME NEW r \in Req, WorkerStillborn(r) PROVE Orderly
    BY <1>1, <1>13, LineMoveOn
    DEF WorkerStillborn, At, Places, Admitted, Executing, Early
  <1>14. ASSUME NEW r \in Req, WorkerCancelled(r) PROVE Orderly
    BY <1>1, <1>14, LineMoveOn, LineReturn, LineLeave
    DEF WorkerCancelled, WorkerEnds, At, Places, Admitted, Executing, Early
  <1>15. ASSUME NEW r \in Req, ApiQueues(r) PROVE Orderly
    BY <1>1, <1>15, LineAcquire
    DEF ApiQueues, At, Places, Admitted, Executing, Early
  <1>16. ASSUME NEW r \in Req, ApiGivesUp(r) PROVE Orderly
    BY <1>1, <1>16, LineMoveOn, LineLeave
    DEF ApiGivesUp, ReleaseUnslotted, At, Places, Admitted, Executing, Early
  <1>17. ASSUME NEW r \in Req, ApiOpens(r) PROVE Orderly
    BY <1>1, <1>17, LineMoveOn
    DEF ApiOpens, At, Places, Admitted, Executing, Early
  <1>18. ASSUME NEW r \in Req, ApiFails(r) PROVE Orderly
    BY <1>1, <1>18, LineReturn
    DEF ApiFails, ReleaseAll, At, Places, Admitted, Executing, Early
  <1>19. ASSUME NEW r \in Req, ApiAnswered(r) PROVE Orderly
    BY <1>1, <1>19, LineMoveOn
    DEF ApiAnswered, At, Places, Admitted, Executing, Early
  <1>20. ASSUME NEW r \in Req, ApiReadEnds(r) PROVE Orderly
    BY <1>1, <1>20, LineMoveOn
    DEF ApiReadEnds, At, Places, Admitted, Executing, Early
  <1>21. ASSUME NEW r \in Req, ApiDrained(r) PROVE Orderly
    BY <1>1, <1>21, LineReturn
    DEF ApiDrained, ReleaseAll, At, Places, Admitted, Executing, Early
  <1>22. ASSUME NEW r \in Req, ApiStreamEnds(r) PROVE Orderly
    BY <1>1, <1>22, LineReturn
    DEF ApiStreamEnds, ReleaseAll, At, Places, Admitted, Executing, Early
  <1>23. ASSUME NEW r \in Req, ApiClosed(r) PROVE Orderly
    BY <1>1, <1>23, LineMoveOn
    DEF ApiClosed, At, Places, Admitted, Executing, Early
  <1>24. ASSUME NEW r \in Req, ApiCancelled(r) PROVE Orderly
    BY <1>1, <1>24, LineMoveOn, LineReturn, LineLeave
    DEF ApiCancelled, ReleaseAll, ReleaseUnslotted, At, Places, Admitted, Executing, Early
  <1>25. ASSUME NEW r \in Req, CheckRead(r) PROVE Orderly
    BY <1>1, <1>25, LineMoveOn
    DEF CheckRead, At, Places, Admitted, Executing, Early
  <1>26. ASSUME NEW r \in Req, SlotGranted(r) PROVE Orderly
    BY <1>1, <1>26, LineOnward DEF SlotGranted, At, Places, Admitted, Executing, Early
  <1>27. ASSUME NEW r \in Req, StreamReadsTerminator(r) PROVE Orderly
    BY <1>1, <1>27, LineKept DEF StreamReadsTerminator
  <1>28. ASSUME NEW r \in Req, StreamDisconnected(r) PROVE Orderly
    BY <1>1, <1>28, LineKept DEF StreamDisconnected
  <1>29. ASSUME NEW r \in Req, StreamCloses(r) PROVE Orderly
    BY <1>1, <1>29, LineKept DEF StreamCloses
  <1>30. ASSUME NEW r \in Req, NEW c \in Creds, Authenticate(r, c) PROVE Orderly
    BY <1>1, <1>30, LineMoveOn DEF Authenticate, At, Places, Admitted, Executing, Early
  <1>31. ASSUME NEW r \in Req, WebSubmit(r) PROVE Orderly
    BY <1>1, <1>31, LineMoveOn DEF WebSubmit, Admit, Refuse, At, Places, Admitted, Executing, Early
  <1>32. ASSUME NEW r \in Req, ApiSubmit(r) PROVE Orderly
    BY <1>1, <1>32, LineMoveOn DEF ApiSubmit, Admit, Refuse, At, Places, Admitted, Executing, Early
  <1>33. ASSUME NEW v \in Revokers, Revoke(v) PROVE Orderly
    BY <1>1, <1>33, LineKept DEF Revoke, RevokeCommits, RevokeCancels
  <1>34. ASSUME NEW c \in Creds, Expire(c) PROVE Orderly
    BY <1>1, <1>34, LineKept DEF Expire
  <1>35. CASE UNCHANGED vars \/ Quiet
    BY <1>1, <1>35, LineKept DEF vars, Quiet
  <1>36. QED
    BY <1>2, <1>3, <1>4, <1>5, <1>6, <1>7, <1>8, <1>9, <1>10, <1>11, <1>12,
       <1>13, <1>14, <1>15, <1>16, <1>17, <1>18, <1>19, <1>20, <1>21, <1>22,
       <1>23, <1>24, <1>25, <1>26, <1>27, <1>28, <1>29, <1>30, <1>31, <1>32,
       <1>33, <1>34, <1>35
    DEF Next, WebHandler, WebWorker, WebEvents, ApiTask

\* A permit may be taken past a waiter only when that waiter is cancelled or has
\* its own grant already, whoever times out, is cancelled or asks in between.
THEOREM SlotsGoInOrder == Spec => NoBarging
  <1>1. Init => LineInv
    BY DEF Init, LineInv, Waiting
  <1>2. IInv /\ LineInv /\ [Next]_vars => LineInv' /\ InTurn
    BY StepIsOrderly DEF Orderly
  <1>3. IInv /\ LineInv /\ [Next]_vars => [InTurn]_vars
    BY <1>2
  <1>4. QED
    BY <1>1, <1>2, <1>3, Inductive, PTL DEF Spec, NoBarging, InTurn

-----------------------------------------------------------------------------
(* ChatService implements BoundedModel.                                    *)

\* Request r moves on to a place, and none that was outside gets to the model
\* in one step.
Moved(r) ==
    \E place \in Places :
        Go(r, place) /\ (place \in Executing => pc[r] \in Admitted)

\* A step moves the task of one request, or none.
LEMMA StepMovesOne ==
    ASSUME [Next]_vars
    PROVE  UNCHANGED pc \/ \E r \in Req : Moved(r)
  <1>1. ASSUME NEW r \in Req, WebCatalogFails(r) PROVE Moved(r)
    BY <1>1 DEF WebCatalogFails, At, Moved, Executing, Admitted, Places
  <1>2. ASSUME NEW r \in Req, WebCatalogOk(r) PROVE Moved(r)
    BY <1>2 DEF WebCatalogOk, At, Moved, Executing, Admitted, Places
  <1>3. ASSUME NEW r \in Req, WebStartFails(r) PROVE Moved(r)
    BY <1>3 DEF WebStartFails, At, Moved, Executing, Admitted, Places
  <1>4. ASSUME NEW r \in Req, WebStream(r) PROVE Moved(r)
    BY <1>4 DEF WebStream, At, Moved, Executing, Admitted, Places
  <1>5. ASSUME NEW r \in Req, WorkerStarts(r) PROVE Moved(r)
    BY <1>5 DEF WorkerStarts, AcquireSlot, At, Moved, Executing, Admitted, Places
  <1>6. ASSUME NEW r \in Req, WorkerQueueTimeout(r) PROVE Moved(r)
    BY <1>6 DEF WorkerQueueTimeout, WorkerEnds, At, Moved, Executing, Admitted, Places
  <1>7. ASSUME NEW r \in Req, WorkerRefused(r) PROVE Moved(r)
    BY <1>7 DEF WorkerRefused, WorkerEnds, At, Moved, Executing, Admitted, Places
  <1>8. ASSUME NEW r \in Req, WorkerRuns(r) PROVE Moved(r)
    BY <1>8 DEF WorkerRuns, At, Moved, Executing, Admitted, Places
  <1>9. ASSUME NEW r \in Req, WorkerRunEnds(r) PROVE Moved(r)
    BY <1>9 DEF WorkerRunEnds, At, Moved, Executing, Admitted, Places
  <1>10. ASSUME NEW r \in Req, WorkerEmits(r) PROVE Moved(r)
    BY <1>10 DEF WorkerEmits, At, Moved, Executing, Admitted, Places
  <1>11. ASSUME NEW r \in Req, WorkerTerminates(r) PROVE Moved(r)
    BY <1>11 DEF WorkerTerminates, At, Moved, Executing, Admitted, Places
  <1>12. ASSUME NEW r \in Req, WorkerStillborn(r) PROVE Moved(r)
    BY <1>12 DEF WorkerStillborn, At, Moved, Executing, Admitted, Places
  <1>13. ASSUME NEW r \in Req, WorkerCancelled(r) PROVE Moved(r)
    BY <1>13 DEF WorkerCancelled, WorkerEnds, At, Moved, Executing, Admitted, Places
  <1>14. ASSUME NEW r \in Req, ApiQueues(r) PROVE Moved(r)
    BY <1>14 DEF ApiQueues, AcquireSlot, At, Moved, Executing, Admitted, Places
  <1>15. ASSUME NEW r \in Req, ApiGivesUp(r) PROVE Moved(r)
    BY <1>15 DEF ApiGivesUp, At, Moved, Executing, Admitted, Places
  <1>16. ASSUME NEW r \in Req, ApiOpens(r) PROVE Moved(r)
    BY <1>16 DEF ApiOpens, At, Moved, Executing, Admitted, Places
  <1>17. ASSUME NEW r \in Req, ApiFails(r) PROVE Moved(r)
    BY <1>17 DEF ApiFails, At, Moved, Executing, Admitted, Places
  <1>18. ASSUME NEW r \in Req, ApiAnswered(r) PROVE Moved(r)
    BY <1>18 DEF ApiAnswered, At, Moved, Executing, Admitted, Places
  <1>19. ASSUME NEW r \in Req, ApiReadEnds(r) PROVE Moved(r)
    BY <1>19 DEF ApiReadEnds, At, Moved, Executing, Admitted, Places
  <1>20. ASSUME NEW r \in Req, ApiDrained(r) PROVE Moved(r)
    BY <1>20 DEF ApiDrained, At, Moved, Executing, Admitted, Places
  <1>21. ASSUME NEW r \in Req, ApiStreamEnds(r) PROVE Moved(r)
    BY <1>21 DEF ApiStreamEnds, At, Moved, Executing, Admitted, Places
  <1>22. ASSUME NEW r \in Req, ApiClosed(r) PROVE Moved(r)
    BY <1>22 DEF ApiClosed, At, Moved, Executing, Admitted, Places
  <1>23. ASSUME NEW r \in Req, ApiCancelled(r) PROVE Moved(r)
    BY <1>23 DEF ApiCancelled, At, Moved, Executing, Admitted, Places
  <1>24. ASSUME NEW r \in Req, SlotGranted(r) PROVE Moved(r)
    BY <1>24 DEF SlotGranted, At, Moved, Executing, Admitted, Places
  <1>25. ASSUME NEW r \in Req, CheckRead(r) PROVE Moved(r)
    BY <1>25 DEF CheckRead, At, Moved, Executing, Admitted, Places
  <1>26. ASSUME NEW r \in Req, StreamReadsTerminator(r) PROVE UNCHANGED pc
    BY <1>26 DEF StreamReadsTerminator
  <1>27. ASSUME NEW r \in Req, StreamDisconnected(r) PROVE UNCHANGED pc
    BY <1>27 DEF StreamDisconnected
  <1>28. ASSUME NEW r \in Req, StreamCloses(r) PROVE UNCHANGED pc
    BY <1>28 DEF StreamCloses
  <1>29. ASSUME NEW r \in Req, NEW c \in Creds, Authenticate(r, c) PROVE Moved(r)
    BY <1>29 DEF Authenticate, Moved, Executing, Admitted, Places
  <1>30. ASSUME NEW r \in Req, WebSubmit(r) PROVE Moved(r)
    BY <1>30 DEF WebSubmit, Admit, Refuse, Moved, Executing, Admitted, Places
  <1>31. ASSUME NEW r \in Req, ApiSubmit(r) PROVE Moved(r)
    BY <1>31 DEF ApiSubmit, Admit, Refuse, Moved, Executing, Admitted, Places
  <1>32. ASSUME NEW v \in Revokers, Revoke(v) PROVE UNCHANGED pc
    BY <1>32 DEF Revoke, RevokeCommits, RevokeCancels
  <1>33. ASSUME NEW c \in Creds, Expire(c) PROVE UNCHANGED pc
    BY <1>33 DEF Expire
  <1>34. CASE UNCHANGED vars \/ Quiet
    BY <1>34 DEF vars, Quiet
  <1>35. QED
    BY <1>1, <1>2, <1>3, <1>4, <1>5, <1>6, <1>7, <1>8, <1>9, <1>10, <1>11,
       <1>12, <1>13, <1>14, <1>15, <1>16, <1>17, <1>18, <1>19, <1>20, <1>21,
       <1>22, <1>23, <1>24, <1>25, <1>26, <1>27, <1>28, <1>29, <1>30, <1>31,
       <1>32, <1>33, <1>34
    DEF Next, WebHandler, WebWorker, WebEvents, ApiTask

\* The size of a set is the same for both.
LEMMA SameSize == ASSUME NEW S PROVE Model!Cardinality(S) = Cardinality(S)
  BY DEF Model!Cardinality, Cardinality

\* What a moving request is to the abstract model: it enters, begins, finishes
\* or leaves; the limits follow from the counts after the step.
LEMMA MoveIsAbstract ==
    ASSUME Counts, Counts', NEW r \in Req, Moved(r)
    PROVE  Model!Next \/ UNCHANGED Model!vars
  <1>1. PICK place \in Places :
           Go(r, place) /\ (place \in Executing => pc[r] \in Admitted)
    BY DEF Moved
  <1>2. /\ SlotHolders' = IF place \in Executing THEN SlotHolders \cup {r}
                                                  ELSE SlotHolders \ {r}
        /\ Inside' = IF place \in Admitted THEN Inside \cup {r}
                                           ELSE Inside \ {r}
    BY <1>1, Moves DEF Counts
  <1>3. /\ r \in SlotHolders <=> pc[r] \in Executing
        /\ r \in Inside <=> pc[r] \in Admitted
        /\ Executing \subseteq Admitted /\ SlotHolders \subseteq Inside
    BY DEF SlotHolders, Inside, Admitted
  <1>4. /\ SlotHolders \in SUBSET Req /\ Inside \in SUBSET Req
        /\ granted' \in SUBSET Req
    BY DEF SlotHolders, Inside, Counts, SlotInv, Waiting
  <1>5. CASE place \in Admitted /\ r \notin Inside
    <2>1. Inside' = Inside \cup {r} /\ SlotHolders' = SlotHolders
      BY <1>1, <1>2, <1>3, <1>5
    <2>2. Cardinality(Inside') = Cardinality(Inside) + 1 /\ Cardinality(Inside) \in Nat
      BY <1>4, <1>5, <2>1, OneMore, RequestSets
    <2>3. Cardinality(Inside) < Capacity
      <3>1. admission' \in Nat /\ admission' + Cardinality(Inside') = Capacity
        BY DEF Counts, AdmissionInv, AdmissionConserved
      <3>2. Capacity \in Nat
        BY LimitAssumption DEF Capacity
      <3>3. QED
        BY <2>2, <3>1, <3>2
    <2>4. Model!Enter(r)
      BY <1>5, <2>1, <2>3, SameSize DEF Model!Enter
    <2>5. QED
      BY <2>4 DEF Model!Next
  <1>6. CASE place \in Executing /\ r \in Inside \ SlotHolders
    <2>1. SlotHolders' = SlotHolders \cup {r} /\ Inside' = Inside
      BY <1>2, <1>3, <1>6
    <2>2. /\ Cardinality(SlotHolders') = Cardinality(SlotHolders) + 1
          /\ Cardinality(SlotHolders) \in Nat /\ Cardinality(granted') \in Nat
      BY <1>4, <1>6, <2>1, OneMore, RequestSets
    <2>3. Cardinality(SlotHolders) < CHAT_CONCURRENCY
      <3>1. slots' \in Nat /\ slots' + Cardinality(granted') + Cardinality(SlotHolders')
                               = CHAT_CONCURRENCY
        BY DEF Counts, SlotInv, SlotsConserved
      <3>2. QED
        BY <2>2, <3>1, LimitAssumption
    <2>4. Model!Begin(r)
      BY <1>6, <2>1, <2>3, SameSize DEF Model!Begin
    <2>5. QED
      BY <2>4 DEF Model!Next
  <1>7. CASE place \in Admitted \ Executing /\ r \in SlotHolders
    <2>1. Model!Finish(r)
      BY <1>2, <1>3, <1>7 DEF Model!Finish
    <2>2. QED
      BY <2>1 DEF Model!Next
  <1>8. CASE place \notin Admitted /\ r \in Inside
    <2>1. Model!Leave(r)
      BY <1>2, <1>3, <1>8 DEF Model!Leave
    <2>2. QED
      BY <2>1 DEF Model!Next
  <1>9. CASE \/ place \in Executing /\ r \in SlotHolders
             \/ place \in Admitted \ Executing /\ r \in Inside \ SlotHolders
             \/ place \notin Admitted /\ r \notin Inside
    BY <1>2, <1>3, <1>9 DEF Model!vars
  <1>10. QED
    BY <1>1, <1>3, <1>5, <1>6, <1>7, <1>8, <1>9

\* The chat service implements the promise about its model: semaphores, line,
\* timers and cancellations together never let in more than Capacity, never let
\* more than CHAT_CONCURRENCY use the model, and nobody who is not inside.
THEOREM ImplementsBoundedModel == Spec => KeepsModelBounded
  <1>1. Init => Model!Init
    BY DEF Init, Model!Init, Inside, SlotHolders, Admitted, Executing
  <1>2. IInv /\ IInv' /\ [Next]_vars => [Model!Next]_(Model!vars)
    <2> SUFFICES ASSUME IInv, IInv', [Next]_vars
                 PROVE  Model!Next \/ UNCHANGED Model!vars
      OBVIOUS
    <2>1. CASE UNCHANGED pc
      BY <2>1 DEF Model!vars, Inside, SlotHolders
    <2>2. CASE \E r \in Req : Moved(r)
      BY <2>2, MoveIsAbstract DEF IInv
    <2>3. QED
      BY <2>1, <2>2, StepMovesOne
  <1>3. QED
    BY <1>1, <1>2, Inductive, PTL DEF Spec, KeepsModelBounded, Model!Spec

-----------------------------------------------------------------------------
(* ChatService keeps the contract with the event stream.                   *)

\* Where the worker of a chat whose stream has started can be.
WorkerPlaces == {"spawned", "queued", "checking", "checkedLive", "checkedDead", "running",
                 "emitting", "terminating", "ended", "stillborn"}

\* A stream belongs to a browser chat whose worker exists, and the terminator
\* is in the queue from the end of that worker on.
Streamed(r) ==
    /\ pc[r] \in {"idle", "authorized", "catalog", "returned"} => r \notin term
    /\ stream[r] # "none" => /\ IsWeb(r) /\ pc[r] \in WorkerPlaces
                             /\ r \in term <=> pc[r] = "ended"
Streams == \A r \in Req : Streamed(r)

\* The worker of r will resume with CancelledError.
IsDoomed(r) == r \in cancel /\ stream[r] # "none" /\ pc[r] \notin Over

\* The steps of the contract, for the chat r.
Turn(r) ==
    \/ Phase(r)' = Phase(r) /\ UNCHANGED <<stream[r], IsDoomed(r)>>
    \/ /\ stream[r] = "none" /\ stream'[r] = "open" /\ Phase(r)' = "fresh"
       /\ ~IsDoomed(r) /\ ~IsDoomed(r)'
    \/ /\ Phase(r) = "fresh" /\ Phase(r)' = "working" /\ ~IsDoomed(r) /\ ~IsDoomed(r)'
       /\ UNCHANGED stream[r]
    \/ /\ Phase(r) = "working" /\ Phase(r)' = "ending" /\ ~IsDoomed(r) /\ ~IsDoomed(r)'
       /\ UNCHANGED stream[r]
    \/ /\ Phase(r) \in {"working", "ending"} /\ Phase(r)' = "told" /\ ~IsDoomed(r)'
       /\ UNCHANGED stream[r]
    \/ /\ Phase(r) = "fresh" /\ Phase(r)' = "mute" /\ IsDoomed(r) /\ ~IsDoomed(r)'
       /\ UNCHANGED stream[r]
    \/ /\ stream[r] = "open" /\ stream'[r] = "leaving" /\ Phase(r) = "told"
       /\ Phase(r)' = Phase(r) /\ UNCHANGED IsDoomed(r)
    \/ /\ stream[r] = "open" /\ stream'[r] = "leaving" /\ Phase(r) # "fresh"
       /\ Phase(r)' = Phase(r)
       /\ IsDoomed(r)' <=> (Phase(r) \in {"working", "ending"} \/ IsDoomed(r))
    \/ /\ stream[r] = "leaving" /\ stream'[r] = "closed" /\ Phase(r) \in {"told", "mute"}
       /\ Phase(r)' = Phase(r) /\ UNCHANGED IsDoomed(r)

\* Nothing changes for the others.
Apart(r) ==
    \A q \in Req \ {r} : /\ pc'[q] = pc[q] /\ stream'[q] = stream[q] /\ cred'[q] = cred[q]
                         /\ q \in term' <=> q \in term
                         /\ q \in cancel' <=> q \in cancel

Shown(r) == Apart(r) /\ Streamed(r)' /\ Turn(r)

\* A step that no stream sees, or by which several workers are told to stop.
Hidden == UNCHANGED <<pc, stream, cred, term>> /\ cancel \subseteq cancel'

\* Each step is a turn of one chat or hidden.
LEMMA StepIsShown ==
    ASSUME IInv, Streams, [Next]_vars
    PROVE  Hidden \/ \E r \in Req : Shown(r)
  <1> USE DEF Shown, Apart, Turn, Streamed, Phase, IsDoomed, At, Go, IsWeb, IsApi, Over,
          WorkerPlaces, Hidden
  <1>1. /\ pc \in [Req -> Places] /\ stream \in [Req -> {"none", "open", "leaving", "closed"}]
        /\ cred \in [Req -> Creds \cup {NoCred}] /\ cancel \subseteq Req /\ term \subseteq Req
        /\ Sessions \cap Tokens = {} /\ Creds = Sessions \cup Tokens
    BY CredAssumption DEF IInv, Counts, Typed, Creds
  <1>2. \A r \in Req : /\ Streamed(r)
                       /\ pc[r] \in WebOnly => IsWeb(r)
                       /\ pc[r] \in ApiOnly => IsApi(r)
    BY DEF IInv, KindInv, Streams
  <1> USE DEF WebOnly, ApiOnly, Executing
  <1>3. ASSUME NEW r \in Req, WebCatalogFails(r) PROVE Shown(r)
    BY <1>1, <1>2, <1>3 DEF WebCatalogFails
  <1>4. ASSUME NEW r \in Req, WebCatalogOk(r) PROVE Shown(r)
    BY <1>1, <1>2, <1>4 DEF WebCatalogOk
  <1>5. ASSUME NEW r \in Req, WebStartFails(r) PROVE Shown(r)
    BY <1>1, <1>2, <1>5 DEF WebStartFails
  <1>6. ASSUME NEW r \in Req, WebStream(r) PROVE Shown(r)
    BY <1>1, <1>2, <1>6 DEF WebStream, Register
  <1>7. ASSUME NEW r \in Req, WorkerStarts(r) PROVE Shown(r)
    BY <1>1, <1>2, <1>7 DEF WorkerStarts, AcquireSlot
  <1>8. ASSUME NEW r \in Req, WorkerQueueTimeout(r) PROVE Shown(r)
    BY <1>1, <1>2, <1>8 DEF WorkerQueueTimeout, WorkerEnds
  <1>9. ASSUME NEW r \in Req, WorkerRefused(r) PROVE Shown(r)
    BY <1>1, <1>2, <1>9 DEF WorkerRefused, WorkerEnds
  <1>10. ASSUME NEW r \in Req, WorkerRuns(r) PROVE Shown(r)
    BY <1>1, <1>2, <1>10 DEF WorkerRuns
  <1>11. ASSUME NEW r \in Req, WorkerRunEnds(r) PROVE Shown(r)
    BY <1>1, <1>2, <1>11 DEF WorkerRunEnds
  <1>12. ASSUME NEW r \in Req, WorkerEmits(r) PROVE Shown(r)
    BY <1>1, <1>2, <1>12 DEF WorkerEmits
  <1>13. ASSUME NEW r \in Req, WorkerTerminates(r) PROVE Shown(r)
    BY <1>1, <1>2, <1>13 DEF WorkerTerminates
  <1>14. ASSUME NEW r \in Req, WorkerStillborn(r) PROVE Shown(r)
    BY <1>1, <1>2, <1>14 DEF WorkerStillborn
  <1>15. ASSUME NEW r \in Req, WorkerCancelled(r) PROVE Shown(r)
    BY <1>1, <1>2, <1>15 DEF WorkerCancelled, WorkerEnds
  <1>16. ASSUME NEW r \in Req, StreamReadsTerminator(r) PROVE Shown(r)
    BY <1>1, <1>2, <1>16 DEF StreamReadsTerminator
  <1>17. ASSUME NEW r \in Req, StreamDisconnected(r) PROVE Shown(r)
    BY <1>1, <1>2, <1>17 DEF StreamDisconnected
  <1>18. ASSUME NEW r \in Req, StreamCloses(r) PROVE Shown(r)
    BY <1>1, <1>2, <1>18 DEF StreamCloses
  <1>19. ASSUME NEW r \in Req, ApiQueues(r) PROVE Shown(r)
    BY <1>1, <1>2, <1>19 DEF ApiQueues, AcquireSlot
  <1>20. ASSUME NEW r \in Req, ApiGivesUp(r) PROVE Shown(r)
    BY <1>1, <1>2, <1>20 DEF ApiGivesUp
  <1>21. ASSUME NEW r \in Req, ApiOpens(r) PROVE Shown(r)
    BY <1>1, <1>2, <1>21 DEF ApiOpens
  <1>22. ASSUME NEW r \in Req, ApiFails(r) PROVE Shown(r)
    BY <1>1, <1>2, <1>22 DEF ApiFails
  <1>23. ASSUME NEW r \in Req, ApiAnswered(r) PROVE Shown(r)
    BY <1>1, <1>2, <1>23 DEF ApiAnswered
  <1>24. ASSUME NEW r \in Req, ApiReadEnds(r) PROVE Shown(r)
    BY <1>1, <1>2, <1>24 DEF ApiReadEnds
  <1>25. ASSUME NEW r \in Req, ApiDrained(r) PROVE Shown(r)
    BY <1>1, <1>2, <1>25 DEF ApiDrained
  <1>26. ASSUME NEW r \in Req, ApiStreamEnds(r) PROVE Shown(r)
    BY <1>1, <1>2, <1>26 DEF ApiStreamEnds
  <1>27. ASSUME NEW r \in Req, ApiClosed(r) PROVE Shown(r)
    BY <1>1, <1>2, <1>27 DEF ApiClosed
  <1>28. ASSUME NEW r \in Req, ApiCancelled(r) PROVE Shown(r)
    BY <1>1, <1>2, <1>28 DEF ApiCancelled
  <1>29. ASSUME NEW r \in Req, SlotGranted(r) PROVE Shown(r)
    BY <1>1, <1>2, <1>29 DEF SlotGranted
  <1>30. ASSUME NEW r \in Req, CheckRead(r) PROVE Shown(r)
    BY <1>1, <1>2, <1>30 DEF CheckRead
  <1>31. ASSUME NEW r \in Req, NEW c \in Creds, Authenticate(r, c) PROVE Shown(r)
    BY <1>1, <1>2, <1>31 DEF Authenticate
  <1>32. ASSUME NEW r \in Req, WebSubmit(r) PROVE Shown(r)
    BY <1>1, <1>2, <1>32 DEF WebSubmit, Admit, Refuse
  <1>33. ASSUME NEW r \in Req, ApiSubmit(r) PROVE Shown(r)
    BY <1>1, <1>2, <1>33 DEF ApiSubmit, Admit, Refuse
  <1>34. ASSUME NEW v \in Revokers, NEW u \in Users, RevokeCommits(v, u) PROVE Hidden
    BY <1>34 DEF RevokeCommits
  <1>35. ASSUME NEW v \in Revokers, NEW u \in Users, RevokeCancels(v, u) PROVE Hidden
    BY <1>35 DEF RevokeCancels
  <1>36. ASSUME NEW c \in Creds, Expire(c) PROVE Hidden
    BY <1>36 DEF Expire
  <1>37. ASSUME UNCHANGED vars \/ Quiet PROVE Hidden
    <2>1. UNCHANGED vars
      BY <1>37 DEF Quiet
    <2>2. QED
      BY <2>1 DEF vars
  <1> HIDE DEF Shown, Hidden
  <1>38. QED
    BY <1>3, <1>4, <1>5, <1>6, <1>7, <1>8, <1>9, <1>10, <1>11, <1>12, <1>13,
       <1>14, <1>15, <1>16, <1>17, <1>18, <1>19, <1>20, <1>21, <1>22, <1>23,
       <1>24, <1>25, <1>26, <1>27, <1>28, <1>29, <1>30, <1>31, <1>32, <1>33,
       <1>34, <1>35, <1>36, <1>37
    DEF Next, WebHandler, WebWorker, WebEvents, ApiTask, Revoke

\* Streams are where their workers allow.
LEMMA StreamsInitially == Init => Streams
  BY DEF Init, Streams, Streamed
LEMMA StreamsStay == IInv /\ Streams /\ [Next]_vars => Streams'
  <1> SUFFICES ASSUME IInv, Streams, Hidden \/ \E r \in Req : Shown(r)
               PROVE  Streams'
    BY StepIsShown
  <1>1. CASE Hidden
    BY <1>1 DEF Hidden, Streams, Streamed, IsWeb
  <1>2. ASSUME NEW r \in Req, Shown(r) PROVE Streams'
    <2>1. Streamed(r)'
      BY <1>2 DEF Shown
    <2>2. ASSUME NEW q \in Req \ {r} PROVE Streamed(q)'
      BY <1>2, <2>2 DEF Shown, Apart, Streams, Streamed, IsWeb
    <2>3. QED
      BY <2>1, <2>2 DEF Streams
  <1>3. QED
    BY <1>1, <1>2

\* What the contract sees.
Phases == [r \in Req |-> Phase(r)]
Doomed == {r \in cancel : stream[r] # "none" /\ pc[r] \notin Over}

\* The turn of one chat changes what the contract sees of that chat only.
LEMMA TurnMovesOne ==
    ASSUME IInv, IInv', NEW r \in Req, Shown(r)
    PROVE  /\ Phases' = [Phases EXCEPT ![r] = Phase(r)'] /\ Phases[r] = Phase(r)
           /\ stream' = [stream EXCEPT ![r] = stream'[r]]
           /\ Doomed' = IF IsDoomed(r)' THEN Doomed \cup {r} ELSE Doomed \ {r}
           /\ r \in Doomed <=> IsDoomed(r)
  <1>1. /\ cancel \subseteq Req /\ cancel' \subseteq Req
        /\ stream \in [Req -> {"none", "open", "leaving", "closed"}]
        /\ stream' \in [Req -> {"none", "open", "leaving", "closed"}]
    BY DEF IInv, Typed
  <1>2. \A q \in Req \ {r} : Phase(q)' = Phase(q) /\ (IsDoomed(q)' <=> IsDoomed(q))
    BY DEF Shown, Apart, Phase, IsDoomed
  <1>3. Phases' = [Phases EXCEPT ![r] = Phase(r)'] /\ Phases[r] = Phase(r)
    <2>1. Phases' = [q \in Req |-> Phase(q)'] /\ Phases = [q \in Req |-> Phase(q)]
      BY DEF Phases
    <2>2. \A q \in Req : Phase(q)' = IF q = r THEN Phase(r)' ELSE Phase(q)
      BY <1>2
    <2>3. QED
      BY <2>1, <2>2
  <1>4. stream' = [stream EXCEPT ![r] = stream'[r]]
    <2>1. \A q \in Req \ {r} : stream'[q] = stream[q]
      BY DEF Shown, Apart
    <2>2. QED
      BY <1>1, <2>1
  <1>5. Doomed = {q \in Req : IsDoomed(q)} /\ Doomed' = {q \in Req : IsDoomed(q)'}
    BY <1>1 DEF Doomed, IsDoomed
  <1>6. QED
    BY <1>2, <1>3, <1>4, <1>5

\* Each turn is a step of the contract.
LEMMA TurnIsKept ==
    ASSUME IInv, IInv', NEW r \in Req, Shown(r)
    PROVE  [Contract!Next]_(Contract!vars)
  <1>1. /\ Phases' = [Phases EXCEPT ![r] = Phase(r)'] /\ Phases[r] = Phase(r)
        /\ stream' = [stream EXCEPT ![r] = stream'[r]]
        /\ Doomed' = IF IsDoomed(r)' THEN Doomed \cup {r} ELSE Doomed \ {r}
        /\ r \in Doomed <=> IsDoomed(r)
    BY TurnMovesOne
  <1>2. /\ Phase(r)' = Phase(r) => UNCHANGED Phases
        /\ UNCHANGED stream[r] => UNCHANGED stream
        /\ (IsDoomed(r)' <=> IsDoomed(r)) => UNCHANGED Doomed
        /\ ~IsDoomed(r)' => Doomed' = Doomed \ {r}
    <2>1. Phases = [Phases EXCEPT ![r] = Phases[r]]
      BY DEF Phases
    <2>2. stream = [stream EXCEPT ![r] = stream[r]]
      BY DEF IInv, Typed
    <2>3. QED
      BY <1>1, <2>1, <2>2
  <1>3. CASE Phase(r)' = Phase(r) /\ UNCHANGED <<stream[r], IsDoomed(r)>>
    BY <1>2, <1>3 DEF Contract!vars, Phases, Doomed
  <1>4. CASE /\ stream[r] = "none" /\ stream'[r] = "open" /\ Phase(r)' = "fresh"
             /\ ~IsDoomed(r) /\ ~IsDoomed(r)'
    <2>1. Contract!Opens(r)
      BY <1>1, <1>2, <1>4 DEF Contract!Opens, Contract!Reads, Contract!Turns, Phases, Doomed
    <2>2. QED
      BY <2>1 DEF Contract!Next, Contract!Step
  <1>5. CASE /\ Phase(r) = "fresh" /\ Phase(r)' = "working" /\ ~IsDoomed(r) /\ ~IsDoomed(r)'
             /\ UNCHANGED stream[r]
    <2>1. Contract!Starts(r)
      BY <1>1, <1>2, <1>5 DEF Contract!Starts, Contract!Turns, Phases, Doomed
    <2>2. QED
      BY <2>1 DEF Contract!Next, Contract!Step
  <1>6. CASE /\ Phase(r) = "working" /\ Phase(r)' = "ending" /\ ~IsDoomed(r) /\ ~IsDoomed(r)'
             /\ UNCHANGED stream[r]
    <2>1. Contract!Concludes(r)
      BY <1>1, <1>2, <1>6 DEF Contract!Concludes, Contract!Turns, Phases, Doomed
    <2>2. QED
      BY <2>1 DEF Contract!Next, Contract!Step
  <1>7. CASE /\ Phase(r) \in {"working", "ending"} /\ Phase(r)' = "told" /\ ~IsDoomed(r)'
             /\ UNCHANGED stream[r]
    <2>1. Contract!Tells(r)
      BY <1>1, <1>2, <1>7 DEF Contract!Tells, Contract!Turns, Phases, Doomed
    <2>2. QED
      BY <2>1 DEF Contract!Next, Contract!Step
  <1>8. CASE /\ Phase(r) = "fresh" /\ Phase(r)' = "mute" /\ IsDoomed(r) /\ ~IsDoomed(r)'
             /\ UNCHANGED stream[r]
    <2>1. Contract!Vanishes(r)
      BY <1>1, <1>2, <1>8 DEF Contract!Vanishes, Contract!Turns, Phases, Doomed
    <2>2. QED
      BY <2>1 DEF Contract!Next, Contract!Step
  <1>9. CASE /\ stream[r] = "open" /\ stream'[r] = "leaving" /\ Phase(r) = "told"
             /\ Phase(r)' = Phase(r) /\ UNCHANGED IsDoomed(r)
    <2>1. Contract!ReadsEnd(r)
      BY <1>1, <1>2, <1>9 DEF Contract!ReadsEnd, Contract!Reads, Phases, Doomed
    <2>2. QED
      BY <2>1 DEF Contract!Next, Contract!Step
  <1>10. CASE /\ stream[r] = "open" /\ stream'[r] = "leaving" /\ Phase(r) # "fresh"
              /\ Phase(r)' = Phase(r)
              /\ IsDoomed(r)' <=> (Phase(r) \in {"working", "ending"} \/ IsDoomed(r))
    <2>1. Contract!Cuts(r)
      BY <1>1, <1>2, <1>10 DEF Contract!Cuts, Contract!Reads, Contract!Alive, Phases, Doomed
    <2>2. QED
      BY <2>1 DEF Contract!Next, Contract!Step
  <1>11. CASE /\ stream[r] = "leaving" /\ stream'[r] = "closed" /\ Phase(r) \in {"told", "mute"}
              /\ Phase(r)' = Phase(r) /\ UNCHANGED IsDoomed(r)
    <2>1. Contract!Closes(r)
      BY <1>1, <1>2, <1>11 DEF Contract!Closes, Contract!Reads, Contract!Gone, Phases, Doomed
    <2>2. QED
      BY <2>1 DEF Contract!Next, Contract!Step
  <1>12. QED
    BY <1>3, <1>4, <1>5, <1>6, <1>7, <1>8, <1>9, <1>10, <1>11 DEF Shown, Turn

\* A hidden step tells workers to stop, or the contract does not see it.
LEMMA HiddenIsKept ==
    ASSUME IInv, IInv', Hidden
    PROVE  [Contract!Next]_(Contract!vars)
  <1>1. /\ cancel \subseteq Req /\ cancel' \subseteq Req /\ cancel \subseteq cancel'
        /\ UNCHANGED stream
    BY DEF IInv, Typed, Hidden
  <1>2. /\ UNCHANGED Phases
        /\ Doomed \subseteq Doomed' /\ Doomed' \subseteq Req
    BY <1>1 DEF Hidden, Phases, Phase, Doomed
  <1>3. \A r \in Doomed' : Phases[r] \in Contract!Alive
    <2>1. ASSUME NEW r \in Doomed' PROVE Phases[r] \in Contract!Alive
      <3>1. r \in Req /\ stream[r] # "none" /\ pc[r] \notin Over
        BY <1>1, <2>1 DEF Hidden, Doomed
      <3>2. Phases[r] = Phase(r) /\ Phase(r) \in {"fresh", "working", "ending"}
        BY <3>1 DEF Phases, Phase
      <3>3. QED
        BY <3>2 DEF Contract!Alive
    <2>2. QED
      BY <2>1
  <1>4. Contract!Dooms
    BY <1>1, <1>2, <1>3 DEF Contract!Dooms, Phases, Doomed
  <1>5. QED
    BY <1>4 DEF Contract!Next

\* No chat has begun at first.
LEMMA ContractInitially == Init => Contract!Init
  <1> SUFFICES ASSUME Init PROVE Contract!Init
    OBVIOUS
  <1>1. /\ stream = [r \in Req |-> "none"] /\ cancel = {}
    BY DEF Init
  <1>2. Phases = [r \in Req |-> "none"] /\ Doomed = {}
    BY <1>1 DEF Phases, Phase, Doomed
  <1>3. /\ Phases = [c \in Req |-> IF c \in {} THEN "working" ELSE "none"]
        /\ stream = [c \in Req |-> IF c \in {} THEN "open" ELSE "none"]
    BY <1>1, <1>2
  <1>4. QED
    BY <1>2, <1>3 DEF Contract!Init, Phases, Doomed

\* Initially, and in every step, the contract is kept.
LEMMA ContractKept ==
    /\ Init => IInv /\ Streams /\ Contract!Init
    /\ IInv /\ Streams /\ [Next]_vars /\ IInv' => Streams' /\ [Contract!Next]_(Contract!vars)
  <1>1. Init => IInv /\ Streams /\ Contract!Init
    BY InitIInv, StreamsInitially, ContractInitially
  <1>2. ASSUME IInv, Streams, [Next]_vars, IInv'
        PROVE  Streams' /\ [Contract!Next]_(Contract!vars)
    BY <1>2, StreamsStay, StepIsShown, TurnIsKept, HiddenIsKept
  <1>3. QED
    BY <1>1, <1>2

\* Handlers, workers, streams, timers and revocations keep the contract of the
\* event streams, for each chat and all of them side by side.
THEOREM ChatsKeepContract == Spec => KeepsStreamContract
  BY ContractKept, Inductive, PTL DEF Spec, KeepsStreamContract, Contract!Spec

\* One chat has left no worker behind.
Left(c, phase, reader, doomed) ==
    /\ reader = "closed" => phase \in {"told", "mute"}
    /\ reader = "leaving" /\ phase \in {"fresh", "working", "ending"} => c \in doomed

\* The contract leaves no worker behind.
LEMMA ContractLeavesNone ==
    ASSUME DOMAIN Phases = Req, DOMAIN stream = Req, Contract!NoneLeftBehind,
           [Contract!Next]_(Contract!vars)
    PROVE  Contract!NoneLeftBehind'
  <1>1. \A c \in Req : Left(c, Phases[c], stream[c], Doomed)
    BY DEF Contract!NoneLeftBehind, Contract!Gone, Contract!Alive, Phases, Doomed, Left
  <1> SUFFICES ASSUME NEW c \in Req
               PROVE  Left(c, Phases'[c], stream'[c], Doomed')
    BY DEF Contract!NoneLeftBehind, Contract!Gone, Contract!Alive, Phases, Doomed, Left
  <1>2. Left(c, Phases[c], stream[c], Doomed)
    BY <1>1
  <1>3. ASSUME NEW r \in Req, Contract!Opens(r)
        PROVE  Left(c, Phases'[c], stream'[c], Doomed')
    <2>1. /\ stream[r] = "none" /\ stream' = [stream EXCEPT ![r] = "open"]
          /\ Phases' = [Phases EXCEPT ![r] = "fresh"] /\ UNCHANGED Doomed
      BY <1>3 DEF Contract!Opens, Contract!Turns, Contract!Reads, Phases, Doomed
    <2>2. QED
      BY <1>2, <2>1 DEF Left
  <1>4. ASSUME NEW r \in Req, Contract!Starts(r)
        PROVE  Left(c, Phases'[c], stream'[c], Doomed')
    <2>1. /\ Phases[r] = "fresh" /\ r \notin Doomed
          /\ Phases' = [Phases EXCEPT ![r] = "working"] /\ UNCHANGED <<Doomed, stream>>
      BY <1>4 DEF Contract!Starts, Contract!Turns, Phases, Doomed
    <2>2. QED
      BY <1>2, <2>1 DEF Left
  <1>5. ASSUME NEW r \in Req, Contract!Concludes(r)
        PROVE  Left(c, Phases'[c], stream'[c], Doomed')
    <2>1. /\ Phases[r] = "working" /\ r \notin Doomed
          /\ Phases' = [Phases EXCEPT ![r] = "ending"] /\ UNCHANGED <<Doomed, stream>>
      BY <1>5 DEF Contract!Concludes, Contract!Turns, Phases, Doomed
    <2>2. QED
      BY <1>2, <2>1 DEF Left
  <1>6. ASSUME NEW r \in Req, Contract!Tells(r)
        PROVE  Left(c, Phases'[c], stream'[c], Doomed')
    <2>1. /\ Phases[r] \in {"working", "ending"} /\ Doomed' = Doomed \ {r}
          /\ Phases' = [Phases EXCEPT ![r] = "told"] /\ UNCHANGED stream
      BY <1>6 DEF Contract!Tells, Contract!Turns, Phases, Doomed
    <2>2. QED
      BY <1>2, <2>1 DEF Left
  <1>7. ASSUME NEW r \in Req, Contract!Vanishes(r)
        PROVE  Left(c, Phases'[c], stream'[c], Doomed')
    <2>1. /\ Doomed' = Doomed \ {r}
          /\ Phases' = [Phases EXCEPT ![r] = "mute"] /\ UNCHANGED stream
      BY <1>7 DEF Contract!Vanishes, Contract!Turns, Phases, Doomed
    <2>2. QED
      BY <1>2, <2>1 DEF Left
  <1>8. ASSUME NEW r \in Req, Contract!ReadsEnd(r)
        PROVE  Left(c, Phases'[c], stream'[c], Doomed')
    <2>1. /\ Phases[r] = "told" /\ UNCHANGED <<Phases, Doomed>>
          /\ stream' = [stream EXCEPT ![r] = "leaving"]
      BY <1>8 DEF Contract!ReadsEnd, Contract!Reads, Phases, Doomed
    <2>2. QED
      BY <1>2, <2>1 DEF Left
  <1>9. ASSUME NEW r \in Req, Contract!Cuts(r)
        PROVE  Left(c, Phases'[c], stream'[c], Doomed')
    <2>1. /\ UNCHANGED Phases /\ stream[r] = "open"
          /\ stream' = [stream EXCEPT ![r] = "leaving"]
          /\ Doomed' = IF Phases[r] \in {"fresh", "working", "ending"} THEN Doomed \cup {r} ELSE Doomed
      BY <1>9 DEF Contract!Cuts, Contract!Reads, Contract!Alive, Phases, Doomed
    <2>2. QED
      BY <1>2, <2>1 DEF Left
  <1>10. ASSUME NEW r \in Req, Contract!Closes(r)
        PROVE  Left(c, Phases'[c], stream'[c], Doomed')
    <2>1. /\ Phases[r] \in {"told", "mute"} /\ UNCHANGED <<Phases, Doomed>>
          /\ stream' = [stream EXCEPT ![r] = "closed"]
      BY <1>10 DEF Contract!Closes, Contract!Reads, Contract!Gone, Phases, Doomed
    <2>2. QED
      BY <1>2, <2>1 DEF Left
  <1>11. CASE Contract!Dooms
    <2>1. Doomed \subseteq Doomed' /\ UNCHANGED <<Phases, stream>>
      BY <1>11 DEF Contract!Dooms, Phases, Doomed
    <2>2. QED
      BY <1>2, <2>1 DEF Left
  <1>12. CASE UNCHANGED Contract!vars
    <2>1. UNCHANGED <<Phases, Doomed, stream>>
      BY <1>12 DEF Contract!vars, Phases, Doomed
    <2>2. QED
      BY <1>2, <2>1
  <1>13. QED
    BY <1>3, <1>4, <1>5, <1>6, <1>7, <1>8, <1>9, <1>10, <1>11, <1>12 DEF Contract!Next, Contract!Step

\* What the contract gives: no worker outlives its stream, and one that is
\* alive behind a stream that has left has been told to stop.  event_stream() may
\* therefore forget the task when it closes.
THEOREM NoWorkerLeftBehind == Spec => []Contract!NoneLeftBehind
  <1>1. Init => Contract!NoneLeftBehind
    BY DEF Init, Contract!NoneLeftBehind
  <1>2. IInv => DOMAIN Phases = Req /\ DOMAIN stream = Req
    BY DEF IInv, Typed, Phases
  <1>3. IInv /\ Contract!NoneLeftBehind /\ [Contract!Next]_(Contract!vars)
           => Contract!NoneLeftBehind'
    BY <1>2, ContractLeavesNone
  <1>4. QED
    BY <1>1, <1>3, ContractKept, Inductive, PTL DEF Spec

=============================================================================
