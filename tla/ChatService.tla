---------------------------- MODULE ChatService ----------------------------
(***************************************************************************)
(* The chat service of services/assistant-web: browser chats (/api/chat)   *)
(* and gateway requests (/v1/chat/completions) that share one bounded      *)
(* admission semaphore, one model-slot semaphore and the registry of       *)
(* cancellable tasks (app.state.chat_admission, chat_slots, active_chats), *)
(* together with the handlers that revoke credentials and cancel work.     *)
(*                                                                         *)
(* asyncio runs one event loop, so an action is the code between two       *)
(* suspension points.  A request's task is suspended at pc[r]; a browser   *)
(* chat has a second task, its event stream, at stream[r].                 *)
(***************************************************************************)
EXTENDS Naturals, FiniteSets

CONSTANTS
    Req,                \* requests, each used once
    Users,
    Sessions, Tokens,   \* browser sessions and API tokens
    Owner,              \* the user each credential belongs to
    Revokers,           \* logout, revoke-token and change-password handlers
    ExpiryOn,           \* whether credentials may reach their expiry
    NoCred, NoUser,
    CHAT_CONCURRENCY,   \* requests that may use the model at once
    CHAT_PENDING        \* admitted requests beyond those

Creds == Sessions \cup Tokens

ASSUME ReqAssumption  == IsFiniteSet(Req)
ASSUME CredAssumption ==
    /\ Sessions \cap Tokens = {}
    /\ Owner \in [Creds -> Users]
    /\ NoCred \notin Creds
    /\ NoUser \notin Users
    /\ ExpiryOn \in BOOLEAN
ASSUME LimitAssumption ==
    /\ CHAT_CONCURRENCY \in Nat \ {0}
    /\ CHAT_PENDING \in Nat

Capacity == CHAT_CONCURRENCY + CHAT_PENDING

VARIABLES
    admission,  \* chat_admission: permits left (it never has waiters)
    slots,      \* chat_slots: permits left
    granted,    \* waiters of chat_slots whose future has its result
    ahead,      \* ahead[r]: the waiters already in line when r joined it
    active,     \* active_chats: the registered tasks of each user
    status,     \* each credential: live, expired or revoked
    cred,       \* the credential a request authenticated with
    pc,         \* where the request's task is suspended
    cancel,     \* tasks that will resume with CancelledError
    stream,     \* a browser chat's event_stream()
    term,       \* chats whose event queue holds the None terminator
    revoker     \* progress of each revoking handler and the user it serves

vars == <<admission, slots, granted, ahead, active, status, cred, pc, cancel,
          stream, term, revoker>>

-----------------------------------------------------------------------------
(* Where a request's task can be suspended.                                *)

Executing ==            \* holds a model slot
    {"checking", "checkedLive", "checkedDead", "running", "opening",
     "reading", "streaming", "draining"}
Admitted ==             \* holds an admission permit
    Executing \cup {"catalog", "returned", "spawned", "queued", "emitting",
                    "unstreamed", "stillborn"}
Over == {"ended", "stillborn", "unstreamed"}
Places == Admitted \cup {"idle", "authorized", "terminating", "closing", "ended"}

IsWeb(r)  == cred[r] \in Sessions
IsApi(r)  == cred[r] \in Tokens
UserOf(r) == Owner[cred[r]]

SlotHolders == {r \in Req : pc[r] \in Executing}
Inside      == {r \in Req : pc[r] \in Admitted}
Waiting     == {r \in Req : pc[r] = "queued"}

At(r, place) == pc[r] = place /\ r \notin cancel
Go(r, place) == pc' = [pc EXCEPT ![r] = place]

-----------------------------------------------------------------------------
(* The two semaphores.                                                     *)

\* Semaphore.locked(): a cancelled waiter still in the deque does not count.
SlotsLocked == slots = 0 \/ \E w \in Waiting : w \in granted \/ w \notin cancel

\* The waiters release() may wake, and the first of them in line.
Wakeable(r) == {w \in Waiting : w \notin granted /\ w \notin cancel /\ w # r}
AnyOf(line) == line                     \* slip: the line is a set
FirstOf(line) == {w \in line : ahead[w] \cap line = {}}

\* slip: release() wakes nobody.
ReturnSlotQuietly(r) == slots' = slots + 1 /\ granted' = granted \ {r}

\* chat_slots.release() by r: one waiter is woken, or the permit stays free.
ReturnSlot(r) ==
    \/ /\ Wakeable(r) = {}
       /\ slots' = slots + 1
       /\ granted' = granted \ {r}
    \/ \E w \in FirstOf(Wakeable(r)) :
          /\ granted' = (granted \ {r}) \cup {w}
          /\ UNCHANGED slots

\* slip: the end of a wait wakes nobody.
WakeNobody(r, free) == slots' = free /\ granted' = granted \ {r}

\* The finally of acquire() when r leaves the line, with free permits at hand:
\* whoever joined behind a granted waiter while a permit was free is woken now,
\* the first in line first.
WakeOn(r, free) ==
    \E woken \in SUBSET Wakeable(r) :
        /\ Cardinality(woken) <= free
        /\ woken = Wakeable(r) \/ Cardinality(woken) = free
        /\ \A w \in woken : ahead[w] \cap Wakeable(r) \subseteq woken
        /\ slots' = free - Cardinality(woken)
        /\ granted' = (granted \ {r}) \cup woken

\* A waiter is cancelled or times out; a grant it already has is given back.
LeaveLine(r) == WakeOn(r, slots + (IF r \in granted THEN 1 ELSE 0))

\* chat_slots.acquire(): take a permit at once, or join the end of the line.
AcquireSlot(r) ==
    IF SlotsLocked
    THEN /\ Go(r, "queued")
         /\ ahead' = [ahead EXCEPT ![r] = Waiting]
         /\ UNCHANGED <<slots, granted>>
    ELSE /\ Go(r, "checking")
         /\ slots' = slots - 1
         /\ UNCHANGED <<ahead, granted>>

\* The check of chat_admission.locked() and the acquire that follows it run
\* without a suspension point between them.
Admit(r, place) ==
    /\ admission > 0
    /\ admission' = admission - 1
    /\ Go(r, place)

\* The queue is full; or, whatever its length, the body is refused or the user
\* has met the rate limit.
Refuse(r) == Go(r, "ended") /\ UNCHANGED <<admission, active>>

RegisterAlone(r, u) ==                  \* slip: = instead of setdefault
    active' = [active EXCEPT ![u] = {r}]
Register(r, u)   == active' = [active EXCEPT ![u] = @ \cup {r}]
Deregister(r, u) == active' = [active EXCEPT ![u] = @ \ {r}]

-----------------------------------------------------------------------------
(* The arrival of a request of either kind.                                *)

\* The database finds the request's session or token live.  The handler goes on
\* later: the task has to resume with that answer, and the gateway awaits the
\* request's body and both await the limiter before they ask for admission.
Authenticate(r, c) ==
    /\ At(r, "idle")
    /\ c \in Creds /\ status[c] = "live"
    /\ cred' = [cred EXCEPT ![r] = c]
    /\ Go(r, "authorized")
    /\ UNCHANGED <<admission, slots, granted, ahead, active, status, cancel,
                   stream, term, revoker>>

-----------------------------------------------------------------------------
(* Browser chats: the handler.                                             *)

WebSubmit(r) ==
    /\ At(r, "authorized") /\ IsWeb(r)
    /\ \/ Admit(r, "catalog") /\ UNCHANGED active
       \/ Refuse(r)
    /\ UNCHANGED <<slots, granted, ahead, status, cred, cancel, stream, term,
                   revoker>>

\* installed_models fails, or the model is not installed.
WebCatalogFails(r) ==
    /\ At(r, "catalog") /\ IsWeb(r)
    /\ admission' = admission + 1
    /\ Go(r, "ended")
    /\ UNCHANGED <<slots, granted, ahead, active, status, cred, cancel, stream,
                   term, revoker>>

WebCatalogOk(r) ==
    /\ At(r, "catalog") /\ IsWeb(r)
    /\ Go(r, "returned")
    /\ UNCHANGED <<admission, slots, granted, ahead, active, status, cred,
                   cancel, stream, term, revoker>>

\* Sending the response start raises: the body iterator is never started.
WebStartFails(r) ==
    /\ At(r, "returned")
    /\ Go(r, "unstreamed")
    /\ UNCHANGED <<admission, slots, granted, ahead, active, status, cred,
                   cancel, stream, term, revoker>>

\* event_stream() starts: it creates the worker task and registers it.
WebStream(r) ==
    /\ At(r, "returned")
    /\ Go(r, "spawned")
    /\ stream' = [stream EXCEPT ![r] = "open"]
    /\ Register(r, UserOf(r))
    /\ UNCHANGED <<admission, slots, granted, ahead, status, cred, cancel, term,
                   revoker>>

-----------------------------------------------------------------------------
(* Browser chats: the worker task.                                         *)

WorkerStarts(r) ==
    /\ At(r, "spawned")
    /\ AcquireSlot(r)
    /\ UNCHANGED <<admission, active, status, cred, cancel, stream, term, revoker>>

\* slip: the stream's finally releases the permit a second time.
WorkerEndsTwice(r) ==
    /\ admission' = admission + 2
    /\ term' = term \cup {r}
    /\ Go(r, "ended")

\* The outer finally of a worker whose event queue has room, or which is being
\* cancelled and so empties the queue: permit and terminator in one step.
WorkerEnds(r) ==
    /\ admission' = admission + 1
    /\ term' = term \cup {r}
    /\ Go(r, "ended")

WorkerQueueTimeout(r) ==
    /\ At(r, "queued") /\ IsWeb(r)
    /\ LeaveLine(r)
    /\ WorkerEnds(r)
    /\ UNCHANGED <<ahead, active, status, cred, cancel, stream, revoker>>

\* The session is gone, or reading it failed.
WorkerRefused(r) ==
    /\ At(r, "checking") \/ At(r, "checkedDead")
    /\ IsWeb(r)
    /\ ReturnSlot(r)
    /\ WorkerEnds(r)
    /\ UNCHANGED <<ahead, active, status, cred, cancel, stream, revoker>>

WorkerRuns(r) ==
    /\ At(r, "checkedLive") /\ IsWeb(r)
    /\ Go(r, "running")
    /\ UNCHANGED <<admission, slots, granted, ahead, active, status, cred,
                   cancel, stream, term, revoker>>

\* slip: no deadline on a run that is blocked on a full event queue.
WorkerRunsOn(r) ==
    /\ At(r, "running")
    /\ UNCHANGED vars

\* run_chat returns, fails, or meets the chat deadline.
WorkerRunEnds(r) ==
    /\ At(r, "running")
    /\ ReturnSlot(r)
    /\ Go(r, "emitting")
    /\ UNCHANGED <<admission, ahead, active, status, cred, cancel, stream, term,
                   revoker>>

\* The client has made room for the final "done" or "error" event.
WorkerEmits(r) ==
    /\ At(r, "emitting")
    /\ admission' = admission + 1
    /\ Go(r, "terminating")
    /\ UNCHANGED <<slots, granted, ahead, active, status, cred, cancel, stream,
                   term, revoker>>

WorkerTerminates(r) ==
    /\ At(r, "terminating")
    /\ term' = term \cup {r}
    /\ Go(r, "ended")
    /\ UNCHANGED <<admission, slots, granted, ahead, active, status, cred,
                   cancel, stream, revoker>>

\* CancelledError before the first step: the body, and its finally, never run.
WorkerStillborn(r) ==
    /\ pc[r] = "spawned" /\ r \in cancel
    /\ cancel' = cancel \ {r}
    /\ Go(r, "stillborn")
    /\ UNCHANGED <<admission, slots, granted, ahead, active, status, cred,
                   stream, term, revoker>>

\* slip: a cancelled worker waits for room for its terminator.
WorkerCancelledWaits(r) ==
    /\ r \in cancel /\ IsWeb(r)
    /\ pc[r] \in {"running", "emitting"}
    /\ cancel' = cancel \ {r}
    /\ admission' = admission + 1
    /\ Go(r, "terminating")
    /\ \/ pc[r] = "running" /\ ReturnSlot(r)
       \/ pc[r] = "emitting" /\ UNCHANGED <<slots, granted>>
    /\ UNCHANGED <<ahead, active, status, cred, stream, term, revoker>>

WorkerCancelled(r) ==
    /\ r \in cancel /\ IsWeb(r)
    /\ cancel' = cancel \ {r}
    /\ \/ pc[r] \in Executing /\ ReturnSlot(r) /\ WorkerEnds(r)
       \/ pc[r] = "queued" /\ LeaveLine(r) /\ WorkerEnds(r)
       \/ pc[r] = "emitting" /\ WorkerEnds(r) /\ UNCHANGED <<slots, granted>>
       \/ /\ pc[r] = "terminating"
          /\ term' = term \cup {r}
          /\ Go(r, "ended")
          /\ UNCHANGED <<admission, slots, granted>>
    /\ UNCHANGED <<ahead, active, status, cred, stream, revoker>>

-----------------------------------------------------------------------------
(* Browser chats: event_stream().                                          *)

StreamReadsTerminator(r) ==
    /\ stream[r] = "open" /\ r \in term
    /\ stream' = [stream EXCEPT ![r] = "leaving"]
    /\ UNCHANGED <<admission, slots, granted, ahead, active, status, cred, pc,
                   cancel, term, revoker>>

\* slip: the stream waits for its worker but does not cancel it.
StreamWaitsOnly(r) ==
    /\ stream[r] = "open" /\ pc[r] # "spawned"
    /\ stream' = [stream EXCEPT ![r] = "leaving"]
    /\ UNCHANGED <<admission, slots, granted, ahead, active, status, cred, pc,
                   cancel, term, revoker>>

\* The ready queue is FIFO and the stream's first wait comes after
\* create_task, so the worker has taken its first step by then.
StreamDisconnected(r) ==
    /\ stream[r] = "open" /\ pc[r] # "spawned"
    /\ stream' = [stream EXCEPT ![r] = "leaving"]
    /\ cancel' = IF pc[r] \in Over THEN cancel ELSE cancel \cup {r}
    /\ UNCHANGED <<admission, slots, granted, ahead, active, status, cred, pc,
                   term, revoker>>

\* await task has returned: forget the task, and the user's empty set.
StreamCloses(r) ==
    /\ stream[r] = "leaving" /\ pc[r] \in Over
    /\ stream' = [stream EXCEPT ![r] = "closed"]
    /\ Deregister(r, UserOf(r))
    /\ UNCHANGED <<admission, slots, granted, ahead, status, cred, pc, cancel,
                   term, revoker>>

-----------------------------------------------------------------------------
(* Gateway requests.                                                       *)

\* Admission and registration: what was true of the token when it was read may
\* be history by now, and a revoking handler may have cancelled already.
ApiSubmit(r) ==
    /\ At(r, "authorized") /\ IsApi(r)
    /\ \/ Admit(r, "catalog") /\ Register(r, UserOf(r))
       \/ Refuse(r)
    /\ UNCHANGED <<slots, granted, ahead, status, cred, cancel, stream, term,
                   revoker>>

\* The catalog answered and lists the model: go for a slot.
ApiQueues(r) ==
    /\ At(r, "catalog") /\ IsApi(r)
    /\ AcquireSlot(r)
    /\ UNCHANGED <<admission, active, status, cred, cancel, stream, term, revoker>>

\* release_resources() of a request that has, or has not, acquired its slot;
\* acquire() itself has seen to the line.
ReleaseAll(r) ==
    /\ ReturnSlot(r)
    /\ admission' = admission + 1
    /\ Deregister(r, UserOf(r))

ReleaseUnslotted(r) ==
    /\ admission' = admission + 1
    /\ Deregister(r, UserOf(r))
    /\ \/ pc[r] = "catalog" /\ UNCHANGED <<slots, granted>>
       \/ pc[r] = "queued" /\ LeaveLine(r)

\* The catalog fails, or a deadline passes, before a slot was acquired.
ApiGivesUp(r) ==
    /\ At(r, "catalog") \/ At(r, "queued")
    /\ IsApi(r)
    /\ ReleaseUnslotted(r)
    /\ Go(r, "ended")
    /\ UNCHANGED <<ahead, status, cred, cancel, stream, term, revoker>>

ApiOpens(r) ==
    /\ At(r, "checkedLive") /\ IsApi(r)
    /\ Go(r, "opening")
    /\ UNCHANGED <<admission, slots, granted, ahead, active, status, cred,
                   cancel, stream, term, revoker>>

\* The token is gone, a read or the upstream failed, or the deadline passed,
\* with a slot held and no upstream response open.
ApiFails(r) ==
    /\ At(r, "checking") \/ At(r, "checkedDead") \/ At(r, "opening")
    /\ IsApi(r)
    /\ ReleaseAll(r)
    /\ Go(r, "ended")
    /\ UNCHANGED <<ahead, status, cred, cancel, stream, term, revoker>>

\* The upstream answered: hand the stream off, read the JSON body, or refuse
\* a bad status or content type, which closes the upstream first.
ApiAnswered(r) ==
    /\ At(r, "opening")
    /\ \E place \in {"streaming", "reading", "draining"} : Go(r, place)
    /\ UNCHANGED <<admission, slots, granted, ahead, active, status, cred,
                   cancel, stream, term, revoker>>

\* The body was read, or reading it failed: the upstream is closed while the
\* slot is still held.
ApiReadEnds(r) ==
    /\ At(r, "reading")
    /\ Go(r, "draining")
    /\ UNCHANGED <<admission, slots, granted, ahead, active, status, cred,
                   cancel, stream, term, revoker>>

\* The bounded close ends.  It swallows a cancellation.
ApiDrained(r) ==
    /\ pc[r] = "draining"
    /\ ReleaseAll(r)
    /\ cancel' = cancel \ {r}
    /\ Go(r, "ended")
    /\ UNCHANGED <<ahead, status, cred, stream, term, revoker>>

\* The response ends in any way, failed headers included: cleanup_stream()
\* returns the capacity and only then closes the upstream.
ApiStreamEnds(r) ==
    /\ At(r, "streaming")
    /\ ReleaseAll(r)
    /\ Go(r, "closing")
    /\ UNCHANGED <<ahead, status, cred, cancel, stream, term, revoker>>

ApiClosed(r) ==
    /\ pc[r] = "closing"
    /\ Go(r, "ended")
    /\ UNCHANGED <<admission, slots, granted, ahead, active, status, cred,
                   cancel, stream, term, revoker>>

ApiCancelled(r) ==
    /\ r \in cancel /\ IsApi(r)
    /\ cancel' = cancel \ {r}
    /\ \/ /\ pc[r] \in {"catalog", "queued"}
          /\ ReleaseUnslotted(r)
          /\ Go(r, "ended")
       \/ /\ pc[r] \in {"checking", "checkedLive", "checkedDead", "opening"}
          /\ ReleaseAll(r)
          /\ Go(r, "ended")
       \/ /\ pc[r] = "streaming"
          /\ ReleaseAll(r)
          /\ Go(r, "closing")
       \/ /\ pc[r] = "reading"
          /\ Go(r, "draining")
          /\ UNCHANGED <<admission, slots, granted, active>>
    /\ UNCHANGED <<ahead, status, cred, stream, term, revoker>>

-----------------------------------------------------------------------------
(* Steps that both kinds of request share.                                 *)

\* The waiter resumes with the permit release() reserved for it.
SlotGranted(r) ==
    /\ At(r, "queued") /\ r \in granted
    /\ WakeOn(r, slots)
    /\ Go(r, "checking")
    /\ UNCHANGED <<admission, ahead, active, status, cred, cancel,
                   stream, term, revoker>>

\* slip: the gateway trusts after the queue the token checked on arrival.
CheckStale(r) ==
    /\ At(r, "checking")
    /\ Go(r, IF IsApi(r) \/ status[cred[r]] = "live" THEN "checkedLive" ELSE "checkedDead")
    /\ UNCHANGED <<admission, slots, granted, ahead, active, status, cred,
                   cancel, stream, term, revoker>>

\* The database answers the check made after the wait for the slot; the task
\* resumes with that answer later.
CheckRead(r) ==
    /\ At(r, "checking")
    /\ Go(r, IF status[cred[r]] = "live" THEN "checkedLive" ELSE "checkedDead")
    /\ UNCHANGED <<admission, slots, granted, ahead, active, status, cred,
                   cancel, stream, term, revoker>>

-----------------------------------------------------------------------------
(* Revocation: the handler commits to the database, then cancels.          *)

CredsOf(u) == {c \in Creds : Owner[c] = u}

\* delete_session and delete_api_token remove one credential, change_password
\* every credential of the user.
RevokeCommits(v, u) ==
    /\ revoker[v] = <<"idle", NoUser>>
    /\ \E gone \in {{c} : c \in CredsOf(u)} \cup {CredsOf(u)} :
          status' = [c \in Creds |-> IF c \in gone THEN "revoked" ELSE status[c]]
    /\ revoker' = [revoker EXCEPT ![v] = <<"committed", u>>]
    /\ UNCHANGED <<admission, slots, granted, ahead, active, cred, pc, cancel,
                   stream, term>>

RevokeCancels(v, u) ==
    /\ revoker[v] = <<"committed", u>>
    /\ cancel' = cancel \cup {r \in active[u] : pc[r] \notin Over}
    /\ revoker' = [revoker EXCEPT ![v] = <<"answered", u>>]
    /\ UNCHANGED <<admission, slots, granted, ahead, active, status, cred, pc,
                   stream, term>>

\* Expiry is only noticed when the credential is next looked up.
Expire(c) ==
    /\ ExpiryOn
    /\ status[c] = "live"
    /\ status' = [status EXCEPT ![c] = "expired"]
    /\ UNCHANGED <<admission, slots, granted, ahead, active, cred, pc, cancel,
                   stream, term, revoker>>

-----------------------------------------------------------------------------
Init ==
    /\ admission = Capacity
    /\ slots = CHAT_CONCURRENCY
    /\ granted = {}
    /\ ahead = [r \in Req |-> {}]
    /\ active = [u \in Users |-> {}]
    /\ status = [c \in Creds |-> "live"]
    /\ cred = [r \in Req |-> NoCred]
    /\ pc = [r \in Req |-> "idle"]
    /\ cancel = {}
    /\ stream = [r \in Req |-> "none"]
    /\ term = {}
    /\ revoker = [v \in Revokers |-> <<"idle", NoUser>>]

WebHandler(r) ==
    \/ WebSubmit(r)
    \/ WebCatalogFails(r) \/ WebCatalogOk(r) \/ WebStartFails(r) \/ WebStream(r)

WebWorker(r) ==
    \/ WorkerStarts(r) \/ WorkerQueueTimeout(r) \/ WorkerRefused(r)
    \/ WorkerRuns(r) \/ WorkerRunEnds(r) \/ WorkerEmits(r)
    \/ WorkerTerminates(r) \/ WorkerStillborn(r) \/ WorkerCancelled(r)

WebEvents(r) ==
    StreamReadsTerminator(r) \/ StreamDisconnected(r) \/ StreamCloses(r)

ApiTask(r) ==
    \/ ApiSubmit(r)
    \/ ApiQueues(r) \/ ApiGivesUp(r) \/ ApiOpens(r) \/ ApiFails(r)
    \/ ApiAnswered(r) \/ ApiReadEnds(r) \/ ApiDrained(r) \/ ApiStreamEnds(r)
    \/ ApiClosed(r) \/ ApiCancelled(r)

Revoke(v) == \E u \in Users : RevokeCommits(v, u) \/ RevokeCancels(v, u)

\* Every request that can authenticate has been served: the service is idle.
Quiet ==
    /\ \A r \in Req : \/ pc[r] = "idle" /\ \A c \in Creds : status[c] # "live"
                      \/ pc[r] \in Over /\ stream[r] \in {"none", "closed"}
    /\ UNCHANGED vars

Next ==
    \/ \E r \in Req : \/ \E c \in Creds : Authenticate(r, c)
                      \/ WebHandler(r) \/ WebWorker(r) \/ WebEvents(r)
                      \/ ApiTask(r) \/ SlotGranted(r) \/ CheckRead(r)
    \/ \E v \in Revokers : Revoke(v)
    \/ \E c \in Creds : Expire(c)
    \/ Quiet

Spec == Init /\ [][Next]_vars

-----------------------------------------------------------------------------
(* Safety.                                                                 *)

\* Every variable has its type: both semaphores stay within their limits, and
\* a task is only where its route can suspend it.
TypeOK ==
    /\ admission \in 0..Capacity
    /\ slots \in 0..CHAT_CONCURRENCY
    /\ granted \in SUBSET Req
    /\ ahead \in [Req -> SUBSET Req]
    /\ active \in [Users -> SUBSET Req]
    /\ status \in [Creds -> {"live", "expired", "revoked"}]
    /\ cred \in [Req -> Creds \cup {NoCred}]
    /\ pc \in [Req -> Places]
    /\ cancel \in SUBSET Req
    /\ stream \in [Req -> {"none", "open", "leaving", "closed"}]
    /\ term \in SUBSET Req
    /\ revoker \in [Revokers -> {<<"idle", NoUser>>}
                        \cup ({"committed", "answered"} \X Users)]

\* Every model slot is free, reserved for one waiter, or held by one request:
\* no early return, cancellation or timeout loses a slot or returns it twice.
SlotsConserved ==
    slots + Cardinality(granted) + Cardinality(SlotHolders) = CHAT_CONCURRENCY

\* Every admission permit is free or held by one request, across the two
\* handlers, the worker's outer finally and release_resources().
AdmissionConserved == admission + Cardinality(Inside) = Capacity

\* A slot is never left free while a waiter that nobody cancelled sleeps in
\* line, unless a granted waiter is about to resume, which wakes the others: a
\* cancelled or timed-out waiter passes its grant on.
NoLostWakeup == slots > 0 /\ granted = {} => Waiting \subseteq cancel

\* Whatever can still use the model is in active_chats under its own user,
\* where revocation finds it; and nothing stays there once it is over.
Registered(r) == r \in active[UserOf(r)]
RegistryComplete ==
    \A r \in Req :
        /\ pc[r] \in Executing \cup {"queued", "spawned"} => Registered(r)
        /\ pc[r] = "ended" /\ stream[r] \in {"none", "closed"} =>
              \A u \in Users : r \notin active[u]

\* Once a revoking handler has answered, no request that used the revoked
\* credential goes on to use the model, whichever of the database read after
\* the queue, the commit and the cancellations came first.
Using == {"checkedLive", "running", "opening", "reading", "streaming"}
RevokedWorkStops ==
    \A r \in Req :
        /\ pc[r] \in Using
        /\ status[cred[r]] = "revoked"
        /\ \A v \in Revokers : revoker[v] # <<"committed", UserOf(r)>>
        => r \in cancel

\* The semaphores, the line and the early returns together keep the abstract
\* bounds on who is inside and who uses the model.
Model == INSTANCE BoundedModel WITH
            inside <- Inside, using <- SlotHolders,
            Concurrency <- CHAT_CONCURRENCY
KeepsModelBounded == Model!Spec

\* Tasks and streams of browser chats keep the contract that EventStream shows
\* to hold behind the queue: what stands here for it, "a terminator is in the
\* queue", is all that capacity and revocation need to know of it.
Phase(r) ==
    CASE stream[r] = "none" -> "none"
      [] stream[r] # "none" /\ pc[r] \in Over -> IF r \in term THEN "told" ELSE "mute"
      [] stream[r] # "none" /\ pc[r] \notin Over ->
            IF pc[r] = "spawned" THEN "fresh"
            ELSE IF pc[r] \in {"emitting", "terminating"} THEN "ending" ELSE "working"
Contract == INSTANCE StreamContract WITH
    Chats  <- Req,
    phase  <- [r \in Req |-> Phase(r)],
    doomed <- {r \in cancel : stream[r] # "none" /\ pc[r] \notin Over},
    reader <- stream
KeepsStreamContract == Contract!Spec

\* Slots are handed over in the order in which the requests joined the line:
\* whoever starts to execute, no live waiter was ahead of it.
NoBarging ==
    [][\A r \in Req : r \in SlotHolders' \ SlotHolders =>
          \A w \in Waiting \cap Waiting' :
              w \in granted \/ w \in cancel \/ (w # r /\ pc[r] = "queued" /\ r \in ahead[w])]_vars

-----------------------------------------------------------------------------
(* What the comments promise and the code does not keep.                   *)

\* A stream whose worker is over has a terminator to read, so that a client
\* that is still connected does not get heartbeats for ever.
OverLeavesTerminator ==
    \A r \in Req : pc[r] \in Over /\ stream[r] = "open" => r \in term

-----------------------------------------------------------------------------
(* Liveness.  The event loop runs every ready task; the catalog, the model *)
(* run, the stream and the closing of the upstream are bounded by timers.  *)
(* Nothing makes the client read, disconnect or send, so no fairness is    *)
(* assumed of WorkerEmits, WorkerTerminates, StreamReadsTerminator,        *)
(* Authenticate or the Submit actions; none is assumed of the queue timers *)
(* either, so the line has to drain by hand-over alone.                    *)

Progress(r) ==
    /\ WF_vars(WebCatalogFails(r) \/ WebCatalogOk(r))
    /\ WF_vars(WebStartFails(r) \/ WebStream(r))
    /\ WF_vars(WorkerStarts(r) \/ WorkerStillborn(r))
    /\ WF_vars(SlotGranted(r))
    /\ WF_vars(WorkerRefused(r) \/ CheckRead(r))
    /\ WF_vars(WorkerRuns(r) \/ WorkerRunEnds(r))
    /\ WF_vars(WorkerCancelled(r))
    /\ WF_vars(StreamCloses(r))
    /\ WF_vars(pc[r] = "catalog" /\ (ApiQueues(r) \/ ApiGivesUp(r)))
    /\ WF_vars(ApiOpens(r) \/ ApiFails(r))
    /\ WF_vars(ApiAnswered(r) \/ ApiReadEnds(r))
    /\ WF_vars(ApiStreamEnds(r) \/ ApiDrained(r) \/ ApiClosed(r))
    /\ WF_vars(ApiCancelled(r))

FairSpec ==
    /\ Spec
    /\ \A r \in Req : Progress(r)
    /\ \A v \in Revokers : WF_vars(\E u \in Users : RevokeCancels(v, u))

\* Nobody waits in line for ever, even if no queue timer ever fires.
QueueDrains == \A r \in Req : (r \in Waiting) ~> (r \notin Waiting)

\* An admitted request gives its permit back unless its client neither reads
\* the last event nor disconnects, or its worker never came to run.
PermitsReturn ==
    \A r \in Req : (r \in Inside) ~>
        (r \notin Inside \/ pc[r] \in {"emitting", "unstreamed", "stillborn"})

\* Work cancelled by a revocation or a disconnection comes to an end, even
\* while it is blocked on an event queue that nobody reads.
CancelledEnds == \A r \in Req : (r \in cancel) ~> (pc[r] \in Over)

=============================================================================
