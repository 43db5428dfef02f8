# KevinBeLLM: TLA+ models, checks and proofs

KevinBeLLM puts one local language model behind a small web service.  What is
hard about it is not the model but the order of things: requests, revocations,
timers, disconnections and database transactions that overlap in one event
loop.  This directory models those parts, checks them with TLC on small
instances, and proves the core of them with TLAPS for every instance.

Paths below are relative to `src/`; `app/` stands for
`services/assistant-web/app/`.

## 1. The system

```
 browser page (static/app.js)          Zoo Code (OpenAI-compatible client)
        | POST /api/chat, SSE                  | POST /v1/chat/completions
        v                                      v
 +----------------- app/main.py, one asyncio process -------------------+
 | body limits -> rate limiters -> authentication -> admission permit    |
 |   -> line for a model slot -> credential read again -> the model      |
 | active_chats: the tasks that a revocation cancels                     |
 +------+---------------------------+----------------------------+------+
        | app/database.py           | app/assistant.py           | httpx
        v                           v tool loop                  v
   SQLite: users, sessions,    live-tools service,          llama.cpp server
   api_tokens                  app/tools.py              ^         ^
                                                           |         |
                                    scripts/cluster/evaluate-quality.py,
                                    benchmark-inference.py
```

| Component | State it keeps | Operations | What is hard | What makes it correct |
|---|---|---|---|---|
| Chat admission, slots, registry (`app/main.py`) | `chat_admission`, `chat_slots` and its line of waiters, `active_chats`, one task per request and one stream task per browser chat | `chat()`, `event_stream()`, `worker()`, `openai_chat_completions()` and its stream, `revoke_api_token()`, `logout()`, `change_password()` | cancellation at any await, timers against hand-over of a slot, commit before cancel, three places that release | capacity is neither lost nor doubled; revocation stops all the work it must; nobody is stuck |
| Browser event stream (`app/main.py`) | the bounded queue, the worker's pending `put`, the stream's pending `get` or send | `emit()`, `_close_event_queue()`, heartbeats | a full queue, a client that stalls or leaves, a timer against an arriving event | order, a verdict at the end, no wait for ever |
| Accounts, sessions, tokens (`app/database.py`, handlers) | three SQLite tables | login, token creation, listing, revocation, logout, password change, authentication | values read, then awaits, then a transaction | no credential survives what authorizes it; an id names one credential for ever |
| Rate limiters (`app/security.py`) | for each key a deque of times, keys in order of use | `check()` | fractional clock against whole seconds, eviction | the window slides exactly; Retry-After is enough |
| Body limits (`app/main.py`) | `api_body_slots`, one buffer per request | the ASGI middleware | two `finally` blocks, timeout while reading | the slot is released once; the memory for bodies is bounded |
| Tool loop (`app/assistant.py`) | the conversation, the preview, counters, tool tasks | `run_chat()`, `_openai_messages()`, `execute_tool()` | parallel tools, malformed or excessive calls, cancellation | bounded work, well-formed requests, preview = answer |
| Browser chat page (`static/app.js`) | transcript, active turn, dialogs | `sendMessage()`, stop, new conversation, logout, change password, `buildBoundedRequest()` | everything the user does during a stream; limits checked in two languages and in two units of length | the server accepts each request; a turn adds its prompt and at most its whole answer, to its own conversation only |
| Gateway validation (`app/openai_gateway.py`) and the other builders of model requests | the settings of the deployment | `validate_chat_body()`, `reasoning_budget_tokens()`, `_chat_once()`, the evaluator's and the benchmark's bodies | four programs speak to one server; zeros, nulls and defaults; inputs that raise | mode, sampler and budget agree with each other; the client's choices survive |
| Credential page (`static/zoo-code.js`) | the list shown, requests in flight | refresh, create, revoke | answers out of order | the list shown is not older than the page's own changes |
| Live tools client and service (`app/tools.py`, `services/live-tools`) | one call: URL, hop, addresses, items | safe fetch, search, weather, models | name service changes between look and use, redirects, several addresses, concurrent validation | each connection goes to an address that was checked; citations name what was read |
| Login page, Markdown, theme | none shared | form handling, rendering | - | - |
| Bootstrap, configuration | none after start | `bootstrap_user()`, `Settings` | two processes at once | exactly one account |
| Life cycle, download, installation scripts, SSH forwarding | files, processes | start, stop, download with checksum and rename | crash between steps | a partial file is never used |
| Quality evaluator (`scripts/cluster/evaluate-quality.py`) | results of an invocation, the report of an earlier one | `run_case()`, `request_chat()`, `build_report()`, `compare_reports()`, `main()` | failures of any kind in any sample, reports that do not fit together | a green gate means no regression; one failure spoils one sample |
| Inference benchmark (`scripts/cluster/benchmark-inference.py`) | results of a schedule | `sse_events()`, `run_once()`, `main()` | streams split and cut anywhere, caches that hide work | what is measured is what was said; drift is reported exactly |

Interactions: both chat routes share admission, slots and registry; the
revoking handlers commit in the database and then cancel what the registry
holds; a browser chat's worker runs the tool loop and feeds the event stream;
the gateway route lies behind the body limits and a rate limiter; all four
builders of model requests have to suit the same llama.cpp server; the page
depends on the server's limits and on the way a stream ends.

PROJECT.json lists all components with what is modelled of each, and all
hazards with the properties that cover them.

## 2. The modules

An action is the code between two suspension points of one task (an `await`
that can really suspend), or one database transaction, or what the page's
single thread runs between two awaits.  A definition carries the name of the
code's function where it has one.  Each *slip* is the form a plausible bug
would give to the definition that follows it; the specifications do not use
slips, they exist to show that a property can be broken.

### ChatService (with BoundedModel, StreamContract, MCChatService, ChatService_proofs)

`pc[r]` is where the task of request `r` is suspended, `stream[r]` where the
second task of a browser chat is.  The semaphores are modelled as CPython
implements them: `SlotsLocked`, `AcquireSlot`, `ReturnSlot` and `SlotGranted`
are `locked()`, `acquire()`, `release()` with the wake-up of the first waiter
that is not done, and the resumption of a waiter whose future has its result.
`ahead[r]` holds who was in line when `r` joined, which is all of the deque
that order needs.  `LeaveLine` is the way out of an `acquire()` that does not
succeed, with the `finally` loop of CPython 3.13 (`WakeOn`): it passes on as many
grants as there are free permits, which matters only with several slots, where a
permit may be free while a granted waiter has not yet run.  `cancel` is the set of tasks that will resume with
`CancelledError`; every suspension point has its cancelled outcome.

| Code | Actions |
|---|---|
| `require_user()`, `require_api_user()` | `Authenticate` |
| `chat()` | `WebSubmit`, `WebCatalogFails`, `WebCatalogOk`, `WebStartFails` |
| `event_stream()` | `WebStream`, `StreamReadsTerminator`, `StreamDisconnected`, `StreamCloses` |
| `worker()` | `WorkerStarts`, `WorkerQueueTimeout`, `SlotGranted`, `CheckRead`, `WorkerRefused`, `WorkerRuns`, `WorkerRunEnds`, `WorkerEmits`, `WorkerTerminates`, `WorkerCancelled`, `WorkerStillborn` |
| `openai_chat_completions()` | `ApiSubmit`, `ApiQueues`, `ApiGivesUp`, `ApiOpens`, `ApiFails`, `ApiAnswered`, `ApiReadEnds`, `ApiDrained`, `ApiStreamEnds`, `ApiClosed`, `ApiCancelled` |
| revoking handlers | `RevokeCommits`, then `RevokeCancels` |
| time | `Expire` |

The check of the credential on arrival is a step of its own (`Authenticate`).  Between
it and admission the handler awaits: the task resumes with the answer of the database,
the gateway reads the request's body (`app/main.py:1078`), both wait for the limiter.  A
revocation may commit and cancel in that gap, when nothing of the request is registered
yet, and the request is then admitted and stands in line on a dead credential; only the
check after the line stops it.  `Admit`, the test of `locked()` with the `acquire()` behind
it, and the registration of a gateway request are one step, because nothing suspends between
them; `Refuse` is a full queue, an invalid body or the rate limit.

The credential check after the line is two steps: the database answers
(`CheckRead`) and the task resumes with what it was told (`checkedLive`,
`checkedDead`); a revocation may commit in between.  `WorkerStillborn` is a
task cancelled before its first step, whose body never runs.  `WebStartFails`
is an ASGI server that raises because the connection is gone; uvicorn does not,
the tests of the gateway route assume one that does.

`BoundedModel` is the abstract promise: at most `Capacity` requests inside, at
most `Concurrency` of those using the model, coming and going one at a time.
`ChatService!KeepsModelBounded` is its specification under the mapping
`inside <- Inside`, `using <- SlotHolders`.  The body slots of BodyLimit implement it too.

`StreamContract` is what the worker and the event stream of a browser chat owe each
other, and composes ChatService with EventStream.  The stream leaves when it reads the
terminator or its client is gone, stops a worker that it leaves alive, and closes after
it; a worker that is told to stop does nothing but stop, and leaves a terminator
unless it never took its first step.  ChatService keeps it with many chats and with the
capacity and revocations that act on them, knowing of the queue only whether the terminator
is in it (`term`); EventStream keeps it with one chat, knowing nothing of capacity but
all of the queue.  Since both implement it (`KeepsStreamContract` in each), what ChatService
leaves out of the queue it may leave out.

### EventStream (with EventStream_proofs)

What ChatService reduces to "the terminator is in the queue": `Emit`,
`EmitResumes`, `Conclude`, `Close` are the puts of the worker and where they
block; `TakeEvent`, `TakeEnd`, `SendHeartbeat`, `Sent` the stream; `Cancelled`
is `_close_event_queue()` for a worker being cancelled, which empties the queue
first.  Events carry their number, the client's view is the sequence of what
it received.  The worker starts inside `run_chat()`, after its first step; that is why the contract
may begin with chats under way.  The contract's `told` is a worker that is over and whose
terminator is in the queue or has been read.

### AuthStore (with MCAuthStore, AuthStore_proofs)

The tables are sets of rows.  Every database call that writes is one action,
because SQLite commits atomically; what a handler read before (`seen` hash,
`stamp` clock reading, `chosen` row, `mine` session) is kept per handler and may
be stale.  `CreateSession`, `CreateToken`, `ChangePassword`, `Logout`,
`RevokeToken`, `CallerReads`/`CallerTouches` follow `database.py`; `LoginReads`,
`Authenticate`, `ReadHash`, `Verified` the handlers around them.  An
authentication reads the clock and the table in one action, since an expired row
differs from a live one only by that reading.

### RateLimiter and BodyLimit (with MCFrontDoor, FrontDoor_proofs)

RateLimiter is `check()` as `Refuse` or `Allow`; it never suspends while it holds
its lock, so a call is one action.  The clock counts half seconds, because
Retry-After is an integer computed from a fraction.  `grants` and `retryAt` are
history: when each key was let through, and what refused callers were told.

BodyLimit is `RequestBodyLimitMiddleware` from arrival to the end of the
application, with the two `finally` blocks as `Finally` and `AppEnds`.  `got` is the length
of the buffer, `Fits` the comparison before a chunk is added to it.

MCFrontDoor instantiates both side by side.  Each request meets the limiters
first and the body limits next, but neither reads the other's state, so their
product would only multiply the states: `part` picks one of them for a behaviour
and the other stays at its initial value.  MCTools, MCBrowserPages and MCModelClients are
made the same way.

### ToolLoop (with Selection, MCTools, Tools_proofs)

`run_chat()` with `Ask`, `Delta`, `Think`, `Answer`, `AnswerCalls`, the tool
tasks (`ToolStarts`, `ToolEnds`, `ToolCrashes`), `Gather` and cancellation
(`Interrupted`).  `Wire` is `_openai_messages()`.  Text is a count; the preview
is the sequence of the answers its characters came from.

`Selection` holds what the code's filtering comprehensions do, `[x for x in s if
...]`: `Picked(s, kept)` is the elements of `s` at the positions `kept`, in order.
The usable calls of a reply, the targets and sources of a tool call, the list of the
credential page and the evaluator's `--case` and `--seeds` are all made that way.

### BrowserChat and ZooCredentials (with MCBrowserPages, BrowserPages_proofs)

`sendMessage()` between its awaits, the handlers of stop, new conversation,
logout and password change, and `BoundedRequest`, which is
`buildBoundedRequest()`, against `Accepts`, the validation in `app/main.py`.
After `abort()` the pending read rejects, so an aborted turn can only fail.  The
flags that choose the wording of an error are left out.  A prompt of the largest
size always fits an empty request (`LimitAssumption`), so the page's "too large"
exception cannot be reached.

The page counts and cuts in UTF-16 units.  They are never fewer than the code points that
the server counts, so its limits are kept, but a cut can fall inside a character of two
units.  `charSplits` and `thoughtSplits` are the places of a text and of a trace where that
is so: `charSplits` counts from the beginning of the content, which keeps its beginning, and
`thoughtSplits` from the end of the trace, which keeps its end.  A message is `Torn` if it has
been cut at such a place, and `Accepts` refuses it.  A prompt is never longer than a message
may be, so it is never cut.

ZooCredentials is the page `zoo-code.js` with the table behind it.  What the page
asks (`RefreshStarts`, `CreateStarts`, `RevokeStarts`), what the server does
(`RefreshServed`, `CreateServed`, `RevokeServed`) and what the page makes of the answer
(`RefreshApplies`, `CreateShows`, `RevokeShows`, the `...Fails`) are actions of
their own, so that answers come in any order or not at all; a request that the page
has given up may still be served (`Elsewhere`).  `Render` replaces all buttons of the list, so
a handler may hold a button that is not displayed any more: when its revocation then
fails, it enables that one and the displayed one stays disabled.  `doubt` is
history: it marks the situations in which the page's list may be wrong, and
`ListIsCurrent` says that there are no others and that the next list that is up to
date ends them.  `bootstrap()` is the initial state; the setup panel and
copying are left out.  MCBrowserPages has both pages, one in each behaviour.

### LiveTools (with Selection, MCTools, Tools_proofs)

One tool call from its arguments to its answer.  `Begin` is `ToolRunner.run()`
with the range checks of the arguments; `ServiceAccepts` the constraints that
the live-tools service states again in its `Query()` parameters.  The page tool is
`Resolve` (URL check and resolution of one hop), `Connect`, `TransportError`,
`Chunk`, `Redirect`, `PageEnds` and `Deadline`; `Target` is `_pinned_url()`.
`targets` are the addresses of the hop that have not been tried.  Name service is
external: `Rebind` changes what a host resolves to between any two steps.  For
the other tools, `ServiceAnswers` and `ServiceFails` stand for the service with
what it asks upstream, `Validate` for one of the concurrent validations
of the URLs to be cited, `Cite` for the pairing of items with valid URLs.
What is not a `ToolError` is `Escaped`: an option that cannot be looked up in a set, a URL
that httpx refuses or a body that does not decode (`FetchEscapes`), a result whose sources
are not a list.  To ToolLoop that is a tool that crashes.  (An encoding error of the host
name cannot come here: `_resolve_public()` has made a `ToolError` of it.)
A URL has the parts that `_validated_page_url()` looks at, a text its length.
`contacts` and `checked` are history.

### InferenceRequest (with MCModelClients, ModelClients_proofs)

A request body is a function from the names of its fields, so a field that is
absent is not confused with one that is null or zero.  `Verdict` is
`validate_chat_body()` with three outcomes: accepted, refused (400) and crashed
(an exception that becomes a 500: a role or response format of an unhashable
type, a lone surrogate).  `GatewayBody`, `BrowserBody`, `EvaluatorBody` and
`BenchmarkBody` are the four builders.  Fractions are hundredths.  A deployment
may set `REASONING_BUDGET_TOKENS` (`budget`), which `AppBudget` then takes, within the
allowance.  An empty list of tools, which is refused, occurs as a list that is not valid.

### QualityEvaluator (with Selection, MCModelClients, ModelClients_proofs)

Invocations of `evaluate-quality.py`, the first of which may write the baseline
that later ones compare with; `file` is that file, which the shell has
emptied when the program starts.  One action is one request with the work up to
the next (`Ask`); `RequestChat` says which failures of the transport become a result
and which escape, `Escapes` which answers make the scoring or the hashing raise.  The conversation of a sample is determined by the number of its matched
tool steps (`step`), so messages are left out.  `Report` compares, gates and
sets the exit status.  `--list-cases` and an interrupt from the keyboard are left
out, and `--fail-on-regression` occurs only with `--compare`, without which it has
no effect.

### InferenceBenchmark (with MCModelClients, ModelClients_proofs)

A run of `benchmark-inference.py`: `Schedule` with warm-ups and rounds (`Rounds` says
which item the three nested loops reach with which request) and `RunOnce`, which is
one action because nothing runs beside it.  `sse_events()` is a generator, and what
`run_once()` has made of a stream when it raises depends on how far the generator had
come; `ReadLine` therefore is one line of the stream with all that happens up to the
next (the two size limits, the event that a blank line completes, what `Consume`
makes of it), and `SseEvents` the reader after each number of lines.  The server
chooses the response and the line after which it breaks off.  The time of an event
is its position; statistics of speeds are left out.  The data of an event is one
line: JSON that is spread over several is legal in the protocol, but no llama.cpp server
sends it.  `Meaning` is an independent
reading of a response: which lines are heard is said by the lines around them, and
content and calls are their texts put together, without a state that is carried
from line to line.

## 3. What is checked

| Run | Question | Bounds |
|---|---|---|
| `chat_safety` | Is capacity conserved, is the line served in order and a grant passed on, does revocation stop all the work it must, is BoundedModel implemented? | 4 requests, 2 users (one with a token, one with a session), 2 slots, 2 pending places, 1 revoking handler |
| `chat_liveness` | Do slots, permits and the line come back, does cancelled work end, is StreamContract implemented? | 2 requests, 1 user, 1 slot, 1 pending place, 1 revocation, credentials expire |
| `chat_early_cancel` | Does a stream whose worker is over always have a terminator?  It does not. | 2 requests, 1 user |
| `event_stream` | Order, verdict, no endless wait; is StreamContract implemented? | queue of 2, up to 4 progress events |
| `auth_store` | Do credentials follow what authorizes them when handlers overlap? | 2 users, 2 logins, 2 creations, 1 each of password change, logout, revocation, gateway call; limits of 1; clock up to 2 |
| `auth_stale_login` | Does a password change leave no session of the old password?  It does. | 1 user, 2 logins, 1 change |
| `front_door` | Is the window exact and Retry-After sufficient?  Is a body slot released once, also for a body that never ends, and the memory bounded? | 3 keys, 2 tracked, 2 grants per 2 s, clock of half seconds up to 3 s; 2 gateway chats, 1 other write, 1 slot |
| `tools` | Is work bounded, are requests well formed, is the preview the answer, does the loop end?  Does each connection go to a checked public address, does each citation name what was read? | 2 rounds, 4 calls, 2 in parallel, 7 shapes of call lists; 11 calls, 4 URLs on 2 hosts, 5 answers of name service, which changes twice; bodies of up to 1 unit; answers of up to 3 items |
| `browser_pages` | Can only a torn character get a request refused, does a turn leave its whole answer or nothing of it, in its own conversation?  Does the credential page list what is in the table? | 3 turns, transcript of 3, every limit within reach, characters of one and two units, one alphabet to a transcript; 2 credentials, created and revoked at any moment here or elsewhere |
| `browser_torn` | Does the server accept each request?  It does not. | as above |
| `model_clients` | Are requests of one mind about thinking, sampler and budget?  Is a green gate sound?  Does the benchmark count what was said and report drift exactly? | 2 deployments, about 260 payloads; 2 invocations over 2 cases and 2 seeds, 10 replies; 3 schedules, 9 responses cut anywhere |
| `quality_dropped` | Does a failed request spoil only its sample?  A dropped connection spoils the report. | as above |

Why these bounds show the cases.  Chat: a permit moves between a releaser, a
waiter that is cancelled or times out after the grant, and a second waiter.  With
two slots a request can come while a permit is free and a granted waiter has not
yet run, and must queue behind it; two slots and two pending places are full with
four requests, so two waiters exist at once.  Fewer slots or places hide some of
this: with one place nobody can overtake.  `chat_liveness` has the default of one
slot, with one user who holds a session and a token, and a refusal with all places
taken occurs there and, in `chat_safety`, once a permit has been lost to a worker
that was cancelled before its first step.  One revoking handler
suffices in the runs, because handlers of different users touch disjoint
requests and a second one of the same user finds the credential revoked
already; the proof covers any number.  The symmetry of the safety runs permutes
requests, which the specification treats alike; the liveness runs use none.
Queue: two places give empty, partly full and full; four events exceed them by
two, so a put blocks both before and after a take.  Auth: with limits of one
the second login evicts the first and the second token is refused, while each
kind of handler that may interfere is present.  Rate limiter: three keys against
two tracked force evictions, and a clock that runs for one and a half windows
lets stamps leave one at a time.  Page: the limits are ordered as the
program's are, and a transcript of four messages can exceed each of them
(messages, characters, bytes, stored); answers and traces are up to one unit longer than
a message may be, so each cut falls on and beside the middle of a character.  That all messages
of a transcript have the same bytes to a unit (`OneAlphabet`) keeps the number of states within
reach; the proofs do not assume it.  Two credentials are enough for one whose
revocation fails while the creation or revocation of the other renders the list.  Live tools: a page needs one change of name
service between check and connection and may meet another after a redirect; a
host has up to two addresses, so that one can fail and the next be tried; of three
items any subset may be valid.  Model clients: allowances of 1, 2, 300 and 9000
tokens lie on both sides of the reserves, prompts of one to three messages on both
sides of the byte limit of the narrow window; two invocations are a baseline and a
candidate, one protected case and one tool case under two seeds can improve in
total while the protected one regresses; three repeats
separate "all equal" from "last equals first".

`MaxNow`, `MaxProgress`, `MaxSaid`, `MaxBody`, `MaxAnswer`, `MaxThought`, `MaxTurns`,
`Rebinds` and `MaxInvocations` exist only for TLC; `MaxBytes` (1), the benchmark's
`MaxTokens` (2), `MaxEventBytes` (4) and `MaxResponseBytes` (12) stand for limits of
the programs.

Each property of a passing run has a mutant in PROJECT.json: a slip under which
TLC finds that property violated in the same run; a property with several parts
has one for each.  Deadlock is checked except where the system really stops:
AuthStore, whose handlers run once; `model_clients`, whose programs end.  Other modules of requests used once say so by a stuttering action
(`Quiet`, `Idle`, `Finished`, `Closed`, `Returned`, `CallOver`).

`TypeOK` is proved rather than checked: for ChatService, where it includes the bounds of
both semaphores, AuthStore, BodyLimit, EventStream (where
it bounds the queue), ToolLoop, LiveTools (`LtTypeOK`), BrowserChat, ZooCredentials
(`ZcTypeOK`), QualityEvaluator (`EvTypeOK`) and InferenceBenchmark (`BmTypeOK`).  In
RateLimiter it states the shapes of the variables for the reader; the theorems
there rest on `Shapes`, which is part of their invariant.

### Fairness

Safety runs assume none.  ChatService: the event loop runs every ready task; the
catalog request, the model run and the closing of the upstream have deadlines.
None is assumed of the client (reading the last event, disconnecting), nor of
the queue timers: the line has to drain by hand-over.  `PermitsReturn` therefore
excludes a client that neither reads nor leaves, and the two permits lost in
`unstreamed` and `stillborn`, which are named there and below.  EventStream: weak
fairness for the steps of the two tasks and for the deadline, and strong fairness
for taking an event, because a heartbeat may come between any two events but its
timer starts anew with every `get()`; none for heartbeats and client.  BodyLimit:
only the read timer and the sending of a small 408.  ToolLoop: requests and
tools end within their timeouts.  MCFrontDoor and MCTools have the same fairness for the
behaviours of these parts.

### What the code does not keep

1. *Early cancellation* (`chat_early_cancel`).  `event_stream()` creates the
   worker and registers it at once (`app/main.py:1011`).  A cancel loop that runs
   before the worker's first step cancels a task whose `try` has not been
   entered: no terminator (the comment at `app/main.py:56-60` asks for one) and no
   release of the admission permit.  The first step is only queued, so any
   handler already ready in the same pass of the loop comes first.
2. *Stale login* (`auth_stale_login`).  `login()` verifies a password in a thread
   and then inserts a session without looking at the hash again
   (`app/main.py:745`); a password change that commits in between has already
   deleted "every session" (`app/database.py:305`).  `create_api_token()` closes
   the same gap by validating inside its transaction.
3. *Dropped connection* (`quality_dropped`).  `request_chat()` catches what `urllib`
   wraps (`scripts/cluster/evaluate-quality.py:656-668`), but a server that closes
   the connection before or within its response raises an exception of
   `http.client` or the socket, which nothing catches: the evaluator ends without
   a report, and the samples already answered are lost.  The docstring of
   `EvaluationError` (line 93) promises that such a failure invalidates a sample.
   A numeric answer `NaN` (line 707) and a lone surrogate in an answer (line 753)
   escape in the same way.
4. *Torn character* (`browser_torn`).  `static/app.js` cuts contents and traces by UTF-16
   units (lines 625, 638, 649, 960).  If the cut is inside a character of two units, for
   instance an emoji at the beginning of the last 12,000 units of a trace, the half that is
   left is sent as a lone escape, and the constrained strings of `ChatMessage`
   (`app/main.py:336`, `340`) refuse the request with 422, on this and each later turn for
   which the message is still in the history.  `README.md:339-341` says that up to 12,000
   characters of the trace "may be sent with a later turn".

## 4. What is proved

Each theorem holds for every value of the constants that satisfies the
assumptions stated in the module it is about.

| Module, assumptions | Theorem | Statement |
|---|---|---|
| `ChatService_proofs`: finitely many requests; disjoint sessions and tokens with an owner; at least one slot | `NoSlotLost` | `Spec => []SlotsConserved` |
| | `NoPermitLost` | `Spec => []AdmissionConserved` |
| | `TypeCorrect` | `Spec => []TypeOK` |
| | `RegistryIsComplete` | `Spec => []RegistryComplete` |
| | `RevocationStopsWork` | `Spec => []RevokedWorkStops` |
| | `NoWakeupLost` | `Spec => []NoLostWakeup` |
| | `SlotsGoInOrder` | `Spec => NoBarging` (an action property) |
| | `ImplementsBoundedModel` | `Spec => KeepsModelBounded` (refinement of BoundedModel) |
| | `ChatsKeepContract` | `Spec => KeepsStreamContract` (refinement of StreamContract) |
| | `NoWorkerLeftBehind` | `Spec => []Contract!NoneLeftBehind` |
| `EventStream_proofs`: a queue of at least one place | `EventsComeInOrder` | `Spec => []InOrder` |
| | `VerdictComesLast` | `Spec => []UncutStreamHasVerdict` |
| | `QueueKeepsContract` | `Spec => KeepsStreamContract` (refinement of StreamContract) |
| | `TypeCorrect` | `Spec => []TypeOK` |
| `AuthStore_proofs`: finitely many handlers of disjoint kinds; limits of at least one row | `NoTokenOfOldPassword` | `Spec => []TokensOfCurrentPassword` |
| | `RevocationHitsItsToken` | `Spec => RevokesWhatWasPicked` |
| | `LimitsKept` | `Spec => []CredentialsBounded` |
| | `TypeCorrect` | `Spec => []TypeOK` |
| `FrontDoor_proofs`: RateLimiter with positive rate, window, clock and ceiling | `WindowSlides` | `RlSpec => []SlidingWindow` |
| | `WaitingSuffices` | `RlSpec => []RetryAfterSuffices` |
| `FrontDoor_proofs`: BodyLimit with finitely many requests, chats among them; at least one slot | `NoBodySlotLost` | `Spec => []SlotsConserved` |
| | `MemoryIsBounded` | `Spec => []BuffersBounded` |
| | `SlotsAreAPool` | `Spec => Pool!Spec` (refinement of BoundedModel) |
| | `TypeCorrect` | `Spec => []TypeOK` |
| `Tools_proofs`: ToolLoop with positive limits; the lists of calls are sequences of records with an id and a flag | `WorkIsBounded` | `Spec => []WorkBounded` |
| | `PreviewIsTheAnswer` | `Spec => []PreviewIsAnswer` |
| | `ToolsEndWithTheirChat` | `Spec => []ToolsEndWithChat` |
| | `RequestsAreWellPaired` | `Spec => []RequestsWellPaired` |
| | `TypeCorrect` | `Spec => []TypeOK` |
| `Tools_proofs`: LiveTools with answers and results that are sequences; a page call has a URL, a URL with a host has one of the hosts | `ContactsAreChecked` | `LtSpec => []ContactsWereChecked` |
| | `CitationsAreTrue` | `LtSpec => []CitesWhatItRead` |
| | `CallTypeCorrect` | `LtSpec => []LtTypeOK` |
| `BrowserPages_proofs`: BrowserChat with the page's limits ordered among themselves and within the server's, as the two programs define them | `RequestsAreWithinLimits` | `Spec => []RefusedOnlyIfTorn` |
| | `RequestsHaveNoGap` | `Spec => []ContextHasNoGap` |
| | `TurnsAreAllOrNothing` | `Spec => TurnIsAllOrNothing` (an action property) |
| | `ConversationsStayApart` | `Spec => []OnlyThisConversation` |
| | `PageTypeCorrect` | `Spec => []TypeOK` |
| `BrowserPages_proofs`: ZooCredentials with finitely many credentials | `ListsAreCurrent` | `ZcSpec => []ListIsCurrent` |
| | `CredentialTypeCorrect` | `ZcSpec => []ZcTypeOK` |
| `ModelClients_proofs`: InferenceRequest with the minima that the programs enforce on their settings; allowances in payloads are whole numbers or null, missing messages are an empty list | `RequestsAreConsistent` | `IrSpec => []ModeIsConsistent` |
| | `ChoicesAreKept` | `IrSpec => []ClientChoicesKept` |
| `ModelClients_proofs`: QualityEvaluator with options that are sequences of names and of numbers; any replies | `GateCanBeTrusted` | `EvSpec => []GateIsSound` |
| | `EvaluatorTypeCorrect` | `EvSpec => []EvTypeOK` |
| `ModelClients_proofs`: InferenceBenchmark with modes and workloads that are sequences of names; any responses, each with its lines and its meaning; any limits | `WarningsAreExact` | `BmSpec => []WarnsExactlyOnDrift` |
| | `MeasurementsAreWhole` | `BmSpec => []MeasuresWhatWasSaid` |
| | `BenchmarkTypeCorrect` | `BmSpec => []BmTypeOK` |
| `Selection_proofs`: none | `PickedElements` (a lemma) | what is picked is what is at the kept positions, each at its rank |

MCFrontDoor, MCTools and the other MC modules extend the modules with these
assumptions, so TLC evaluates each of them for the instance that it checks.

### ChatService

None of the invariants is inductive alone.  `IInv` is the conjunction of

- `Counts`: the equations of both semaphores with `granted` inside the line,
- `Typed`: the types of the remaining variables,
- `KindInv`: which places belong to browser chats and which to gateway requests
  (a step of one kind cannot disturb the bookkeeping of the other),
- `RegisteredInv`: whatever holds or awaits a slot is registered, a gateway
  request already from its admission,
- `NoStrangers`: only requests of the user, whose task or stream still lives,
  are registered under a user,
- `RevokedWorkStops` itself.

`RevokedWorkStops` needs `RegisteredInv`: when the cancel loop runs, every user of
the revoked credential must be in the registry to be cancelled; and it needs the
credential read again after the line, since a request that was not yet
using the model when the loop ran, or not even registered, must find the credential revoked.
`RegistryComplete` needs `NoStrangers` for its second half.  Cardinalities change
by one element at a time; the lemmas at the top of the module (`OneMore`, and
those named `Counts...`) say how each kind of step changes the counts, and
`StepKeeps...` and `StepStopsRevokedWork` treat each action in a step of its own.

`NoBarging` is a statement about steps, and needs to know of the line what the
code's deque gives for nothing.  `LineInv`: of two waiters exactly one was there
when the other joined; nobody counts as ahead before having joined; and every grant
is ahead of every waiter that is neither granted nor cancelled.  The step lemmas show
`Orderly`, the invariant after the step together with the property of the step, once
for each way of touching the line: joining it, leaving it, a hand-over, a grant that
is taken (`LineKept` and those after it).

`NoLostWakeup` is inductive together with `IInv`: the permits that are free or
given back are either spoken for by a grant, or the finally loop has found nobody
left to wake.  The refinement needs one fact of each step, `StepMovesOne`: it moves
at most one request, and by what it does to `Inside` and `SlotHolders` this is
an arrival, a start, a stop, a departure or a stutter of BoundedModel;
the limits in BoundedModel's guards follow from `Counts` after the step
(`MoveIsAbstract`).

The refinement of StreamContract needs `Streams`: a stream exists only for a browser
chat whose worker exists, and the terminator is in its queue exactly from the end of that
worker on.  Each step is the turn of one chat (`Shown`) or changes nothing but who is
cancelled (`Hidden`), which is the contract's `Dooms`; `TurnMovesOne` carries this from
one chat to the functions over all of them.  `NoneLeftBehind` is an inductive invariant of
the contract and comes back to ChatService through the refinement: no worker outlives its
stream, and one still alive behind a stream that has left will be cancelled.

### EventStream

`InOrder` speaks of what was delivered; the invariant must speak of everything on
its way.  `Numbered`: the event in hand, those in the queue and the one being put
continue the numbers of what has been delivered, and a terminator is the last
entry, of a worker that is over.  `Told`: unless the stream was cut off, exactly the
last event is a verdict, wherever it is.  `Quiet`: a stream that is no longer open
sends nothing and has cancelled its worker.

For the contract, `Kept` says that a worker that is over has left its terminator where the
stream finds it.  With it the place of the worker determines the phase of the contract,
and `StepKeepsContract` takes the actions one by one: all that fill, empty, time or stall
the queue are stutters there.

### AuthStore

A token is made by a handler that is over when its row exists, so what that handler
verified does not change any more (`MakersAreOver`); its transaction compares the
hash again, which gives `TokensOfCurrentPassword` at the insertion,
and a password change deletes all tokens of the user with the commit of the new hash.
`IdsNameOne` says that an id, also one remembered by a revocation, never
names another token later; `RevokesWhatWasPicked` follows.  The limits are kept
separately (`FewRows`, finite tables): an eviction leaves fewer rows than the limit
before the insertion, and updating a row is a surjection onto the new table.

### RateLimiter

`KeyInv(k)` relates the deque of a tracked key to the history of its grants: the
deque holds all grants that are inside the window of its latest use (`Remains`), of
any `Requests + 1` successive grants the last is a window later than the first
(`Spaced`), and what a refused caller was told covers the time at which the oldest
stamp leaves.  `SlidingWindow` follows from `Spaced`; Retry-After is a ceiling of a
half-second clock, and `RetryIsEnough` does the arithmetic.  Pruning takes away a
prefix; its recursion descends over the length of the deque, and the facts needed of it
come from the fixed point where it stops.

### BodyLimit

`SlotsConserved` with `BufferWasSent` and the types; `Finally` and `AppEnds` each
move a request out of the holders exactly when they add to `free`.

`BuffersBounded` is what the middleware is there for: no body outgrows the limit of
its request, and no more gateway chats have one in memory than there are slots.  It
needs `OnlyHeld` besides (`BufferInv`): whoever has bytes in a buffer is being read or
served, so a chat with a body is among the holders, which `SlotsConserved` bounds.
The slots are also a BoundedModel of their own, with `inside <- Holders`,
`using <- Served` and both limits the number of slots: `RoomForOne` and `RoomToServe`
give its guards from `SlotsConserved`.  `Pool!Spec` is defined in FrontDoor_proofs and
belongs to no run.

### Selection

The prover cannot see through `SelectSeq` or the folds of the library, which are
recursive; a comprehension stated by positions is a plain function.  What the proofs
need of it: the rank of a position among the kept ones grows with the position, each
rank up to their number is reached once, so `Picked` is a sequence of that length
whose elements are exactly those at the kept positions, in order (`PickedElements`).

The module also holds the section *Recursion over 0 .. N*.  The library's induction
theorems have an operator as their parameter and cannot be used, but a set can take
its place: a set of numbers that has 0, and n whenever it has n - 1, has all of them
up to N (`Climb`), and a function defined by recursion exists up to every N, or there
would be a least one up to which it does not (`RecursionEnds`).

### ToolLoop

- `TypeInv` adds to the types that there is one request for each round, that tools are
  out only while they were offered and the last message asked for them, and that the
  round after the last withdraws them.  Without that last part the round counter would
  have no bound.
- `WorkInv`: a round that asks for tools executes at least one call, so the rounds
  never exceed the executed calls by more than one; the budget of calls bounds both.
- `PreviewInv` says what the browser shows at every moment, not only at the end: the
  current answer up to the cap, and nothing of an earlier round.
- `PairInv`: while the model is asked, each call in the conversation has its result
  behind it, in order; while tools are out this is so of all messages but the last.

`RequestsWellPaired` is about what goes out, which `_openai_messages()` makes from the
conversation with ids of its own where the model gave none or gave one twice.  `Wire`
runs through the messages with a list of pending ids.  Its closed form (`Closed`) says
what the list is at each message: what the last assistant turn has still unanswered.
That the recursion keeps to the closed form is the fixed point equation at every
message (`WireStep`), and since no two results of one turn can belong to different
turns (`OneAsker`) each takes the id that its call was given.

### LiveTools

`ContactInv`: while a hop is being connected or read, its URL is valid and each of the
addresses still to be tried is a checked one of its host.  Name service can change
at any moment because nothing is looked up again between the check and the
connection.  `CiteInv`: a page being read has the URL of the contact with the highest
hop, and no answer with sources exists before the call is over.  That the sources of a
list are paired with their own titles is the lemma on `Picked` once more.

### BrowserChat

`buildBoundedRequest()` walks from the newest message to the oldest.  Its invariant
(`Context`): what was picked so far is the end of the transcript, of each message the
beginning of its text, the newest one whole, within the limits on messages, characters
and bytes.  Sums over sequences are recursive functions, which exist by `RecursionEnds`;
the section *Sums* says what adding or cutting one message does to them.  That the newest
message is never cut or left out follows from `LimitAssumption`, which TLC evaluates
and which the constants of the two programs satisfy.  Where the cuts fall in the characters
is not bounded by anything, so the theorem is that a refused request has a torn message.

`PageInv` relates a request in flight to the transcript that it was made of:
`RequestInv` keeps a turn that is neither aborted nor on a page being left in the
conversation on screen, and by `TurnInv` the transcript stays as the prompt made it while the
turn lasts, unless its conversation was dropped.  So at the end of a turn `request.of` is still
what the answer is added to, or what a failure puts back: `TurnIsAllOrNothing`.

### ZooCredentials

`ListIsCurrent` speaks of a page at rest, its invariant of all moments:
`UpToAnswers`, the list differs from the table by created credentials and deleted ones
whose answers have not come, and the same holds of a list that is on its way and that
no answer has passed.  Where an answer did pass it, or was lost, `doubt` is set.

### InferenceRequest

The builders put records together; `p ++ q` has the fields of both, and the lemmas on
it say whose field is whose.  `GatewayIsConsistent` goes through the verdict to the mode
of a request and from the mode to its sampler and budget; the other three builders
have a lemma each.  The budgets are integers at the edges of their reserves
(an allowance of one token).  `ChoicesAreKept` follows field by field:
posted fields win over the profile, which wins over nothing.

### QualityEvaluator

`EvInv` keeps both reports sequences of results of known cases.  `Report` sets exit
status 0 of a gated comparison only behind `Comparable` and not `Regressed`, which
count summaries; the property counts distinct samples.  Between them: a report with
as many keys as results repeats none (a surjection between finite sets of one size is
injective, `NoKeyTwice`), so passed results and passed keys are equally many
(`PassesCounted`), and the sums of `summarize()` are those numbers (`SummaryCounts`).

### InferenceBenchmark

`BmInv`: every result is of the request that its item describes, and each
measured item reached so far has one.  A warning counts hashes; that it means drift
needs that no pair is without results when the run ends.  `ScheduleMeasuresAll`
finds the item of each pair in the first round by division with remainder, and
`OneHash` and `DriftIsSeen` turn the cardinality of a set of outputs, for each branch
where the branches alternate, into two answers to one request.

`MeasuresWhatWasSaid` compares what the reader has gathered with the meaning of the
response.  The invariant of the reader after n lines (`Read`): as long as it is
neither done nor failed, there is a line b, blank or the beginning, up to which every
data line was a chunk on its own (`Settled`), whose texts are those gathered
(`Collected`), and the data lines after b are in the buffer (`Pending`); once it is
done, what was gathered is all that the response says, for no later line is heard
(`Complete`).  `LineKeepsReading` is the step, with one lemma for each kind of line,
and `Climb` takes it to the last line.  That fragments merged one after the other by
their index make the same text as those of one index taken together is
`CallsAreGathered`, again by `Climb`, over the fragments.  Of the times it is enough that
the clock of the reader only grows (`ConsumingIsTimed`).

### Only model-checked

- Everything temporal but `[][...]`: `QueueDrains`, `PermitsReturn`, `CancelledEnds`,
  `StreamEnds`, `LoopTerminates`, `SlowBodyFreesSlot`.  Fairness and ENABLED are beyond the prover.
- The counterexamples of the four runs that expect a violation.

## 5. What is not modelled

- Markdown, theme, login page: rendering and forms without shared state.
- Life cycle scripts, systemd units, SSH forwarding: wrappers around processes and
  containers.  The download and installation scripts are candidates for a crash
  model.
- Bootstrap and configuration run once: they are the initial states and the
  constants.
- Inside the modelled components: cookies and CSRF tokens (functions of the
  session token), schema migration, SQLite busy timeouts (an error response before
  any write), restarts of the process (nothing but the database survives, and its
  transactions are atomic), `_merge_tool_call_deltas()` of the application (its twin
  in the benchmark is modelled), `_strip_tool_syntax()`, the shaping of weather data,
  the SSE lines that the page parses, statistics, the wording of messages.
- Behaviour that the code accepts and no property judges: two password changes that
  overlap (the later commit wins), the page's 20-minute timer, the siblings of a tool that
  crashed, which run on (`ToolsEndWithChat` excludes them by name), a list of credentials that
  is older than the page (`doubt`), a limited key that the limiter's ceiling forgets,
  capacity released before the upstream connection is closed, a credential that
  expires while its answer is being generated.

## 6. Plan

Done, in the order of importance: ChatService with its abstraction and proofs,
EventStream, AuthStore, ToolLoop, RateLimiter, BodyLimit, BrowserChat; then
InferenceRequest, LiveTools, QualityEvaluator, InferenceBenchmark,
ZooCredentials; the proofs of EventStream, AuthStore, RateLimiter, BodyLimit and
of the refinement; the proofs of the line, of both browser pages, of the tool loop, the
tool calls and the model clients, down to the benchmark's event-stream reader; the
contract between ChatService and EventStream, and that both keep it; the body slots
as an instance of the abstraction of the chat service.  Next:

1. Composition of ChatService with AuthStore: that its `status` is what the tables
   say, as a refinement with a proof like that of StreamContract.
2. Abstract specifications of ToolLoop (a chat as a bounded number of questions) and
   of the credential page (a view that lags behind a table), and proofs that the
   detailed modules implement them.
3. The rest of the tool loop: merging of tool-call deltas, `_strip_tool_syntax()`,
   `installed_models()`; the SSE line parser of `static/app.js`.
4. Download, installation and life cycle scripts with crashes between steps.
