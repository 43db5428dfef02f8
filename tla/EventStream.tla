----------------------------- MODULE EventStream -----------------------------
(***************************************************************************)
(* The server-sent event stream of one browser chat, the part of /api/chat *)
(* that ChatService shows only as "a terminator is in the queue": worker() *)
(* puts numbered events in a bounded asyncio.Queue, event_stream() takes   *)
(* them out and sends them to a client that may read slowly, stall or go   *)
(* away, and _close_event_queue() ends the stream on every path, also when *)
(* a revocation or the closing stream cancels the worker.                  *)
(*                                                                         *)
(* The worker starts inside run_chat(), that is after its first step; what *)
(* a cancellation before that does is in ChatService.                      *)
(***************************************************************************)
EXTENDS Naturals, Sequences

CONSTANTS
    QueueSize,      \* maxsize of the event queue (512 in the program)
    MaxProgress     \* bound: progress events one run_chat() may emit

ASSUME SizeAssumption == QueueSize \in Nat \ {0} /\ MaxProgress \in Nat

VARIABLES
    queue,      \* the asyncio.Queue: event records and the terminator
    worker,     \* where worker() is suspended
    item,       \* the event whose put() is in progress
    made,       \* number of events the worker has handed to put()
    cancelled,  \* the worker will resume with CancelledError
    revoked,    \* a handler has cancelled the worker
    stream,     \* where event_stream() is suspended
    out,        \* what the stream is sending: an event or a heartbeat
    delivered,  \* the events the client has received, in order
    client      \* "reading", "stalled" or "gone"

vars == <<queue, worker, item, made, cancelled, revoked, stream, out,
          delivered, client>>
workerVars == <<worker, item, made, cancelled, revoked>>
streamVars == <<stream, out, delivered>>

Kinds    == {"progress", "done", "error"}
Verdicts == {"done", "error"}
Event(kind, n) == [kind |-> kind, n |-> n]
Events   == [kind : Kinds, n : 1 .. MaxProgress + 1]
End      == [kind |-> "end", n |-> 0]           \* the None of the code
Heartbeat == [kind |-> "heartbeat", n |-> 0]
Nothing  == [kind |-> "nothing", n |-> 0]

Full == Len(queue) >= QueueSize

Init ==
    /\ queue = <<>>
    /\ worker = "running"
    /\ item = Nothing
    /\ made = 0
    /\ cancelled = FALSE
    /\ revoked = FALSE
    /\ stream = "getting"
    /\ out = Nothing
    /\ delivered = <<>>
    /\ client = "reading"

-----------------------------------------------------------------------------
(* worker(), run_chat()'s emit() and _close_event_queue().                 *)

\* emit() from place to next: put() blocks there while the queue is full.
Put(event, blocked, next) ==
    /\ made' = made + 1
    /\ IF Full
       THEN worker' = blocked /\ item' = event /\ UNCHANGED queue
       ELSE worker' = next /\ item' = Nothing /\ queue' = Append(queue, event)

\* run_chat() reports progress: status, delta, reasoning, reset or tool.
Emit ==
    /\ worker = "running" /\ ~cancelled /\ made < MaxProgress
    /\ Put(Event("progress", made + 1), "putting", "running")
    /\ UNCHANGED <<cancelled, revoked, streamVars, client>>

\* The blocked put() of a progress event finds room.
EmitResumes ==
    /\ worker = "putting" /\ ~cancelled /\ ~Full
    /\ queue' = Append(queue, item)
    /\ worker' = "running" /\ item' = Nothing
    /\ UNCHANGED <<made, cancelled, revoked, streamVars, client>>

\* slip: a full queue is emptied to make room for the terminator.
CloseQueueByFlush(q) ==
    /\ worker' = "over"
    /\ queue' = IF Len(q) >= QueueSize THEN <<End>> ELSE Append(q, End)

\* _close_event_queue() outside a cancellation: put(None), waiting for room.
\* Reached only without suspension after the verdict is in the queue.
CloseQueue(q) ==
    IF Len(q) >= QueueSize
    THEN worker' = "closing" /\ queue' = q
    ELSE worker' = "over" /\ queue' = Append(q, End)

\* The event that ends the chat: "done" after run_chat() returned, "error"
\* after it failed.  No deadline bounds its put().
Concludes(kind) ==
    /\ made' = made + 1
    /\ IF Full
       THEN worker' = "concluding" /\ item' = Event(kind, made + 1)
            /\ UNCHANGED queue
       ELSE CloseQueue(Append(queue, Event(kind, made + 1))) /\ item' = Nothing
    /\ UNCHANGED <<cancelled, revoked, streamVars, client>>

\* run_chat() returns an answer, or fails.
RunEnds ==
    /\ worker = "running" /\ ~cancelled
    /\ \E kind \in Verdicts : Concludes(kind)

\* slip: the deadline's error event is not sent.
DeadlineSilent ==
    /\ worker = "putting" /\ ~cancelled
    /\ worker' = "closing" /\ item' = Nothing
    /\ UNCHANGED <<queue, made, cancelled, revoked, streamVars, client>>

\* The chat deadline, which also interrupts a put() of run_chat(); the event
\* being put is dropped, and the number of the next one takes its place.
Deadline ==
    /\ worker = "putting" /\ ~cancelled
    /\ worker' = "concluding"
    /\ item' = Event("error", item.n)
    /\ UNCHANGED <<queue, made, cancelled, revoked, streamVars, client>>

\* The blocked put() of the last event finds room.
Conclude ==
    /\ worker = "concluding" /\ ~cancelled /\ ~Full
    /\ CloseQueue(Append(queue, item))
    /\ item' = Nothing
    /\ UNCHANGED <<made, cancelled, revoked, streamVars, client>>

\* The blocked put(None) finds room.
Close ==
    /\ worker = "closing" /\ ~cancelled /\ ~Full
    /\ queue' = Append(queue, End)
    /\ worker' = "over"
    /\ UNCHANGED <<item, made, cancelled, revoked, streamVars, client>>

\* slip: a cancelled worker waits for room like any other.
CancelledWaits ==
    /\ worker # "over" /\ cancelled /\ ~Full
    /\ queue' = Append(queue, End)
    /\ worker' = "over" /\ item' = Nothing
    /\ UNCHANGED <<made, cancelled, revoked, streamVars, client>>

\* slip: a cancelled worker discards the buffer and leaves no terminator.
CancelledLeavesNothing ==
    /\ worker # "over" /\ cancelled
    /\ queue' = <<>>
    /\ worker' = "over" /\ item' = Nothing
    /\ UNCHANGED <<made, cancelled, revoked, streamVars, client>>

\* CancelledError at any suspension of the worker: the finally discards what
\* is buffered and leaves the terminator, without waiting for a consumer.
Cancelled ==
    /\ worker # "over" /\ cancelled
    /\ queue' = <<End>>
    /\ worker' = "over" /\ item' = Nothing
    /\ UNCHANGED <<made, cancelled, revoked, streamVars, client>>

\* logout, change_password or revoke_api_token cancels the task.
Revoke ==
    /\ worker # "over" /\ stream # "closed"
    /\ cancelled' = TRUE /\ revoked' = TRUE
    /\ UNCHANGED <<queue, worker, item, made, streamVars, client>>

-----------------------------------------------------------------------------
(* event_stream() and the client.                                          *)

\* slip: a heartbeat that races with an arriving event swallows it.
HeartbeatTakes ==
    /\ stream = "getting"
    /\ stream' = "sending" /\ out' = Heartbeat
    /\ queue' = IF queue # <<>> /\ Head(queue) # End THEN Tail(queue) ELSE queue
    /\ UNCHANGED <<delivered, workerVars, client>>

\* Twelve seconds without an event, or the timer fires just as one arrives:
\* the interrupted get() leaves the event in the queue.
SendHeartbeat ==
    /\ stream = "getting"
    /\ stream' = "sending" /\ out' = Heartbeat
    /\ UNCHANGED <<queue, delivered, workerVars, client>>

\* get() returns an event, which is yielded to the response.
TakeEvent ==
    /\ stream = "getting" /\ queue # <<>> /\ Head(queue) # End
    /\ queue' = Tail(queue)
    /\ stream' = "sending" /\ out' = Head(queue)
    /\ UNCHANGED <<delivered, workerVars, client>>

\* The client's connection takes what is sent.
Sent ==
    /\ stream = "sending" /\ client = "reading"
    /\ delivered' = IF out = Heartbeat THEN delivered ELSE Append(delivered, out)
    /\ stream' = "getting" /\ out' = Nothing
    /\ UNCHANGED <<queue, workerVars, client>>

\* The finally of event_stream(): cancel a worker that is not done.
Leave ==
    /\ stream' = "leaving" /\ out' = Nothing
    /\ cancelled' = (cancelled \/ worker # "over")
    /\ UNCHANGED <<worker, item, made, revoked, delivered>>

\* get() returns the terminator.
TakeEnd ==
    /\ stream = "getting" /\ queue # <<>> /\ Head(queue) = End
    /\ queue' = Tail(queue)
    /\ Leave
    /\ UNCHANGED client

\* The client disconnects: the response is cancelled at get() or at the yield.
Disconnect ==
    /\ stream \in {"getting", "sending"} /\ client # "gone"
    /\ client' = "gone"
    /\ Leave
    /\ UNCHANGED queue

\* The worker the stream waits for is over.
StreamCloses ==
    /\ stream = "leaving" /\ worker = "over"
    /\ stream' = "closed"
    /\ UNCHANGED <<queue, out, delivered, workerVars, client>>

\* A connected client stops or resumes reading.
Stall ==
    /\ client = "reading" /\ stream # "closed"
    /\ client' = "stalled"
    /\ UNCHANGED <<queue, workerVars, streamVars>>
Resume ==
    /\ client = "stalled"
    /\ client' = "reading"
    /\ UNCHANGED <<queue, workerVars, streamVars>>

\* Nothing is left to do once the stream is closed.
Finished == stream = "closed" /\ UNCHANGED vars

WorkerNext ==
    Emit \/ EmitResumes \/ RunEnds \/ Deadline \/ Conclude \/ Close \/ Cancelled
StreamNext == TakeEvent \/ TakeEnd \/ StreamCloses

Next ==
    \/ WorkerNext \/ StreamNext
    \/ SendHeartbeat \/ Sent \/ Revoke \/ Disconnect \/ Stall \/ Resume
    \/ Finished

Spec == Init /\ [][Next]_vars

(***************************************************************************)
(* Fairness.  The event loop runs every ready step of the worker and of    *)
(* the stream (weak fairness of each); run_chat() ends, because a deadline *)
(* bounds it; a client that reads takes what it is sent.  SendHeartbeat    *)
(* has no fairness, and TakeEvent needs the strong form: a heartbeat may   *)
(* come between any two events, but the timer is set anew for each get().  *)
(* Nothing obliges a client to resume, to leave, or not to.                *)
(***************************************************************************)
FairSpec ==
    /\ Spec
    /\ WF_vars(EmitResumes) /\ WF_vars(RunEnds) /\ WF_vars(Deadline)
    /\ WF_vars(Conclude) /\ WF_vars(Close) /\ WF_vars(Cancelled)
    /\ SF_vars(TakeEvent) /\ SF_vars(TakeEnd) /\ WF_vars(StreamCloses)
    /\ WF_vars(Sent)

-----------------------------------------------------------------------------
(* Properties.                                                             *)

\* Every variable has its type, and the queue never holds more than its bound:
\* put_nowait(None) in _close_event_queue() never raises QueueFull.
TypeOK ==
    /\ queue \in Seq(Events \cup {End}) /\ Len(queue) <= QueueSize
    /\ worker \in {"running", "putting", "concluding", "closing", "over"}
    /\ item \in Events \cup {Nothing}
    /\ made \in 0 .. MaxProgress + 1
    /\ cancelled \in BOOLEAN /\ revoked \in BOOLEAN
    /\ stream \in {"getting", "sending", "leaving", "closed"}
    /\ out \in Events \cup {Heartbeat, Nothing}
    /\ delivered \in Seq(Events)
    /\ client \in {"reading", "stalled", "gone"}

\* The client sees every event in the order of emission, without a gap or a
\* repetition, whatever heartbeats, full queues and deadlines come between;
\* only the tail that a cancellation discards may be missing.
InOrder == \A i \in DOMAIN delivered : delivered[i].n = i

\* A stream that ends without a revocation or a disconnection has told the
\* client how the chat ended: one done or error event, the last one.
UncutStreamHasVerdict ==
    (stream \in {"leaving", "closed"} /\ ~revoked /\ client # "gone") =>
        /\ delivered # <<>>
        /\ \A i \in DOMAIN delivered :
              delivered[i].kind \in Verdicts <=> i = Len(delivered)

\* Behind the queue, worker and stream keep the contract that ChatService
\* relies on: a worker that is over has left a terminator, the stream closes
\* only after its worker and stops the one it leaves behind.
Chat == "chat"
TerminatorLeft ==
    \/ \E i \in DOMAIN queue : queue[i] = End
    \/ stream \in {"leaving", "closed"} /\ client # "gone"
Phase ==
    CASE worker \in {"running", "putting"}    -> "working"
      [] worker \in {"concluding", "closing"} -> "ending"
      [] worker = "over" -> IF TerminatorLeft THEN "told" ELSE "mute"
Contract == INSTANCE StreamContract WITH
    Chats  <- {Chat},
    phase  <- [c \in {Chat} |-> Phase],
    doomed <- IF cancelled /\ worker # "over" THEN {Chat} ELSE {},
    reader <- [c \in {Chat} |-> IF stream \in {"getting", "sending"} THEN "open" ELSE stream]
KeepsStreamContract == Contract!Spec

\* When the client has gone, its worker ends and the stream's task with it: a
\* queue nobody reads does not hold the worker (comment in main.py:54-60).  And a
\* client that keeps reading gets to the end of the stream, also when its session
\* is revoked in the middle: it does not hear heartbeats for ever.
StreamEnds ==
    /\ (client = "gone") ~> (stream = "closed")
    /\ <>[](client = "reading") => <>(stream = "closed")

=============================================================================
