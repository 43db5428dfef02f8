------------------------------- MODULE ToolLoop -------------------------------
(***************************************************************************)
(* run_chat() of assistant.py: the bounded loop in which the local model   *)
(* answers, asks for read-only tools, reads their results and answers      *)
(* again, while the browser sees the answer being generated.               *)
(*                                                                         *)
(* Text is counted, not spelled: a piece of an answer is a number of       *)
(* characters, and the preview in the browser is the sequence of the       *)
(* answers its characters came from.  The system prompt and the messages   *)
(* of the browser are the first message of the conversation.  A tool call  *)
(* is its id (or none) and whether _tool_call() accepts it.                *)
(***************************************************************************)
EXTENDS Naturals, Sequences, FiniteSets, Selection

CONSTANTS
    MaxToolRounds,      \* MAX_TOOL_ROUNDS (12)
    MaxToolCalls,       \* MAX_TOOL_CALLS (20)
    ToolParallelism,    \* TOOL_PARALLELISM (4)
    MaxChars,           \* MAX_ASSISTANT_CHARS
    MaxSaid,            \* bound: characters of one answer
    RawCalls,           \* the tool_calls lists the model may send
    NoId

ASSUME LimitAssumption ==
    /\ {MaxToolRounds, MaxToolCalls, ToolParallelism} \subseteq Nat \ {0}
    /\ MaxChars \in Nat /\ MaxSaid \in Nat

RawIds == UNION {{raw[i].id : i \in DOMAIN raw} : raw \in RawCalls}
ASSUME RawCallsAssumption == RawCalls \subseteq Seq([id : RawIds, ok : BOOLEAN])

VARIABLES
    toolsEnabled,   \* not Fast mode
    reasoning,      \* the reasoning switch of the request
    place,          \* "asking", "tools", "done" or "failed"
    round,          \* pass of the for loop; one more in its else branch
    calls,          \* requests sent to the model: names the current answer
    final,          \* this request withdraws the tools
    said,           \* characters of the current answer
    thinking,       \* the current answer carries reasoning_content
    streamed,       \* streamed_chars
    streamedAny,    \* streamed_any
    shown,          \* the browser's preview
    conversation,   \* the messages kept for the next request
    executed,       \* tool calls so far
    tools,          \* execute_tool() tasks of this round, in order
    reply           \* characters of the text in the done event

vars == <<toolsEnabled, reasoning, place, round, calls, final, said, thinking,
          streamed, streamedAny, shown, conversation, executed, tools, reply>>
answerVars == <<said, thinking, streamed, streamedAny, shown>>
mode == <<toolsEnabled, reasoning>>

Least(a, b) == IF a <= b THEN a ELSE b
Rounds == IF toolsEnabled THEN MaxToolRounds ELSE 1
Remaining == MaxToolCalls - executed

Message(role, ids, thought) == [role |-> role, ids |-> ids, thought |-> thought]
Asks(m) == m.role = "assistant" /\ m.ids # <<>>

-----------------------------------------------------------------------------
(* _openai_messages(): what of the conversation goes on the wire.          *)

\* The first of the pending ids, the last of them (slip), and the list
\* without its first occurrence of an id.
LastPending(pending)  == pending[Len(pending)]
FirstPending(pending) == Head(pending)
Without(pending, id) ==
    LET at == CHOOSE i \in DOMAIN pending :
                /\ pending[i] = id
                /\ \A j \in 1 .. i - 1 : pending[j] # id
    IN SubSeq(pending, 1, at - 1) \o SubSeq(pending, at + 1, Len(pending))

\* An assistant turn gives each call without an id a local one; a tool turn
\* keeps a known id, and one without an id takes the first that is pending.
WireStep(done, n, m) ==
    IF Asks(m)
    THEN LET ids == [k \in DOMAIN m.ids |->
                        IF m.ids[k] = NoId THEN <<n, k>> ELSE m.ids[k]]
         IN [wire |-> Append(done.wire, [m EXCEPT !.ids = ids]), pending |-> ids]
    ELSE IF m.role = "tool" /\ done.pending # <<>>
    THEN LET id == IF m.ids[1] = NoId THEN FirstPending(done.pending)
                   ELSE m.ids[1]
         IN [wire |-> Append(done.wire, [m EXCEPT !.ids = <<id>>]),
             pending |-> IF \E i \in DOMAIN done.pending : done.pending[i] = id
                         THEN Without(done.pending, id) ELSE done.pending]
    ELSE [done EXCEPT !.wire = Append(@, m)]

Wire(messages) ==
    LET converted[n \in 0 .. Len(messages)] ==
          IF n = 0 THEN [wire |-> <<>>, pending |-> <<>>]
          ELSE WireStep(converted[n - 1], n, messages[n])
    IN converted[Len(messages)].wire

-----------------------------------------------------------------------------
(* The loop.                                                               *)

\* slip: the preview of the last round stays.
KeepPreview == UNCHANGED <<streamed, streamedAny, shown>>

\* begin_round(): a reset event if anything of this round was shown.
BeginRound ==
    IF streamedAny
    THEN streamed' = 0 /\ streamedAny' = FALSE /\ shown' = <<>>
    ELSE UNCHANGED <<streamed, streamedAny, shown>>

\* A request: with tools, or with the turn that withdraws them once the call
\* budget is spent or the rounds are used up.
Ask(spent) ==
    /\ round' = round + 1
    /\ calls' = calls + 1
    /\ final' = (round' > Rounds \/ (toolsEnabled /\ spent >= MaxToolCalls))
    /\ place' = "asking"
    /\ said' = 0 /\ thinking' = FALSE
    /\ BeginRound

Init ==
    /\ toolsEnabled \in BOOLEAN /\ reasoning \in BOOLEAN
    /\ place = "asking" /\ round = 1 /\ calls = 1 /\ final = FALSE
    /\ said = 0 /\ thinking = FALSE
    /\ streamed = 0 /\ streamedAny = FALSE /\ shown = <<>>
    /\ conversation = <<Message("user", <<>>, FALSE)>>
    /\ executed = 0 /\ tools = <<>> /\ reply = 0

\* What of a piece of k characters still fits the cap.
Allowed(k) == Least(k, MaxChars - Least(streamed, MaxChars))

\* on_delta(): the part of a piece that fits the cap is shown.
Delta ==
    /\ place = "asking"
    /\ \E k \in 1 .. MaxSaid - said :
        LET allowed == Allowed(k) IN
        /\ said' = said + k
        /\ streamed' = streamed + allowed
        /\ streamedAny' = (streamedAny \/ allowed > 0)
        /\ shown' = shown \o [i \in 1 .. allowed |-> calls]
    /\ UNCHANGED <<mode, place, round, calls, final, thinking, conversation,
                   executed, tools, reply>>

\* The answer carries a reasoning trace, shown or not.
Think ==
    /\ place = "asking" /\ ~thinking
    /\ thinking' = TRUE
    /\ UNCHANGED <<mode, place, round, calls, final, said, streamed,
                   streamedAny, shown, conversation, executed, tools, reply>>

\* The stripped answer is the reply, unless nothing is left of it.
Conclude ==
    /\ \E left \in 0 .. said :
          /\ reply' = Least(left, MaxChars)
          /\ place' = IF left = 0 THEN "failed" ELSE "done"
    /\ UNCHANGED <<mode, round, calls, final, answerVars, conversation,
                   executed, tools>>

\* The calls that are executed: what the budget leaves, and well formed.
Accepted(raw) == Picked(raw, {i \in DOMAIN raw : raw[i].ok})
EveryCall(raw) == Accepted(raw)         \* slip: no budget
ParsedCalls(raw) == Accepted(SubSeq(raw, 1, Least(Len(raw), Remaining)))

\* The answer is complete and no call of it will be executed.
Answer ==
    /\ place = "asking"
    /\ \/ final \/ ~toolsEnabled
       \/ \E raw \in RawCalls : ParsedCalls(raw) = <<>>
    /\ Conclude

\* The answer asks for tools: it joins the conversation, the tasks start.
AnswerCalls ==
    /\ place = "asking" /\ ~final /\ toolsEnabled
    /\ \E raw \in RawCalls :
        LET parsed == ParsedCalls(raw)
            ids == [i \in DOMAIN parsed |-> parsed[i].id] IN
        /\ parsed # <<>>
        /\ conversation' = Append(conversation,
                             Message("assistant", ids, reasoning /\ thinking))
        /\ executed' = executed + Len(parsed)
        /\ tools' = [i \in DOMAIN parsed |-> "waiting"]
    /\ place' = "tools"
    /\ UNCHANGED <<mode, round, calls, final, answerVars, reply>>

Running == {i \in DOMAIN tools : tools[i] = "running"}

\* slip: a task that is over keeps its place in tool_slots.
SlotsKept == {i \in DOMAIN tools : tools[i] # "waiting"}
SlotsTaken == Running

\* Tasks of gather() take the tool_slots semaphore in order.
ToolStarts ==
    /\ Cardinality(SlotsTaken) < ToolParallelism
    /\ \E i \in DOMAIN tools :
          /\ tools[i] = "waiting"
          /\ \A j \in 1 .. i - 1 : tools[j] # "waiting"
          /\ tools' = [tools EXCEPT ![i] = "running"]
    /\ UNCHANGED <<mode, place, round, calls, final, answerVars, conversation,
                   executed, reply>>

\* A tool returns, or raises ToolError: either becomes its message.
ToolEnds ==
    /\ \E i \in Running : tools' = [tools EXCEPT ![i] = "over"]
    /\ UNCHANGED <<mode, place, round, calls, final, answerVars, conversation,
                   executed, reply>>

\* A tool raises something else: gather() raises it at once and leaves the
\* other tasks running.
ToolCrashes ==
    /\ \E i \in Running : tools' = [tools EXCEPT ![i] = "crashed"]
    /\ place' = IF place = "tools" THEN "failed" ELSE place
    /\ UNCHANGED <<mode, round, calls, final, answerVars, conversation,
                   executed, reply>>

\* All results are in: they join the conversation in the order of the calls,
\* and the next request follows.
Gather ==
    /\ place = "tools"
    /\ \A i \in DOMAIN tools : tools[i] = "over"
    /\ LET ids == conversation[Len(conversation)].ids IN
       conversation' = conversation \o
          [i \in DOMAIN tools |-> Message("tool", <<ids[i]>>, FALSE)]
    /\ tools' = <<>>
    /\ Ask(executed)
    /\ UNCHANGED <<mode, executed, reply>>

\* slip: an interrupted run leaves its tools alone.
InterruptedAlone ==
    /\ place \in {"asking", "tools"}
    /\ place' = "failed"
    /\ UNCHANGED <<mode, round, calls, final, answerVars, conversation,
                   executed, tools, reply>>

\* The model service fails, the deadline passes or the chat is cancelled;
\* gather() passes a cancellation on to its tasks.
Interrupted ==
    /\ place \in {"asking", "tools"}
    /\ place' = "failed"
    /\ tools' = [i \in DOMAIN tools |->
                   IF tools[i] = "crashed" THEN "crashed" ELSE "over"]
    /\ UNCHANGED <<mode, round, calls, final, answerVars, conversation,
                   executed, reply>>

Returned == place \in {"done", "failed"} /\ UNCHANGED vars

Next ==
    \/ Delta \/ Think \/ Answer \/ AnswerCalls
    \/ ToolStarts \/ ToolEnds \/ ToolCrashes
    \/ Gather \/ Interrupted \/ Returned

Spec == Init /\ [][Next]_vars

\* A request and a tool end within their timeouts, and the loop goes on.
Fairness ==
    /\ WF_vars(Answer \/ AnswerCalls) /\ WF_vars(ToolStarts)
    /\ WF_vars(ToolEnds) /\ WF_vars(Gather)

FairSpec == Spec /\ Fairness

-----------------------------------------------------------------------------
(* Properties.                                                             *)

ToolStates == {"waiting", "running", "over", "crashed"}

\* Every variable has its type.
TypeOK ==
    /\ toolsEnabled \in BOOLEAN /\ reasoning \in BOOLEAN
    /\ place \in {"asking", "tools", "done", "failed"}
    /\ round \in 1 .. Rounds + 1 /\ calls \in Nat /\ final \in BOOLEAN
    /\ said \in 0 .. MaxSaid /\ thinking \in BOOLEAN
    /\ streamed \in 0 .. MaxChars /\ streamedAny \in BOOLEAN
    /\ shown \in Seq(1 .. calls)
    /\ \A i \in DOMAIN conversation :
          conversation[i].role \in {"user", "assistant", "tool"}
    /\ executed \in Nat
    /\ tools \in Seq(ToolStates)
    /\ reply \in 0 .. MaxChars

\* However many calls the model sends at once or over the rounds, no more
\* than MaxToolCalls run for one chat, at most ToolParallelism at a time,
\* and the model is asked a bounded number of times.
WorkBounded ==
    /\ executed <= MaxToolCalls
    /\ Cardinality(Running) <= ToolParallelism
    /\ calls <= Least(MaxToolRounds, MaxToolCalls) + 1

\* In every request each call of an assistant turn is answered by exactly one
\* tool turn, right after it, in order and with the same id: also when the
\* model omits or repeats ids, when some of its calls are not executed, and
\* when the tools end in another order.
WellPaired(wire) ==
    /\ \A i \in DOMAIN wire : Asks(wire[i]) =>
          \A k \in DOMAIN wire[i].ids :
              /\ i + k <= Len(wire)
              /\ wire[i + k].role = "tool"
              /\ wire[i + k].ids = <<wire[i].ids[k]>>
    /\ \A j \in DOMAIN wire : wire[j].role = "tool" =>
          \E i \in 1 .. j - 1 : Asks(wire[i]) /\ j - i \in DOMAIN wire[i].ids
RequestsWellPaired == place = "asking" => WellPaired(Wire(conversation))

\* When the chat is done, the browser's preview is the last answer up to the
\* cap: nothing that an earlier round said before its calls is left in it.
PreviewIsAnswer ==
    place = "done" => shown = [i \in 1 .. Least(said, MaxChars) |-> calls]

\* No tool outlives its chat, except the siblings of one that crashed.
ToolsEndWithChat ==
    (place \in {"done", "failed"} /\ \E i \in DOMAIN tools :
        tools[i] \in {"waiting", "running"}) =>
    \E i \in DOMAIN tools : tools[i] = "crashed"

\* The chat comes to an end and so do the tools it leaves behind.
Terminates ==
    <>(place \in {"done", "failed"} /\
       \A i \in DOMAIN tools : tools[i] \in {"over", "crashed"})

=============================================================================
