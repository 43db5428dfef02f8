------------------------- MODULE InferenceBenchmark -------------------------
(***************************************************************************)
(* scripts/cluster/benchmark-inference.py: a schedule of streamed requests *)
(* of fixed length, one at a time, each checked before it is counted.      *)
(*                                                                         *)
(* A response is a sequence of lines of a few kinds with a size; texts are *)
(* sequences of pieces.  run_once() has no concurrent activity, so it is   *)
(* one action; the server decides what the response says, how it is split, *)
(* and where it breaks off.  The time of an event is its position.         *)
(***************************************************************************)
EXTENDS Integers, Sequences, FiniteSets, SequencesExt

CONSTANTS
    Settings,           \* [modes, workloads, repeats, warmups, cache_prompt,
                        \*  alternate_branch]: command lines
    Responses,          \* [lines, says]: what the server may send, and means
    MaxTokens,          \* --max-tokens
    MaxEventBytes, MaxResponseBytes

ASSUME SchedulesAssumption ==
    \A s \in Settings : s.modes \in Seq(STRING) /\ s.workloads \in Seq(STRING)
\* A call fragment of a chunk of a response.
IsFragment(f) ==
    f.text \in Seq(STRING) /\ ("index" \in DOMAIN f => f.index \in Nat)
ASSUME ResponsesAssumption ==
    \A r \in Responses :
        /\ r.lines \in Seq(ToSet(r.lines))
        /\ \A line \in ToSet(r.lines) :
              line.kind = "data" /\ line.value.kind = "chunk" =>
                 /\ line.value.content \in Seq(STRING)
                 /\ line.value.calls \in Seq(ToSet(line.value.calls))
                 /\ \A f \in ToSet(line.value.calls) : IsFragment(f)

VARIABLES
    settings,   \* the options
    bench,      \* "running", "failed" or "over"
    done,       \* requests of the schedule made so far
    measured,   \* results that count
    warnings    \* mode/workload pairs reported to vary between repeats

bmVars == <<settings, bench, done, measured, warnings>>

-----------------------------------------------------------------------------
(* run_once(): the events                                                  *)

\* slip: a later fragment of a call replaces the earlier one.
FragmentReplaces(calls, index, text) ==
    [i \in DOMAIN calls \cup {index} |-> IF i = index THEN text ELSE calls[i]]
AddFragment(calls, index, text) ==
    [i \in DOMAIN calls \cup {index} |->
        (IF i \in DOMAIN calls THEN calls[i] ELSE <<>>) \o (IF i = index THEN text ELSE <<>>)]

\* A fragment without an index has that of its position.
IndexOf(fragments, n) ==
    IF "index" \in DOMAIN fragments[n] THEN fragments[n].index ELSE n - 1

\* update_tool_calls()
UpdateToolCalls(calls, fragments) ==
    LET gathered[n \in 0 .. Len(fragments)] ==
            IF n = 0 THEN calls
            ELSE AddFragment(gathered[n - 1], IndexOf(fragments, n), fragments[n].text)
    IN gathered[Len(fragments)]

\* An event without a finish reason, and without a fingerprint; texts that the
\* server sends, the empty one too, have other names.
NoFinish == "no finish"
NoFingerprint == "no fingerprint"
Nothing == [done |-> FALSE, failed |-> FALSE, at |-> 0, ttft |-> 0, finish |-> NoFinish,
            fingerprint |-> NoFingerprint, content |-> <<>>, calls |-> <<>>,
            usage |-> <<>>, timings |-> <<>>]

Meaningful(event) ==
    event.content # <<>> \/ \E i \in DOMAIN event.calls : event.calls[i].text # <<>>

\* One event: what it adds, in the order of the code.  content stands for
\* delta.content and for the reasoning text, which is collected alike.
Consume(acc, event) ==
    IF acc.done \/ acc.failed THEN acc
    ELSE IF event.kind = "done" THEN [acc EXCEPT !.done = TRUE, !.at = @ + 1]
    ELSE IF event.kind # "chunk"
              \/ /\ acc.fingerprint # NoFingerprint
                 /\ event.fingerprint \notin {NoFingerprint, acc.fingerprint}
         THEN [acc EXCEPT !.failed = TRUE]
    ELSE [acc EXCEPT
            !.at = @ + 1,
            !.ttft = IF @ = 0 /\ Meaningful(event) THEN acc.at + 1 ELSE @,
            !.finish = IF event.finish = NoFinish THEN @ ELSE event.finish,
            !.fingerprint = IF event.fingerprint = NoFingerprint THEN @ ELSE event.fingerprint,
            !.content = @ \o event.content,
            !.calls = UpdateToolCalls(@, event.calls),
            !.usage = IF event.usage = <<>> THEN @ ELSE event.usage,
            !.timings = IF event.timings = <<>> THEN @ ELSE event.timings]

-----------------------------------------------------------------------------
(* sse_events(): a generator, so each event is consumed as it is read.     *)

\* A response so far: what run_once() has made of its events, and the data
\* lines of the event that is still open.
Unread == [run |-> Nothing, values |-> <<>>, bytes |-> 0, total |-> 0]

\* The data lines of an event are joined by newlines.  Each of them is one JSON
\* value here, as llama.cpp writes it, and several values are no JSON.
Event(values) == IF Len(values) = 1 THEN values[1] ELSE [kind |-> "invalid"]
Flushed(reader) ==
    IF reader.values = <<>> THEN reader
    ELSE [reader EXCEPT !.run = Consume(@, Event(reader.values)), !.values = <<>>, !.bytes = 0]

ReadLine(reader, line) ==
    LET total == reader.total + line.size
        counted == [reader EXCEPT !.total = total]
        bytes == reader.bytes + line.size
        overflow == [reader EXCEPT !.run.failed = TRUE]
    IN IF reader.run.done \/ reader.run.failed THEN reader
       ELSE IF total > MaxResponseBytes \/ line.size > MaxEventBytes THEN overflow
       ELSE CASE line.kind = "blank" -> Flushed(counted)
              [] line.kind = "data" ->
                    IF bytes > MaxEventBytes THEN overflow
                    ELSE [counted EXCEPT !.values = Append(@, line.value), !.bytes = bytes]
              [] OTHER -> counted      \* a comment or another field

\* What is known after each line.
SseEvents(lines) ==
    LET reader[n \in 0 .. Len(lines)] ==
            IF n = 0 THEN Unread ELSE ReadLine(reader[n - 1], lines[n])
    IN reader

-----------------------------------------------------------------------------
(* run_once()                                                              *)

\* A response that ends after some line; an event that no blank line ended
\* counts.
RunOf(lines, end) == Flushed(SseEvents(lines)[end]).run

NoDetails == -1     \* usage has no prompt_tokens_details

\* The checks after the stream; usage is <<prompt, completion, cached>>, timings
\* is <<prompt_n, cache_n, predicted_n, draft_n, draft_n_accepted, speed>>
\* with the lower one of its two speeds.
Accepted(run, cachePrompt) ==
    /\ run.done /\ ~run.failed /\ run.ttft > 0 /\ run.finish = "length"
    /\ run.usage # <<>> /\ run.timings # <<>>
    /\ run.usage[1] >= 1 /\ run.timings[1] >= 1
    /\ run.timings[1] + run.timings[2] = run.usage[1]
    /\ run.timings[3] = run.usage[2] /\ run.usage[2] = MaxTokens
    /\ ~cachePrompt => run.timings[2] = 0 /\ run.usage[3] \in {0, NoDetails}
    /\ run.timings[5] <= run.timings[4] /\ run.timings[6] > 0

\* request_body(): what distinguishes the request of one item from another.
Body(item) ==
    [mode |-> item.mode, workload |-> item.workload,
     backend_sampling |-> item.mode = "fast",
     branch |-> IF ~settings.alternate_branch THEN "none"
                ELSE IF item.repeat % 2 = 1 THEN "A" ELSE "B"]

-----------------------------------------------------------------------------
(* main()                                                                  *)

RoundModes(options, repeat) ==
    IF repeat % 2 = 1 THEN options.modes ELSE Reverse(options.modes)

\* Rounds over the workloads, the modes innermost; the order of the modes
\* alternates if measured.
Rounds(count, warm, options) ==
    LET M == Len(options.modes)
        W == Len(options.workloads)
    IN [n \in 1 .. count * (W * M) |->
           LET repeat == ((n - 1) \div (W * M)) + 1
               modes == IF warm THEN options.modes ELSE RoundModes(options, repeat)
           IN [warm |-> warm, repeat |-> repeat,
               workload |-> options.workloads[(((n - 1) \div M) % W) + 1],
               mode |-> modes[((n - 1) % M) + 1]]]
Warmups(options) == Rounds(options.warmups, TRUE, options)
Measurements(options) == Rounds(options.repeats, FALSE, options)
Schedule(options) == Warmups(options) \o Measurements(options)

OfPair(mode, workload) == {r \in ToSet(measured) : r.mode = mode /\ r.workload = workload}
Hashes(rs) == {r.output : r \in rs}

\* slip: both branches of a shared document are expected to answer alike.
DeterministicAcrossBranches(rs) == Cardinality(Hashes(rs)) = 1
Deterministic(rs) ==
    IF settings.alternate_branch
    THEN \A parity \in {0, 1} :
            Cardinality(Hashes({r \in rs : r.repeat % 2 = parity})) <= 1
    ELSE Cardinality(Hashes(rs)) = 1

BmInit ==
    /\ settings \in Settings
    /\ settings.alternate_branch => settings.cache_prompt
    /\ settings.repeats \in 1 .. 100 /\ settings.warmups \in 0 .. 20
    /\ bench = "running" /\ done = 0 /\ measured = <<>> /\ warnings = {}

\* The next request of the schedule: the response breaks off after any line.
RunOnce(response, end) ==
    /\ bench = "running" /\ done < Len(Schedule(settings))
    /\ LET item == Schedule(settings)[done + 1]
           run == RunOf(response.lines, end)
       IN IF Accepted(run, settings.cache_prompt)
          THEN /\ done' = done + 1
               /\ measured' = IF item.warm THEN measured
                     ELSE Append(measured,
                            [mode |-> item.mode, workload |-> item.workload,
                             repeat |-> item.repeat, body |-> Body(item),
                             ttft |-> run.ttft, elapsed |-> run.at,
                             output |-> [content |-> run.content, calls |-> run.calls],
                             says |-> response.says])
               /\ UNCHANGED bench
          ELSE bench' = "failed" /\ UNCHANGED <<done, measured>>
    /\ UNCHANGED <<settings, warnings>>

\* summarize() and the report.
Conclude ==
    /\ bench = "running" /\ done = Len(Schedule(settings))
    /\ bench' = "over"
    /\ warnings' = {pair \in ToSet(settings.modes) \X ToSet(settings.workloads) :
                        ~Deterministic(OfPair(pair[1], pair[2]))}
    /\ UNCHANGED <<settings, done, measured>>

BmNext ==
    \/ \E response \in Responses : \E end \in 0 .. Len(response.lines) :
          RunOnce(response, end)
    \/ Conclude

BmSpec == BmInit /\ [][BmNext]_bmVars

-----------------------------------------------------------------------------
(* Properties.                                                             *)

\* Two lines of a response are of different events.
Apart(lines, m, n) ==
    \E b \in DOMAIN lines : /\ lines[b].kind = "blank"
                            /\ (m < b /\ b < n) \/ (n < b /\ b < m)

\* A line that is a chunk, whole and alone; and one that nothing else precedes.
Speaks(lines, n) ==
    /\ lines[n].kind = "data" /\ lines[n].value.kind = "chunk"
    /\ \A m \in DOMAIN lines : m # n /\ lines[m].kind = "data" => Apart(lines, m, n)
Heard(lines, n) ==
    \A m \in 1 .. n : lines[m].kind = "data" \/ m = n => Speaks(lines, m)

\* The text of one call in the fragments of a chunk.
PieceOf(fragments, i) ==
    FlattenSeq([k \in DOMAIN fragments |->
                   IF IndexOf(fragments, k) = i THEN fragments[k].text ELSE <<>>])

\* What a server says with its lines, however it splits it: the contents of
\* the chunks it sends before anything else, and per index the fragments.
Texts(lines) ==
    [n \in DOMAIN lines |-> IF Heard(lines, n) THEN lines[n].value.content ELSE <<>>]
Pieces(lines, i) ==
    [n \in DOMAIN lines |-> IF Heard(lines, n) THEN PieceOf(lines[n].value.calls, i) ELSE <<>>]
Indexes(lines) ==
    UNION {{IndexOf(lines[n].value.calls, k) : k \in DOMAIN lines[n].value.calls} :
              n \in {m \in DOMAIN lines : Heard(lines, m)}}
Meaning(lines) ==
    [content |-> FlattenSeq(Texts(lines)),
     calls |-> [i \in Indexes(lines) |-> FlattenSeq(Pieces(lines, i))]]
ASSUME MeaningAssumption == \A r \in Responses : r.says = Meaning(r.lines)

\* Every variable has its type.
BmTypeOK ==
    /\ bench \in {"running", "failed", "over"}
    /\ done \in 0 .. Len(Schedule(settings)) /\ Len(measured) <= done
    /\ warnings \subseteq ToSet(settings.modes) \X ToSet(settings.workloads)

\* A result that counts is the whole of what the server said: no stream that
\* broke off, none put together differently because it was split differently,
\* and the first output lies within the time the request took.
MeasuresWhatWasSaid ==
    \A r \in ToSet(measured) :
        r.output = r.says /\ 0 < r.ttft /\ r.ttft < r.elapsed

\* The report warns of a mode and workload exactly when the same request was
\* answered differently on two repeats.
WarnsExactlyOnDrift ==
    bench = "over" =>
        warnings = {pair \in ToSet(settings.modes) \X ToSet(settings.workloads) :
            \E r, t \in OfPair(pair[1], pair[2]) : r.body = t.body /\ r.output # t.output}

=============================================================================
