--------------------------- MODULE MCModelClients ---------------------------
(* The programs that talk to llama.cpp, side by side: what all of them     *)
(* send, and what the quality evaluator and the benchmark make of the      *)
(* answers.  They share no state, so each behaviour exercises one of them. *)
EXTENDS InferenceRequest, QualityEvaluator, InferenceBenchmark

VARIABLE part

-----------------------------------------------------------------------------
(* Requests.                                                               *)

Said(role, content) ==
    [role |-> role, content |-> content, has_calls |-> FALSE, calls |-> <<>>,
     thought |-> 0, size |-> 30]
Called == [Said("assistant", "null") EXCEPT !.has_calls = TRUE, !.calls = <<"valid">>,
                                            !.thought = 5]
UserTurn == Said("user", "text")
MCMessages ==
    {<<>>, <<UserTurn>>, <<UserTurn, Called, Said("tool", "text")>>, <<UserTurn, UserTurn>>,
     <<Said("a list", "text")>>, <<Said("user", "image"), Said("a list", "text")>>,
     <<Said("user", "lone surrogate")>>, <<[Called EXCEPT !.role = "user"]>>,
     <<[Called EXCEPT !.calls = <<>>]>>}
ToolSchema == [valid |-> TRUE, lone |-> FALSE, size |-> 30]
Base == [model |-> "m", messages |-> <<UserTurn>>]
MCPayloads ==
    {[Base EXCEPT !.messages = ms] : ms \in MCMessages}
    \cup {Base @@ f : f \in
        {[stream |-> TRUE, stream_options |-> "usage"], [stream_options |-> "usage"],
         [max_tokens |-> 0], [max_tokens |-> 5, max_completion_tokens |-> 5],
         [n |-> 2], [seed |-> 7, stop |-> 3, frequency_penalty |-> 0], [logit_bias |-> 0],
         [response_format |-> "a list"], [response_format |-> "json_schema"],
         [temperature |-> 0, presence_penalty |-> 0, reasoning_effort |-> "none"],
         [repeat_penalty |-> 0], [top_p |-> 101], [top_k |-> 0],
         [tools |-> <<[ToolSchema EXCEPT !.valid = FALSE]>>],
         [tools |-> <<[ToolSchema EXCEPT !.lone = TRUE]>>],
         [tools |-> <<[ToolSchema EXCEPT !.lone = TRUE]>>, tool_choice |-> "none"],
         [parallel_tool_calls |-> "a list"]}}
    \cup {Base @@ [max_tokens |-> max] @@ [reasoning_effort |-> effort] @@ tools @@ format :
        max \in {Null, 1, 2, 300, 9000},
        effort \in {"none", "low", "max", "ultra"},
        tools \in {<<>>, [tool_choice |-> "auto"], [tools |-> <<>>, tool_choice |-> "none"]}
                  \cup {[tools |-> <<ToolSchema>>, parallel_tool_calls |-> "true", tool_choice |-> c] :
                            c \in {"auto", "none", "named", "bad"}},
        format \in {<<>>, [response_format |-> "text"], [response_format |-> "json_object"]}}
MCDeployments ==
    {[maximum |-> 9000, window |-> 9006, thinking |-> TRUE,
      answer |-> 4096, reasoning |-> 24576, budget |-> Null],
     [maximum |-> 300, window |-> 4096, thinking |-> FALSE,
      answer |-> 8192, reasoning |-> 1024, budget |-> Null],
     [maximum |-> 300, window |-> 4096, thinking |-> FALSE,
      answer |-> 8192, reasoning |-> 1024, budget |-> 768]}

-----------------------------------------------------------------------------
(* The quality evaluator.                                                  *)

Reply(calls, final, finish) ==
    [kind |-> "payload", choices |-> 1, finish |-> finish, typed |-> TRUE,
     calls |-> calls, final |-> final, lone |-> FALSE]
MCWires ==
    {Reply(<<>>, "right", "stop"), Reply(<<>>, "wrong", "stop"),
     Reply(<<>>, "right", "length"), Reply(<<>>, "NaN", "stop"),
     [Reply(<<"expected">>, "none", "tool_calls") EXCEPT !.lone = TRUE],
     Reply(<<"expected">>, "right", "tool_calls"), Reply(<<"other">>, "none", "tool_calls"),
     Reply(<<"malformed">>, "none", "tool_calls"),
     Reply(<<"expected", "expected">>, "none", "tool_calls"),
     [Reply(<<>>, "right", "stop") EXCEPT !.choices = 2],
     [kind |-> "http_error"], [kind |-> "dropped"]}
Calibration == "calibration_missing_attribute"
ToolCase == "tool_exchange_grounding"
MCOptions ==
    {[ids |-> <<ToolCase, Calibration>>, raw |-> <<1>>], [ids |-> <<Calibration, ToolCase, Calibration>>, raw |-> <<1, 1>>],
     [ids |-> <<Calibration>>, raw |-> <<2, 1, 2>>], [ids |-> <<Calibration>>, raw |-> <<1>>],
     [ids |-> <<"no_such_case">>, raw |-> <<1>>], [ids |-> <<"reasoning_momentum">>, raw |-> <<1>>],
      [ids |-> <<Calibration>>, raw |-> <<>>]}

-----------------------------------------------------------------------------
(* The benchmark.                                                          *)

Data(value) == [kind |-> "data", size |-> 1, value |-> value]
Blank == [kind |-> "blank", size |-> 0]
Comment == [kind |-> "comment", size |-> 1]
Chunk(content, calls) ==
    [kind |-> "chunk", content |-> content, calls |-> calls, finish |-> NoFinish,
     fingerprint |-> "f", usage |-> <<>>, timings |-> <<>>]
Final(usage, timings) ==
    [Chunk(<<>>, <<>>) EXCEPT !.finish = "length", !.usage = usage, !.timings = timings]
\* Usage and timings with the token counts of this instance.
Whole == Final(<<3, 2, NoDetails>>, <<3, 0, 2, 4, 1, 50>>)
Cached == Final(<<3, 2, 2>>, <<1, 2, 2, 0, 0, 50>>)
Overdrawn == Final(<<3, 2, 0>>, <<3, 0, 2, 1, 2, 50>>)
Stream(events) ==
    FlattenSeq([n \in DOMAIN events |-> <<Data(events[n]), Blank>>])
    \o <<Data([kind |-> "done"])>>
Text(content) == [content |-> content, calls |-> <<>>]
Call(index, text) == [index |-> index, text |-> text]
MCResponses ==
    {[lines |-> <<Comment>> \o Stream(<<Chunk(<<>>, <<>>), Chunk(<<"a">>, <<>>),
                                        Chunk(<<"b">>, <<>>), Whole>>),
      says |-> Text(<<"a", "b">>)],
     [lines |-> Stream(<<Chunk(<<"a", "b">>, <<>>), Cached>>), says |-> Text(<<"a", "b">>)],
     [lines |-> Stream(<<Chunk(<<"a">>, <<>>), Whole>>), says |-> Text(<<"a">>)],
     [lines |-> Stream(<<Chunk(<<>>, <<Call(0, <<"c">>), [text |-> <<"d">>]>>),
                         Chunk(<<>>, <<Call(1, <<"e">>)>>), Whole>>),
      says |-> [content |-> <<>>, calls |-> 0 :> <<"c">> @@ 1 :> <<"d", "e">>]],
     [lines |-> Stream(<<Chunk(<<"a">>, <<>>), [Whole EXCEPT !.fingerprint = "g"]>>),
      says |-> Text(<<"a">>)],
     [lines |-> Stream(<<Chunk(<<"a">>, <<>>), [Whole EXCEPT !.finish = "stop"]>>),
      says |-> Text(<<"a">>)],
     [lines |-> <<[Data(Chunk(<<"a">>, <<>>)) EXCEPT !.size = 9], Blank>> \o Stream(<<Whole>>),
      says |-> Text(<<"a">>)],
     [lines |-> Stream(<<Chunk(<<"a">>, <<>>), Whole>>) \o <<Data(Chunk(<<"b">>, <<>>))>>,
      says |-> Text(<<"a">>)],
     [lines |-> Stream(<<Chunk(<<"a">>, <<>>), Overdrawn>>), says |-> Text(<<"a">>)],
     [lines |-> Stream(<<Whole>>), says |-> Text(<<>>)]}
Schedules(modes, workloads, repeats, cache, alternate) ==
    [modes |-> modes, workloads |-> workloads, repeats |-> repeats, warmups |-> 1,
     cache_prompt |-> cache, alternate_branch |-> alternate]
Both == <<"fast", "tools">>
MCSettings ==
    {Schedules(Both, <<"code">>, 3, FALSE, FALSE), Schedules(Both, <<"code">>, 3, TRUE, TRUE),
     Schedules(<<"fast">>, <<"code", "prose">>, 2, TRUE, FALSE)}

-----------------------------------------------------------------------------
\* The variables of the parts that do not run stay at one initial value.
ClientsInit ==
    /\ part \in {"requests", "quality", "benchmark"}
    /\ IrInit /\ EvInit /\ BmInit
    /\ part # "requests" => env = CHOOSE e \in Deployments : TRUE
    /\ part # "benchmark" => settings = CHOOSE s \in Settings : TRUE

ClientsNext ==
    /\ UNCHANGED part
    /\ \/ part = "requests" /\ IrNext /\ UNCHANGED <<evVars, bmVars>>
       \/ part = "quality" /\ EvNext /\ UNCHANGED <<irVars, bmVars>>
       \/ part = "benchmark" /\ BmNext /\ UNCHANGED <<irVars, evVars>>

ClientsSpec == ClientsInit /\ [][ClientsNext]_<<part, irVars, evVars, bmVars>>
=============================================================================
