--------------------------- MODULE InferenceRequest ---------------------------
(***************************************************************************)
(* The requests that reach llama.cpp: those that the gateway makes of what *)
(* a coding client posts (openai_gateway.py), those of the browser chat    *)
(* (_chat_once), of the quality evaluator and of the benchmark.  They come *)
(* from four builders, but one server has to get along with all of them.   *)
(*                                                                         *)
(* A body is a function from the names of the fields it has; numbers that  *)
(* are fractions in the code are given in hundredths.  A value of a wrong  *)
(* type is treated like one out of range.                                  *)
(***************************************************************************)
EXTENDS Integers, Sequences, FiniteSets, FiniteSetsExt

CONSTANTS
    Payloads,       \* what coding clients post
    Deployments,    \* [maximum, window, thinking]: settings of the gateway,
                    \* [answer, reasoning]: output ceilings of the browser chat,
                    \* [budget]: its REASONING_BUDGET_TOKENS, or Null if not set
    EvaluatorMax,   \* values of the evaluator's --max-tokens
    BenchmarkMax    \* and of the benchmark's

Null == -1          \* not given, or an explicit null for the output allowance

\* What the settings and the options are checked for when the programs start;
\* a payload without messages is given as one with an empty list of them.
ASSUME SettingsAssumption ==
    /\ \A d \in Deployments : d.maximum \in Nat /\ d.answer \in Nat /\ d.reasoning \in Nat
    /\ \A d \in Deployments :
          /\ d.reasoning >= 1024
          /\ d.budget # Null => 256 <= d.budget /\ d.budget <= d.reasoning - 256
          /\ d.budget \in Int
    /\ EvaluatorMax \subseteq Nat /\ \A max \in EvaluatorMax : max >= 256
ASSUME PayloadsAssumption ==
    \A p \in Payloads :
        /\ "messages" \in DOMAIN p
        /\ \A key \in {"max_tokens", "max_completion_tokens"} \cap DOMAIN p : p[key] \in Int

MAX_MESSAGES == 256
MAX_TOOLS == 128
MAX_REASONING_CONTENT_CHARS == 1000000
MAX_TOP_K == 262144
ZOO_ANSWER_RESERVE_TOKENS == 4096
REASONING_ANSWER_RESERVE_TOKENS == 4096

VARIABLES
    env,        \* the deployment
    posted,     \* the payload behind the last request, if it is the gateway's
    verdict,    \* "accepted", "refused" with a 400 or "crashed" with a 500
    sent        \* the last request to llama.cpp

irVars == <<env, posted, verdict, sent>>

Has(p, key) == key \in DOMAIN p
Get(p, key, default) == IF Has(p, key) THEN p[key] ELSE default
InRange(n, low, high) == low <= n /\ n <= high
\* The fields of both; where both have one, p decides.
p ++ q == [key \in DOMAIN p \cup DOMAIN q |-> IF key \in DOMAIN p THEN p[key] ELSE q[key]]

-----------------------------------------------------------------------------
(* The gateway's validation.                                               *)

SamplingKeys == {"temperature", "top_p", "min_p", "presence_penalty", "repeat_penalty"}
OptionKeys == {"frequency_penalty", "seed", "stop"}
AllowedKeys ==
    SamplingKeys \cup OptionKeys \cup
    {"model", "messages", "stream", "stream_options", "max_tokens",
     "max_completion_tokens", "top_k", "n", "tools", "tool_choice",
     "parallel_tool_calls", "reasoning_effort", "response_format", "user"}

Limits == [temperature |-> <<0, 200>>, top_p |-> <<0, 100>>, min_p |-> <<0, 100>>,
           presence_penalty |-> <<-200, 200>>, repeat_penalty |-> <<1, 200>>,
           top_k |-> <<0, MAX_TOP_K>>, frequency_penalty |-> <<-200, 200>>,
           seed |-> <<-2147483647 - 1, 2147483647>>, stop |-> <<0, 500>>]

Thinking == [temperature |-> 100, top_p |-> 95, top_k |-> 20, min_p |-> 0,
             presence_penalty |-> 0, repeat_penalty |-> 100]
Instruct == [temperature |-> 70, top_p |-> 80, top_k |-> 20, min_p |-> 0,
             presence_penalty |-> 150, repeat_penalty |-> 100]
DefaultsFor(thinking) == IF thinking THEN Thinking ELSE Instruct

\* _validate_messages(), with _validate_tool_calls() and _validate_content():
\* calls is the list of call objects of a message that has one, by validity.
MessageAllowed(m) ==
    /\ m.content \in {"null", "text", "text parts", "lone surrogate"}
    /\ m.has_calls => /\ m.role = "assistant"
                      /\ InRange(Len(m.calls), 1, MAX_TOOLS)
                      /\ \A i \in DOMAIN m.calls : m.calls[i] = "valid"
    /\ m.thought > 0 => /\ m.role = "assistant"
                        /\ m.thought <= MAX_REASONING_CONTENT_CHARS
Roles == {"system", "developer", "user", "assistant", "tool"}

\* A role of a type that cannot be in a set raises a TypeError, unless an
\* earlier message is refused.
MessagesVerdict(messages) ==
    LET wrong == {i \in DOMAIN messages :
                    messages[i].role \notin Roles \/ ~MessageAllowed(messages[i])}
    IN IF ~InRange(Len(messages), 1, MAX_MESSAGES) THEN "refused"
       ELSE IF wrong = {} THEN "accepted"
       ELSE IF messages[Min(wrong)].role = "a list" THEN "crashed" ELSE "refused"

ToolsAllowed(tools) ==
    InRange(Len(tools), 1, MAX_TOOLS) /\ \A i \in DOMAIN tools : tools[i].valid

\* <<>> stands for null; an empty list is refused, like one invalid schema, and
\* is given as that.
HasTools(p) == Has(p, "tools") /\ p.tools # <<>>
ActiveTools(p) == HasTools(p) /\ Get(p, "tool_choice", "auto") # "none"

Allowance(p) ==
    LET supplied == Get(p, "max_tokens", Get(p, "max_completion_tokens", Null))
    IN IF supplied = Null THEN env.maximum ELSE supplied

Effort(p) ==
    LET requested == Get(p, "reasoning_effort", "xhigh")
    IN IF requested \in {"high", "max"} THEN "xhigh" ELSE requested
Thinks(p) == Effort(p) # "none"

\* json.dumps() leaves a lone surrogate as it is, and encode() raises.
Unencodable(p) ==
    \/ \E i \in DOMAIN p.messages : p.messages[i].content = "lone surrogate"
    \/ ActiveTools(p) /\ \E i \in DOMAIN p.tools : p.tools[i].lone
PromptBytes(p) ==
    MapThenSumSet(LAMBDA i : p.messages[i].size, DOMAIN p.messages)
    + (IF ActiveTools(p) THEN MapThenSumSet(LAMBDA i : p.tools[i].size, DOMAIN p.tools)
       ELSE 0)
FitsContext(p) == PromptBytes(p) <= Max({1, env.window - Allowance(p)}) * 8

\* The other conditions of validate_chat_body(), in its order.
FieldsAllowed(p) ==
    /\ Has(p, "stream_options") => Get(p, "stream", FALSE) /\ p.stream_options = "usage"
    /\ ~(Has(p, "max_tokens") /\ Has(p, "max_completion_tokens"))
    /\ InRange(Allowance(p), 1, env.maximum)
    /\ Effort(p) \in {"low", "medium", "xhigh", "none"}
    /\ Thinks(p) => env.thinking
    /\ \A key \in DOMAIN Limits \cap DOMAIN p :
          InRange(p[key], Limits[key][1], Limits[key][2])
    /\ Get(p, "n", 1) = 1
    /\ HasTools(p) => ToolsAllowed(p.tools)
    /\ Get(p, "parallel_tool_calls", "true") \in {"true", "false"}
    /\ Has(p, "tool_choice") => /\ p.tool_choice \in {"auto", "none", "required", "named"}
                                /\ HasTools(p) \/ p.tool_choice = "none"

Verdict(p) ==
    IF ~(DOMAIN p \subseteq AllowedKeys) \/ ~Has(p, "model") THEN "refused"
    ELSE IF MessagesVerdict(p.messages) # "accepted" THEN MessagesVerdict(p.messages)
    ELSE IF ~FieldsAllowed(p) THEN "refused"
    ELSE IF Unencodable(p) THEN "crashed"
    ELSE IF ~FitsContext(p) THEN "refused"
    ELSE CASE Get(p, "response_format", "text") = "a list" -> "crashed"
           [] Get(p, "response_format", "text") \in {"text", "json_object"} -> "accepted"
           [] OTHER -> "refused"

-----------------------------------------------------------------------------
(* The requests.                                                           *)

\* reasoning_budget_tokens() of the gateway, of the app and of the evaluator.
\* slip: it is computed from what the deployment allows.
GatewayBudgetOfMaximum(max) ==
    Max({1, env.maximum - Min({ZOO_ANSWER_RESERVE_TOKENS, env.maximum \div 2})})
GatewayBudget(max) == Max({1, max - Min({ZOO_ANSWER_RESERVE_TOKENS, max \div 2})})
AppBudget ==
    IF env.budget # Null THEN env.budget
    ELSE Min({Max({256, env.reasoning - env.answer}), env.reasoning - 256})
EvaluatorBudget(max) ==
    Max({1, Min({Max({256, max - REASONING_ANSWER_RESERVE_TOKENS}), max - 256})})

\* The fields that select and bound thinking.
Mode(effort, preserve, budget) ==
    [reasoning_effort |-> effort, enable_thinking |-> effort # "none",
     preserve_thinking |-> preserve] ++
    (IF effort = "none" THEN <<>> ELSE [reasoning_budget_tokens |-> budget])
Backend == [backend_sampling |-> TRUE]
AutoTools == [tools |-> <<[valid |-> TRUE, lone |-> FALSE, size |-> 1]>>, tool_choice |-> "auto"]

\* slip: the schemas that the client posted decide, not those that are sent.
GatewaySamplerByPost(p) ==
    IF ~HasTools(p) /\ Get(p, "response_format", "text") = "text" THEN Backend ELSE <<>>
GatewaySampler(p) ==
    IF ~ActiveTools(p) /\ Get(p, "response_format", "text") = "text" THEN Backend ELSE <<>>

\* slip: a value of zero counts as none.
SamplingUnlessZero(p) ==
    [key \in DOMAIN Thinking |->
        IF Get(p, key, 0) # 0 THEN p[key] ELSE DefaultsFor(Thinks(p))[key]]
Sampling(p) ==
    [key \in DOMAIN Thinking |-> Get(p, key, DefaultsFor(Thinks(p))[key])]

Forwarded(p) ==
    LET optional == OptionKeys \cup {"stream_options", "response_format", "tool_choice"}
                    \cup (IF ActiveTools(p) THEN {"tools", "parallel_tool_calls"} ELSE {})
    IN [key \in ({"model", "messages"} \cup optional) \cap DOMAIN p |-> p[key]]

GatewayBody(p) ==
    Forwarded(p) ++ Sampling(p)
    ++ [stream |-> Get(p, "stream", FALSE), max_tokens |-> Allowance(p),
        parse_tool_calls |-> TRUE]
    ++ Mode(Effort(p), TRUE, GatewayBudget(Allowance(p))) ++ GatewaySampler(p)

BrowserBody(reasoning, tools) ==
    [max_tokens |-> IF reasoning THEN env.reasoning ELSE env.answer, stream |-> TRUE,
     parse_tool_calls |-> TRUE]
    ++ DefaultsFor(reasoning)
    ++ Mode(IF reasoning THEN "xhigh" ELSE "none", reasoning, AppBudget)
    ++ (IF tools THEN AutoTools ELSE Backend)

EvaluatorBody(reasoning, tools, max) ==
    [max_tokens |-> max, stream |-> FALSE, cache_prompt |-> FALSE, parse_tool_calls |-> TRUE]
    ++ DefaultsFor(reasoning)
    ++ Mode(IF reasoning THEN "xhigh" ELSE "none", reasoning, EvaluatorBudget(max))
    ++ (IF tools THEN AutoTools ELSE Backend)

BenchmarkBody(mode, max, cache) ==
    [max_tokens |-> max, stream |-> TRUE, stream_options |-> "usage", cache_prompt |-> cache,
     parse_tool_calls |-> TRUE, backend_sampling |-> mode = "fast"]
    ++ Instruct ++ Mode("none", FALSE, 0) ++ (IF mode = "tools" THEN AutoTools ELSE <<>>)

-----------------------------------------------------------------------------
(* Actions.                                                                *)

IrInit ==
    /\ env \in Deployments /\ env.maximum < env.window
    /\ posted = <<>> /\ verdict = "none" /\ sent = <<>>

\* The part of openai_chat_completions() before the admission.
Post(p) ==
    /\ posted' = p /\ verdict' = Verdict(p)
    /\ sent' = IF Verdict(p) = "accepted" THEN GatewayBody(p) ELSE <<>>
    /\ UNCHANGED env

Internal(body) ==
    posted' = <<>> /\ verdict' = "internal" /\ sent' = body /\ UNCHANGED env

IrNext ==
    \/ \E p \in Payloads : Post(p)
    \/ \E reasoning, tools \in BOOLEAN :
          \/ Internal(BrowserBody(reasoning, tools))
          \/ \E max \in EvaluatorMax : Internal(EvaluatorBody(reasoning, tools, max))
    \/ \E mode \in {"fast", "tools"}, cache \in BOOLEAN, max \in BenchmarkMax :
          Internal(BenchmarkBody(mode, max, cache))

IrSpec == IrInit /\ [][IrNext]_irVars

-----------------------------------------------------------------------------
(* Properties.                                                             *)

\* Whoever makes it, a request asks for the GPU sampler exactly when nothing
\* in it makes llama.cpp build a grammar (README.md:297); its fields agree on
\* whether the model thinks; and the thinking budget leaves half of the
\* allowance or 256 tokens for the answer.
ModeIsConsistent ==
    sent # <<>> =>
        /\ Get(sent, "backend_sampling", FALSE) <=>
              ~HasTools(sent) /\ Get(sent, "response_format", "text") = "text"
        /\ Has(sent, "parallel_tool_calls") => HasTools(sent)
        /\ sent.enable_thinking <=> Has(sent, "reasoning_budget_tokens")
        /\ sent.enable_thinking => sent.preserve_thinking /\ sent.reasoning_effort # "none"
        /\ sent.enable_thinking =>
              /\ sent.reasoning_budget_tokens >= 1
              /\ sent.max_tokens - sent.reasoning_budget_tokens
                    >= Min({256, sent.max_tokens \div 2})

\* A client's messages, its sampling, its allowance, seed, stop and frequency
\* penalty reach llama.cpp as they are, zeros included; the sampling it left
\* out comes from one profile, that of the mode it is answered in; and its
\* tools are left out only if it forbade them.
ClientChoicesKept ==
    verdict = "accepted" =>
        /\ sent.messages = posted.messages
        /\ \A key \in DOMAIN Thinking :
              sent[key] = Get(posted, key, DefaultsFor(sent.enable_thinking)[key])
        /\ HasTools(posted) /\ Get(posted, "tool_choice", "auto") # "none" =>
              Has(sent, "tools") /\ sent.tools = posted.tools
        /\ \A key \in OptionKeys \cup {"max_tokens"} :
              Has(posted, key) /\ posted[key] # Null => sent[key] = posted[key]

=============================================================================
