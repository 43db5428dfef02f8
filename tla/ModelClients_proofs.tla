-------------------------- MODULE ModelClients_proofs --------------------------
(***************************************************************************)
(* The programs that talk to llama.cpp, for any payloads, settings and     *)
(* answers: every request is of one mind and keeps what its client chose,  *)
(* the quality gate is sound, and the benchmark counts whole answers only  *)
(* and reports drift exactly.                                              *)
(***************************************************************************)
EXTENDS InferenceRequest, QualityEvaluator, InferenceBenchmark, Selection_proofs,
        SequenceTheorems

-----------------------------------------------------------------------------
(* Helpers.                                                                *)

\* The smaller and the larger of two numbers.
LEMMA MinMaxAre ==
    ASSUME NEW a \in Int, NEW b \in Int
    PROVE  /\ Min({a, b}) \in {a, b} /\ Min({a, b}) <= a /\ Min({a, b}) <= b
           /\ Max({a, b}) \in {a, b} /\ Max({a, b}) >= a /\ Max({a, b}) >= b
  <1>1. /\ \E x \in {a, b} : \A y \in {a, b} : x <= y
        /\ \E x \in {a, b} : \A y \in {a, b} : x >= y
    <2>1. CASE a <= b
      BY <2>1
    <2>2. CASE b <= a
      BY <2>2
    <2>3. QED
      BY <2>1, <2>2
  <1>2. /\ Min({a, b}) \in {a, b} /\ \A y \in {a, b} : Min({a, b}) <= y
        /\ Max({a, b}) \in {a, b} /\ \A y \in {a, b} : Max({a, b}) >= y
    BY <1>1 DEF Min, Max
  <1>3. QED
    BY <1>2

\* A field of two records put together is that of the one that has it.
LEMMA JoinedIs ==
    ASSUME NEW f, NEW g
    PROVE  /\ DOMAIN (f ++ g) = DOMAIN f \cup DOMAIN g
           /\ \A key \in DOMAIN f : (f ++ g)[key] = f[key]
           /\ \A key \in DOMAIN g \ DOMAIN f : (f ++ g)[key] = g[key]
  BY DEF ++

\* Two records without a field in common, put together.
Joins(f, g) ==
    /\ DOMAIN (f ++ g) = DOMAIN f \cup DOMAIN g
    /\ \A key \in DOMAIN f : (f ++ g)[key] = f[key]
    /\ \A key \in DOMAIN g : (f ++ g)[key] = g[key]

\* A field that only one of two records has.
LEMMA ApartJoined ==
    ASSUME NEW f, NEW g, \A key \in DOMAIN g : key \notin DOMAIN f
    PROVE  Joins(f, g)
  <1>1. /\ DOMAIN (f ++ g) = DOMAIN f \cup DOMAIN g
        /\ \A key \in DOMAIN f : (f ++ g)[key] = f[key]
        /\ \A key \in DOMAIN g \ DOMAIN f : (f ++ g)[key] = g[key]
    BY JoinedIs
  <1>2. QED
    BY <1>1 DEF Joins

-----------------------------------------------------------------------------
(* What one request says.                                                  *)

\* ModeIsConsistent of a given request.
OfOneMind(body) ==
    /\ Get(body, "backend_sampling", FALSE) <=>
          ~HasTools(body) /\ Get(body, "response_format", "text") = "text"
    /\ Has(body, "parallel_tool_calls") => HasTools(body)
    /\ body.enable_thinking <=> Has(body, "reasoning_budget_tokens")
    /\ body.enable_thinking => body.preserve_thinking /\ body.reasoning_effort # "none"
    /\ body.enable_thinking =>
          /\ body.reasoning_budget_tokens >= 1
          /\ body.max_tokens - body.reasoning_budget_tokens
                >= Min({256, body.max_tokens \div 2})

\* The fields of thinking, for an effort that is none and for another.
IsMode(mode, effort, preserve, budget) ==
    /\ DOMAIN mode = {"reasoning_effort", "enable_thinking", "preserve_thinking"}
          \cup (IF effort = "none" THEN {} ELSE {"reasoning_budget_tokens"})
    /\ mode.reasoning_effort = effort
    /\ mode.enable_thinking = (effort # "none")
    /\ mode.preserve_thinking = preserve
    /\ effort # "none" => mode.reasoning_budget_tokens = budget

\* Mode() gives the fields that its name promises, the budget to thinkers only.
LEMMA ModeIs ==
    ASSUME NEW effort, NEW preserve, NEW budget
    PROVE  IsMode(Mode(effort, preserve, budget), effort, preserve, budget)
  <1> DEFINE fixed == [reasoning_effort |-> effort, enable_thinking |-> effort # "none",
                       preserve_thinking |-> preserve]
             bound == IF effort = "none" THEN <<>> ELSE [reasoning_budget_tokens |-> budget]
  <1>1. Mode(effort, preserve, budget) = fixed ++ bound
    BY DEF Mode
  <1>2. /\ DOMAIN fixed = {"reasoning_effort", "enable_thinking", "preserve_thinking"}
        /\ fixed.reasoning_effort = effort
        /\ fixed.enable_thinking = (effort # "none")
        /\ fixed.preserve_thinking = preserve
    OBVIOUS
  <1>3. /\ DOMAIN bound = IF effort = "none" THEN {} ELSE {"reasoning_budget_tokens"}
        /\ effort # "none" => bound.reasoning_budget_tokens = budget
    OBVIOUS
  <1> HIDE DEF fixed, bound
  <1>4. Joins(fixed, bound)
    <2>1. \A key \in DOMAIN bound : key \notin DOMAIN fixed
      BY <1>2, <1>3
    <2>2. QED
      BY <2>1, ApartJoined
  <1>5. DOMAIN (fixed ++ bound) =
            {"reasoning_effort", "enable_thinking", "preserve_thinking"}
                    \cup (IF effort = "none" THEN {} ELSE {"reasoning_budget_tokens"})
    BY <1>2, <1>3, <1>4 DEF Joins
  <1>6. /\ (fixed ++ bound).reasoning_effort = effort
        /\ (fixed ++ bound).enable_thinking = fixed.enable_thinking
        /\ (fixed ++ bound).preserve_thinking = preserve
    BY <1>2, <1>4 DEF Joins
  <1>7. effort # "none" => (fixed ++ bound).reasoning_budget_tokens = budget
    BY <1>2, <1>3, <1>4 DEF Joins
  <1>8. QED
    BY <1>1, <1>2, <1>5, <1>6, <1>7 DEF IsMode

\* Four records without a field in common, put together.
FourJoin(f, g, h, i) ==
    LET all == f ++ g ++ h ++ i
    IN /\ DOMAIN all = DOMAIN f \cup DOMAIN g \cup DOMAIN h \cup DOMAIN i
       /\ \A key \in DOMAIN f : all[key] = f[key]
       /\ \A key \in DOMAIN g : all[key] = g[key]
       /\ \A key \in DOMAIN h : all[key] = h[key]
       /\ \A key \in DOMAIN i : all[key] = i[key]

\* A field that only one of four records has.
LEMMA FourJoined ==
    ASSUME NEW f, NEW g, NEW h, NEW i,
           \A key \in DOMAIN g : key \notin DOMAIN f,
           \A key \in DOMAIN h : key \notin DOMAIN f \cup DOMAIN g,
           \A key \in DOMAIN i : key \notin DOMAIN f \cup DOMAIN g \cup DOMAIN h
    PROVE  FourJoin(f, g, h, i)
  <1>1. Joins(f, g)
    BY ApartJoined
  <1>2. Joins(f ++ g, h)
    <2>1. \A key \in DOMAIN h : key \notin DOMAIN (f ++ g)
      BY <1>1 DEF Joins
    <2>2. QED
      BY <2>1, ApartJoined
  <1>3. Joins(f ++ g ++ h, i)
    <2>1. \A key \in DOMAIN i : key \notin DOMAIN (f ++ g ++ h)
      BY <1>1, <1>2 DEF Joins
    <2>2. QED
      BY <2>1, ApartJoined
  <1>4. QED
    BY <1>1, <1>2, <1>3 DEF Joins, FourJoin

ModeFields == {"reasoning_effort", "enable_thinking", "preserve_thinking",
               "reasoning_budget_tokens"}
Samplers == {"temperature", "top_p", "top_k", "min_p", "presence_penalty", "repeat_penalty"}

\* The six parameters of a profile.
LEMMA ProfileFields ==
    /\ DOMAIN Thinking = Samplers /\ DOMAIN Instruct = Samplers
    /\ \A thinking : DOMAIN DefaultsFor(thinking) = Samplers
  BY DEF Thinking, Instruct, DefaultsFor, Samplers

\* What is forwarded as it came, and never one of the fields that are set.
LEMMA ForwardedIs ==
    ASSUME NEW p
    PROVE  /\ DOMAIN Forwarded(p) \subseteq
                 {"model", "messages", "frequency_penalty", "seed", "stop",
                  "stream_options", "response_format", "tool_choice", "tools",
                  "parallel_tool_calls"}
           /\ \A key \in DOMAIN Forwarded(p) : Forwarded(p)[key] = p[key]
           /\ {"model", "messages", "frequency_penalty", "seed", "stop", "stream_options",
               "response_format", "tool_choice"} \cap DOMAIN p \subseteq DOMAIN Forwarded(p)
           /\ {"tools", "parallel_tool_calls"} \cap DOMAIN Forwarded(p) # {} => ActiveTools(p)
           /\ ActiveTools(p) => {"tools"} \cap DOMAIN p \subseteq DOMAIN Forwarded(p)
           /\ DOMAIN Forwarded(p) \subseteq DOMAIN p
  BY DEF Forwarded, OptionKeys

\* The fields of a request of the gateway, and where each comes from.
LEMMA GatewayFields ==
    ASSUME NEW p
    PROVE  LET body == GatewayBody(p)
               mode == Mode(Effort(p), TRUE, GatewayBudget(Allowance(p)))
               fixed == {"stream", "max_tokens", "parse_tool_calls"}
           IN /\ DOMAIN body = DOMAIN Forwarded(p) \cup Samplers \cup fixed
                               \cup DOMAIN mode \cup DOMAIN GatewaySampler(p)
              /\ \A key \in DOMAIN Forwarded(p) : body[key] = p[key]
              /\ \A key \in Samplers : body[key] = Sampling(p)[key]
              /\ body.max_tokens = Allowance(p)
              /\ \A key \in DOMAIN mode : body[key] = mode[key]
              /\ \A key \in DOMAIN GatewaySampler(p) : body[key] = GatewaySampler(p)[key]
  <1> DEFINE F == Forwarded(p)
             S == Sampling(p)
             R == [stream |-> Get(p, "stream", FALSE), max_tokens |-> Allowance(p),
                   parse_tool_calls |-> TRUE]
             M == Mode(Effort(p), TRUE, GatewayBudget(Allowance(p)))
             B == GatewaySampler(p)
             four == F ++ S ++ R ++ M
  <1>1. GatewayBody(p) = four ++ B
    BY DEF GatewayBody
  <1>2. /\ DOMAIN F \subseteq {"model", "messages", "frequency_penalty", "seed", "stop",
                  "stream_options", "response_format", "tool_choice", "tools",
                  "parallel_tool_calls"}
        /\ \A key \in DOMAIN F : F[key] = p[key]
    BY ForwardedIs
  <1>3. DOMAIN S = Samplers
    BY ProfileFields DEF Sampling
  <1>4. DOMAIN R = {"stream", "max_tokens", "parse_tool_calls"} /\ R.max_tokens = Allowance(p)
    OBVIOUS
  <1>5. DOMAIN M \subseteq ModeFields
    <2>1. IsMode(Mode(Effort(p), TRUE, GatewayBudget(Allowance(p))),
                 Effort(p), TRUE, GatewayBudget(Allowance(p)))
      BY ModeIs
    <2>2. QED
      BY <2>1 DEF ModeFields, IsMode
  <1>6. DOMAIN B \subseteq {"backend_sampling"}
    BY DEF GatewaySampler, Backend
  <1> HIDE DEF F, S, R, M, B
  <1>7. FourJoin(F, S, R, M)
    <2>1. /\ \A key \in DOMAIN S : key \notin DOMAIN F
          /\ \A key \in DOMAIN R : key \notin DOMAIN F \cup DOMAIN S
          /\ \A key \in DOMAIN M : key \notin DOMAIN F \cup DOMAIN S \cup DOMAIN R
      BY <1>2, <1>3, <1>4, <1>5 DEF Samplers, ModeFields
    <2>2. QED
      BY <2>1, FourJoined
  <1>8. /\ DOMAIN four = DOMAIN F \cup DOMAIN S \cup DOMAIN R \cup DOMAIN M
        /\ \A key \in DOMAIN F : four[key] = F[key]
        /\ \A key \in DOMAIN S : four[key] = S[key]
        /\ \A key \in DOMAIN R : four[key] = R[key]
        /\ \A key \in DOMAIN M : four[key] = M[key]
    BY <1>7 DEF FourJoin
  <1> HIDE DEF four
  <1>9. \A key \in DOMAIN B : key \notin DOMAIN four
    BY <1>2, <1>3, <1>4, <1>5, <1>6, <1>8 DEF Samplers, ModeFields
  <1>10. Joins(four, B)
    BY <1>9, ApartJoined
  <1>11. /\ DOMAIN (four ++ B) = DOMAIN F \cup Samplers
                      \cup {"stream", "max_tokens", "parse_tool_calls"}
                      \cup DOMAIN M \cup DOMAIN B
         /\ \A key \in DOMAIN F : (four ++ B)[key] = p[key]
         /\ \A key \in Samplers : (four ++ B)[key] = S[key]
         /\ (four ++ B).max_tokens = Allowance(p)
         /\ \A key \in DOMAIN M : (four ++ B)[key] = M[key]
         /\ \A key \in DOMAIN B : (four ++ B)[key] = B[key]
    BY <1>2, <1>3, <1>4, <1>8, <1>10 DEF Joins
  <1>12. QED
    BY <1>1, <1>11 DEF F, S, M, B

\* The thinking budget of the gateway leaves half of the allowance, up to the
\* reserve.
LEMMA GatewayBudgetLeavesRoom ==
    ASSUME NEW a \in Nat, a >= 1
    PROVE  /\ GatewayBudget(a) >= 1
           /\ a - GatewayBudget(a) >= Min({256, a \div 2})
  <1> DEFINE half == a \div 2
             reserve == Min({ZOO_ANSWER_RESERVE_TOKENS, half})
  <1>1. half \in Nat /\ 2 * half <= a /\ (a >= 2 => half < a)
    OBVIOUS
  <1> HIDE DEF half
  <1>2. reserve \in {ZOO_ANSWER_RESERVE_TOKENS, half} /\ reserve <= half
        /\ reserve <= ZOO_ANSWER_RESERVE_TOKENS
    <2>1. ZOO_ANSWER_RESERVE_TOKENS \in Int /\ half \in Int
      BY <1>1 DEF ZOO_ANSWER_RESERVE_TOKENS
    <2>2. QED
      BY <2>1, MinMaxAre
  <1> HIDE DEF reserve
  <1>3. reserve \in Nat
    BY <1>1, <1>2 DEF ZOO_ANSWER_RESERVE_TOKENS
  <1> DEFINE rest == a - reserve
  <1>4. rest \in Int
    BY <1>3
  <1> HIDE DEF rest
  <1>5. Max({1, rest}) \in {1, rest} /\ Max({1, rest}) >= 1
    <2>1. 1 \in Int
      OBVIOUS
    <2>2. QED
      BY <1>4, <2>1, MinMaxAre, Zenon
  <1>6. Min({256, half}) <= 256 /\ Min({256, half}) <= half /\ Min({256, half}) \in Int
    <2> DEFINE low == 256
    <2>1. low \in Int /\ half \in Int
      BY <1>1
    <2> HIDE DEF low
    <2>2. /\ Min({low, half}) \in {low, half}
          /\ Min({low, half}) <= low /\ Min({low, half}) <= half
      BY <2>1, MinMaxAre
    <2>3. QED
      BY <2>1, <2>2 DEF low
  <1>7. GatewayBudget(a) = Max({1, rest})
    BY DEF GatewayBudget, rest, reserve, half
  <1>8. a - Max({1, rest}) >= Min({256, half})
    BY <1>1, <1>2, <1>3, <1>6, <1>5 DEF rest, ZOO_ANSWER_RESERVE_TOKENS
  <1>9. QED
    BY <1>7, <1>8, <1>5 DEF half

\* An accepted payload has passed the checks of its fields.
LEMMA AcceptedFields ==
    ASSUME NEW p \in Payloads, env \in Deployments, Verdict(p) = "accepted"
    PROVE  /\ FieldsAllowed(p)
           /\ Allowance(p) \in Nat /\ Allowance(p) >= 1
  <1>1. FieldsAllowed(p)
    BY DEF Verdict
  <1>2. 1 <= Allowance(p) /\ Allowance(p) <= env.maximum
    BY <1>1 DEF FieldsAllowed, InRange
  <1>3. env.maximum \in Nat
    BY SettingsAssumption
  <1>4. Allowance(p) \in Int
    BY <1>3, PayloadsAssumption DEF Allowance, Get, Has, Null
  <1>5. QED
    BY <1>1, <1>2, <1>4

\* What the gateway sends is of one mind.
LEMMA GatewayIsConsistent ==
    ASSUME NEW p \in Payloads, env \in Deployments, Verdict(p) = "accepted"
    PROVE  OfOneMind(GatewayBody(p))
  <1> DEFINE body == GatewayBody(p)
             mode == Mode(Effort(p), TRUE, GatewayBudget(Allowance(p)))
             sampler == GatewaySampler(p)
  <1>1. IsMode(mode, Effort(p), TRUE, GatewayBudget(Allowance(p)))
    BY ModeIs
  <1>2. /\ DOMAIN body = DOMAIN Forwarded(p) \cup Samplers
                         \cup {"stream", "max_tokens", "parse_tool_calls"}
                         \cup DOMAIN mode \cup DOMAIN sampler
        /\ \A key \in DOMAIN Forwarded(p) : body[key] = p[key]
        /\ body.max_tokens = Allowance(p)
        /\ \A key \in DOMAIN mode : body[key] = mode[key]
        /\ \A key \in DOMAIN sampler : body[key] = sampler[key]
    BY GatewayFields
  <1> HIDE DEF body, mode
  <1>3. /\ sampler = [backend_sampling |-> TRUE] \/ sampler = <<>>
        /\ DOMAIN sampler \subseteq {"backend_sampling"}
        /\ "backend_sampling" \in DOMAIN sampler
              <=> ~ActiveTools(p) /\ Get(p, "response_format", "text") = "text"
        /\ "backend_sampling" \in DOMAIN sampler => sampler.backend_sampling = TRUE
    BY DEF GatewaySampler, Backend
  <1> HIDE DEF sampler
  <1>4. /\ DOMAIN Forwarded(p) \subseteq
              {"model", "messages", "frequency_penalty", "seed", "stop",
               "stream_options", "response_format", "tool_choice", "tools",
               "parallel_tool_calls"}
        /\ {"response_format"} \cap DOMAIN p \subseteq DOMAIN Forwarded(p)
        /\ {"tools", "parallel_tool_calls"} \cap DOMAIN Forwarded(p) # {} => ActiveTools(p)
        /\ ActiveTools(p) => {"tools"} \cap DOMAIN p \subseteq DOMAIN Forwarded(p)
        /\ DOMAIN Forwarded(p) \subseteq DOMAIN p
    BY ForwardedIs
  <1>5. DOMAIN mode \subseteq ModeFields
    BY <1>1 DEF IsMode, ModeFields
  <1>6. HasTools(body) <=> ActiveTools(p)
    <2>1. ActiveTools(p) => "tools" \in DOMAIN p /\ p.tools # <<>>
      BY DEF ActiveTools, HasTools, Has
    <2>2. "tools" \in DOMAIN body <=> "tools" \in DOMAIN Forwarded(p)
      BY <1>2, <1>3, <1>5 DEF Samplers, ModeFields
    <2>3. QED
      BY <1>2, <1>4, <2>1, <2>2 DEF HasTools, Has
  <1>7. Get(body, "response_format", "text") = Get(p, "response_format", "text")
    <2>1. "response_format" \in DOMAIN body <=> "response_format" \in DOMAIN p
      BY <1>2, <1>3, <1>4, <1>5 DEF Samplers, ModeFields
    <2>2. QED
      BY <1>2, <1>4, <2>1 DEF Get, Has
  <1>8. Get(body, "backend_sampling", FALSE) <=> "backend_sampling" \in DOMAIN sampler
    <2>1. "backend_sampling" \in DOMAIN body <=> "backend_sampling" \in DOMAIN sampler
      BY <1>2, <1>4, <1>5 DEF Samplers, ModeFields
    <2>2. QED
      BY <1>2, <1>3, <2>1 DEF Get, Has
  <1>9. Has(body, "parallel_tool_calls") => HasTools(body)
    <2>1. "parallel_tool_calls" \in DOMAIN body => "parallel_tool_calls" \in DOMAIN Forwarded(p)
      BY <1>2, <1>3, <1>5 DEF Samplers, ModeFields
    <2>2. QED
      BY <1>4, <1>6, <2>1 DEF Has
  <1>10. /\ body.enable_thinking = (Effort(p) # "none")
         /\ body.preserve_thinking = TRUE /\ body.reasoning_effort = Effort(p)
         /\ Effort(p) # "none" => body.reasoning_budget_tokens = GatewayBudget(Allowance(p))
    BY <1>1, <1>2 DEF IsMode
  <1>11. Has(body, "reasoning_budget_tokens") <=> Effort(p) # "none"
    BY <1>1, <1>2, <1>3, <1>4 DEF IsMode, Has, Samplers
  <1>12. Allowance(p) \in Nat /\ Allowance(p) >= 1
    BY AcceptedFields
  <1>13. /\ GatewayBudget(Allowance(p)) >= 1
         /\ Allowance(p) - GatewayBudget(Allowance(p)) >= Min({256, Allowance(p) \div 2})
    BY <1>12, GatewayBudgetLeavesRoom
  <1>14. Get(body, "backend_sampling", FALSE)
            <=> ~HasTools(body) /\ Get(body, "response_format", "text") = "text"
    BY <1>3, <1>6, <1>7, <1>8
  <1>15. QED
    BY <1>2, <1>9, <1>10, <1>11, <1>13, <1>14 DEF OfOneMind, body

\* What the gateway sends is what its client chose.
LEMMA GatewayKeepsChoices ==
    ASSUME NEW p \in Payloads, env \in Deployments, Verdict(p) = "accepted"
    PROVE  LET body == GatewayBody(p)
           IN /\ body.messages = p.messages
              /\ \A key \in DOMAIN Thinking :
                    body[key] = Get(p, key, DefaultsFor(body.enable_thinking)[key])
              /\ HasTools(p) /\ Get(p, "tool_choice", "auto") # "none" =>
                    Has(body, "tools") /\ body.tools = p.tools
              /\ \A key \in OptionKeys \cup {"max_tokens"} :
                    Has(p, key) /\ p[key] # Null => body[key] = p[key]
  <1> DEFINE body == GatewayBody(p)
             mode == Mode(Effort(p), TRUE, GatewayBudget(Allowance(p)))
  <1>1. IsMode(mode, Effort(p), TRUE, GatewayBudget(Allowance(p)))
    BY ModeIs
  <1>2. /\ DOMAIN Forwarded(p) \subseteq DOMAIN body
        /\ \A key \in DOMAIN Forwarded(p) : body[key] = p[key]
        /\ \A key \in Samplers : body[key] = Sampling(p)[key]
        /\ body.max_tokens = Allowance(p)
        /\ \A key \in DOMAIN mode : body[key] = mode[key]
    BY GatewayFields
  <1> HIDE DEF body, mode
  <1>3. /\ {"model", "messages", "frequency_penalty", "seed", "stop", "stream_options",
            "response_format", "tool_choice"} \cap DOMAIN p \subseteq DOMAIN Forwarded(p)
        /\ ActiveTools(p) => {"tools"} \cap DOMAIN p \subseteq DOMAIN Forwarded(p)
    BY ForwardedIs
  <1>4. body.messages = p.messages
    <2>1. "messages" \in DOMAIN p
      BY PayloadsAssumption
    <2>2. QED
      BY <1>2, <1>3, <2>1
  <1>5. \A key \in DOMAIN Thinking :
            body[key] = Get(p, key, DefaultsFor(body.enable_thinking)[key])
    <2>1. body.enable_thinking = Thinks(p)
      BY <1>1, <1>2 DEF IsMode, Thinks
    <2>2. \A key \in DOMAIN Thinking :
            Sampling(p)[key] = Get(p, key, DefaultsFor(Thinks(p))[key])
      BY DEF Sampling
    <2>3. QED
      BY <1>2, <2>1, <2>2, ProfileFields
  <1>6. HasTools(p) /\ Get(p, "tool_choice", "auto") # "none" =>
            Has(body, "tools") /\ body.tools = p.tools
    BY <1>2, <1>3 DEF ActiveTools, HasTools, Has
  <1>7. \A key \in OptionKeys \cup {"max_tokens"} :
            Has(p, key) /\ p[key] # Null => body[key] = p[key]
    <2>1. \A key \in OptionKeys : key \in DOMAIN p => body[key] = p[key]
      BY <1>2, <1>3 DEF OptionKeys
    <2>2. "max_tokens" \in DOMAIN p /\ p.max_tokens # Null => body.max_tokens = p.max_tokens
      BY <1>2 DEF Allowance, Get, Has
    <2>3. QED
      BY <2>1, <2>2 DEF Has
  <1>8. QED
    BY <1>4, <1>5, <1>6, <1>7 DEF body

\* A request of one of the other programs: fixed fields, a profile, the fields
\* of thinking, and either tools or the sampler that has none.
LEMMA InternalIsConsistent ==
    ASSUME NEW R, NEW D, NEW M, NEW X, NEW effort, NEW preserve, NEW budget,
           DOMAIN R \subseteq {"max_tokens", "stream", "stream_options", "cache_prompt",
                               "parse_tool_calls", "backend_sampling"},
           "max_tokens" \in DOMAIN R, DOMAIN D = Samplers,
           IsMode(M, effort, preserve, budget), effort # "none" => preserve,
           \/ X = AutoTools /\ ("backend_sampling" \in DOMAIN R => ~R.backend_sampling)
           \/ X = Backend /\ "backend_sampling" \notin DOMAIN R
           \/ X = <<>> /\ "backend_sampling" \in DOMAIN R /\ R.backend_sampling,
           effort # "none" => /\ budget >= 1
                              /\ R.max_tokens - budget >= Min({256, R.max_tokens \div 2})
    PROVE  OfOneMind(R ++ D ++ M ++ X)
  <1> DEFINE body == R ++ D ++ M ++ X
  <1>1. DOMAIN M \subseteq ModeFields
    BY DEF IsMode, ModeFields
  <1>2. /\ X \in {AutoTools, Backend, <<>>}
        /\ X = AutoTools => DOMAIN X = {"tools", "tool_choice"} /\ X.tools # <<>>
        /\ X = Backend => DOMAIN X = {"backend_sampling"} /\ X.backend_sampling = TRUE
        /\ X = <<>> => DOMAIN X = {}
    BY DEF AutoTools, Backend
  <1>3. FourJoin(R, D, M, X)
    <2>1. /\ \A key \in DOMAIN D : key \notin DOMAIN R
          /\ \A key \in DOMAIN M : key \notin DOMAIN R \cup DOMAIN D
      BY <1>1 DEF Samplers, ModeFields
    <2>2. \A key \in DOMAIN X : key \notin DOMAIN R \cup DOMAIN D \cup DOMAIN M
      BY <1>1, <1>2 DEF Samplers, ModeFields, AutoTools, Backend
    <2>3. QED
      BY <2>1, <2>2, FourJoined
  <1>4. /\ DOMAIN body = DOMAIN R \cup DOMAIN D \cup DOMAIN M \cup DOMAIN X
        /\ \A key \in DOMAIN R : body[key] = R[key]
        /\ \A key \in DOMAIN M : body[key] = M[key]
        /\ \A key \in DOMAIN X : body[key] = X[key]
    BY <1>3 DEF FourJoin
  <1> HIDE DEF body
  <1>5. Get(body, "backend_sampling", FALSE)
            <=> ~HasTools(body) /\ Get(body, "response_format", "text") = "text"
    <2>1. "response_format" \notin DOMAIN body
      BY <1>1, <1>2, <1>4 DEF Samplers, ModeFields
    <2>2. "tools" \in DOMAIN body <=> X = AutoTools
      BY <1>1, <1>2, <1>4 DEF Samplers, ModeFields, AutoTools, Backend
    <2>3. HasTools(body) <=> X = AutoTools
      BY <1>2, <1>4, <2>2 DEF HasTools, Has
    <2>4. "backend_sampling" \in DOMAIN body
              <=> "backend_sampling" \in DOMAIN R \/ X = Backend
      BY <1>1, <1>2, <1>4 DEF Samplers, ModeFields, AutoTools, Backend
    <2>5. Get(body, "backend_sampling", FALSE) <=> X # AutoTools
      <3>1. CASE X = AutoTools
        BY <1>2, <1>4, <2>4, <3>1 DEF Get, Has, AutoTools, Backend
      <3>2. CASE X = Backend
        BY <1>2, <1>4, <2>4, <3>2 DEF Get, Has, AutoTools, Backend
      <3>3. CASE X = <<>>
        BY <1>2, <1>4, <2>4, <3>3 DEF Get, Has, AutoTools, Backend
      <3>4. QED
        BY <1>2, <3>1, <3>2, <3>3
    <2>6. QED
      BY <2>1, <2>3, <2>5 DEF Get, Has
  <1>6. ~Has(body, "parallel_tool_calls")
    BY <1>1, <1>2, <1>4 DEF Samplers, ModeFields, Has
  <1>7. /\ body.enable_thinking = (effort # "none")
        /\ body.preserve_thinking = preserve /\ body.reasoning_effort = effort
        /\ effort # "none" => body.reasoning_budget_tokens = budget
    BY <1>4 DEF IsMode
  <1>8. Has(body, "reasoning_budget_tokens") <=> effort # "none"
    BY <1>2, <1>4 DEF IsMode, Has, Samplers
  <1>9. body.max_tokens = R.max_tokens
    BY <1>4
  <1>10. QED
    BY <1>5, <1>6, <1>7, <1>8, <1>9 DEF OfOneMind, body

\* The budgets of the browser chat and of the evaluator.
LEMMA ReservedBudgets ==
    /\ env \in Deployments =>
          /\ AppBudget >= 1
          /\ env.reasoning - AppBudget >= Min({256, env.reasoning \div 2})
    /\ \A max \in EvaluatorMax :
          /\ EvaluatorBudget(max) >= 1
          /\ max - EvaluatorBudget(max) >= Min({256, max \div 2})
  <1> DEFINE low == 256
  <1>1. low \in Int /\ low = 256
    OBVIOUS
  <1> HIDE DEF low
  <1>2. ASSUME NEW a \in Nat, a >= low, NEW wanted \in Int
        PROVE  /\ Min({Max({low, wanted}), a - low}) \in Int
               /\ a - Min({Max({low, wanted}), a - low}) >= low
               /\ a >= 2 * low => Min({Max({low, wanted}), a - low}) >= 1
               /\ Min({low, a \div 2}) <= low /\ Min({low, a \div 2}) <= a \div 2
               /\ Min({low, a \div 2}) \in Int
    <2> DEFINE most == Max({low, wanted})
               left == a - low
               half == a \div 2
    <2>1. most \in Int /\ most >= low
      <3>1. low \in Int
        BY <1>1
      <3>2. most \in {low, wanted} /\ most >= low
        BY <3>1, MinMaxAre
      <3>3. QED
        BY <3>1, <3>2
    <2>2. left \in Int /\ half \in Int
      BY <1>1
    <2> HIDE DEF most, left, half
    <2>3. /\ Min({most, left}) \in {most, left} /\ Min({most, left}) <= left
          /\ Min({low, half}) \in {low, half}
          /\ Min({low, half}) <= low /\ Min({low, half}) <= half
      BY <1>1, <2>1, <2>2, MinMaxAre
    <2>4. /\ Min({most, left}) \in Int /\ a - Min({most, left}) >= low
          /\ a >= 2 * low => Min({most, left}) >= 1
          /\ Min({low, half}) \in Int
      BY <1>1, <2>1, <2>2, <2>3 DEF left
    <2>5. QED
      BY <2>3, <2>4 DEF most, left, half
  <1>3. ASSUME env \in Deployments
        PROVE  /\ AppBudget >= 1
               /\ env.reasoning - AppBudget >= Min({256, env.reasoning \div 2})
    <2>1. /\ env.reasoning \in Nat /\ env.reasoning >= 2 * low
          /\ env.reasoning - env.answer \in Int
      BY <1>1, <1>3, SettingsAssumption
    <2>2. /\ env.budget # Null => AppBudget = env.budget
          /\ env.budget # Null => /\ env.budget \in Int /\ low <= env.budget
                                  /\ env.budget <= env.reasoning - low
          /\ env.budget = Null =>
                AppBudget = Min({Max({low, env.reasoning - env.answer}), env.reasoning - low})
      BY <1>1, <1>3, SettingsAssumption DEF AppBudget
    <2> DEFINE a == env.reasoning
               wanted == env.reasoning - env.answer
               budget == Min({Max({low, wanted}), a - low})
    <2>3. a \in Nat /\ a >= low /\ wanted \in Int /\ a >= 2 * low
      BY <1>1, <2>1
    <2>4. CASE env.budget # Null
      <3>1. Min({low, a \div 2}) <= low /\ Min({low, a \div 2}) \in Int
        BY <1>2, <2>3
      <3> DEFINE room == Min({low, a \div 2})
      <3> HIDE DEF room
      <3>2. AppBudget >= 1 /\ env.reasoning - AppBudget >= room
        BY <1>1, <2>1, <2>2, <2>4, <3>1 DEF room
      <3>3. QED
        BY <1>1, <3>2 DEF room, a
    <2>5. CASE env.budget = Null
      <3> HIDE DEF a, wanted
      <3>1. /\ budget \in Int /\ a - budget >= low /\ budget >= 1
            /\ Min({low, a \div 2}) <= low /\ Min({low, a \div 2}) \in Int
        BY <1>2, <2>3
      <3> HIDE DEF budget
      <3>2. a - budget >= Min({low, a \div 2})
        BY <1>1, <2>3, <3>1
      <3>3. QED
        BY <1>1, <2>2, <2>5, <3>1, <3>2 DEF a, wanted, budget
    <2>6. QED
      BY <2>4, <2>5
  <1>4. ASSUME NEW max \in EvaluatorMax
        PROVE  /\ EvaluatorBudget(max) >= 1
               /\ max - EvaluatorBudget(max) >= Min({256, max \div 2})
    <2> DEFINE rest == Min({Max({low, max - REASONING_ANSWER_RESERVE_TOKENS}), max - low})
               one == 1
    <2>1. /\ max \in Nat /\ max >= low /\ max - REASONING_ANSWER_RESERVE_TOKENS \in Int
          /\ one \in Int /\ one = 1
      BY <1>1, SettingsAssumption DEF REASONING_ANSWER_RESERVE_TOKENS
    <2>2. /\ rest \in Int /\ max - rest >= low
          /\ Min({low, max \div 2}) <= low /\ Min({low, max \div 2}) <= max \div 2
          /\ Min({low, max \div 2}) \in Int
      BY <1>1, <1>2, <2>1
    <2>3. EvaluatorBudget(max) = Max({one, rest})
      BY <1>1 DEF EvaluatorBudget
    <2> HIDE DEF rest, one
    <2>4. Max({one, rest}) \in {one, rest} /\ Max({one, rest}) >= one
      BY <2>1, <2>2, MinMaxAre
    <2>5. max - Max({one, rest}) >= Min({low, max \div 2})
      BY <1>1, <2>1, <2>2, <2>4
    <2>6. QED
      BY <1>1, <2>1, <2>3, <2>4, <2>5
  <1>5. QED
    BY <1>3, <1>4

\* What the browser chat sends is of one mind.
LEMMA BrowserIsConsistent ==
    ASSUME env \in Deployments, NEW reasoning \in BOOLEAN, NEW tools \in BOOLEAN
    PROVE  OfOneMind(BrowserBody(reasoning, tools))
  <1> DEFINE R == [max_tokens |-> IF reasoning THEN env.reasoning ELSE env.answer,
                   stream |-> TRUE, parse_tool_calls |-> TRUE]
             D == DefaultsFor(reasoning)
             effort == IF reasoning THEN "xhigh" ELSE "none"
             M == Mode(effort, reasoning, AppBudget)
             X == IF tools THEN AutoTools ELSE Backend
  <1>1. BrowserBody(reasoning, tools) = R ++ D ++ M ++ X
    BY DEF BrowserBody
  <1>2. /\ DOMAIN R = {"max_tokens", "stream", "parse_tool_calls"}
        /\ reasoning => R.max_tokens = env.reasoning
    OBVIOUS
  <1>3. DOMAIN D = Samplers
    BY ProfileFields
  <1>4. IsMode(M, effort, reasoning, AppBudget)
    BY ModeIs
  <1>5. effort # "none" => reasoning
    OBVIOUS
  <1>6. X = AutoTools \/ X = Backend
    OBVIOUS
  <1> HIDE DEF R, D, effort, M, X
  <1>7. effort # "none" => /\ AppBudget >= 1
                           /\ R.max_tokens - AppBudget >= Min({256, R.max_tokens \div 2})
    BY <1>2, <1>5, ReservedBudgets
  <1>8. /\ DOMAIN R \subseteq {"max_tokens", "stream", "stream_options", "cache_prompt",
                               "parse_tool_calls", "backend_sampling"}
        /\ "max_tokens" \in DOMAIN R
        /\ \/ X = AutoTools /\ ("backend_sampling" \in DOMAIN R => ~R.backend_sampling)
           \/ X = Backend /\ "backend_sampling" \notin DOMAIN R
           \/ X = <<>> /\ "backend_sampling" \in DOMAIN R /\ R.backend_sampling
    BY <1>2, <1>6
  <1>9. QED
    BY <1>1, <1>3, <1>4, <1>5, <1>7, <1>8, InternalIsConsistent

\* What the quality evaluator sends is of one mind.
LEMMA EvaluatorIsConsistent ==
    ASSUME NEW reasoning \in BOOLEAN, NEW tools \in BOOLEAN, NEW max \in EvaluatorMax
    PROVE  OfOneMind(EvaluatorBody(reasoning, tools, max))
  <1> DEFINE R == [max_tokens |-> max, stream |-> FALSE, cache_prompt |-> FALSE,
                   parse_tool_calls |-> TRUE]
             D == DefaultsFor(reasoning)
             effort == IF reasoning THEN "xhigh" ELSE "none"
             M == Mode(effort, reasoning, EvaluatorBudget(max))
             X == IF tools THEN AutoTools ELSE Backend
  <1>1. EvaluatorBody(reasoning, tools, max) = R ++ D ++ M ++ X
    BY DEF EvaluatorBody
  <1>2. /\ DOMAIN R = {"max_tokens", "stream", "cache_prompt", "parse_tool_calls"}
        /\ R.max_tokens = max
    OBVIOUS
  <1>3. DOMAIN D = Samplers
    BY ProfileFields
  <1>4. IsMode(M, effort, reasoning, EvaluatorBudget(max))
    BY ModeIs
  <1>5. effort # "none" => reasoning
    OBVIOUS
  <1>6. X = AutoTools \/ X = Backend
    OBVIOUS
  <1> HIDE DEF R, D, effort, M, X
  <1>7. /\ EvaluatorBudget(max) >= 1
        /\ R.max_tokens - EvaluatorBudget(max) >= Min({256, R.max_tokens \div 2})
    BY <1>2, ReservedBudgets
  <1>8. /\ DOMAIN R \subseteq {"max_tokens", "stream", "stream_options", "cache_prompt",
                               "parse_tool_calls", "backend_sampling"}
        /\ "max_tokens" \in DOMAIN R
        /\ \/ X = AutoTools /\ ("backend_sampling" \in DOMAIN R => ~R.backend_sampling)
           \/ X = Backend /\ "backend_sampling" \notin DOMAIN R
           \/ X = <<>> /\ "backend_sampling" \in DOMAIN R /\ R.backend_sampling
    BY <1>2, <1>6
  <1>9. QED
    BY <1>1, <1>3, <1>4, <1>5, <1>7, <1>8, InternalIsConsistent

\* What the benchmark sends is of one mind.
LEMMA BenchmarkIsConsistent ==
    ASSUME NEW mode \in {"fast", "tools"}, NEW cache \in BOOLEAN, NEW max \in BenchmarkMax
    PROVE  OfOneMind(BenchmarkBody(mode, max, cache))
  <1> DEFINE R == [max_tokens |-> max, stream |-> TRUE, stream_options |-> "usage",
                   cache_prompt |-> cache, parse_tool_calls |-> TRUE,
                   backend_sampling |-> mode = "fast"]
             M == Mode("none", FALSE, 0)
             X == IF mode = "tools" THEN AutoTools ELSE <<>>
  <1>1. BenchmarkBody(mode, max, cache) = R ++ Instruct ++ M ++ X
    BY DEF BenchmarkBody
  <1>2. /\ DOMAIN R = {"max_tokens", "stream", "stream_options", "cache_prompt",
                       "parse_tool_calls", "backend_sampling"}
        /\ R.backend_sampling = (mode = "fast")
    OBVIOUS
  <1>3. DOMAIN Instruct = Samplers
    BY ProfileFields
  <1>4. IsMode(M, "none", FALSE, 0)
    BY ModeIs
  <1>5. \/ X = AutoTools /\ mode = "tools"
        \/ X = <<>> /\ mode = "fast"
    OBVIOUS
  <1> HIDE DEF R, M, X
  <1>6. /\ DOMAIN R \subseteq {"max_tokens", "stream", "stream_options", "cache_prompt",
                               "parse_tool_calls", "backend_sampling"}
        /\ "max_tokens" \in DOMAIN R
        /\ \/ X = AutoTools /\ ("backend_sampling" \in DOMAIN R => ~R.backend_sampling)
           \/ X = Backend /\ "backend_sampling" \notin DOMAIN R
           \/ X = <<>> /\ "backend_sampling" \in DOMAIN R /\ R.backend_sampling
    BY <1>2, <1>5
  <1>7. QED
    BY <1>1, <1>3, <1>4, <1>6, InternalIsConsistent

\* The deployment does not change, and the last request is of one mind and, if
\* it is a client's, keeps the client's choices.
RequestsInv == env \in Deployments /\ ModeIsConsistent /\ ClientChoicesKept

\* Every request keeps the invariant.
LEMMA StepKeepsRequests == RequestsInv /\ [IrNext]_irVars => RequestsInv'
  <1> SUFFICES ASSUME RequestsInv, [IrNext]_irVars PROVE RequestsInv'
    OBVIOUS
  <1>1. env \in Deployments
    BY DEF RequestsInv
  <1>2. ASSUME NEW p \in Payloads, Post(p) PROVE RequestsInv'
    <2>1. CASE Verdict(p) = "accepted"
      <3>1. /\ env' = env /\ posted' = p /\ verdict' = "accepted" /\ sent' = GatewayBody(p)
        BY <1>2, <2>1 DEF Post
      <3>2. ModeIsConsistent'
        <4>1. OfOneMind(GatewayBody(p))
          BY <1>1, <2>1, GatewayIsConsistent
        <4>2. QED
          BY <3>1, <4>1 DEF ModeIsConsistent, OfOneMind
      <3>3. ClientChoicesKept'
        BY <1>1, <2>1, <3>1, GatewayKeepsChoices DEF ClientChoicesKept
      <3>4. QED
        BY <1>1, <3>1, <3>2, <3>3 DEF RequestsInv
    <2>2. CASE Verdict(p) # "accepted"
      <3>1. env' = env /\ verdict' # "accepted" /\ sent' = <<>>
        BY <1>2, <2>2 DEF Post
      <3>2. QED
        BY <1>1, <3>1 DEF RequestsInv, ModeIsConsistent, ClientChoicesKept
    <2>3. QED
      BY <2>1, <2>2
  <1>3. ASSUME NEW body, OfOneMind(body), Internal(body) PROVE RequestsInv'
    <2>1. env' = env /\ verdict' = "internal" /\ sent' = body
      BY <1>3 DEF Internal
    <2>2. ModeIsConsistent'
      BY <1>3, <2>1 DEF ModeIsConsistent, OfOneMind
    <2>3. ClientChoicesKept'
      BY <2>1 DEF ClientChoicesKept
    <2>4. QED
      BY <1>1, <2>1, <2>2, <2>3 DEF RequestsInv
  <1>4. ASSUME NEW reasoning \in BOOLEAN, NEW tools \in BOOLEAN,
               Internal(BrowserBody(reasoning, tools))
        PROVE  RequestsInv'
    BY <1>1, <1>3, <1>4, BrowserIsConsistent
  <1>5. ASSUME NEW reasoning \in BOOLEAN, NEW tools \in BOOLEAN, NEW max \in EvaluatorMax,
               Internal(EvaluatorBody(reasoning, tools, max))
        PROVE  RequestsInv'
    BY <1>3, <1>5, EvaluatorIsConsistent
  <1>6. ASSUME NEW mode \in {"fast", "tools"}, NEW cache \in BOOLEAN, NEW max \in BenchmarkMax,
               Internal(BenchmarkBody(mode, max, cache))
        PROVE  RequestsInv'
    BY <1>3, <1>6, BenchmarkIsConsistent
  <1>7. CASE UNCHANGED irVars
    BY <1>7 DEF irVars, RequestsInv, ModeIsConsistent, ClientChoicesKept
  <1>8. QED
    BY <1>2, <1>4, <1>5, <1>6, <1>7 DEF IrNext

\* Nothing has been sent at first.
LEMMA RequestsStart == IrInit => RequestsInv
  BY DEF IrInit, RequestsInv, ModeIsConsistent, ClientChoicesKept

\* Whoever builds it, every request that reaches llama.cpp agrees with itself
\* on tools, grammar, sampler, thinking and budget.
THEOREM RequestsAreConsistent == IrSpec => []ModeIsConsistent
  <1>1. RequestsInv => ModeIsConsistent
    BY DEF RequestsInv
  <1>2. QED
    BY <1>1, RequestsStart, StepKeepsRequests, PTL DEF IrSpec

\* Whatever a client of the gateway posts, what it chose is sent and what it
\* left out comes from the profile of its mode.
THEOREM ChoicesAreKept == IrSpec => []ClientChoicesKept
  <1>1. RequestsInv => ClientChoicesKept
    BY DEF RequestsInv
  <1>2. QED
    BY <1>1, RequestsStart, StepKeepsRequests, PTL DEF IrSpec

-----------------------------------------------------------------------------
(* The corpus and the samples of an invocation.                            *)

Names == {"reasoning_crt", "reasoning_bayes", "reasoning_order", "reasoning_momentum",
          "reasoning_experiment", "reasoning_integer_area_triangles",
          "reasoning_five_house_grid", "coding_trace", "coding_bug_line",
          "instruction_transform", "calibration_missing_attribute",
          "calibration_conflicting_sensors", "tool_exchange_grounding",
          "tool_availability_grounding", "long_two_hop_archive", "long_distributed_ledger"}
CategoryNames == {"reasoning", "coding", "instruction", "calibration", "tool_use", "long_context"}
Cases == [id : Names, category : CategoryNames, steps : 0 .. 1]
Ids == {c.id : c \in ToSet(Corpus)}
Categories == {c.category : c \in ToSet(Corpus)}
Statuses == {"pass", "wrong_answer", "protocol_error", "request_error"}
Results == [case : Ids, category : Categories, seed : Int, status : Statuses]

\* The cases of one category are a sequence of cases.
LEMMA CategoryIsSeq ==
    ASSUME NEW category \in CategoryNames, NEW steps \in 0 .. 1, NEW ids \in Seq(Names)
    PROVE  [i \in DOMAIN ids |-> [id |-> ids[i], category |-> category, steps |-> steps]]
              \in Seq(Cases)
  <1>1. DOMAIN ids = 1 .. Len(ids) /\ Len(ids) \in Nat
    OBVIOUS
  <1>2. \A i \in DOMAIN ids :
            [id |-> ids[i], category |-> category, steps |-> steps] \in Cases
    BY DEF Cases
  <1>3. QED
    BY <1>1, <1>2

\* The corpus is a sequence of cases.
LEMMA CorpusIsSeq == Corpus \in Seq(Cases)
  <1> DEFINE Case(category, steps, ids) ==
                [i \in DOMAIN ids |-> [id |-> ids[i], category |-> category, steps |-> steps]]
             t1 == <<"reasoning_crt", "reasoning_bayes", "reasoning_order",
                     "reasoning_momentum", "reasoning_experiment",
                     "reasoning_integer_area_triangles", "reasoning_five_house_grid">>
             t2 == <<"coding_trace", "coding_bug_line">>
             t3 == <<"instruction_transform">>
             t4 == <<"calibration_missing_attribute", "calibration_conflicting_sensors">>
             t5 == <<"tool_exchange_grounding", "tool_availability_grounding">>
             t6 == <<"long_two_hop_archive", "long_distributed_ledger">>
             c1 == Case("reasoning", 0, t1)
             c2 == Case("coding", 0, t2)
             c3 == Case("instruction", 0, t3)
             c4 == Case("calibration", 0, t4)
             c5 == Case("tool_use", 1, t5)
             c6 == Case("long_context", 0, t6)
  <1>1. ASSUME NEW category \in CategoryNames, NEW steps \in 0 .. 1, NEW ids \in Seq(Names)
        PROVE  Case(category, steps, ids) \in Seq(Cases)
    BY CategoryIsSeq
  <1>2. Corpus = c1 \o c2 \o c3 \o c4 \o c5 \o c6
    BY DEF Corpus
  <1>3. t1 \in Seq(Names)
    BY DEF Names
  <1>4. t2 \in Seq(Names)
    BY DEF Names
  <1>5. t3 \in Seq(Names)
    BY DEF Names
  <1>6. t4 \in Seq(Names)
    BY DEF Names
  <1>7. t5 \in Seq(Names)
    BY DEF Names
  <1>8. t6 \in Seq(Names)
    BY DEF Names
  <1> HIDE DEF Case, t1, t2, t3, t4, t5, t6
  <1>9. /\ 0 \in 0 .. 1 /\ 1 \in 0 .. 1
        /\ {"reasoning", "coding", "instruction", "calibration", "tool_use", "long_context"}
              = CategoryNames
    BY DEF CategoryNames
  <1>10. c1 \in Seq(Cases)
    BY <1>1, <1>3, <1>9
  <1>11. c2 \in Seq(Cases)
    BY <1>1, <1>4, <1>9
  <1>12. c3 \in Seq(Cases)
    BY <1>1, <1>5, <1>9
  <1>13. c4 \in Seq(Cases)
    BY <1>1, <1>6, <1>9
  <1>14. c5 \in Seq(Cases)
    BY <1>1, <1>7, <1>9
  <1>15. c6 \in Seq(Cases)
    BY <1>1, <1>8, <1>9
  <1> HIDE DEF c1, c2, c3, c4, c5, c6
  <1>16. QED
    BY <1>2, <1>10, <1>11, <1>12, <1>13, <1>14, <1>15

\* A case of the corpus is found by its id.
LEMMA CaseIsFound ==
    ASSUME NEW id \in Ids
    PROVE  /\ CaseOf(id) \in ToSet(Corpus) /\ CaseOf(id).id = id
           /\ CaseOf(id) \in Cases
  <1>1. CaseOf(id) \in ToSet(Corpus) /\ CaseOf(id).id = id
    BY DEF CaseOf, Ids
  <1>2. ToSet(Corpus) \subseteq Cases
    BY CorpusIsSeq DEF ToSet
  <1>3. QED
    BY <1>1, <1>2

\* The selected cases are of the corpus, and the seeds are numbers.
LEMMA SelectionIsKnown ==
    ASSUME NEW o \in Options
    PROVE  /\ Known(o.ids) => SelectCases(o.ids) \in Seq(Ids)
           /\ ParseSeeds(o.raw) \in Seq(Int)
  <1>1. o.ids \in Seq(STRING) /\ o.raw \in Seq(Int)
    BY OptionsAssumption
  <1>2. ASSUME NEW T, NEW s \in Seq(T) PROVE Unique(s) \in Seq(T)
    <2> DEFINE kept == {i \in DOMAIN s : \A j \in 1 .. i - 1 : s[j] # s[i]}
    <2>1. kept \in SUBSET (DOMAIN s)
      OBVIOUS
    <2> HIDE DEF kept
    <2>2. Picked(s, kept) \in Seq(T)
      BY <2>1, PickedIsSeq
    <2>3. QED
      BY <2>2 DEF kept, Unique
  <1>3. ParseSeeds(o.raw) \in Seq(Int)
    BY <1>1, <1>2 DEF ParseSeeds
  <1>4. ASSUME Known(o.ids), o.ids # <<>> PROVE SelectCases(o.ids) \in Seq(Ids)
    <2>1. o.ids \in Seq(Ids)
      <3>1. ToSet(o.ids) \subseteq Ids
        BY <1>4 DEF Known, Ids
      <3>2. \A i \in DOMAIN o.ids : o.ids[i] \in Ids
        BY <3>1 DEF ToSet
      <3>3. QED
        BY <1>1, <3>2
    <2>2. QED
      BY <1>2, <1>4, <2>1 DEF SelectCases
  <1>5. ASSUME o.ids = <<>> PROVE SelectCases(o.ids) \in Seq(Ids)
    <2>1. DOMAIN Corpus = 1 .. Len(Corpus) /\ Len(Corpus) \in Nat
      BY CorpusIsSeq
    <2>2. \A i \in DOMAIN Corpus : Corpus[i].id \in Ids
      BY DEF Ids, ToSet
    <2>3. [i \in DOMAIN Corpus |-> Corpus[i].id] \in Seq(Ids)
      BY <2>1, <2>2
    <2>4. QED
      BY <1>5, <2>3 DEF SelectCases
  <1>6. QED
    BY <1>3, <1>4, <1>5

\* The sample to be asked next has a case of the corpus and a seed.
LEMMA SampleIs ==
    ASSUME inv.cases \in Seq(Ids), inv.seeds \in Seq(Int), Len(results) \in Nat, Asking
    PROVE  /\ Sample.case \in ToSet(Corpus) /\ Sample.case \in Cases /\ Sample.seed \in Int
  <1> DEFINE C == Len(inv.cases)
             S == Len(inv.seeds)
             n == Len(results) + 1
             q == (n - 1) \div C
             r == (n - 1) % C
             Pair(m) == [seed |-> inv.seeds[((m - 1) \div C) + 1],
                         case |-> CaseOf(inv.cases[((m - 1) % C) + 1])]
  <1>1. C \in Nat /\ S \in Nat /\ n \in Nat /\ n >= 1 /\ Len(results) = n - 1
    OBVIOUS
  <1>2. Samples = [m \in 1 .. S * C |-> Pair(m)]
    BY DEF Samples, Pairs
  <1>3. Pair(n) = [seed |-> inv.seeds[q + 1], case |-> CaseOf(inv.cases[r + 1])]
    OBVIOUS
  <1>4. Len(results) < Len(Samples) /\ Sample = Samples[n]
    BY DEF Asking, Sample
  <1> HIDE DEF C, S, n, Pair
  <1>5. S * C \in Nat
    BY <1>1
  <1>6. Len([m \in 1 .. S * C |-> Pair(m)]) = S * C
    BY <1>5
  <1>7. n <= S * C
    BY <1>1, <1>2, <1>4, <1>5, <1>6
  <1>8. Sample = [seed |-> inv.seeds[q + 1], case |-> CaseOf(inv.cases[r + 1])]
    BY <1>1, <1>2, <1>3, <1>4, <1>7
  <1>9. C >= 1
    BY <1>1, <1>7
  <1>10. q \in Nat /\ r \in 0 .. C - 1 /\ n - 1 = C * q + r
    BY <1>1, <1>9
  <1> HIDE DEF q, r
  <1>11. q < S
    <2>1. ASSUME q >= S PROVE FALSE
      <3>1. C * q >= C * S
        BY <1>1, <1>10, <2>1
      <3>2. QED
        BY <1>1, <1>7, <1>10, <3>1
    <2>2. QED
      BY <1>1, <1>10, <2>1
  <1>12. q + 1 \in 1 .. S /\ r + 1 \in 1 .. C
    BY <1>1, <1>9, <1>10, <1>11
  <1>13. inv.seeds[q + 1] \in Int /\ inv.cases[r + 1] \in Ids
    BY <1>12 DEF S, C
  <1>14. QED
    BY <1>8, <1>13, CaseIsFound

-----------------------------------------------------------------------------
(* Counting the samples that passed.                                       *)

\* The positions of the passed samples of some categories.
PassedIn(rs, keep) == {j \in DOMAIN rs : rs[j].status = "pass" /\ rs[j].category \in keep}

\* No two results of a report have one key.
KeysApart(rs) == \A i, j \in DOMAIN rs : Key(rs[i]) = Key(rs[j]) => i = j

\* A report with as many keys as results repeats none.
LEMMA NoKeyTwice ==
    ASSUME NEW rs \in Seq(Results), Cardinality({Key(r) : r \in ToSet(rs)}) = Len(rs)
    PROVE  KeysApart(rs)
  <1> DEFINE T == {Key(r) : r \in ToSet(rs)}
             f == [i \in 1 .. Len(rs) |-> Key(rs[i])]
  <1>1. Len(rs) \in Nat /\ DOMAIN rs = 1 .. Len(rs)
    OBVIOUS
  <1>2. T = {Key(rs[i]) : i \in 1 .. Len(rs)}
    BY <1>1 DEF ToSet
  <1>3. f \in Surjection(1 .. Len(rs), T)
    <2>1. f \in [1 .. Len(rs) -> T]
      BY <1>2
    <2>2. \A t \in T : \E i \in 1 .. Len(rs) : f[i] = t
      <3>1. TAKE t \in T
      <3>2. PICK i \in 1 .. Len(rs) : t = Key(rs[i])
        BY <1>2
      <3>3. f[i] = t
        BY <3>2
      <3>4. QED
        BY <3>3
    <2> HIDE DEF f, T
    <2>3. QED
      BY <2>1, <2>2 DEF Surjection
  <1>4. /\ IsFiniteSet(1 .. Len(rs)) /\ Cardinality(1 .. Len(rs)) = Len(rs)
    <2>1. /\ IsFiniteSet(1 .. Len(rs))
          /\ Cardinality(1 .. Len(rs)) = IF 1 > Len(rs) THEN 0 ELSE Len(rs) - 1 + 1
      <3> DEFINE one == 1
                 len == Len(rs)
      <3>1. one \in Int /\ len \in Int
        BY <1>1
      <3> HIDE DEF one, len
      <3>2. /\ IsFiniteSet(one .. len)
            /\ Cardinality(one .. len) = IF one > len THEN 0 ELSE len - one + 1
        BY <3>1, FS_Interval
      <3>3. QED
        BY <3>2 DEF one, len
    <2>2. QED
      BY <1>1, <2>1
  <1> HIDE DEF f
  <1>5. f \in Injection(1 .. Len(rs), T)
    BY <1>3, <1>4, FS_SurjSameCardinalityImpliesInj
  <1>6. \A i, j \in 1 .. Len(rs) : f[i] = f[j] => i = j
    BY <1>5 DEF Injection, IsInjective
  <1>7. QED
    BY <1>1, <1>6 DEF f, KeysApart

\* Then there are as many passed keys as passed results.
LEMMA PassesCounted ==
    ASSUME NEW rs \in Seq(Results), KeysApart(rs), NEW keep
    PROVE  /\ Cardinality(Passes(rs, keep)) = Cardinality(PassedIn(rs, keep))
           /\ IsFiniteSet(PassedIn(rs, keep)) /\ Cardinality(PassedIn(rs, keep)) \in Nat
  <1> DEFINE S == PassedIn(rs, keep)
             T == Passes(rs, keep)
             f == [i \in S |-> Key(rs[i])]
  <1>1. DOMAIN rs = 1 .. Len(rs) /\ Len(rs) \in Nat /\ S \subseteq 1 .. Len(rs)
    BY DEF PassedIn
  <1>2. IsFiniteSet(S) /\ Cardinality(S) \in Nat
    <2>1. IsFiniteSet(1 .. Len(rs))
      BY <1>1, FS_Interval
    <2>2. IsFiniteSet(S)
      BY <1>1, <2>1, FS_Subset
    <2>3. QED
      BY <2>2, FS_CardinalityType
  <1>3. T = {Key(rs[i]) : i \in S}
    BY DEF Passes, PassedIn
  <1>4. f \in Surjection(S, T)
    BY <1>3 DEF Surjection
  <1>5. f \in Injection(S, T)
    <2>1. f \in [S -> T]
      BY <1>3
    <2>2. \A i, j \in S : f[i] = f[j] => i = j
      BY <1>1 DEF KeysApart
    <2>3. QED
      BY <2>1, <2>2 DEF Injection, IsInjective
  <1> HIDE DEF f, S, T
  <1>6. ExistsBijection(S, T)
    BY <1>4, <1>5 DEF ExistsBijection, Bijection
  <1>7. Cardinality(T) = Cardinality(S)
    BY <1>2, <1>6, FS_Bijection
  <1>8. QED
    BY <1>2, <1>7 DEF S, T

\* What a summary counts, in total and for a category.
LEMMA SummaryCounts ==
    ASSUME NEW rs \in Seq(Results)
    PROVE  /\ Summary(rs).passed = Cardinality(PassedIn(rs, Categories))
           /\ \A c : (IF c \in DOMAIN Summary(rs).categories
                      THEN Summary(rs).categories[c] ELSE 0)
                        = Cardinality(PassedIn(rs, {c}))
           /\ Summary(rs).request_errors = 0 =>
                 \A r \in ToSet(rs) : r.status # "request_error"
  <1>1. DOMAIN rs = 1 .. Len(rs) /\ Len(rs) \in Nat
        /\ \A i \in DOMAIN rs : rs[i].category \in Categories
    <2>1. DOMAIN rs = 1 .. Len(rs) /\ Len(rs) \in Nat
      OBVIOUS
    <2>2. \A i \in DOMAIN rs : rs[i] \in Results
      OBVIOUS
    <2>3. \A r \in Results : r.category \in Categories
      BY DEF Results
    <2>4. QED
      BY <2>1, <2>2, <2>3
  <1>2. Passed(rs) = PassedIn(rs, Categories)
    BY <1>1 DEF Passed, PassedIn
  <1>3. ASSUME NEW c
        PROVE  (IF c \in DOMAIN Summary(rs).categories
                THEN Summary(rs).categories[c] ELSE 0) = Cardinality(PassedIn(rs, {c}))
    <2>1. Passed(rs) \cap InCategory(rs, c) = PassedIn(rs, {c})
      BY DEF Passed, InCategory, PassedIn
    <2>2. Summary(rs).categories = [d \in {rs[i].category : i \in DOMAIN rs} |->
                                      Cardinality(Passed(rs) \cap InCategory(rs, d))]
      BY DEF Summary
    <2>3. CASE c \in {rs[i].category : i \in DOMAIN rs}
      BY <2>1, <2>2, <2>3
    <2>4. CASE c \notin {rs[i].category : i \in DOMAIN rs}
      <3>1. PassedIn(rs, {c}) = {}
        BY <2>4 DEF PassedIn
      <3>2. Cardinality(PassedIn(rs, {c})) = 0
        BY <3>1, FS_EmptySet
      <3>3. QED
        BY <2>2, <2>4, <3>2
    <2>5. QED
      BY <2>3, <2>4
  <1>4. ASSUME Summary(rs).request_errors = 0
        PROVE  \A r \in ToSet(rs) : r.status # "request_error"
    <2> DEFINE E == {i \in DOMAIN rs : rs[i].status = "request_error"}
    <2>1. Cardinality(E) = 0
      <3>1. Summary(rs).request_errors = Cardinality(E)
        BY DEF Summary
      <3> HIDE DEF E
      <3>2. QED
        BY <1>4, <3>1
    <2>2. E \subseteq 1 .. Len(rs) /\ IsFiniteSet(1 .. Len(rs))
      BY <1>1, FS_Interval
    <2>3. IsFiniteSet(E)
      BY <2>2, FS_Subset
    <2>4. E = {}
      BY <2>1, <2>3, FS_EmptySet
    <2>5. QED
      BY <2>4 DEF ToSet
  <1>5. Summary(rs).passed = Cardinality(Passed(rs))
    BY DEF Summary
  <1>6. QED
    BY <1>2, <1>3, <1>4, <1>5

\* Comparable reports of which the second has not regressed.
LEMMA NoRegressionIsSound ==
    ASSUME NEW base, NEW cand, base.results \in Seq(Results), cand.results \in Seq(Results),
           Comparable(base, cand), ~Regressed(base, cand)
    PROVE  /\ Keys(base) = Keys(cand)
           /\ \A r \in ToSet(base.results) \cup ToSet(cand.results) : r.status # "request_error"
           /\ \A keep \in {{c} : c \in PROTECTED_CATEGORIES} \cup {Categories} :
                 Cardinality(Passes(cand.results, keep)) >= Cardinality(Passes(base.results, keep))
  <1> DEFINE B == base.results
             C == cand.results
  <1>1. B \in Seq(Results) /\ C \in Seq(Results)
    OBVIOUS
  <1>2. /\ Keys(base) = Keys(cand)
        /\ Cardinality({Key(r) : r \in ToSet(B)}) = Len(B)
        /\ Cardinality({Key(r) : r \in ToSet(C)}) = Len(C)
        /\ Summary(B).request_errors = 0 /\ Summary(C).request_errors = 0
    BY DEF Comparable, Repeats, Keys
  <1>3. /\ ~(Summary(C).passed - Summary(B).passed < 0)
        /\ \A c \in PROTECTED_CATEGORIES :
              ~((IF c \in DOMAIN Summary(C).categories THEN Summary(C).categories[c] ELSE 0)
                - (IF c \in DOMAIN Summary(B).categories THEN Summary(B).categories[c] ELSE 0)
                  < 0)
    BY DEF Regressed, DeltaPassed, CategoryDelta
  <1> HIDE DEF B, C
  <1>4. KeysApart(B) /\ KeysApart(C)
    BY <1>1, <1>2, NoKeyTwice
  <1>5. \A keep : /\ Cardinality(Passes(B, keep)) = Cardinality(PassedIn(B, keep))
                  /\ Cardinality(Passes(C, keep)) = Cardinality(PassedIn(C, keep))
                  /\ Cardinality(PassedIn(B, keep)) \in Nat
                  /\ Cardinality(PassedIn(C, keep)) \in Nat
    BY <1>1, <1>4, PassesCounted
  <1>6. Cardinality(Passes(C, Categories)) >= Cardinality(Passes(B, Categories))
    <2>1. /\ Summary(C).passed = Cardinality(PassedIn(C, Categories))
          /\ Summary(B).passed = Cardinality(PassedIn(B, Categories))
      BY <1>1, SummaryCounts
    <2>2. QED
      BY <1>3, <1>5, <2>1
  <1>7. ASSUME NEW c \in PROTECTED_CATEGORIES
        PROVE  Cardinality(Passes(C, {c})) >= Cardinality(Passes(B, {c}))
    <2>1. /\ (IF c \in DOMAIN Summary(C).categories THEN Summary(C).categories[c] ELSE 0)
                = Cardinality(PassedIn(C, {c}))
          /\ (IF c \in DOMAIN Summary(B).categories THEN Summary(B).categories[c] ELSE 0)
                = Cardinality(PassedIn(B, {c}))
      BY <1>1, SummaryCounts
    <2>2. ~(Cardinality(PassedIn(C, {c})) - Cardinality(PassedIn(B, {c})) < 0)
      BY <1>3, <2>1
    <2>3. QED
      BY <1>5, <2>2
  <1>8. \A r \in ToSet(B) \cup ToSet(C) : r.status # "request_error"
    BY <1>1, <1>2, SummaryCounts
  <1>9. QED
    BY <1>2, <1>6, <1>7, <1>8 DEF B, C

-----------------------------------------------------------------------------
(* The gate.                                                               *)

\* What holds between two requests of the evaluator.
EvInv ==
    /\ EvTypeOK
    /\ results \in Seq(Results)
    /\ inv.cases \in Seq(Ids) /\ inv.seeds \in Seq(Int) /\ (inv.gate => inv.compare)
    /\ file.kind = "report" => file.results \in Seq(Results)
    /\ GateIsSound

\* The statuses are those the type invariant names.
LEMMA StatusesAreTyped ==
    ASSUME NEW rs \in Seq(Results)
    PROVE  \A i \in DOMAIN rs : rs[i].status \in Statuses
  <1>1. \A i \in DOMAIN rs : rs[i] \in Results
    OBVIOUS
  <1>2. \A r \in Results : r.status \in Statuses
    BY DEF Results
  <1>3. QED
    BY <1>1, <1>2

\* A round ends the sample with one of four statuses, or it was a tool step.
LEMMA RoundEnds ==
    ASSUME NEW reply
    PROVE  /\ RoundStatus(reply) \in Statuses \cup {"matched"}
           /\ RoundStatus(reply) = "matched" => step < Sample.case.steps
  <1>1. StepStatus(reply) \in Statuses \cup {"matched"}
    BY DEF StepStatus, Statuses
  <1>2. FinalStatus(reply) \in Statuses
    BY DEF FinalStatus, Statuses
  <1>3. "matched" \notin Statuses /\ "request_error" \in Statuses
    BY DEF Statuses
  <1>4. QED
    BY <1>1, <1>2, <1>3 DEF RoundStatus

\* Before the first invocation nothing is claimed.
LEMMA EvaluatorStarts == EvInit => EvInv
  <1>1. SUFFICES ASSUME EvInit PROVE EvInv
    OBVIOUS
  <1>2. phase = "off" /\ code = 0 /\ raised = FALSE /\ results = <<>> /\ step = 0
        /\ inv = [cases |-> <<>>, seeds |-> <<>>, compare |-> FALSE, gate |-> FALSE]
        /\ file = [kind |-> "none"]
    BY <1>1 DEF EvInit
  <1>3. <<>> \in Seq(Results) /\ <<>> \in Seq(Ids) /\ <<>> \in Seq(Int)
    OBVIOUS
  <1>4. file.kind # "report"
    BY <1>2
  <1>5. EvTypeOK
    <2>1. \A i \in DOMAIN results : results[i].status \in Statuses
      BY <1>2, <1>3, StatusesAreTyped
    <2>2. phase \in {"off", "asking", "over"} /\ code \in 0 .. 2 /\ step \in 0 .. 1
      BY <1>2
    <2>3. raised \in BOOLEAN
      BY <1>2, Zenon
    <2>4. QED
      BY <2>1, <2>2, <2>3 DEF EvTypeOK, Statuses
  <1>6. GateIsSound
    BY <1>2 DEF GateIsSound
  <1>7. QED
    BY <1>2, <1>3, <1>4, <1>5, <1>6 DEF EvInv

\* An invocation starts with known cases and numbers for seeds.
LEMMA InvokeKeepsEvInv == EvInv /\ Invoke => EvInv'
  <1>1. SUFFICES ASSUME EvInv, Invoke PROVE EvInv'
    OBVIOUS
  <1>2. PICK options \in Options, compare \in BOOLEAN, gate \in BOOLEAN :
            /\ gate => compare
            /\ inv' = [cases |-> IF Known(options.ids) THEN SelectCases(options.ids) ELSE <<>>,
                       seeds |-> ParseSeeds(options.raw), compare |-> compare,
                       gate |-> gate]
            /\ IF Known(options.ids) /\ SeedsAllowed(options.raw)
               THEN phase' = "asking" /\ raised' = FALSE /\ code' = 0
               ELSE phase' = "over" /\ raised' = TRUE
                    /\ code' = IF SeedsAllowed(options.raw) THEN 1 ELSE 2
            /\ file' = IF compare THEN file ELSE [kind |-> "broken"]
    BY <1>1 DEF Invoke
  <1>3. results' = <<>> /\ step' = 0
    BY <1>1 DEF Invoke
  <1>4. inv'.cases \in Seq(Ids) /\ inv'.seeds \in Seq(Int) /\ (inv'.gate => inv'.compare)
    BY <1>2, SelectionIsKnown
  <1>5. file'.kind = "report" => file'.results \in Seq(Results)
    BY <1>1, <1>2 DEF EvInv
  <1>6. EvTypeOK'
    <2>1. <<>> \in Seq(Results)
      OBVIOUS
    <2>2. \A i \in DOMAIN results' : results'[i].status \in Statuses
      BY <1>3, <2>1, StatusesAreTyped
    <2>3. phase' \in {"off", "asking", "over"} /\ code' \in 0 .. 2 /\ step' \in 0 .. 1
      BY <1>2, <1>3
    <2>4. raised' \in BOOLEAN
      BY <1>2, Zenon
    <2>5. QED
      BY <2>2, <2>3, <2>4 DEF EvTypeOK, Statuses
  <1>7. GateIsSound'
    BY <1>2 DEF GateIsSound
  <1>8. <<>> \in Seq(Results)
    OBVIOUS
  <1>9. QED
    BY <1>3, <1>4, <1>5, <1>6, <1>7, <1>8 DEF EvInv

\* The result of a sample is one of a case of the corpus.
LEMMA ResultIs ==
    ASSUME EvInv, Asking, NEW status \in Statuses
    PROVE  Result(status) \in Results
  <1>1. Sample.case \in ToSet(Corpus) /\ Sample.seed \in Int
    BY SampleIs DEF EvInv
  <1>2. Sample.case.id \in Ids /\ Sample.case.category \in Categories
    BY <1>1 DEF Ids, Categories
  <1>3. QED
    BY <1>1, <1>2 DEF Result, Results

\* A request adds a result of a known case, is a tool step, or ends it all.
LEMMA AskKeepsEvInv == ASSUME NEW wire, EvInv, Ask(wire) PROVE EvInv'
  <1> DEFINE reply == RequestChat(wire)
             status == RoundStatus(reply)
  <1>1. Asking /\ phase = "asking" /\ inv' = inv /\ file' = file
    BY DEF Ask, Asking
  <1>2. CASE reply.kind = "crash" \/ Escapes(reply)
    <2>1. phase' = "over" /\ raised' = TRUE /\ code' = 1 /\ results' = results /\ step' = step
      BY <1>2 DEF Ask
    <2>2. EvTypeOK'
      BY <2>1 DEF EvInv, EvTypeOK
    <2>3. GateIsSound'
      BY <2>1 DEF GateIsSound
    <2>4. QED
      BY <1>1, <2>1, <2>2, <2>3 DEF EvInv
  <1>3. CASE ~(reply.kind = "crash" \/ Escapes(reply))
    <2>1. /\ phase' = phase /\ raised' = raised /\ code' = code
          /\ IF status = "matched"
             THEN step' = step + 1 /\ results' = results
             ELSE step' = 0 /\ results' = Append(results, Result(status))
      BY <1>3 DEF Ask
    <2>2. GateIsSound'
      BY <1>1, <2>1 DEF GateIsSound
    <2> HIDE DEF reply
    <2>3. status \in Statuses \cup {"matched"} /\ (status = "matched" => step < Sample.case.steps)
      BY RoundEnds
    <2> HIDE DEF status
    <2>4. step' \in 0 .. 1
      <3>1. Sample.case \in Cases
        BY <1>1, SampleIs DEF EvInv
      <3>2. Sample.case.steps \in 0 .. 1
        BY <3>1 DEF Cases
      <3>3. step \in 0 .. 1
        BY DEF EvInv, EvTypeOK
      <3>4. QED
        BY <2>1, <2>3, <3>2, <3>3
    <2>5. results' \in Seq(Results)
      <3>1. results \in Seq(Results)
        BY DEF EvInv
      <3>2. CASE status = "matched"
        BY <2>1, <3>1, <3>2
      <3>3. CASE status # "matched"
        <4>1. Result(status) \in Results
          BY <1>1, <2>3, <3>3, ResultIs
        <4>2. QED
          BY <2>1, <3>1, <3>3, <4>1
      <3>4. QED
        BY <3>2, <3>3
    <2>6. EvTypeOK'
      <3>1. phase' \in {"off", "asking", "over"} /\ code' \in 0 .. 2 /\ raised' \in BOOLEAN
        BY <2>1 DEF EvInv, EvTypeOK
      <3>2. \A i \in DOMAIN results' : results'[i].status \in Statuses
        BY <2>5, StatusesAreTyped
      <3>3. QED
        BY <2>4, <3>1, <3>2 DEF EvTypeOK, Statuses
    <2>7. QED
      BY <1>1, <2>2, <2>5, <2>6 DEF EvInv
  <1>4. QED
    BY <1>2, <1>3

\* Exit status 0 of a gated comparison is one of comparable reports without a
\* regression.
LEMMA ReportKeepsEvInv == EvInv /\ Report => EvInv'
  <1> SUFFICES ASSUME EvInv, Report PROVE EvInv'
    OBVIOUS
  <1> DEFINE report == [kind |-> "report", selection |-> inv.cases, results |-> results]
             fails == inv.compare
                      /\ (file.kind # "report" \/ ~Comparable(file, report))
  <1>1. /\ phase' = "over" /\ raised' = fails
        /\ code' = IF fails THEN 1 ELSE ExitCode(file, report)
        /\ file' = IF inv.compare THEN file ELSE report
        /\ inv' = inv /\ results' = results /\ step' = step
    BY DEF Report
  <1>2. report.results = results /\ report.kind = "report"
    OBVIOUS
  <1> HIDE DEF report
  <1>3. /\ results \in Seq(Results) /\ (inv.gate => inv.compare)
        /\ file.kind = "report" => file.results \in Seq(Results)
    BY DEF EvInv
  <1>4. file'.kind = "report" => file'.results \in Seq(Results)
    BY <1>1, <1>2, <1>3
  <1>5. EvTypeOK'
    <2>1. ExitCode(file, report) \in 0 .. 2
      BY DEF ExitCode
    <2>2. fails \in BOOLEAN
      OBVIOUS
    <2>3. code' \in 0 .. 2
      BY <1>1, <2>1
    <2> HIDE DEF fails
    <2>4. QED
      BY <1>1, <2>2, <2>3 DEF EvInv, EvTypeOK
  <1>6. GateIsSound'
    <2> SUFFICES ASSUME ~raised', inv.gate, code' = 0
                 PROVE  /\ {Key(r) : r \in ToSet(file'.results)} = {Key(r) : r \in ToSet(results)}
                        /\ \A r \in ToSet(file'.results) \cup ToSet(results) :
                              r.status # "request_error"
                        /\ \A keep \in {{c} : c \in PROTECTED_CATEGORIES} \cup {Categories} :
                              Cardinality(Passes(results, keep))
                                 >= Cardinality(Passes(file'.results, keep))
      BY <1>1 DEF GateIsSound, Categories
    <2>1. inv.compare /\ ~fails /\ file' = file
      BY <1>1, <1>3
    <2>2. file.kind = "report" /\ Comparable(file, report)
      BY <2>1
    <2>3. ~Regressed(file, report)
      BY <1>1, <2>1 DEF ExitCode
    <2> HIDE DEF fails
    <2>4. file.results \in Seq(Results) /\ report.results \in Seq(Results)
      BY <1>2, <1>3, <2>2
    <2>5. /\ Keys(file) = Keys(report)
          /\ \A r \in ToSet(file.results) \cup ToSet(report.results) : r.status # "request_error"
          /\ \A keep \in {{c} : c \in PROTECTED_CATEGORIES} \cup {Categories} :
                Cardinality(Passes(report.results, keep))
                   >= Cardinality(Passes(file.results, keep))
      BY <2>2, <2>3, <2>4, NoRegressionIsSound
    <2>6. QED
      BY <1>2, <2>1, <2>5 DEF Keys
  <1>7. QED
    BY <1>1, <1>3, <1>4, <1>5, <1>6 DEF EvInv

\* The evaluator takes no other step.
LEMMA StepKeepsEvInv == EvInv /\ [EvNext]_evVars => EvInv'
  <1>1. SUFFICES ASSUME EvInv, [EvNext]_evVars PROVE EvInv'
    OBVIOUS
  <1>2. CASE Invoke
    BY <1>1, <1>2, InvokeKeepsEvInv
  <1>3. CASE \E wire \in Wires : Ask(wire)
    BY <1>1, <1>3, AskKeepsEvInv
  <1>4. CASE Report
    BY <1>1, <1>4, ReportKeepsEvInv
  <1>5. CASE UNCHANGED evVars
    <2>1. /\ inv' = inv /\ phase' = phase /\ code' = code /\ raised' = raised
          /\ results' = results /\ step' = step /\ file' = file
      BY <1>5 DEF evVars
    <2>2. EvTypeOK' /\ GateIsSound'
      BY <1>1, <2>1 DEF EvInv, EvTypeOK, GateIsSound
    <2>3. QED
      BY <1>1, <2>1, <2>2 DEF EvInv
  <1>6. QED
    BY <1>1, <1>2, <1>3, <1>4, <1>5 DEF EvNext

\* Every variable of the evaluator keeps its type.
THEOREM EvaluatorTypeCorrect == EvSpec => []EvTypeOK
  <1>1. EvInv => EvTypeOK
    BY DEF EvInv
  <1>2. QED
    BY <1>1, EvaluatorStarts, StepKeepsEvInv, PTL DEF EvSpec

\* Whatever the server answers and whatever reports the shell has kept, exit
\* status 0 of a gated comparison says that the same samples were answered
\* and that no fewer of them passed.
THEOREM GateCanBeTrusted == EvSpec => []GateIsSound
  <1>1. EvInv => GateIsSound
    BY DEF EvInv
  <1>2. QED
    BY <1>1, EvaluatorStarts, StepKeepsEvInv, PTL DEF EvSpec

-----------------------------------------------------------------------------
(* The schedule of the benchmark.                                          *)

\* What the command line can say.
OptionsTyped(options) ==
    /\ options.modes \in Seq(STRING) /\ options.workloads \in Seq(STRING)
    /\ options.repeats \in 1 .. 100 /\ options.warmups \in 0 .. 20

\* Dividing is unique.
LEMMA DividedAs ==
    ASSUME NEW d \in Nat \ {0}, NEW q \in Nat, NEW r \in 0 .. d - 1
    PROVE  (d * q + r) \div d = q /\ (d * q + r) % d = r
  <1> DEFINE n == d * q + r
             p == n \div d
             t == n % d
  <1>1. d * q \in Nat
    OBVIOUS
  <1>2. n \in Nat
    BY <1>1
  <1>3. p \in Nat /\ t \in 0 .. d - 1 /\ n = d * p + t
    <2> HIDE DEF n
    <2>1. QED
      BY <1>2
  <1>4. d * p + t = d * q + r
    BY <1>3
  <1> HIDE DEF n, p, t
  <1>5. ~(p < q)
    <2>1. ASSUME p < q PROVE FALSE
      <3>1. d * (p + 1) <= d * q
        BY <1>3, <2>1
      <3>2. d * (p + 1) = d * p + d
        BY <1>3
      <3>3. d * p \in Nat
        BY <1>3
      <3>4. QED
        BY <1>1, <1>3, <1>4, <3>1, <3>2, <3>3
    <2>2. QED
      BY <2>1
  <1>6. ~(q < p)
    <2>1. ASSUME q < p PROVE FALSE
      <3>1. d * (q + 1) <= d * p
        BY <1>3, <2>1
      <3>2. d * (q + 1) = d * q + d
        OBVIOUS
      <3>3. d * p \in Nat
        BY <1>3
      <3>4. QED
        BY <1>1, <1>3, <1>4, <3>1, <3>2, <3>3
    <2>2. QED
      BY <2>1
  <1>7. p = q
    BY <1>3, <1>5, <1>6
  <1>8. t = r
    BY <1>1, <1>3, <1>4, <1>7
  <1>9. QED
    BY <1>7, <1>8 DEF p, t, n

\* A part of the schedule has a request of one mode and workload.
Includes(part, mode, workload) ==
    \E n \in DOMAIN part : part[n].mode = mode /\ part[n].workload = workload

\* A part of the schedule: items of one kind, each of a numbered round.
IsPart(part, warm) ==
    /\ part \in Seq({part[n] : n \in DOMAIN part})
    /\ \A n \in DOMAIN part : part[n].warm = warm /\ part[n].repeat \in Nat

\* Every pair of a mode and a workload has an item in the first round.
LEMMA FirstRoundHasAll ==
    ASSUME NEW options, OptionsTyped(options), NEW count \in Nat \ {0},
           NEW i \in DOMAIN options.modes, NEW j \in DOMAIN options.workloads
    PROVE  Includes(Rounds(count, FALSE, options), options.modes[i], options.workloads[j])
  <1> DEFINE M == Len(options.modes)
             W == Len(options.workloads)
             D == W * M
             k == M * (j - 1) + (i - 1)
             m == k + 1
             Item(n) ==
                LET repeat == ((n - 1) \div D) + 1
                    modes == IF FALSE THEN options.modes ELSE RoundModes(options, repeat)
                IN [warm |-> FALSE, repeat |-> repeat,
                    workload |-> options.workloads[(((n - 1) \div M) % W) + 1],
                    mode |-> modes[((n - 1) % M) + 1]]
  <1>1. M \in Nat /\ W \in Nat /\ i \in 1 .. M /\ j \in 1 .. W
    BY DEF OptionsTyped
  <1>2. Rounds(count, FALSE, options) = [n \in 1 .. count * D |-> Item(n)]
    BY DEF Rounds
  <1> HIDE DEF m, k, D, M, W
  <1>3. ASSUME NEW n
        PROVE  /\ Item(n).mode = RoundModes(options, ((n - 1) \div D) + 1)[((n - 1) % M) + 1]
               /\ Item(n).workload = options.workloads[(((n - 1) \div M) % W) + 1]
    OBVIOUS
  <1> HIDE DEF Item
  <1>4. M \in Nat \ {0} /\ W \in Nat \ {0} /\ i - 1 \in 0 .. M - 1 /\ j - 1 \in Nat
    BY <1>1
  <1>5. D \in Nat /\ k \in Nat /\ M * (j - 1) \in Nat
    <2>1. W * M \in Nat
      BY <1>4
    <2>2. M * (j - 1) \in Nat
      BY <1>4
    <2>3. QED
      BY <1>4, <2>1, <2>2 DEF k, D
  <1>6. k \div M = j - 1 /\ k % M = i - 1
    BY <1>4, DividedAs DEF k
  <1>7. k < D
    <2>1. M * (j - 1) + M = M * j
      BY <1>1
    <2>2. M * j <= W * M
      BY <1>1
    <2>3. QED
      BY <1>1, <1>4, <1>5, <2>1, <2>2 DEF k, D
  <1>8. D <= count * D
    BY <1>5
  <1>9. count * D \in Nat
    BY <1>5
  <1>10. k \div D = 0
    BY <1>5, <1>7
  <1>11. (j - 1) % W = j - 1
    BY <1>1, <1>4
  <1>12. m - 1 = k /\ m \in 1 .. count * D
    BY <1>5, <1>7, <1>8, <1>9 DEF m
  <1>13. RoundModes(options, 1) = options.modes
    BY DEF RoundModes
  <1>14. /\ Item(m).mode = options.modes[i]
         /\ Item(m).workload = options.workloads[j]
    <2>1. i - 1 + 1 = i /\ j - 1 + 1 = j /\ 0 + 1 = 1
      BY <1>1
    <2>2. /\ Item(m).mode = RoundModes(options, ((m - 1) \div D) + 1)[((m - 1) % M) + 1]
          /\ Item(m).workload = options.workloads[(((m - 1) \div M) % W) + 1]
      BY <1>3
    <2>3. QED
      BY <1>6, <1>10, <1>11, <1>12, <1>13, <2>1, <2>2
  <1>15. QED
    BY <1>2, <1>12, <1>14 DEF Includes

\* A part of the schedule is a sequence of items of one kind with a round.
LEMMA RoundsAre ==
    ASSUME NEW options, OptionsTyped(options), NEW count \in Nat, NEW warm
    PROVE  IsPart(Rounds(count, warm, options), warm)
  <1> DEFINE M == Len(options.modes)
             W == Len(options.workloads)
             D == W * M
             K == count * D
             Item(n) ==
                LET repeat == ((n - 1) \div D) + 1
                    modes == IF warm THEN options.modes ELSE RoundModes(options, repeat)
                IN [warm |-> warm, repeat |-> repeat,
                    workload |-> options.workloads[(((n - 1) \div M) % W) + 1],
                    mode |-> modes[((n - 1) % M) + 1]]
             R == Rounds(count, warm, options)
  <1>1. M \in Nat /\ W \in Nat
    BY DEF OptionsTyped
  <1>2. R = [n \in 1 .. K |-> Item(n)]
    BY DEF Rounds
  <1> HIDE DEF M, W
  <1>3. D \in Nat
    BY <1>1
  <1> HIDE DEF D
  <1>4. K \in Nat /\ (D = 0 => K = 0)
    BY <1>3
  <1> HIDE DEF K
  <1>5. ASSUME NEW n PROVE Item(n).warm = warm /\ Item(n).repeat = ((n - 1) \div D) + 1
    OBVIOUS
  <1> HIDE DEF Item, R
  <1>6. DOMAIN R = 1 .. K
    BY <1>2
  <1>7. R \in Seq({R[n] : n \in DOMAIN R})
    <2>1. R = [n \in 1 .. K |-> R[n]]
      BY <1>2
    <2>2. R \in [1 .. K -> {R[n] : n \in DOMAIN R}]
      BY <1>6, <2>1
    <2>3. QED
      BY <1>4, <2>2
  <1>8. ASSUME NEW n \in DOMAIN R PROVE R[n].warm = warm /\ R[n].repeat \in Nat
    <2>1. n \in 1 .. K /\ R[n] = Item(n)
      BY <1>2, <1>6
    <2>2. D \in Nat \ {0} /\ n - 1 \in Nat
      BY <1>3, <1>4, <2>1
    <2>3. (n - 1) \div D \in Nat
      BY <2>2
    <2>4. Item(n).warm = warm /\ Item(n).repeat = ((n - 1) \div D) + 1
      BY <1>5
    <2>5. QED
      BY <2>1, <2>3, <2>4
  <1>9. QED
    BY <1>7, <1>8 DEF R, IsPart

\* An item of a schedule measures a mode and a workload.
Measures(item, mode, workload) == ~item.warm /\ item.mode = mode /\ item.workload = workload

\* What the schedule is for the results: rounds are numbers, and every pair of
\* a mode and a workload is measured.
LEMMA ScheduleMeasuresAll ==
    ASSUME NEW options, OptionsTyped(options)
    PROVE  /\ Len(Schedule(options)) \in Nat
           /\ \A n \in 1 .. Len(Schedule(options)) : Schedule(options)[n].repeat \in Nat
           /\ \A mode \in ToSet(options.modes), workload \in ToSet(options.workloads) :
                 \E n \in 1 .. Len(Schedule(options)) :
                    Measures(Schedule(options)[n], mode, workload)
  <1> DEFINE A == Warmups(options)
             B == Measurements(options)
             TA == {A[n] : n \in DOMAIN A}
             TB == {B[n] : n \in DOMAIN B}
             S == Schedule(options)
  <1>1. options.repeats \in Nat \ {0} /\ options.warmups \in Nat
    <2>1. options.repeats \in 1 .. 100 /\ options.warmups \in 0 .. 20
      BY DEF OptionsTyped
    <2>2. QED
      BY <2>1
  <1>2. A \in Seq(TA) /\ \A n \in DOMAIN A : A[n].repeat \in Nat
    <2>1. options.warmups \in Nat
      BY <1>1
    <2>2. IsPart(Rounds(options.warmups, TRUE, options), TRUE)
      BY <2>1, RoundsAre
    <2>3. QED
      BY <2>2 DEF Warmups, IsPart
  <1>3. B \in Seq(TB) /\ \A n \in DOMAIN B : B[n].warm = FALSE /\ B[n].repeat \in Nat
    <2>1. options.repeats \in Nat
      BY <1>1
    <2>2. IsPart(Rounds(options.repeats, FALSE, options), FALSE)
      BY <2>1, RoundsAre
    <2>3. QED
      BY <2>2 DEF Measurements, IsPart
  <1>4. ASSUME NEW mode \in ToSet(options.modes), NEW workload \in ToSet(options.workloads)
        PROVE  \E n \in DOMAIN B : B[n].mode = mode /\ B[n].workload = workload
    <2>1. PICK i \in DOMAIN options.modes : options.modes[i] = mode
      BY <1>4 DEF ToSet
    <2>2. PICK j \in DOMAIN options.workloads : options.workloads[j] = workload
      BY <1>4 DEF ToSet
    <2>3. Includes(Rounds(options.repeats, FALSE, options), options.modes[i], options.workloads[j])
      BY <1>1, FirstRoundHasAll
    <2>4. QED
      BY <2>1, <2>2, <2>3 DEF Measurements, Includes
  <1>5. S = A \o B
    BY DEF Schedule
  <1> HIDE DEF A, B, S
  <1>6. A \in Seq(TA \cup TB) /\ B \in Seq(TA \cup TB)
    BY <1>2, <1>3
  <1> HIDE DEF TA, TB
  <1>7. /\ Len(A) \in Nat /\ Len(B) \in Nat /\ DOMAIN A = 1 .. Len(A) /\ DOMAIN B = 1 .. Len(B)
        /\ Len(S) = Len(A) + Len(B)
        /\ \A n \in 1 .. Len(S) : S[n] = IF n <= Len(A) THEN A[n] ELSE B[n - Len(A)]
    BY <1>5, <1>6
  <1>8. ASSUME NEW n \in 1 .. Len(S) PROVE S[n].repeat \in Nat
    <2>1. CASE n <= Len(A)
      BY <1>2, <1>7, <2>1
    <2>2. CASE ~(n <= Len(A))
      <3>1. n - Len(A) \in 1 .. Len(B)
        BY <1>7, <2>2
      <3>2. QED
        BY <1>3, <1>7, <2>2, <3>1
    <2>3. QED
      BY <2>1, <2>2
  <1>9. ASSUME NEW mode \in ToSet(options.modes), NEW workload \in ToSet(options.workloads)
        PROVE  \E n \in 1 .. Len(S) : Measures(S[n], mode, workload)
    <2>1. PICK m \in DOMAIN B : B[m].mode = mode /\ B[m].workload = workload
      BY <1>4
    <2> DEFINE n == Len(A) + m
    <2>2. n \in 1 .. Len(S) /\ ~(n <= Len(A)) /\ n - Len(A) = m
      BY <1>7
    <2> HIDE DEF n
    <2>3. S[n] = B[m]
      BY <1>7, <2>2
    <2>4. QED
      BY <1>3, <2>1, <2>2, <2>3 DEF Measures
  <1>10. Len(S) \in Nat
    BY <1>7
  <1>11. QED
    BY <1>8, <1>9, <1>10 DEF S

-----------------------------------------------------------------------------
(* Drift between repeats.                                                  *)

\* At most one hash is seen exactly when all results of a set are alike.
LEMMA OneHash ==
    ASSUME NEW S, IsFiniteSet(S)
    PROVE  /\ Cardinality(Hashes(S)) <= 1 <=> \A r, t \in S : r.output = t.output
           /\ S # {} => (Cardinality(Hashes(S)) = 1 <=> \A r, t \in S : r.output = t.output)
  <1> DEFINE H == Hashes(S)
             f == [r \in S |-> r.output]
  <1>1. H = {r.output : r \in S}
    BY DEF Hashes
  <1>2. IsFiniteSet(H) /\ Cardinality(H) \in Nat
    <2>1. f \in [S -> H]
      BY <1>1
    <2>2. \A h \in H : \E r \in S : f[r] = h
      BY <1>1
    <2> HIDE DEF f, H
    <2>3. f \in Surjection(S, H)
      BY <2>1, <2>2 DEF Surjection
    <2>4. IsFiniteSet(H)
      BY <2>3, FS_Surjection
    <2>5. QED
      BY <2>4, FS_CardinalityType
  <1> HIDE DEF H
  <1>3. Cardinality(H) = 0 <=> H = {}
    BY <1>2, FS_EmptySet
  <1>4. Cardinality(H) = 1 <=> \E x : H = {x}
    BY <1>2, FS_Singleton
  <1>5. H = {} <=> S = {}
    BY <1>1
  <1>6. ASSUME NEW x, H = {x} PROVE \A r, t \in S : r.output = t.output
    BY <1>1, <1>6
  <1>7. ASSUME S # {}, \A r, t \in S : r.output = t.output PROVE \E x : H = {x}
    <2>1. PICK r \in S : TRUE
      BY <1>7
    <2>2. H = {r.output}
      BY <1>1, <1>7
    <2>3. QED
      BY <2>2
  <1>8. Cardinality(H) <= 1 <=> Cardinality(H) = 0 \/ Cardinality(H) = 1
    BY <1>2
  <1>9. QED
    BY <1>3, <1>4, <1>5, <1>6, <1>7, <1>8 DEF H

\* A set of results of one mode and workload, each of its item.
AllOf(S, mode, workload) ==
    \A r \in S : /\ r.repeat \in Nat /\ r.body = Body(r)
                 /\ r.mode = mode /\ r.workload = workload

\* Two answers to one request differ.
Drifted(S) == \E r, t \in S : r.body = t.body /\ r.output # t.output

\* Results of one mode and workload vary exactly when two answers to the same
\* request differ.
LEMMA DriftIsSeen ==
    ASSUME NEW S, S # {}, IsFiniteSet(S), NEW mode, NEW workload, AllOf(S, mode, workload)
    PROVE  ~Deterministic(S) <=> Drifted(S)
  <1> USE DEF AllOf, Drifted
  <1> DEFINE Part(parity) == {r \in S : r.repeat % 2 = parity}
  <1>1. CASE settings.alternate_branch
    <2>1. \A r \in S : r.body = [mode |-> mode, workload |-> workload,
                                 backend_sampling |-> mode = "fast",
                                 branch |-> IF r.repeat % 2 = 1 THEN "A" ELSE "B"]
      BY <1>1 DEF Body
    <2>2. \A r \in S : r.body.branch = IF r.repeat % 2 = 1 THEN "A" ELSE "B"
      <3>1. \A r \in S : Body(r).branch = IF r.repeat % 2 = 1 THEN "A" ELSE "B"
        BY <1>1 DEF Body
      <3>2. \A r \in S : r.body = Body(r)
        OBVIOUS
      <3>3. QED
        BY <3>1, <3>2, Zenon
    <2>3. \A r \in S : r.repeat % 2 \in {0, 1}
      OBVIOUS
    <2>4. \A r, t \in S : r.body = t.body <=> r.repeat % 2 = t.repeat % 2
      <3>1. TAKE r, t \in S
      <3>2. CASE r.repeat % 2 = t.repeat % 2
        BY <2>1, <3>2
      <3>3. CASE r.repeat % 2 # t.repeat % 2
        BY <2>2, <2>3, <3>3
      <3>4. QED
        BY <3>2, <3>3
    <2>5. ASSUME NEW parity
          PROVE  Cardinality(Hashes(Part(parity))) <= 1
                   <=> \A r, t \in Part(parity) : r.output = t.output
      <3>1. IsFiniteSet(Part(parity))
        BY FS_Subset
      <3> HIDE DEF Part
      <3>2. QED
        BY <3>1, OneHash
    <2>6. Deterministic(S) <=>
             \A parity \in {0, 1} : Cardinality(Hashes(Part(parity))) <= 1
      BY <1>1 DEF Deterministic
    <2>7. Deterministic(S) <=>
             \A parity \in {0, 1} : \A r, t \in Part(parity) : r.output = t.output
      <3> HIDE DEF Part
      <3>1. QED
        BY <2>5, <2>6
    <2>8. QED
      BY <2>3, <2>4, <2>7
  <1>2. CASE ~settings.alternate_branch
    <2>1. \A r, t \in S : r.body = t.body
      BY <1>2 DEF Body
    <2>2. Deterministic(S) <=> Cardinality(Hashes(S)) = 1
      BY <1>2 DEF Deterministic
    <2>3. QED
      BY <2>1, <2>2, OneHash
  <1>3. QED
    BY <1>1, <1>2

-----------------------------------------------------------------------------
(* Texts put together.                                                     *)

\* The function that FlattenSeq() is defined by.
Joints(s) ==
    CHOOSE flatten : flatten = [i \in 1 .. Len(s) |->
                                  IF i = 1 THEN s[i] ELSE flatten[i - 1] \o s[i]]

\* The first n texts put together.
UpTo(s, n) == IF n = 0 THEN <<>> ELSE Joints(s)[n]

\* Texts are put together one after the other.
LEMMA UpToIs ==
    ASSUME NEW T, NEW s \in Seq(Seq(T))
    PROVE  /\ UpTo(s, 0) = <<>>
           /\ \A n \in 1 .. Len(s) : UpTo(s, n) = UpTo(s, n - 1) \o s[n]
           /\ \A n \in 0 .. Len(s) : UpTo(s, n) \in Seq(T)
           /\ FlattenSeq(s) = UpTo(s, Len(s))
  <1> DEFINE N == Len(s)
             F(f) == [i \in 1 .. N |-> IF i = 1 THEN s[i] ELSE f[i - 1] \o s[i]]
             adds == [k \in 1 .. N |-> [x \in Seq(T) |-> x \o s[k]]]
             g == Joints(s)
  <1>1. N \in Nat /\ \A k \in 1 .. N : s[k] \in Seq(T)
    OBVIOUS
  <1>2. adds \in [1 .. N -> [Seq(T) -> Seq(T)]]
    BY <1>1
  <1> HIDE DEF N
  <1>3. PICK f \in [0 .. N -> Seq(T)] :
           f[0] = <<>> /\ \A k \in 1 .. N : f[k] = adds[k][f[k - 1]]
    <2>1. <<>> \in Seq(T)
      OBVIOUS
    <2> HIDE DEF adds
    <2>2. Recursive(N, Seq(T), <<>>, adds)
      BY <1>1, <1>2, <2>1, RecursionEnds, Zenon
    <2>3. QED
      BY <2>2 DEF Recursive
  <1>4. ASSUME NEW k \in 1 .. N
        PROVE  k - 1 \in 0 .. N /\ f[k - 1] \in Seq(T) /\ f[k] = f[k - 1] \o s[k]
    <2>1. k - 1 \in 0 .. N
      BY <1>1
    <2>2. QED
      BY <1>3, <2>1
  <1> HIDE DEF adds
  <1>12. N # 0 => f[1] = s[1]
    <2> SUFFICES ASSUME N # 0 PROVE f[1] = s[1]
      OBVIOUS
    <2>1. 1 \in 1 .. N /\ 1 - 1 = 0
      BY <1>1
    <2>2. f[1] = <<>> \o s[1] /\ s[1] \in Seq(T)
      BY <1>1, <1>3, <1>4, <2>1
    <2>3. QED
      BY <2>2
  <1> DEFINE h == [i \in 1 .. N |-> f[i]]
  <1>5. h = F(h)
    <2>1. ASSUME NEW n \in 1 .. N PROVE h[n] = F(h)[n]
      <3>1. CASE n = 1
        BY <1>1, <1>12, <3>1
      <3>2. CASE n # 1
        <4>1. n - 1 \in 1 .. N
          BY <1>1, <3>2
        <4>2. QED
          BY <1>4, <3>2, <4>1
      <3>3. QED
        BY <3>1, <3>2
    <2>2. h = [n \in 1 .. N |-> h[n]] /\ F(h) = [n \in 1 .. N |-> F(h)[n]]
      OBVIOUS
    <2> HIDE DEF F, h
    <2>3. QED
      BY <2>1, <2>2
  <1>6. g = F(g)
    <2>1. g = CHOOSE flatten : flatten = F(flatten)
      BY DEF Joints, N
    <2> HIDE DEF g, F
    <2>2. QED
      BY <1>5, <2>1
  <1> HIDE DEF g
  <1>7. ASSUME NEW n \in 1 .. N
        PROVE  g[n] = IF n = 1 THEN s[n] ELSE g[n - 1] \o s[n]
    BY <1>6
  <1>8. \A n \in 1 .. N : g[n] = f[n]
    <2> DEFINE S == {n \in 0 .. N : n = 0 \/ g[n] = f[n]}
    <2>1. 0 \in S
      BY <1>1
    <2>2. ASSUME NEW n \in 1 .. N, n - 1 \in S PROVE n \in S
      <3>1. CASE n = 1
        BY <1>1, <1>7, <1>12, <3>1
      <3>2. CASE n # 1
        <4>1. g[n - 1] = f[n - 1] /\ n \in 0 .. N
          BY <1>1, <2>2, <3>2
        <4>2. g[n] = f[n]
          BY <1>4, <1>7, <3>2, <4>1
        <4>3. QED
          BY <4>1, <4>2
      <3>3. QED
        BY <3>1, <3>2
    <2> HIDE DEF S
    <2>3. \A n \in 0 .. N : n \in S
      BY <1>1, <2>1, <2>2, Climb
    <2>4. QED
      BY <1>1, <2>3 DEF S
  <1>9. \A n \in 0 .. N : UpTo(s, n) = f[n]
    BY <1>3, <1>8 DEF UpTo, g
  <1>10. FlattenSeq(s) = UpTo(s, N)
    <2>1. CASE N = 0
      BY <2>1 DEF FlattenSeq, UpTo, N
    <2>2. CASE N # 0
      BY <2>2 DEF FlattenSeq, UpTo, N, Joints
    <2>3. QED
      BY <2>1, <2>2
  <1>11. /\ \A n \in 1 .. N : UpTo(s, n) = UpTo(s, n - 1) \o s[n]
         /\ \A n \in 0 .. N : UpTo(s, n) \in Seq(T)
    <2>1. ASSUME NEW n \in 1 .. N PROVE UpTo(s, n) = UpTo(s, n - 1) \o s[n]
      <3>1. n \in 0 .. N /\ n - 1 \in 0 .. N
        BY <1>1
      <3>2. UpTo(s, n) = f[n] /\ UpTo(s, n - 1) = f[n - 1]
        BY <1>9, <3>1
      <3>3. QED
        BY <1>4, <3>2
    <2>2. QED
      BY <1>3, <1>9, <2>1
  <1>13. UpTo(s, 0) = <<>>
    BY DEF UpTo
  <1>14. QED
    BY <1>10, <1>11, <1>13 DEF N

\* Where nothing is said, nothing is added.
LEMMA UpToRests ==
    ASSUME NEW T, NEW s \in Seq(Seq(T)), NEW a \in 0 .. Len(s), NEW b \in a .. Len(s),
           \A n \in a + 1 .. b : s[n] = <<>>
    PROVE  UpTo(s, b) = UpTo(s, a)
  <1> DEFINE S == {n \in 0 .. Len(s) : n \in a .. b => UpTo(s, n) = UpTo(s, a)}
  <1>1. Len(s) \in Nat /\ a \in Nat /\ b \in Nat
    OBVIOUS
  <1>2. \A n \in 0 .. Len(s) : UpTo(s, n) \in Seq(T)
    BY UpToIs
  <1>3. 0 \in S
    BY <1>1
  <1>4. ASSUME NEW n \in 1 .. Len(s), n - 1 \in S PROVE n \in S
    <2>1. CASE n \in a + 1 .. b
      <3>1. n - 1 \in a .. b /\ n - 1 \in 0 .. Len(s)
        BY <1>1, <2>1
      <3>2. UpTo(s, n) = UpTo(s, n - 1) \o <<>>
        BY <2>1, UpToIs
      <3>3. UpTo(s, n - 1) = UpTo(s, a)
        BY <1>4, <3>1
      <3>4. UpTo(s, n) = UpTo(s, n - 1)
        BY <1>2, <3>1, <3>2
      <3>5. QED
        BY <3>3, <3>4
    <2>2. CASE n \notin a + 1 .. b
      <3>1. n \in a .. b => n = a
        BY <1>1, <2>2
      <3>2. QED
        BY <3>1
    <2>3. QED
      BY <2>1, <2>2
  <1> HIDE DEF S
  <1>5. \A n \in 0 .. Len(s) : n \in S
    BY <1>1, <1>3, <1>4, Climb
  <1>6. QED
    BY <1>1, <1>5 DEF S

-----------------------------------------------------------------------------
(* Calls put together.                                                     *)

\* The text of each call, and that of one which may not have begun.
Calls == UNION {[D -> Seq(STRING)] : D \in SUBSET Nat}
TextOf(calls, i) == IF i \in DOMAIN calls THEN calls[i] ELSE <<>>

\* The text of a call is a sequence, empty if the call has not begun.
LEMMA TextIsSeq ==
    ASSUME NEW calls \in Calls
    PROVE  \A i : TextOf(calls, i) \in Seq(STRING)
  <1>1. PICK E \in SUBSET Nat : calls \in [E -> Seq(STRING)]
    BY DEF Calls
  <1>2. <<>> \in Seq(STRING)
    OBVIOUS
  <1>3. TAKE i
  <1>4. CASE i \in E
    BY <1>1, <1>4 DEF TextOf
  <1>5. CASE i \notin E
    BY <1>1, <1>2, <1>5 DEF TextOf
  <1>6. QED
    BY <1>4, <1>5

\* A fragment prolongs the text of its call, and no other.
Prolonged(calls, index, text, new) ==
    /\ new \in Calls /\ DOMAIN new = DOMAIN calls \cup {index}
    /\ \A i \in Nat :
          TextOf(new, i) = TextOf(calls, i) \o (IF i = index THEN text ELSE <<>>)
LEMMA FragmentIsAdded ==
    ASSUME NEW calls \in Calls, NEW index \in Nat, NEW text \in Seq(STRING)
    PROVE  Prolonged(calls, index, text, AddFragment(calls, index, text))
  <1> DEFINE Add(i) == IF i = index THEN text ELSE <<>>
             new == AddFragment(calls, index, text)
             D == DOMAIN calls \cup {index}
  <1>1. PICK E \in SUBSET Nat : calls \in [E -> Seq(STRING)]
    BY DEF Calls
  <1>2. D \in SUBSET Nat /\ \A i : Add(i) \in Seq(STRING)
    <2>1. <<>> \in Seq(STRING)
      OBVIOUS
    <2>2. ASSUME NEW i PROVE Add(i) \in Seq(STRING)
      BY <2>1
    <2>3. D \in SUBSET Nat
      BY <1>1
    <2> HIDE DEF Add
    <2>4. QED
      BY <2>2, <2>3
  <1>3. \A i : TextOf(calls, i) \in Seq(STRING)
    BY TextIsSeq
  <1>4. new = [i \in D |-> TextOf(calls, i) \o Add(i)]
    BY DEF AddFragment, TextOf
  <1> HIDE DEF new, Add
  <1>5. \A i : TextOf(calls, i) \o Add(i) \in Seq(STRING)
    <2> TAKE i
    <2> DEFINE s == TextOf(calls, i)
               t == Add(i)
    <2>1. s \in Seq(STRING) /\ t \in Seq(STRING)
      BY <1>2, <1>3
    <2> HIDE DEF s, t
    <2>2. s \o t \in Seq(STRING)
      BY <2>1, ConcatProperties
    <2>3. QED
      BY <2>2 DEF s, t
  <1>6. new \in [D -> Seq(STRING)]
    BY <1>4, <1>5
  <1>7. ASSUME NEW i \in Nat PROVE TextOf(new, i) = TextOf(calls, i) \o Add(i)
    <2>1. CASE i \in D
      BY <1>4, <2>1 DEF TextOf
    <2>2. CASE i \notin D
      <3>1. TextOf(calls, i) = <<>> /\ Add(i) = <<>>
        BY <2>2 DEF TextOf, Add
      <3>2. <<>> \o <<>> = <<>>
        BY ConcatEmptySeq
      <3>3. TextOf(new, i) = <<>>
        BY <1>6, <2>2 DEF TextOf
      <3>4. QED
        BY <3>1, <3>2, <3>3
    <2>3. QED
      BY <2>1, <2>2
  <1>8. new \in Calls
    BY <1>2, <1>6 DEF Calls
  <1>9. QED
    BY <1>6, <1>7, <1>8 DEF new, Add, Prolonged

\* The fragments of a chunk that are of one call.
OfCall(fragments, i) ==
    [k \in DOMAIN fragments |->
        IF IndexOf(fragments, k) = i THEN fragments[k].text ELSE <<>>]

\* A chunk's fragments prolong the texts of their calls, each in its order.
Gathered(calls, fragments, new) ==
    /\ new \in Calls
    /\ DOMAIN new = DOMAIN calls \cup {IndexOf(fragments, k) : k \in DOMAIN fragments}
    /\ \A i \in Nat : /\ PieceOf(fragments, i) \in Seq(STRING)
                      /\ TextOf(calls, i) \in Seq(STRING)
                      /\ TextOf(new, i) = TextOf(calls, i) \o PieceOf(fragments, i)
AllFragments(fragments) == \A k \in DOMAIN fragments : IsFragment(fragments[k])

\* The function that UpdateToolCalls() is defined by.
Gathering(calls, fragments) ==
    CHOOSE gathered : gathered = [n \in 0 .. Len(fragments) |->
        IF n = 0 THEN calls
        ELSE AddFragment(gathered[n - 1], IndexOf(fragments, n), fragments[n].text)]

\* update_tool_calls() gathers the fragments of a chunk.
LEMMA CallsAreGathered ==
    ASSUME NEW calls \in Calls, NEW T, NEW fragments \in Seq(T), AllFragments(fragments)
    PROVE  Gathered(calls, fragments, UpdateToolCalls(calls, fragments))
  <1> DEFINE N == Len(fragments)
             index == [k \in 1 .. N |-> IndexOf(fragments, k)]
             text == [k \in 1 .. N |-> fragments[k].text]
             F(f) == [n \in 0 .. N |->
                        IF n = 0 THEN calls
                        ELSE AddFragment(f[n - 1], IndexOf(fragments, n), fragments[n].text)]
             adds == [k \in 1 .. N |-> [c \in Calls |-> AddFragment(c, index[k], text[k])]]
             g == Gathering(calls, fragments)
  <1>1. N \in Nat /\ DOMAIN fragments = 1 .. N
    OBVIOUS
  <1>2. \A k \in 1 .. N : index[k] \in Nat /\ text[k] \in Seq(STRING)
    BY <1>1 DEF AllFragments, IsFragment, IndexOf
  <1> HIDE DEF N
  <1>3. ASSUME NEW k \in 1 .. N
        PROVE  index[k] = IndexOf(fragments, k) /\ text[k] = fragments[k].text
    OBVIOUS
  <1> HIDE DEF index, text
  <1>4. adds \in [1 .. N -> [Calls -> Calls]]
    <2>1. ASSUME NEW k \in 1 .. N, NEW c \in Calls PROVE AddFragment(c, index[k], text[k]) \in Calls
      <3> DEFINE at == index[k]
                 piece == text[k]
      <3>1. at \in Nat /\ piece \in Seq(STRING)
        BY <1>2
      <3> HIDE DEF at, piece
      <3>2. Prolonged(c, at, piece, AddFragment(c, at, piece))
        BY <3>1, FragmentIsAdded
      <3>3. QED
        BY <3>2 DEF Prolonged, at, piece
    <2>2. QED
      BY <2>1
  <1>5. PICK f \in [0 .. N -> Calls] :
           f[0] = calls /\ \A k \in 1 .. N : f[k] = adds[k][f[k - 1]]
    <2> HIDE DEF adds
    <2>1. Recursive(N, Calls, calls, adds)
      BY <1>1, <1>4, RecursionEnds, Zenon
    <2>2. QED
      BY <2>1 DEF Recursive
  <1>6. ASSUME NEW k \in 1 .. N
        PROVE  /\ k - 1 \in 0 .. N /\ k \in 0 .. N /\ f[k - 1] \in Calls
               /\ f[k] = AddFragment(f[k - 1], index[k], text[k])
    <2>1. k - 1 \in 0 .. N /\ k \in 0 .. N
      BY <1>1
    <2>2. f[k - 1] \in Calls
      BY <2>1
    <2>3. adds[k][f[k - 1]] = AddFragment(f[k - 1], index[k], text[k])
      BY <2>2
    <2> HIDE DEF adds
    <2>4. QED
      BY <1>5, <2>1, <2>2, <2>3
  <1> HIDE DEF adds
  <1>7. f = F(f)
    <2>1. ASSUME NEW n \in 0 .. N PROVE f[n] = F(f)[n]
      <3>1. CASE n = 0
        BY <1>5, <3>1
      <3>2. CASE n # 0
        <4>1. n \in 1 .. N
          BY <1>1, <3>2
        <4>2. QED
          BY <1>3, <1>6, <3>2, <4>1
      <3>3. QED
        BY <3>1, <3>2
    <2>2. f = [n \in 0 .. N |-> f[n]] /\ F(f) = [n \in 0 .. N |-> F(f)[n]]
      OBVIOUS
    <2> HIDE DEF F
    <2>3. QED
      BY <2>1, <2>2
  <1>8. g = F(g)
    <2>1. g = CHOOSE gathered : gathered = F(gathered)
      BY DEF Gathering, N
    <2> HIDE DEF g, F
    <2>2. QED
      BY <1>7, <2>1
  <1> HIDE DEF g
  <1>9. /\ N \in 0 .. N /\ 0 \in 0 .. N /\ g[0] = calls
        /\ \A n \in 1 .. N : g[n] = AddFragment(g[n - 1], index[n], text[n])
    <2>1. ASSUME NEW n \in 0 .. N
          PROVE  g[n] = IF n = 0 THEN calls
                        ELSE AddFragment(g[n - 1], IndexOf(fragments, n), fragments[n].text)
      BY <1>8
    <2>2. \A n \in 1 .. N : n \in 0 .. N /\ n # 0
      BY <1>1
    <2>3. N \in 0 .. N /\ 0 \in 0 .. N
      BY <1>1
    <2>4. QED
      BY <1>3, <2>1, <2>2, <2>3
  <1>10. ASSUME NEW i \in Nat PROVE OfCall(fragments, i) \in Seq(Seq(STRING))
                                     /\ Len(OfCall(fragments, i)) = N
    <2> DEFINE s == OfCall(fragments, i)
    <2>1. s = [k \in 1 .. N |-> IF index[k] = i THEN text[k] ELSE <<>>]
      BY <1>1, <1>3 DEF OfCall
    <2>2. ASSUME NEW k \in 1 .. N
          PROVE  (IF index[k] = i THEN text[k] ELSE <<>>) \in Seq(STRING)
      <3>1. <<>> \in Seq(STRING)
        OBVIOUS
      <3>2. QED
        BY <1>2, <3>1
    <2>3. s \in [1 .. N -> Seq(STRING)]
      BY <2>1, <2>2
    <2> HIDE DEF s
    <2>4. QED
      BY <1>1, <2>3 DEF s
  <1> DEFINE Good(n) == /\ g[n] \in Calls
                        /\ DOMAIN g[n] = DOMAIN calls \cup {index[k] : k \in 1 .. n}
                        /\ \A i \in Nat : TextOf(g[n], i) =
                              TextOf(calls, i) \o UpTo(OfCall(fragments, i), n)
             S == {n \in 0 .. N : Good(n)}
  <1>11. \A i \in Nat : TextOf(calls, i) \in Seq(STRING)
    BY TextIsSeq
  <1>12. Good(0)
    <2>1. {index[k] : k \in 1 .. 0} = {}
      OBVIOUS
    <2>2. ASSUME NEW i \in Nat
          PROVE  TextOf(calls, i) = TextOf(calls, i) \o UpTo(OfCall(fragments, i), 0)
      <3>1. UpTo(OfCall(fragments, i), 0) = <<>>
        BY DEF UpTo
      <3>2. QED
        BY <1>11, <3>1, ConcatEmptySeq
    <2>3. QED
      BY <1>9, <2>1, <2>2
  <1>13. ASSUME NEW n \in 1 .. N, Good(n - 1) PROVE Good(n)
    <2> DEFINE c == g[n - 1]
    <2>1. c \in Calls /\ index[n] \in Nat /\ text[n] \in Seq(STRING)
      BY <1>2, <1>13
    <2>2. g[n] = AddFragment(c, index[n], text[n])
      BY <1>9
    <2>3. /\ DOMAIN c = DOMAIN calls \cup {index[k] : k \in 1 .. n - 1}
          /\ \A i \in Nat : TextOf(c, i) =
                TextOf(calls, i) \o UpTo(OfCall(fragments, i), n - 1)
      BY <1>13
    <2> DEFINE at == index[n]
               piece == text[n]
    <2> HIDE DEF c, at, piece
    <2>4. /\ g[n] \in Calls /\ DOMAIN g[n] = DOMAIN c \cup {index[n]}
          /\ \A i \in Nat : TextOf(g[n], i) =
                TextOf(c, i) \o (IF i = index[n] THEN text[n] ELSE <<>>)
      <3>1. at \in Nat /\ piece \in Seq(STRING) /\ g[n] = AddFragment(c, at, piece)
        BY <2>1, <2>2 DEF at, piece
      <3>2. Prolonged(c, at, piece, AddFragment(c, at, piece))
        BY <2>1, <3>1, FragmentIsAdded
      <3>3. QED
        BY <3>1, <3>2 DEF Prolonged, at, piece
    <2>5. {index[k] : k \in 1 .. n} = {index[k] : k \in 1 .. n - 1} \cup {index[n]}
      <3>1. n \in Nat /\ 1 .. n = (1 .. n - 1) \cup {n}
        BY <1>1
      <3>2. QED
        BY <3>1
    <2>6. ASSUME NEW i \in Nat
          PROVE  TextOf(g[n], i) = TextOf(calls, i) \o UpTo(OfCall(fragments, i), n)
      <3> DEFINE s == OfCall(fragments, i)
                 x == TextOf(calls, i)
                 y == UpTo(s, n - 1)
                 z == s[n]
      <3>1. s \in Seq(Seq(STRING)) /\ Len(s) = N /\ n - 1 \in 0 .. N
        <4>1. s \in Seq(Seq(STRING)) /\ Len(s) = N
          BY <1>10 DEF s
        <4> HIDE DEF s
        <4>2. n - 1 \in 0 .. N
          BY <1>1
        <4>3. QED
          BY <4>1, <4>2
      <3>2. z = IF i = index[n] THEN text[n] ELSE <<>>
        BY <1>1, <1>3 DEF OfCall
      <3> HIDE DEF s
      <3>3. UpTo(s, n) = y \o z /\ y \in Seq(STRING)
        <4>1. /\ \A m \in 1 .. Len(s) : UpTo(s, m) = UpTo(s, m - 1) \o s[m]
              /\ \A m \in 0 .. Len(s) : UpTo(s, m) \in Seq(STRING)
          BY <3>1, UpToIs
        <4>2. n \in 1 .. Len(s) /\ n - 1 \in 0 .. Len(s)
          BY <3>1
        <4>3. UpTo(s, n) = UpTo(s, n - 1) \o s[n] /\ UpTo(s, n - 1) \in Seq(STRING)
          BY <4>1, <4>2
        <4>4. QED
          BY <4>3
      <3>4. z \in Seq(STRING)
        <4>1. <<>> \in Seq(STRING)
          OBVIOUS
        <4> HIDE DEF z
        <4>2. QED
          BY <2>1, <3>2, <4>1
      <3>5. x \in Seq(STRING)
        BY <1>11
      <3>6. TextOf(g[n], i) = (x \o y) \o z
        BY <2>3, <2>4, <3>2 DEF s
      <3> HIDE DEF x, y, z
      <3>7. (x \o y) \o z = x \o (y \o z)
        BY <3>3, <3>4, <3>5, ConcatAssociative
      <3>8. QED
        BY <3>3, <3>6, <3>7 DEF s, x
    <2>7. QED
      BY <2>3, <2>4, <2>5, <2>6
  <1>14. Good(N)
    <2> HIDE DEF Good
    <2>1. 0 \in S /\ \A n \in 1 .. N : n - 1 \in S => n \in S
      BY <1>1, <1>9, <1>12, <1>13
    <2> HIDE DEF S
    <2>2. \A n \in 0 .. N : n \in S
      BY <1>1, <2>1, Climb
    <2>3. QED
      BY <1>9, <2>2 DEF S
  <1>15. UpdateToolCalls(calls, fragments) = g[N]
    BY DEF UpdateToolCalls, g, Gathering, N
  <1>16. {index[k] : k \in 1 .. N} = {IndexOf(fragments, k) : k \in DOMAIN fragments}
    BY <1>1, <1>3
  <1>17. ASSUME NEW i \in Nat
         PROVE  /\ PieceOf(fragments, i) = UpTo(OfCall(fragments, i), N)
                /\ UpTo(OfCall(fragments, i), N) \in Seq(STRING)
    <2> DEFINE s == OfCall(fragments, i)
    <2>1. s \in Seq(Seq(STRING)) /\ Len(s) = N
      BY <1>10
    <2>2. PieceOf(fragments, i) = FlattenSeq(s)
      BY DEF PieceOf, OfCall
    <2> HIDE DEF s
    <2>3. FlattenSeq(s) = UpTo(s, N) /\ UpTo(s, N) \in Seq(STRING)
      BY <1>9, <2>1, UpToIs
    <2>4. QED
      BY <2>2, <2>3 DEF s
  <1>18. QED
    BY <1>11, <1>14, <1>15, <1>16, <1>17 DEF Gathered

\* The pieces of a chunk are texts.
LEMMA PieceIsSeq ==
    ASSUME NEW T, NEW fragments \in Seq(T), AllFragments(fragments), NEW i \in Nat
    PROVE  PieceOf(fragments, i) \in Seq(STRING)
  <1>1. <<>> \in [{} -> Seq(STRING)] /\ {} \in SUBSET Nat
    OBVIOUS
  <1> DEFINE none == <<>>
  <1>2. none \in Calls
    BY <1>1 DEF Calls
  <1> HIDE DEF none
  <1>3. Gathered(none, fragments, UpdateToolCalls(none, fragments))
    BY <1>2, CallsAreGathered
  <1>4. QED
    BY <1>3 DEF Gathered

-----------------------------------------------------------------------------
(* A response, read line by line.                                          *)

\* The lines of a response.
Typed(lines) ==
    /\ \E T : lines \in Seq(T)
    /\ \A n \in 1 .. Len(lines) :
          lines[n].kind = "data" /\ lines[n].value.kind = "chunk" =>
             /\ lines[n].value.content \in Seq(STRING)
             /\ \E T : lines[n].value.calls \in Seq(T)
             /\ AllFragments(lines[n].value.calls)

\* Every response has such lines.
LEMMA ResponsesAreTyped ==
    ASSUME NEW r \in Responses
    PROVE  Typed(r.lines)
  <1> DEFINE lines == r.lines
  <1>1. /\ lines \in Seq(ToSet(lines))
        /\ \A line \in ToSet(lines) :
              line.kind = "data" /\ line.value.kind = "chunk" =>
                 /\ line.value.content \in Seq(STRING)
                 /\ line.value.calls \in Seq(ToSet(line.value.calls))
                 /\ \A f \in ToSet(line.value.calls) : IsFragment(f)
    BY ResponsesAssumption
  <1> HIDE DEF lines
  <1>2. \A n \in 1 .. Len(lines) : lines[n] \in ToSet(lines)
    BY <1>1 DEF ToSet
  <1>3. ASSUME NEW n \in 1 .. Len(lines),
               lines[n].kind = "data", lines[n].value.kind = "chunk"
        PROVE  /\ lines[n].value.content \in Seq(STRING)
               /\ \E T : lines[n].value.calls \in Seq(T)
               /\ AllFragments(lines[n].value.calls)
    <2> DEFINE calls == lines[n].value.calls
    <2>1. /\ lines[n].value.content \in Seq(STRING)
          /\ calls \in Seq(ToSet(calls)) /\ \A f \in ToSet(calls) : IsFragment(f)
      BY <1>1, <1>2, <1>3
    <2> HIDE DEF calls
    <2>2. \A k \in DOMAIN calls : calls[k] \in ToSet(calls)
      BY DEF ToSet
    <2>3. (\E T : calls \in Seq(T)) /\ AllFragments(calls)
      BY <2>1, <2>2 DEF AllFragments
    <2>4. QED
      BY <2>1, <2>3 DEF calls
  <1>4. QED
    BY <1>1, <1>3 DEF Typed, lines

\* What is known after a line follows from what was known before it.
LEMMA ReadingIs ==
    ASSUME NEW T, NEW lines \in Seq(T)
    PROVE  /\ SseEvents(lines)[0] = Unread
           /\ \A n \in 1 .. Len(lines) :
                 SseEvents(lines)[n] = ReadLine(SseEvents(lines)[n - 1], lines[n])
  <1> DEFINE N == Len(lines)
             F(f) == [n \in 0 .. N |-> IF n = 0 THEN Unread ELSE ReadLine(f[n - 1], lines[n])]
             Fits(f, n) == /\ f = [k \in 0 .. n |-> f[k]] /\ f[0] = Unread
                           /\ \A k \in 1 .. n : f[k] = ReadLine(f[k - 1], lines[k])
             S == {n \in 0 .. N : \E f : Fits(f, n)}
             g == SseEvents(lines)
  <1>1. N \in Nat
    OBVIOUS
  <1> HIDE DEF N
  <1>2. 0 \in S
    <2> DEFINE f == [k \in 0 .. 0 |-> Unread]
    <2>1. Fits(f, 0)
      OBVIOUS
    <2> HIDE DEF f, Fits
    <2>2. QED
      BY <1>1, <2>1
  <1>3. ASSUME NEW n \in 1 .. N, n - 1 \in S PROVE n \in S
    <2>1. PICK f : Fits(f, n - 1)
      BY <1>3
    <2> DEFINE v == ReadLine(f[n - 1], lines[n])
               longer == [k \in 0 .. n |-> IF k = n THEN v ELSE f[k]]
    <2> HIDE DEF v
    <2>2. n \in Nat /\ n # 0 /\ 0 \in 0 .. n
      BY <1>1
    <2>3. longer = [k \in 0 .. n |-> longer[k]] /\ longer[0] = Unread
      BY <2>1, <2>2
    <2>4. ASSUME NEW k \in 1 .. n PROVE longer[k] = ReadLine(longer[k - 1], lines[k])
      <3>1. longer[k - 1] = f[k - 1]
        BY <2>2
      <3>2. CASE k = n
        BY <2>2, <3>1, <3>2 DEF v
      <3>3. CASE k # n
        <4>1. k \in 1 .. n - 1 /\ longer[k] = f[k]
          BY <2>2, <3>3
        <4>2. QED
          BY <2>1, <3>1, <4>1
      <3>4. QED
        BY <3>2, <3>3
    <2>5. Fits(longer, n)
      BY <2>3, <2>4
    <2> HIDE DEF longer, Fits
    <2>6. QED
      BY <1>1, <2>5
  <1> HIDE DEF Fits
  <1>4. PICK f : Fits(f, N)
    <2> HIDE DEF S
    <2>1. \A n \in 0 .. N : n \in S
      BY <1>1, <1>2, <1>3, Climb
    <2>2. N \in S
      BY <1>1, <2>1
    <2>3. QED
      BY <2>2 DEF S
  <1>5. f = F(f)
    <2> USE DEF Fits
    <2>1. ASSUME NEW n \in 0 .. N PROVE f[n] = F(f)[n]
      <3>1. CASE n = 0
        BY <1>4, <3>1
      <3>2. CASE n # 0
        <4>1. n \in 1 .. N
          BY <1>1, <3>2
        <4>2. QED
          BY <1>4, <3>2, <4>1
      <3>3. QED
        BY <3>1, <3>2
    <2>2. f = [n \in 0 .. N |-> f[n]] /\ F(f) = [n \in 0 .. N |-> F(f)[n]]
      BY <1>4
    <2> HIDE DEF F, Fits
    <2>3. QED
      BY <2>1, <2>2
  <1>6. g = F(g)
    <2>1. g = CHOOSE reader : reader = F(reader)
      BY DEF SseEvents, N
    <2> HIDE DEF g, F
    <2>2. QED
      BY <1>5, <2>1
  <1> HIDE DEF g
  <1>7. ASSUME NEW n \in 0 .. N
        PROVE  g[n] = IF n = 0 THEN Unread ELSE ReadLine(g[n - 1], lines[n])
    BY <1>6
  <1>8. \A n \in 1 .. N : n \in 0 .. N /\ n # 0
    BY <1>1
  <1>9. 0 \in 0 .. N
    BY <1>1
  <1>10. QED
    BY <1>7, <1>8, <1>9 DEF g, N

\* The fields of a run, and of a reader.
RunFields == {"done", "failed", "at", "ttft", "finish", "fingerprint", "content", "calls",
              "usage", "timings"}
ReaderFields == {"run", "values", "bytes", "total"}

\* A run that a chunk has prolonged.
Grown(acc, event, ttft, finish, fingerprint, usage, timings) ==
    [acc EXCEPT !.at = @ + 1, !.ttft = ttft, !.finish = finish,
                !.fingerprint = fingerprint, !.content = @ \o event.content,
                !.calls = UpdateToolCalls(@, event.calls),
                !.usage = usage, !.timings = timings]

\* One event of a run that goes on.
LEMMA ConsumeIs ==
    ASSUME NEW acc, DOMAIN acc = RunFields, ~acc.done, ~acc.failed, NEW event
    PROVE  LET new == Consume(acc, event)
           IN /\ DOMAIN new = RunFields
              /\ event.kind = "done" =>
                    /\ new.done /\ ~new.failed /\ new.at = acc.at + 1
                    /\ new.ttft = acc.ttft /\ new.content = acc.content /\ new.calls = acc.calls
              /\ event.kind \notin {"done", "chunk"} =>
                    new.failed /\ ~new.done /\ new.at = acc.at /\ new.ttft = acc.ttft
              /\ event.kind = "chunk" =>
                    \/ new.failed /\ ~new.done /\ new.at = acc.at /\ new.ttft = acc.ttft
                    \/ /\ ~new.failed /\ ~new.done /\ new.at = acc.at + 1
                       /\ new.ttft \in {acc.ttft, acc.at + 1}
                       /\ new.content = acc.content \o event.content
                       /\ new.calls = UpdateToolCalls(acc.calls, event.calls)
  <1> DEFINE new == Consume(acc, event)
  <1>1. CASE event.kind = "done"
    <2>1. new = [acc EXCEPT !.done = TRUE, !.at = @ + 1]
      BY <1>1 DEF Consume
    <2> HIDE DEF new
    <2>2. QED
      BY <1>1, <2>1 DEF RunFields, new
  <1>2. CASE event.kind \notin {"done", "chunk"}
    <2>1. new = [acc EXCEPT !.failed = TRUE]
      BY <1>2 DEF Consume
    <2> HIDE DEF new
    <2>2. QED
      BY <1>2, <2>1 DEF RunFields, new
  <1>3. CASE event.kind = "chunk"
    <2> DEFINE ttft == IF acc.ttft = 0 /\ Meaningful(event) THEN acc.at + 1 ELSE acc.ttft
               finish == IF event.finish = NoFinish THEN acc.finish ELSE event.finish
               print == IF event.fingerprint = NoFingerprint THEN acc.fingerprint ELSE event.fingerprint
               usage == IF event.usage = <<>> THEN acc.usage ELSE event.usage
               timings == IF event.timings = <<>> THEN acc.timings ELSE event.timings
               grown == Grown(acc, event, ttft, finish, print, usage, timings)
    <2>1. new = [acc EXCEPT !.failed = TRUE] \/ new = grown
      BY <1>3 DEF Consume, Grown
    <2>2. ttft \in {acc.ttft, acc.at + 1}
      OBVIOUS
    <2> HIDE DEF ttft, finish, print, usage, timings, new
    <2>3. /\ DOMAIN grown = RunFields /\ grown.failed = acc.failed /\ grown.done = acc.done
          /\ grown.at = acc.at + 1 /\ grown.ttft = ttft
          /\ grown.content = acc.content \o event.content
          /\ grown.calls = UpdateToolCalls(acc.calls, event.calls)
      BY DEF Grown, RunFields
    <2> HIDE DEF grown
    <2>4. CASE new = [acc EXCEPT !.failed = TRUE]
      BY <1>3, <2>4 DEF RunFields, new
    <2>5. CASE new = grown
      BY <1>3, <2>2, <2>3, <2>5 DEF new
    <2>6. QED
      BY <2>1, <2>4, <2>5
  <1>4. QED
    BY <1>1, <1>2, <1>3

-----------------------------------------------------------------------------
(* What a run has of a response.                                           *)

\* The calls that the first b lines mention.
IndexesTo(lines, b) ==
    UNION {{IndexOf(lines[n].value.calls, k) : k \in DOMAIN lines[n].value.calls} :
              n \in {m \in 1 .. b : Heard(lines, m)}}

\* The run has what the first b lines say.
Collected(lines, b, run) ==
    /\ run.content = UpTo(Texts(lines), b)
    /\ run.calls \in Calls /\ DOMAIN run.calls = IndexesTo(lines, b)
    /\ \A i \in Nat : TextOf(run.calls, i) = UpTo(Pieces(lines, i), b)

\* None of the lines after the first a, up to n, is heard.
Quiet(lines, a, n) == \A m \in a + 1 .. n : ~Heard(lines, m)

\* Every line adds a text, possibly empty.
LEMMA TextsAre ==
    ASSUME NEW lines, Typed(lines)
    PROVE  /\ Len(lines) \in Nat /\ DOMAIN lines = 1 .. Len(lines)
           /\ Texts(lines) \in Seq(Seq(STRING)) /\ Len(Texts(lines)) = Len(lines)
           /\ \A i \in Nat : /\ Pieces(lines, i) \in Seq(Seq(STRING))
                             /\ Len(Pieces(lines, i)) = Len(lines)
           /\ \A n \in 1 .. Len(lines) :
                 /\ ~Heard(lines, n) => /\ Texts(lines)[n] = <<>>
                                        /\ \A i \in Nat : Pieces(lines, i)[n] = <<>>
                 /\ Heard(lines, n) =>
                       /\ Texts(lines)[n] = lines[n].value.content
                       /\ lines[n].value.content \in Seq(STRING)
                       /\ \E T : lines[n].value.calls \in Seq(T)
                       /\ AllFragments(lines[n].value.calls)
                       /\ \A i \in Nat :
                             Pieces(lines, i)[n] = PieceOf(lines[n].value.calls, i)
  <1> DEFINE N == Len(lines)
  <1>1. N \in Nat /\ DOMAIN lines = 1 .. N
    BY DEF Typed
  <1>2. ASSUME NEW n \in 1 .. N, Heard(lines, n)
        PROVE  /\ lines[n].value.content \in Seq(STRING)
               /\ \E T : lines[n].value.calls \in Seq(T)
               /\ AllFragments(lines[n].value.calls)
    <2>1. n \in 1 .. n
      BY <1>1
    <2>2. lines[n].kind = "data" /\ lines[n].value.kind = "chunk"
      BY <1>2, <2>1 DEF Heard, Speaks
    <2>3. QED
      BY <2>2 DEF Typed
  <1>3. <<>> \in Seq(STRING)
    OBVIOUS
  <1>4. Texts(lines) \in Seq(Seq(STRING)) /\ Len(Texts(lines)) = N
    <2> DEFINE s == Texts(lines)
    <2>1. s = [n \in 1 .. N |-> IF Heard(lines, n) THEN lines[n].value.content ELSE <<>>]
      BY <1>1 DEF Texts
    <2>2. s \in [1 .. N -> Seq(STRING)]
      BY <1>2, <1>3, <2>1
    <2> HIDE DEF s
    <2>3. QED
      BY <1>1, <2>2 DEF s
  <1>5. ASSUME NEW i \in Nat
        PROVE  Pieces(lines, i) \in Seq(Seq(STRING)) /\ Len(Pieces(lines, i)) = N
    <2> DEFINE s == Pieces(lines, i)
               piece == [n \in 1 .. N |-> PieceOf(lines[n].value.calls, i)]
    <2>1. s = [n \in 1 .. N |-> IF Heard(lines, n) THEN piece[n] ELSE <<>>]
      BY <1>1 DEF Pieces
    <2>2. ASSUME NEW n \in 1 .. N, Heard(lines, n) PROVE piece[n] \in Seq(STRING)
      <3> DEFINE calls == lines[n].value.calls
      <3>1. (\E T : calls \in Seq(T)) /\ AllFragments(calls)
        BY <1>2, <2>2
      <3> HIDE DEF calls
      <3>2. PieceOf(calls, i) \in Seq(STRING)
        BY <3>1, PieceIsSeq
      <3>3. QED
        BY <3>2 DEF calls
    <2> HIDE DEF piece
    <2>3. s \in [1 .. N -> Seq(STRING)]
      BY <1>3, <2>1, <2>2
    <2> HIDE DEF s
    <2>4. QED
      BY <1>1, <2>3 DEF s
  <1>6. ASSUME NEW n \in 1 .. N
        PROVE  /\ Texts(lines)[n] = IF Heard(lines, n) THEN lines[n].value.content ELSE <<>>
               /\ \A i \in Nat : Pieces(lines, i)[n] =
                     IF Heard(lines, n) THEN PieceOf(lines[n].value.calls, i) ELSE <<>>
    BY <1>1 DEF Texts, Pieces
  <1>7. QED
    BY <1>1, <1>2, <1>4, <1>5, <1>6

\* Lines that are not heard say nothing.
LEMMA QuietSaysNothing ==
    ASSUME NEW lines, Typed(lines), NEW a \in 0 .. Len(lines), NEW n \in a .. Len(lines),
           Quiet(lines, a, n), NEW run, Collected(lines, a, run)
    PROVE  Collected(lines, n, run)
  <1>1. /\ Len(lines) \in Nat /\ a \in Nat /\ n \in Nat
        /\ \A m \in a + 1 .. n : m \in 1 .. Len(lines) /\ ~Heard(lines, m)
    <2>1. Len(lines) \in Nat
      BY TextsAre
    <2>2. a \in Nat /\ n \in Nat
      BY <2>1
    <2>3. \A m \in a + 1 .. n : m \in 1 .. Len(lines)
      BY <2>1, <2>2
    <2>4. \A m \in a + 1 .. n : ~Heard(lines, m)
      BY DEF Quiet
    <2>5. QED
      BY <2>1, <2>2, <2>3, <2>4
  <1>2. UpTo(Texts(lines), n) = UpTo(Texts(lines), a)
    <2> DEFINE s == Texts(lines)
    <2>1. /\ s \in Seq(Seq(STRING)) /\ Len(s) = Len(lines)
          /\ \A m \in a + 1 .. n : s[m] = <<>>
      BY <1>1, TextsAre
    <2> HIDE DEF s
    <2>2. UpTo(s, n) = UpTo(s, a)
      BY <2>1, UpToRests
    <2>3. QED
      BY <2>2 DEF s
  <1>3. ASSUME NEW i \in Nat PROVE UpTo(Pieces(lines, i), n) = UpTo(Pieces(lines, i), a)
    <2> DEFINE s == Pieces(lines, i)
    <2>1. /\ s \in Seq(Seq(STRING)) /\ Len(s) = Len(lines)
          /\ \A m \in a + 1 .. n : s[m] = <<>>
      BY <1>1, TextsAre
    <2> HIDE DEF s
    <2>2. UpTo(s, n) = UpTo(s, a)
      BY <2>1, UpToRests
    <2>3. QED
      BY <2>2 DEF s
  <1>4. {m \in 1 .. n : Heard(lines, m)} = {m \in 1 .. a : Heard(lines, m)}
    <2>1. \A m \in 1 .. n : m \in 1 .. a \/ m \in a + 1 .. n
      BY <1>1
    <2>2. \A m \in 1 .. a : m \in 1 .. n
      BY <1>1
    <2>3. QED
      BY <1>1, <2>1, <2>2
  <1>5. IndexesTo(lines, n) = IndexesTo(lines, a)
    BY <1>4 DEF IndexesTo
  <1>6. QED
    BY <1>2, <1>3, <1>5 DEF Collected

\* A line that is heard is taken in whole.
LEMMA ChunkIsHeard ==
    ASSUME NEW lines, Typed(lines), NEW p \in 1 .. Len(lines), Heard(lines, p),
           NEW run, Collected(lines, p - 1, run), NEW new,
           new.content = run.content \o lines[p].value.content,
           new.calls = UpdateToolCalls(run.calls, lines[p].value.calls)
    PROVE  Collected(lines, p, new)
  <1> DEFINE fragments == lines[p].value.calls
             calls == run.calls
  <1>1. p - 1 \in 0 .. Len(lines) /\ p \in 0 .. Len(lines) /\ Len(lines) \in Nat
    BY TextsAre
  <1>2. /\ (\E T : fragments \in Seq(T)) /\ AllFragments(fragments)
        /\ Texts(lines)[p] = lines[p].value.content
        /\ \A i \in Nat : Pieces(lines, i)[p] = PieceOf(fragments, i)
    BY TextsAre
  <1>3. /\ run.content = UpTo(Texts(lines), p - 1) /\ calls \in Calls
        /\ DOMAIN calls = IndexesTo(lines, p - 1)
        /\ \A i \in Nat : TextOf(calls, i) = UpTo(Pieces(lines, i), p - 1)
    BY DEF Collected
  <1> HIDE DEF fragments, calls
  <1>4. Gathered(calls, fragments, UpdateToolCalls(calls, fragments))
    BY <1>2, <1>3, CallsAreGathered
  <1>5. new.calls = UpdateToolCalls(calls, fragments)
    BY DEF calls, fragments
  <1>6. /\ new.calls \in Calls
        /\ DOMAIN new.calls =
              IndexesTo(lines, p - 1) \cup {IndexOf(fragments, k) : k \in DOMAIN fragments}
        /\ \A i \in Nat : TextOf(new.calls, i) = TextOf(calls, i) \o PieceOf(fragments, i)
    BY <1>3, <1>4, <1>5 DEF Gathered
  <1>7. UpTo(Texts(lines), p) = UpTo(Texts(lines), p - 1) \o Texts(lines)[p]
    <2> DEFINE s == Texts(lines)
    <2>1. s \in Seq(Seq(STRING)) /\ Len(s) = Len(lines)
      BY TextsAre
    <2> HIDE DEF s
    <2>2. \A m \in 1 .. Len(s) : UpTo(s, m) = UpTo(s, m - 1) \o s[m]
      BY <2>1, UpToIs
    <2>3. QED
      BY <2>1, <2>2 DEF s
  <1>8. ASSUME NEW i \in Nat
        PROVE  UpTo(Pieces(lines, i), p) = UpTo(Pieces(lines, i), p - 1) \o Pieces(lines, i)[p]
    <2> DEFINE s == Pieces(lines, i)
    <2>1. s \in Seq(Seq(STRING)) /\ Len(s) = Len(lines)
      BY TextsAre
    <2> HIDE DEF s
    <2>2. \A m \in 1 .. Len(s) : UpTo(s, m) = UpTo(s, m - 1) \o s[m]
      BY <2>1, UpToIs
    <2>3. QED
      BY <2>1, <2>2 DEF s
  <1>9. new.content = UpTo(Texts(lines), p)
    BY <1>2, <1>3, <1>7
  <1>10. \A i \in Nat : TextOf(new.calls, i) = UpTo(Pieces(lines, i), p)
    BY <1>2, <1>3, <1>6, <1>8
  <1>11. IndexesTo(lines, p) =
            IndexesTo(lines, p - 1) \cup {IndexOf(fragments, k) : k \in DOMAIN fragments}
    <2> DEFINE Of(n) == {IndexOf(lines[n].value.calls, k) : k \in DOMAIN lines[n].value.calls}
    <2>1. {m \in 1 .. p : Heard(lines, m)} = {m \in 1 .. p - 1 : Heard(lines, m)} \cup {p}
      <3>1. \A m : m \in 1 .. p <=> m \in 1 .. p - 1 \/ m = p
        BY <1>1
      <3>2. QED
        BY <3>1
    <2>2. Of(p) = {IndexOf(fragments, k) : k \in DOMAIN fragments}
      BY DEF fragments
    <2>3. IndexesTo(lines, p) = UNION {Of(n) : n \in {m \in 1 .. p : Heard(lines, m)}}
      BY DEF IndexesTo
    <2>4. IndexesTo(lines, p - 1) = UNION {Of(n) : n \in {m \in 1 .. p - 1 : Heard(lines, m)}}
      BY DEF IndexesTo
    <2> HIDE DEF Of
    <2>5. QED
      BY <2>1, <2>2, <2>3, <2>4
  <1>12. QED
    BY <1>6, <1>9, <1>10, <1>11 DEF Collected

-----------------------------------------------------------------------------
(* The reader keeps what was said.                                         *)

\* The first b lines are whole events, each a chunk; no blank line follows
\* them up to n.
Settled(lines, b, n) ==
    /\ b \in 0 .. n
    /\ b > 0 => lines[b].kind = "blank"
    /\ \A m \in b + 1 .. n : lines[m].kind # "blank"
    /\ \A m \in 1 .. b : lines[m].kind = "data" => Speaks(lines, m)

\* The values are those of the data lines after the first b, up to n.
Pending(lines, b, n, values) ==
    /\ \E T : values \in Seq(T)
    /\ values = <<>> => \A m \in b + 1 .. n : lines[m].kind # "data"
    /\ values # <<>> =>
          \E p \in b + 1 .. n :
             /\ lines[p].kind = "data" /\ values[1] = lines[p].value
             /\ Len(values) = 1 => \A m \in b + 1 .. n : lines[m].kind = "data" => m = p

\* An event that is no chunk silences what follows it.
LEMMA DoneSilences ==
    ASSUME NEW lines, Len(lines) \in Nat, NEW n \in 0 .. Len(lines), NEW b \in 0 .. n,
           NEW values, Pending(lines, b, n, values), Len(values) = 1, values # <<>>,
           values[1].kind # "chunk"
    PROVE  Quiet(lines, b, Len(lines))
  <1>1. PICK p \in b + 1 .. n :
           /\ lines[p].kind = "data" /\ values[1] = lines[p].value
           /\ \A m \in b + 1 .. n : lines[m].kind = "data" => m = p
    BY DEF Pending
  <1>2. ~Speaks(lines, p)
    BY <1>1 DEF Speaks
  <1>3. ASSUME NEW m \in b + 1 .. Len(lines), Heard(lines, m) PROVE FALSE
    <2>1. m \in 1 .. m /\ m \in Nat /\ p \in Nat /\ n \in Nat /\ b \in Nat /\ p \in 1 .. n
      OBVIOUS
    <2>2. Speaks(lines, m) /\ lines[m].kind = "data"
      BY <1>3, <2>1 DEF Heard, Speaks
    <2>3. CASE m <= n
      <3>1. m \in b + 1 .. n
        BY <2>1, <2>3
      <3>2. m = p
        BY <1>1, <2>2, <3>1
      <3>3. QED
        BY <1>2, <2>2, <3>2
    <2>4. CASE m > n
      <3>1. p \in 1 .. m
        BY <2>1, <2>4
      <3>2. Speaks(lines, p)
        BY <1>1, <1>3, <3>1 DEF Heard
      <3>3. QED
        BY <1>2, <3>2
    <2>5. QED
      BY <2>1, <2>3, <2>4
  <1>4. QED
    BY <1>3 DEF Quiet

\* A chunk between two blank lines is heard, and no other line there is.
HeardOnce(lines, b, n, event) ==
    \E p \in b + 1 .. n - 1 :
       /\ event = lines[p].value /\ Heard(lines, p)
       /\ Quiet(lines, b, p - 1) /\ Quiet(lines, p, n) /\ Settled(lines, n, n)
LEMMA ChunkSpeaks ==
    ASSUME NEW lines, Typed(lines), NEW n \in 1 .. Len(lines), lines[n].kind = "blank",
           NEW b, Settled(lines, b, n - 1),
           NEW values, Pending(lines, b, n - 1, values), Len(values) = 1, values # <<>>,
           values[1].kind = "chunk"
    PROVE  HeardOnce(lines, b, n, values[1])
  <1>1. PICK p \in b + 1 .. n - 1 :
           /\ lines[p].kind = "data" /\ values[1] = lines[p].value
           /\ \A m \in b + 1 .. n - 1 : lines[m].kind = "data" => m = p
    BY DEF Pending
  <1>2. /\ b \in 0 .. n - 1
        /\ b > 0 => lines[b].kind = "blank"
        /\ \A m \in 1 .. b : lines[m].kind = "data" => Speaks(lines, m)
    BY DEF Settled
  <1>3. Len(lines) \in Nat /\ DOMAIN lines = 1 .. Len(lines)
    BY TextsAre
  <1>4. b \in Nat /\ n \in Nat /\ p \in Nat /\ b < p /\ p < n
    <2>1. n \in Nat
      BY <1>3
    <2>2. b \in Nat
      BY <1>2, <2>1
    <2>3. p \in b + 1 .. n - 1
      BY <1>1
    <2>4. QED
      BY <2>1, <2>2, <2>3
  <1>5. Speaks(lines, p)
    <2>1. ASSUME NEW m \in 1 .. Len(lines), m # p, lines[m].kind = "data"
          PROVE  Apart(lines, m, p)
      <3>1. CASE m < p
        <4>1. m \notin b + 1 .. n - 1
          BY <1>1, <2>1
        <4>2. m <= b /\ m # b
          BY <1>2, <1>3, <1>4, <2>1, <3>1, <4>1
        <4>3. b \in 1 .. Len(lines) /\ m < b /\ b < p /\ lines[b].kind = "blank"
          BY <1>2, <1>3, <1>4, <4>2
        <4>4. QED
          BY <1>3, <4>3 DEF Apart
      <3>2. CASE m > p
        <4>1. m \notin b + 1 .. n - 1
          BY <1>1, <2>1
        <4>2. m >= n /\ m # n
          BY <1>3, <1>4, <2>1, <3>2, <4>1
        <4>3. p < n /\ n < m
          BY <1>3, <1>4, <4>2
        <4>4. QED
          BY <1>3, <4>3 DEF Apart
      <3>3. QED
        BY <1>3, <1>4, <2>1, <3>1, <3>2
    <2>2. lines[p].value.kind = "chunk"
      BY <1>1
    <2>3. QED
      BY <1>1, <1>3, <2>1, <2>2 DEF Speaks
  <1>6. ASSUME NEW m \in 1 .. n, lines[m].kind = "data" PROVE Speaks(lines, m)
    <2>1. m # n
      BY <1>6
    <2>2. m \in 1 .. b \/ m \in b + 1 .. n - 1
      BY <1>2, <1>3, <1>4, <2>1
    <2>3. QED
      BY <1>1, <1>2, <1>5, <1>6, <2>2
  <1>7. Heard(lines, p)
    <2>1. \A m \in 1 .. p : m \in 1 .. n
      BY <1>4
    <2>2. QED
      BY <1>5, <1>6, <2>1 DEF Heard
  <1>8. ASSUME NEW m \in b + 1 .. n, Heard(lines, m) PROVE m = p
    <2>1. m \in 1 .. m /\ m \in Nat
      BY <1>4
    <2>2. lines[m].kind = "data"
      BY <1>8, <2>1 DEF Heard, Speaks
    <2>3. m # n
      BY <2>2
    <2>4. m \in b + 1 .. n - 1
      BY <1>4, <2>1, <2>3
    <2>5. QED
      BY <1>1, <2>2, <2>4
  <1>9. Quiet(lines, b, p - 1) /\ Quiet(lines, p, n)
    <2>1. \A m \in b + 1 .. p - 1 : m \in b + 1 .. n /\ m # p
      BY <1>4
    <2>2. \A m \in p + 1 .. n : m \in b + 1 .. n /\ m # p
      BY <1>4
    <2>3. QED
      BY <1>8, <2>1, <2>2 DEF Quiet
  <1>10. Settled(lines, n, n)
    <2>1. n \in 0 .. n /\ n + 1 .. n = {}
      BY <1>4
    <2>2. QED
      BY <1>6, <2>1 DEF Settled
  <1>11. QED
    BY <1>1, <1>7, <1>9, <1>10 DEF HeardOnce

\* A blank line, too, settles what came before it if no data did.
LEMMA BlankSettles ==
    ASSUME NEW lines, Typed(lines), NEW n \in 1 .. Len(lines), lines[n].kind = "blank",
           NEW b, Settled(lines, b, n - 1), Pending(lines, b, n - 1, <<>>)
    PROVE  Settled(lines, n, n) /\ Quiet(lines, b, n)
  <1>1. Len(lines) \in Nat /\ n \in Nat
    BY TextsAre
  <1>2. /\ b \in 0 .. n - 1 /\ \A m \in 1 .. b : lines[m].kind = "data" => Speaks(lines, m)
        /\ \A m \in b + 1 .. n - 1 : lines[m].kind # "data"
    BY DEF Settled, Pending
  <1>3. \A m \in b + 1 .. n : lines[m].kind # "data"
    <2>1. \A m \in b + 1 .. n : m \in b + 1 .. n - 1 \/ m = n
      BY <1>1, <1>2
    <2>2. QED
      BY <1>2, <2>1
  <1>4. \A m \in 1 .. n : m \in 1 .. b \/ m \in b + 1 .. n
    BY <1>1, <1>2
  <1>5. n \in 0 .. n /\ n + 1 .. n = {}
    BY <1>1
  <1>6. Settled(lines, n, n)
    BY <1>2, <1>3, <1>4, <1>5 DEF Settled
  <1>7. ASSUME NEW m \in b + 1 .. n PROVE ~Heard(lines, m)
    <2>1. m \in 1 .. m
      BY <1>1, <1>2
    <2>2. QED
      BY <1>3, <2>1 DEF Heard, Speaks
  <1>8. QED
    BY <1>6, <1>7 DEF Quiet

\* What a run has taken so far is what the server said so far; once it is done
\* it has all of it.
Timed(run) ==
    /\ run.at \in Nat /\ run.ttft \in Nat /\ run.ttft <= run.at
    /\ run.done => run.ttft < run.at
Complete(lines, run) ==
    \E b \in 0 .. Len(lines) : Collected(lines, b, run) /\ Quiet(lines, b, Len(lines))
Current(lines, n, reader) ==
    \E b \in 0 .. n : /\ Settled(lines, b, n) /\ Collected(lines, b, reader.run)
                      /\ Pending(lines, b, n, reader.values)
Read(lines, n, reader) ==
    /\ DOMAIN reader = ReaderFields /\ DOMAIN reader.run = RunFields
    /\ Timed(reader.run)
    /\ reader.run.failed \/ (reader.run.done /\ Complete(lines, reader.run))
         \/ (~reader.run.done /\ Current(lines, n, reader))

\* Nothing has been read at first.
LEMMA ReadingStarts ==
    ASSUME NEW lines, Typed(lines)
    PROVE  Read(lines, 0, Unread)
  <1> DEFINE run == Nothing
  <1>1. /\ DOMAIN Unread = ReaderFields /\ DOMAIN run = RunFields
        /\ Unread.run = run /\ Unread.values = <<>>
    BY DEF Unread, Nothing, ReaderFields, RunFields
  <1>2. /\ run.at = 0 /\ run.ttft = 0 /\ ~run.done /\ ~run.failed
        /\ run.content = <<>> /\ run.calls = <<>>
    BY DEF Nothing
  <1> HIDE DEF run
  <1>3. Settled(lines, 0, 0)
    BY DEF Settled
  <1>4. Pending(lines, 0, 0, <<>>)
    <2>1. <<>> \in Seq({})
      OBVIOUS
    <2>2. 0 + 1 .. 0 = {}
      OBVIOUS
    <2>3. QED
      BY <2>1, <2>2 DEF Pending
  <1>5. Collected(lines, 0, run)
    <2>1. <<>> \in [{} -> Seq(STRING)] /\ {} \in SUBSET Nat
      OBVIOUS
    <2>2. run.calls \in Calls
      BY <1>2, <2>1 DEF Calls
    <2>3. IndexesTo(lines, 0) = {}
      <3>1. {m \in 1 .. 0 : Heard(lines, m)} = {}
        OBVIOUS
      <3>2. QED
        BY <3>1 DEF IndexesTo
    <2>4. DOMAIN run.calls = {}
      BY <1>2
    <2>5. \A i \in Nat : TextOf(run.calls, i) = UpTo(Pieces(lines, i), 0)
      BY <2>4 DEF TextOf, UpTo
    <2>6. run.content = UpTo(Texts(lines), 0)
      BY <1>2 DEF UpTo
    <2>7. QED
      BY <2>2, <2>3, <2>4, <2>5, <2>6 DEF Collected
  <1>6. Timed(run)
    BY <1>2 DEF Timed
  <1>7. 0 \in 0 .. 0
    OBVIOUS
  <1>8. Current(lines, 0, Unread)
    BY <1>1, <1>3, <1>4, <1>5, <1>7 DEF Current
  <1>9. QED
    BY <1>1, <1>2, <1>6, <1>8 DEF Read

\* A run after one event more is still timed.
LEMMA ConsumingIsTimed ==
    ASSUME NEW acc, DOMAIN acc = RunFields, ~acc.done, ~acc.failed, Timed(acc), NEW event
    PROVE  /\ DOMAIN Consume(acc, event) = RunFields /\ Timed(Consume(acc, event))
           /\ Consume(acc, event).failed \/ Consume(acc, event).done
                \/ event.kind = "chunk"
           /\ Consume(acc, event).done => ~Consume(acc, event).failed /\ event.kind = "done"
  <1> DEFINE new == Consume(acc, event)
  <1>1. /\ DOMAIN new = RunFields
        /\ event.kind = "done" =>
              /\ new.done /\ ~new.failed /\ new.at = acc.at + 1 /\ new.ttft = acc.ttft
        /\ event.kind \notin {"done", "chunk"} =>
              new.failed /\ ~new.done /\ new.at = acc.at /\ new.ttft = acc.ttft
        /\ event.kind = "chunk" =>
              \/ new.failed /\ ~new.done /\ new.at = acc.at /\ new.ttft = acc.ttft
              \/ /\ ~new.failed /\ ~new.done /\ new.at = acc.at + 1
                 /\ new.ttft \in {acc.ttft, acc.at + 1}
    BY ConsumeIs
  <1> HIDE DEF new
  <1>2. Timed(new)
    BY <1>1 DEF Timed
  <1>3. QED
    BY <1>1, <1>2 DEF new

\* An event that is over, at a blank line or at the end of the response.
LEMMA EventCompletes ==
    ASSUME NEW lines, Typed(lines), NEW n \in 0 .. Len(lines), NEW b \in 0 .. n,
           NEW run, DOMAIN run = RunFields, ~run.done, ~run.failed,
           Collected(lines, b, run), NEW values, Pending(lines, b, n, values), values # <<>>,
           Consume(run, Event(values)).done
    PROVE  Complete(lines, Consume(run, Event(values)))
  <1> DEFINE event == Event(values)
             new == Consume(run, event)
             N == Len(lines)
  <1>1. /\ event.kind = "done" =>
              new.done /\ new.content = run.content /\ new.calls = run.calls
        /\ event.kind \notin {"done", "chunk"} => ~new.done
        /\ event.kind = "chunk" => ~new.done
    <2> HIDE DEF event
    <2>1. QED
      BY ConsumeIs
  <1>2. event.kind = "done" /\ new.content = run.content /\ new.calls = run.calls
    <2> HIDE DEF event, new
    <2>1. new.done
      BY DEF event, new
    <2>2. QED
      BY <1>1, <2>1
  <1>3. Len(values) = 1 /\ event = values[1]
    BY <1>2 DEF Event
  <1>4. N \in Nat /\ b \in 0 .. N
    BY TextsAre
  <1>5. Quiet(lines, b, N)
    BY <1>2, <1>3, <1>4, DoneSilences
  <1> HIDE DEF new, event
  <1>6. Collected(lines, b, new)
    BY <1>2 DEF Collected
  <1>7. QED
    BY <1>4, <1>5, <1>6 DEF Complete, new, event

\* A blank line after values: the event is consumed.
LEMMA BlankEndsEvent ==
    ASSUME NEW lines, Typed(lines), NEW n \in 1 .. Len(lines), lines[n].kind = "blank",
           NEW run, DOMAIN run = RunFields, ~run.done, ~run.failed, Timed(run),
           NEW b \in 0 .. n - 1, Settled(lines, b, n - 1), Collected(lines, b, run),
           NEW values, Pending(lines, b, n - 1, values), values # <<>>,
           NEW reader, DOMAIN reader = ReaderFields,
           reader.run = Consume(run, Event(values)), reader.values = <<>>
    PROVE  Read(lines, n, reader)
  <1> DEFINE event == Event(values)
             new == Consume(run, event)
  <1>1. /\ DOMAIN new = RunFields /\ Timed(new)
        /\ new.failed \/ new.done \/ event.kind = "chunk"
    <2> HIDE DEF event
    <2>1. QED
      BY ConsumingIsTimed
  <1>2. Len(lines) \in Nat /\ n - 1 \in 0 .. Len(lines) /\ n \in 0 .. n /\ n \in 0 .. Len(lines)
    BY TextsAre
  <1>3. CASE new.failed
    BY <1>1, <1>3 DEF Read
  <1>4. CASE new.done
    <2>1. Complete(lines, new)
      BY <1>2, <1>4, EventCompletes
    <2>2. QED
      BY <1>1, <1>4, <2>1 DEF Read
  <1>5. CASE ~new.failed /\ ~new.done
    <2>1. event.kind = "chunk"
      BY <1>1, <1>5
    <2>2. Len(values) = 1 /\ event = values[1]
      BY <2>1 DEF Event
    <2>3. PICK p \in b + 1 .. n - 1 :
             /\ values[1] = lines[p].value /\ Heard(lines, p)
             /\ Quiet(lines, b, p - 1) /\ Quiet(lines, p, n) /\ Settled(lines, n, n)
      <3>1. values[1].kind = "chunk"
        BY <2>1, <2>2
      <3> HIDE DEF new, event
      <3>2. HeardOnce(lines, b, n, values[1])
        BY <2>2, <3>1, ChunkSpeaks
      <3>3. QED
        BY <3>2 DEF HeardOnce
    <2>4. /\ b \in 0 .. Len(lines) /\ p - 1 \in b .. Len(lines) /\ p \in 1 .. Len(lines)
          /\ p \in 0 .. Len(lines) /\ n \in p .. Len(lines)
      <3>1. b \in Nat /\ n \in Nat
        BY <1>2
      <3>2. p \in b + 1 .. n - 1
        BY <2>3
      <3>3. QED
        BY <1>2, <3>1, <3>2
    <2>5. Collected(lines, p - 1, run)
      <3> DEFINE m == p - 1
      <3>1. m \in b .. Len(lines) /\ Quiet(lines, b, m)
        BY <2>3, <2>4
      <3> HIDE DEF m
      <3>2. Collected(lines, m, run)
        BY <2>4, <3>1, QuietSaysNothing
      <3>3. QED
        BY <3>2 DEF m
    <2>6. /\ new.content = run.content \o event.content
          /\ new.calls = UpdateToolCalls(run.calls, event.calls)
      <3> HIDE DEF event
      <3>1. event.kind = "chunk" =>
               \/ new.failed
               \/ /\ new.content = run.content \o event.content
                  /\ new.calls = UpdateToolCalls(run.calls, event.calls)
        BY ConsumeIs
      <3> HIDE DEF new
      <3>2. QED
        BY <1>5, <2>1, <3>1
    <2>7. event = lines[p].value
      BY <2>2, <2>3
    <2> HIDE DEF new, event
    <2>8. Collected(lines, p, new)
      BY <2>3, <2>4, <2>5, <2>6, <2>7, ChunkIsHeard
    <2>9. Collected(lines, n, new)
      BY <2>3, <2>4, <2>8, QuietSaysNothing
    <2>10. Pending(lines, n, n, <<>>)
      <3>1. <<>> \in Seq({}) /\ n + 1 .. n = {}
        BY <1>2
      <3>2. QED
        BY <3>1 DEF Pending
    <2>11. reader.run = new
      BY DEF new, event
    <2>12. Current(lines, n, reader)
      BY <1>2, <2>3, <2>9, <2>10, <2>11 DEF Current
    <2>13. QED
      BY <1>1, <1>5, <2>11, <2>12 DEF Read
  <1>6. QED
    BY <1>3, <1>4, <1>5

\* One line of data more.
LEMMA DataIsPending ==
    ASSUME NEW lines, Len(lines) \in Nat, NEW n \in 1 .. Len(lines), lines[n].kind = "data",
           NEW b \in 0 .. n - 1, NEW values, Pending(lines, b, n - 1, values)
    PROVE  Pending(lines, b, n, Append(values, lines[n].value))
  <1> DEFINE v == lines[n].value
             new == Append(values, v)
  <1>1. PICK T : values \in Seq(T)
    BY DEF Pending
  <1>2. values \in Seq(T \cup {v}) /\ v \in T \cup {v}
    BY <1>1
  <1> HIDE DEF v
  <1>3. /\ new \in Seq(T \cup {v}) /\ new # <<>> /\ Len(values) \in Nat
        /\ Len(new) = Len(values) + 1
        /\ values = <<>> => new[1] = v
        /\ values # <<>> => new[1] = values[1] /\ Len(values) # 0
    BY <1>2
  <1>4. n \in b + 1 .. n /\ \A m \in b + 1 .. n : m \in b + 1 .. n - 1 \/ m = n
    OBVIOUS
  <1> HIDE DEF new
  <1>5. CASE values = <<>>
    <2>1. \A m \in b + 1 .. n - 1 : lines[m].kind # "data"
      BY <1>5 DEF Pending
    <2>2. QED
      BY <1>3, <1>4, <1>5, <2>1 DEF Pending, v, new
  <1>6. CASE values # <<>>
    <2>1. PICK p \in b + 1 .. n - 1 : lines[p].kind = "data" /\ values[1] = lines[p].value
      BY <1>6 DEF Pending
    <2>2. p \in b + 1 .. n /\ Len(new) # 1
      BY <1>3, <1>6, <2>1
    <2>3. QED
      BY <1>3, <2>1, <2>2 DEF Pending, v, new
  <1>7. QED
    BY <1>5, <1>6

\* A comment changes nothing.
LEMMA CommentIsPending ==
    ASSUME NEW lines, Len(lines) \in Nat, NEW n \in 1 .. Len(lines), lines[n].kind # "data",
           NEW b \in 0 .. n - 1, NEW values, Pending(lines, b, n - 1, values)
    PROVE  Pending(lines, b, n, values)
  <1>1. \A m \in b + 1 .. n : m \in b + 1 .. n - 1 \/ m = n
    OBVIOUS
  <1>2. \A m \in b + 1 .. n - 1 : m \in b + 1 .. n
    OBVIOUS
  <1>3. /\ \E T : values \in Seq(T)
        /\ values = <<>> => \A m \in b + 1 .. n : lines[m].kind # "data"
    BY <1>1 DEF Pending
  <1>4. ASSUME values # <<>>
        PROVE  \E p \in b + 1 .. n :
                  /\ lines[p].kind = "data" /\ values[1] = lines[p].value
                  /\ Len(values) = 1 => \A m \in b + 1 .. n : lines[m].kind = "data" => m = p
    <2>1. PICK p \in b + 1 .. n - 1 :
             /\ lines[p].kind = "data" /\ values[1] = lines[p].value
             /\ Len(values) = 1 => \A m \in b + 1 .. n - 1 : lines[m].kind = "data" => m = p
      BY <1>4 DEF Pending
    <2>2. QED
      BY <1>1, <1>2, <2>1
  <1>5. QED
    BY <1>3, <1>4 DEF Pending

\* What no blank line ends stays open.
LEMMA StaysSettled ==
    ASSUME NEW lines, Len(lines) \in Nat, NEW n \in 1 .. Len(lines), lines[n].kind # "blank",
           NEW b, Settled(lines, b, n - 1)
    PROVE  b \in 0 .. n /\ Settled(lines, b, n)
  <1>1. b \in 0 .. n - 1 /\ n \in Nat
    BY DEF Settled
  <1>2. b \in 0 .. n /\ \A m \in b + 1 .. n : m \in b + 1 .. n - 1 \/ m = n
    BY <1>1
  <1>3. QED
    BY <1>2 DEF Settled

\* One line more.
LEMMA LineKeepsReading ==
    ASSUME NEW lines, Typed(lines), NEW n \in 1 .. Len(lines), NEW reader,
           Read(lines, n - 1, reader)
    PROVE  Read(lines, n, ReadLine(reader, lines[n]))
  <1> DEFINE line == lines[n]
             total == reader.total + line.size
             counted == [reader EXCEPT !.total = total]
             bytes == reader.bytes + line.size
             overflow == [reader EXCEPT !.run.failed = TRUE]
             grown == [counted EXCEPT !.values = Append(@, line.value), !.bytes = bytes]
             new == ReadLine(reader, line)
  <1>1. /\ DOMAIN reader = ReaderFields /\ DOMAIN reader.run = RunFields /\ Timed(reader.run)
        /\ reader.run.failed \/ (reader.run.done /\ Complete(lines, reader.run))
             \/ (~reader.run.done /\ Current(lines, n - 1, reader))
    BY DEF Read
  <1>2. \/ new = reader /\ (reader.run.done \/ reader.run.failed)
        \/ ~reader.run.done /\ ~reader.run.failed /\ new = overflow
        \/ ~reader.run.done /\ ~reader.run.failed /\ line.kind = "blank" /\ new = Flushed(counted)
        \/ ~reader.run.done /\ ~reader.run.failed /\ line.kind = "data" /\ new = grown
        \/ /\ ~reader.run.done /\ ~reader.run.failed /\ new = counted
           /\ line.kind \notin {"blank", "data"}
    BY DEF ReadLine
  <1>3. /\ DOMAIN counted = ReaderFields /\ counted.run = reader.run
        /\ counted.values = reader.values
    BY <1>1 DEF ReaderFields
  <1>4. /\ DOMAIN grown = ReaderFields /\ grown.run = reader.run
        /\ grown.values = Append(reader.values, line.value)
    BY <1>1 DEF ReaderFields
  <1>5. /\ DOMAIN overflow = ReaderFields /\ DOMAIN overflow.run = RunFields
        /\ overflow.run.failed /\ overflow.run.done = reader.run.done
        /\ overflow.run.at = reader.run.at /\ overflow.run.ttft = reader.run.ttft
    BY <1>1 DEF ReaderFields, RunFields
  <1>6. Len(lines) \in Nat
    BY TextsAre
  <1> HIDE DEF line, counted, grown, overflow, new
  <1>7. CASE new = reader /\ (reader.run.done \/ reader.run.failed)
    BY <1>1, <1>7 DEF Read, new, line
  <1>8. CASE ~reader.run.done /\ ~reader.run.failed /\ new = overflow
    <2>1. Timed(overflow.run)
      BY <1>1, <1>5 DEF Timed
    <2>2. QED
      BY <1>5, <1>8, <2>1 DEF Read, new, line
  <1>9. ASSUME ~reader.run.done, ~reader.run.failed
        PROVE  \E b \in 0 .. n - 1 : /\ Settled(lines, b, n - 1) /\ Collected(lines, b, reader.run)
                                     /\ Pending(lines, b, n - 1, reader.values)
    BY <1>1, <1>9 DEF Current
  <1>10. CASE /\ ~reader.run.done /\ ~reader.run.failed
              /\ line.kind = "blank" /\ new = Flushed(counted)
    <2>1. PICK b \in 0 .. n - 1 : /\ Settled(lines, b, n - 1) /\ Collected(lines, b, reader.run)
                                  /\ Pending(lines, b, n - 1, reader.values)
      BY <1>9, <1>10
    <2>2. lines[n].kind = "blank"
      BY <1>10 DEF line
    <2>3. CASE reader.values = <<>>
      <3>1. new = counted
        BY <1>3, <1>10, <2>3 DEF Flushed
      <3>2. Settled(lines, n, n) /\ Quiet(lines, b, n)
        BY <2>1, <2>2, <2>3, BlankSettles
      <3>3. b \in 0 .. Len(lines) /\ n \in b .. Len(lines) /\ n \in 0 .. n
        BY <1>6, <2>1
      <3>4. Collected(lines, n, reader.run)
        BY <2>1, <3>2, <3>3, QuietSaysNothing
      <3>5. Pending(lines, n, n, <<>>)
        <4>1. <<>> \in Seq({}) /\ n + 1 .. n = {}
          BY <1>6
        <4>2. QED
          BY <4>1 DEF Pending
      <3>6. Current(lines, n, new)
        BY <1>3, <2>3, <3>1, <3>2, <3>3, <3>4, <3>5 DEF Current
      <3>7. Read(lines, n, new)
        BY <1>1, <1>3, <1>10, <3>1, <3>6 DEF Read
      <3>8. QED
        BY <3>7 DEF new, line
    <2>4. CASE reader.values # <<>>
      <3>1. /\ DOMAIN new = ReaderFields /\ new.values = <<>>
            /\ new.run = Consume(reader.run, Event(reader.values))
        <4>1. new = [counted EXCEPT !.run = Consume(@, Event(counted.values)),
                                    !.values = <<>>, !.bytes = 0]
          BY <1>3, <1>10, <2>4 DEF Flushed
        <4>2. QED
          BY <1>3, <4>1 DEF ReaderFields
      <3>2. Read(lines, n, new)
        BY <1>1, <1>10, <2>1, <2>2, <2>4, <3>1, BlankEndsEvent
      <3>3. QED
        BY <3>2 DEF new, line
    <2>5. QED
      BY <2>3, <2>4
  <1>11. CASE ~reader.run.done /\ ~reader.run.failed /\ line.kind = "data" /\ new = grown
    <2>1. PICK b \in 0 .. n - 1 : /\ Settled(lines, b, n - 1) /\ Collected(lines, b, reader.run)
                                  /\ Pending(lines, b, n - 1, reader.values)
      BY <1>9, <1>11
    <2>2. lines[n].kind = "data" /\ lines[n].kind # "blank"
      BY <1>11 DEF line
    <2>3. Pending(lines, b, n, new.values)
      BY <1>4, <1>6, <1>11, <2>1, <2>2, DataIsPending DEF line
    <2>4. b \in 0 .. n /\ Settled(lines, b, n)
      BY <1>6, <2>1, <2>2, StaysSettled
    <2>5. Current(lines, n, new)
      BY <1>4, <1>11, <2>1, <2>3, <2>4 DEF Current
    <2>6. Read(lines, n, new)
      BY <1>1, <1>4, <1>11, <2>5 DEF Read
    <2>7. QED
      BY <2>6 DEF new, line
  <1>12. CASE /\ ~reader.run.done /\ ~reader.run.failed /\ new = counted
              /\ line.kind \notin {"blank", "data"}
    <2>1. PICK b \in 0 .. n - 1 : /\ Settled(lines, b, n - 1) /\ Collected(lines, b, reader.run)
                                  /\ Pending(lines, b, n - 1, reader.values)
      BY <1>9, <1>12
    <2>2. lines[n].kind # "data" /\ lines[n].kind # "blank"
      BY <1>12 DEF line
    <2>3. Pending(lines, b, n, new.values)
      BY <1>3, <1>6, <1>12, <2>1, <2>2, CommentIsPending
    <2>4. b \in 0 .. n /\ Settled(lines, b, n)
      BY <1>6, <2>1, <2>2, StaysSettled
    <2>5. Current(lines, n, new)
      BY <1>3, <1>12, <2>1, <2>3, <2>4 DEF Current
    <2>6. Read(lines, n, new)
      BY <1>1, <1>3, <1>12, <2>5 DEF Read
    <2>7. QED
      BY <2>6 DEF new, line
  <1>13. QED
    BY <1>2, <1>7, <1>8, <1>10, <1>11, <1>12

\* A run that is done has the meaning of the response, all of it.
LEMMA CompleteIsMeant ==
    ASSUME NEW lines, Typed(lines), NEW run, Complete(lines, run)
    PROVE  [content |-> run.content, calls |-> run.calls] = Meaning(lines)
  <1> DEFINE N == Len(lines)
  <1>1. N \in Nat /\ DOMAIN lines = 1 .. N
    BY TextsAre
  <1>2. PICK b \in 0 .. N : Collected(lines, b, run) /\ Quiet(lines, b, N)
    BY DEF Complete
  <1>3. N \in b .. N
    BY <1>1, <1>2
  <1> HIDE DEF N
  <1>4. Collected(lines, N, run)
    BY <1>2, <1>3, QuietSaysNothing DEF N
  <1>5. run.content = FlattenSeq(Texts(lines))
    <2> DEFINE s == Texts(lines)
    <2>1. s \in Seq(Seq(STRING)) /\ Len(s) = N /\ run.content = UpTo(s, N)
      BY <1>4, TextsAre DEF Collected, N
    <2> HIDE DEF s
    <2>2. FlattenSeq(s) = UpTo(s, N)
      BY <2>1, UpToIs
    <2>3. QED
      BY <2>1, <2>2 DEF s
  <1>6. ASSUME NEW i \in Nat PROVE TextOf(run.calls, i) = FlattenSeq(Pieces(lines, i))
    <2> DEFINE s == Pieces(lines, i)
    <2>1. s \in Seq(Seq(STRING)) /\ Len(s) = N /\ TextOf(run.calls, i) = UpTo(s, N)
      BY <1>4, TextsAre DEF Collected, N
    <2> HIDE DEF s
    <2>2. FlattenSeq(s) = UpTo(s, N)
      BY <2>1, UpToIs
    <2>3. QED
      BY <2>1, <2>2 DEF s
  <1>7. IndexesTo(lines, N) = Indexes(lines)
    BY <1>1 DEF IndexesTo, Indexes
  <1>8. /\ run.calls \in Calls /\ DOMAIN run.calls = Indexes(lines)
        /\ Indexes(lines) \in SUBSET Nat
    <2>1. run.calls \in Calls /\ DOMAIN run.calls = Indexes(lines)
      BY <1>4, <1>7 DEF Collected
    <2>2. DOMAIN run.calls \in SUBSET Nat
      BY <2>1 DEF Calls
    <2>3. QED
      BY <2>1, <2>2
  <1>9. run.calls = [i \in Indexes(lines) |-> FlattenSeq(Pieces(lines, i))]
    <2>1. \A i \in Indexes(lines) : run.calls[i] = FlattenSeq(Pieces(lines, i))
      BY <1>6, <1>8 DEF TextOf
    <2>2. run.calls = [i \in Indexes(lines) |-> run.calls[i]]
      BY <1>8 DEF Calls
    <2>3. QED
      BY <2>1, <2>2
  <1>10. QED
    BY <1>5, <1>9 DEF Meaning

\* Wherever a response breaks off, a run that reached its end has all of it.
LEMMA RunIsMeant ==
    ASSUME NEW lines, Typed(lines), NEW end \in 0 .. Len(lines),
           RunOf(lines, end).done, ~RunOf(lines, end).failed
    PROVE  /\ [content |-> RunOf(lines, end).content, calls |-> RunOf(lines, end).calls]
                 = Meaning(lines)
           /\ RunOf(lines, end).ttft < RunOf(lines, end).at
           /\ RunOf(lines, end).ttft \in Nat
  <1> DEFINE N == Len(lines)
             S == {n \in 0 .. N : Read(lines, n, SseEvents(lines)[n])}
             reader == SseEvents(lines)[end]
             run == RunOf(lines, end)
  <1>1. N \in Nat /\ \E T : lines \in Seq(T)
    BY TextsAre DEF Typed
  <1>2. /\ SseEvents(lines)[0] = Unread
        /\ \A n \in 1 .. N :
              SseEvents(lines)[n] = ReadLine(SseEvents(lines)[n - 1], lines[n])
    BY <1>1, ReadingIs
  <1>3. 0 \in S
    BY <1>1, <1>2, ReadingStarts
  <1>4. ASSUME NEW n \in 1 .. N, n - 1 \in S PROVE n \in S
    <2> DEFINE before == SseEvents(lines)[n - 1]
    <2>1. Read(lines, n - 1, before) /\ SseEvents(lines)[n] = ReadLine(before, lines[n])
      BY <1>2, <1>4
    <2> HIDE DEF before
    <2>2. Read(lines, n, ReadLine(before, lines[n]))
      BY <2>1, LineKeepsReading
    <2>3. n \in 0 .. N
      BY <1>1
    <2>4. QED
      BY <2>1, <2>2, <2>3
  <1>5. Read(lines, end, reader)
    <2> HIDE DEF S
    <2>1. \A n \in 0 .. N : n \in S
      BY <1>1, <1>3, <1>4, Climb
    <2>2. end \in S
      BY <2>1
    <2>3. QED
      BY <2>2 DEF S
  <1>6. run = Flushed(reader).run
    BY DEF RunOf
  <1> HIDE DEF run, reader
  <1>7. /\ DOMAIN reader = ReaderFields /\ DOMAIN reader.run = RunFields /\ Timed(reader.run)
        /\ reader.run.failed \/ (reader.run.done /\ Complete(lines, reader.run))
             \/ (~reader.run.done /\ Current(lines, end, reader))
    BY <1>5 DEF Read
  <1>8. run.done /\ ~run.failed
    BY DEF run
  <1>9. Complete(lines, run) /\ Timed(run)
    <2>1. CASE run = reader.run
      BY <1>7, <1>8, <2>1
    <2>2. CASE run # reader.run
      <3>1. reader.values # <<>> /\ run = Consume(reader.run, Event(reader.values))
        BY <1>6, <1>7, <2>2 DEF Flushed, ReaderFields
      <3>2. ~reader.run.done /\ ~reader.run.failed
        BY <2>2, <3>1 DEF Consume
      <3>3. PICK b \in 0 .. end : /\ Settled(lines, b, end) /\ Collected(lines, b, reader.run)
                                  /\ Pending(lines, b, end, reader.values)
        BY <1>7, <3>2 DEF Current
      <3> DEFINE acc == reader.run
                 values == reader.values
                 event == Event(values)
      <3>4. /\ DOMAIN acc = RunFields /\ Timed(acc) /\ ~acc.done /\ ~acc.failed
            /\ Collected(lines, b, acc) /\ Pending(lines, b, end, values) /\ values # <<>>
            /\ Consume(acc, Event(values)).done
        BY <1>7, <1>8, <3>1, <3>2, <3>3
      <3> HIDE DEF acc, values, event
      <3>5. Complete(lines, Consume(acc, Event(values)))
        BY <3>4, EventCompletes
      <3>6. Timed(Consume(acc, event))
        BY <3>4, ConsumingIsTimed
      <3>7. QED
        BY <3>1, <3>5, <3>6 DEF acc, values, event
    <2>3. QED
      BY <2>1, <2>2
  <1>10. /\ [content |-> run.content, calls |-> run.calls] = Meaning(lines)
         /\ run.ttft < run.at /\ run.ttft \in Nat
    BY <1>8, <1>9, CompleteIsMeant DEF Timed
  <1>11. QED
    BY <1>10 DEF run

-----------------------------------------------------------------------------
(* The benchmark's warnings.                                               *)

\* The results that count are a sequence.
Sequenced(rs) == \E T : rs \in Seq(T)

\* A result is of a numbered round and of the request that its item describes.
OfItsItem(r) == r.repeat \in Nat /\ r.body = Body(r)

\* Every measured item of the schedule that was reached has a result.
Counted(n) ==
    ~Schedule(settings)[n].warm =>
        \E r \in ToSet(measured) : /\ r.mode = Schedule(settings)[n].mode
                                   /\ r.workload = Schedule(settings)[n].workload

\* What holds between two requests of the benchmark.
BmInv ==
    /\ OptionsTyped(settings)
    /\ bench \in {"running", "failed", "over"}
    /\ done \in 0 .. Len(Schedule(settings))
    /\ Sequenced(measured) /\ Len(measured) <= done
    /\ \A r \in ToSet(measured) : OfItsItem(r)
    /\ \A n \in 1 .. done : Counted(n)
    /\ warnings \subseteq ToSet(settings.modes) \X ToSet(settings.workloads)
    /\ WarnsExactlyOnDrift

\* One result more.
LEMMA OneMore ==
    ASSUME NEW rs, Sequenced(rs), NEW r
    PROVE  /\ Sequenced(Append(rs, r)) /\ Len(rs) \in Nat
           /\ Len(Append(rs, r)) = Len(rs) + 1
           /\ ToSet(Append(rs, r)) = ToSet(rs) \cup {r}
  <1>1. PICK T : rs \in Seq(T)
    BY DEF Sequenced
  <1> DEFINE U == T \cup {r}
             new == Append(rs, r)
  <1>2. rs \in Seq(U) /\ r \in U
    BY <1>1
  <1> HIDE DEF U
  <1>3. /\ new \in Seq(U) /\ Len(rs) \in Nat /\ Len(new) = Len(rs) + 1
        /\ DOMAIN rs = 1 .. Len(rs) /\ DOMAIN new = 1 .. Len(rs) + 1
        /\ \A i \in 1 .. Len(rs) : new[i] = rs[i]
        /\ new[Len(rs) + 1] = r
    BY <1>2
  <1> HIDE DEF new
  <1>4. ToSet(new) = ToSet(rs) \cup {r}
    <2>1. \A x : x \in ToSet(new) <=> \E i \in 1 .. Len(rs) + 1 : new[i] = x
      BY <1>3 DEF ToSet
    <2>2. \A x : x \in ToSet(rs) <=> \E i \in 1 .. Len(rs) : rs[i] = x
      BY <1>3 DEF ToSet
    <2>3. \A i \in 1 .. Len(rs) + 1 : i \in 1 .. Len(rs) \/ i = Len(rs) + 1
      BY <1>3
    <2>4. \A i \in 1 .. Len(rs) : i \in 1 .. Len(rs) + 1
      BY <1>3
    <2>5. Len(rs) + 1 \in 1 .. Len(rs) + 1
      BY <1>3
    <2>6. ASSUME NEW x \in ToSet(new) PROVE x \in ToSet(rs) \cup {r}
      BY <1>3, <2>1, <2>2, <2>3
    <2>7. ASSUME NEW x \in ToSet(rs) \cup {r} PROVE x \in ToSet(new)
      BY <1>3, <2>1, <2>2, <2>4, <2>5
    <2>8. QED
      BY <2>6, <2>7
  <1>5. QED
    BY <1>3, <1>4 DEF new, Sequenced

\* The results of a pair are finitely many.
LEMMA PairIsFinite ==
    ASSUME Sequenced(measured), NEW mode, NEW workload
    PROVE  IsFiniteSet(OfPair(mode, workload))
  <1>1. PICK T : measured \in Seq(T)
    BY DEF Sequenced
  <1> DEFINE f == [i \in 1 .. Len(measured) |-> measured[i]]
  <1>2. Len(measured) \in Nat /\ DOMAIN measured = 1 .. Len(measured)
    BY <1>1
  <1>3. f \in [1 .. Len(measured) -> ToSet(measured)]
    BY <1>2 DEF ToSet
  <1>4. \A r \in ToSet(measured) : \E i \in 1 .. Len(measured) : f[i] = r
    BY <1>2 DEF ToSet
  <1>5. IsFiniteSet(1 .. Len(measured))
    BY <1>2, FS_Interval
  <1> HIDE DEF f
  <1>6. f \in Surjection(1 .. Len(measured), ToSet(measured))
    BY <1>3, <1>4 DEF Surjection
  <1>7. IsFiniteSet(ToSet(measured))
    BY <1>5, <1>6, FS_Surjection
  <1>8. OfPair(mode, workload) \in SUBSET ToSet(measured)
    BY DEF OfPair
  <1>9. QED
    BY <1>7, <1>8, FS_Subset

\* At the start nothing is measured.
LEMMA BenchmarkStarts == BmInit => BmInv
  <1> SUFFICES ASSUME BmInit PROVE BmInv
    OBVIOUS
  <1>1. OptionsTyped(settings)
    BY SchedulesAssumption DEF BmInit, OptionsTyped
  <1>2. bench = "running" /\ done = 0 /\ measured = <<>> /\ warnings = {}
    BY DEF BmInit
  <1>3. Len(Schedule(settings)) \in Nat
    BY <1>1, ScheduleMeasuresAll
  <1>4. Sequenced(measured) /\ Len(measured) = 0
    <2>1. measured \in Seq({})
      BY <1>2
    <2>2. QED
      BY <1>2, <2>1 DEF Sequenced
  <1>5. ToSet(measured) = {}
    BY <1>2 DEF ToSet
  <1>6. WarnsExactlyOnDrift
    BY <1>2 DEF WarnsExactlyOnDrift
  <1>7. done \in 0 .. Len(Schedule(settings)) /\ 1 .. done = {}
    BY <1>2, <1>3
  <1>8. QED
    BY <1>1, <1>2, <1>4, <1>5, <1>6, <1>7 DEF BmInv

\* A request that is accepted counts unless it is a warm-up.
LEMMA RunKeepsBmInv ==
    ASSUME NEW response, NEW end, BmInv, RunOnce(response, end)
    PROVE  BmInv'
  <1> DEFINE S == Schedule(settings)
             item == S[done + 1]
             run == RunOf(response.lines, end)
             result == [mode |-> item.mode, workload |-> item.workload,
                        repeat |-> item.repeat, body |-> Body(item),
                        ttft |-> run.ttft, elapsed |-> run.at,
                        output |-> [content |-> run.content, calls |-> run.calls],
                        says |-> response.says]
  <1>1. /\ bench = "running" /\ done < Len(S)
        /\ settings' = settings /\ warnings' = warnings
        /\ IF Accepted(run, settings.cache_prompt)
           THEN /\ done' = done + 1
                /\ measured' = IF item.warm THEN measured ELSE Append(measured, result)
                /\ bench' = bench
           ELSE bench' = "failed" /\ done' = done /\ measured' = measured
    BY DEF RunOnce
  <1>2. /\ OptionsTyped(settings) /\ Sequenced(measured)
        /\ done \in 0 .. Len(S) /\ Len(measured) <= done
        /\ \A r \in ToSet(measured) : OfItsItem(r)
        /\ \A n \in 1 .. done : Counted(n)
        /\ warnings \subseteq ToSet(settings.modes) \X ToSet(settings.workloads)
    BY DEF BmInv
  <1>3. Len(S) \in Nat /\ \A n \in 1 .. Len(S) : S[n].repeat \in Nat
    BY <1>2, ScheduleMeasuresAll
  <1>4. /\ result.mode = item.mode /\ result.workload = item.workload
        /\ result.repeat = item.repeat /\ result.body = Body(item)
    OBVIOUS
  <1> HIDE DEF run, result
  <1>5. done + 1 \in 1 .. Len(S)
    BY <1>1, <1>2, <1>3
  <1> HIDE DEF S
  <1>6. item.repeat \in Nat
    BY <1>3, <1>5
  <1> HIDE DEF item
  <1>7. OfItsItem(result)
    <2>1. Body(result) = Body(item)
      BY <1>4 DEF Body
    <2>2. QED
      BY <1>4, <1>6, <2>1 DEF OfItsItem
  <1>8. OptionsTyped(settings') /\ bench' \in {"running", "failed"} /\ S' = S
    BY <1>1, <1>2 DEF S
  <1>9. WarnsExactlyOnDrift'
    BY <1>8 DEF WarnsExactlyOnDrift
  <1>10. ASSUME NEW r PROVE OfItsItem(r)' <=> OfItsItem(r)
    BY <1>1 DEF OfItsItem, Body
  <1>11. ASSUME NEW n, ToSet(measured) \subseteq ToSet(measured'), Counted(n)
         PROVE  Counted(n)'
    <2>1. Schedule(settings)' = Schedule(settings)
      BY <1>1
    <2> DEFINE it == Schedule(settings)[n]
    <2>2. Counted(n)' <=> (~it.warm => \E r \in ToSet(measured') : r.mode = it.mode
                                                             /\ r.workload = it.workload)
      BY <2>1 DEF Counted
    <2>3. ~it.warm => \E r \in ToSet(measured) : r.mode = it.mode /\ r.workload = it.workload
      BY <1>11 DEF Counted
    <2> HIDE DEF it
    <2>4. QED
      BY <1>11, <2>2, <2>3
  <1>12. CASE measured' = measured /\ done' = done
    <2>1. ToSet(measured') = ToSet(measured)
      BY <1>12
    <2>2. \A n \in 1 .. done' : Counted(n)'
      BY <1>2, <1>11, <1>12, <2>1
    <2>3. \A r \in ToSet(measured') : OfItsItem(r)'
      BY <1>2, <1>10, <2>1
    <2>4. Sequenced(measured') /\ Len(measured') <= done' /\ done' \in 0 .. Len(S')
      BY <1>2, <1>8, <1>12
    <2>5. QED
      BY <1>1, <1>2, <1>8, <1>9, <2>2, <2>3, <2>4 DEF BmInv, S
  <1>13. CASE /\ done' = done + 1
              /\ measured' = IF item.warm THEN measured ELSE Append(measured, result)
    <2>1. /\ Sequenced(Append(measured, result)) /\ Len(measured) \in Nat
          /\ Len(Append(measured, result)) = Len(measured) + 1
          /\ ToSet(Append(measured, result)) = ToSet(measured) \cup {result}
      BY <1>2, OneMore
    <2>2. /\ Sequenced(measured') /\ Len(measured') <= Len(measured) + 1
          /\ ToSet(measured) \subseteq ToSet(measured')
          /\ ToSet(measured') \subseteq ToSet(measured) \cup {result}
          /\ ~item.warm => result \in ToSet(measured')
      BY <1>2, <1>13, <2>1
    <2>3. Len(measured') <= done' /\ done' \in 0 .. Len(S')
      <3>1. Len(measured') \in Nat
        BY <1>13, <2>1
      <3>2. QED
        BY <1>2, <1>3, <1>5, <1>8, <1>13, <2>1, <2>2, <3>1
    <2>4. \A r \in ToSet(measured') : OfItsItem(r)'
      BY <1>2, <1>7, <1>10, <2>2
    <2>5. ASSUME NEW n \in 1 .. done' PROVE Counted(n)'
      <3>1. CASE n \in 1 .. done
        BY <1>2, <1>11, <2>2, <3>1
      <3>2. CASE n = done + 1
        <4>1. Schedule(settings)'[n] = item
          BY <1>1, <3>2 DEF S, item
        <4>2. ~item.warm => \E r \in ToSet(measured') : r.mode = item.mode
                                                       /\ r.workload = item.workload
          BY <1>4, <2>2
        <4>3. QED
          BY <4>1, <4>2 DEF Counted
      <3>3. n \in 1 .. done \/ n = done + 1
        BY <1>2, <1>3, <1>13
      <3>4. QED
        BY <3>1, <3>2, <3>3
    <2>6. QED
      BY <1>1, <1>2, <1>8, <1>9, <2>2, <2>3, <2>4, <2>5 DEF BmInv, S
  <1>14. QED
    BY <1>1, <1>12, <1>13

\* When the schedule is done every pair has been measured, so that its
\* warnings are those of the pairs whose answers drifted.
LEMMA ConcludeKeepsBmInv == BmInv /\ Conclude => BmInv'
  <1> SUFFICES ASSUME BmInv, Conclude PROVE BmInv'
    OBVIOUS
  <1>1. /\ done = Len(Schedule(settings)) /\ bench' = "over"
        /\ warnings' = {pair \in ToSet(settings.modes) \X ToSet(settings.workloads) :
                           ~Deterministic(OfPair(pair[1], pair[2]))}
        /\ settings' = settings /\ done' = done /\ measured' = measured
    BY DEF Conclude
  <1>2. /\ OptionsTyped(settings) /\ Sequenced(measured)
        /\ done \in 0 .. Len(Schedule(settings)) /\ Len(measured) <= done
        /\ \A r \in ToSet(measured) : OfItsItem(r)
        /\ \A n \in 1 .. done : Counted(n)
    BY DEF BmInv
  <1>3. ASSUME NEW mode \in ToSet(settings.modes), NEW workload \in ToSet(settings.workloads)
        PROVE  ~Deterministic(OfPair(mode, workload)) <=>
                  \E r, t \in OfPair(mode, workload) : r.body = t.body /\ r.output # t.output
    <2> DEFINE S == OfPair(mode, workload)
    <2>1. PICK n \in 1 .. Len(Schedule(settings)) :
              Measures(Schedule(settings)[n], mode, workload)
      BY <1>2, ScheduleMeasuresAll
    <2>2. Counted(n)
      BY <1>1, <1>2, <2>1
    <2>3. \E r \in ToSet(measured) : r.mode = mode /\ r.workload = workload
      BY <2>1, <2>2 DEF Counted, Measures
    <2>4. S # {}
      BY <2>3 DEF OfPair
    <2>5. IsFiniteSet(S)
      BY <1>2, PairIsFinite
    <2>6. AllOf(S, mode, workload)
      BY <1>2 DEF OfPair, OfItsItem, AllOf
    <2> HIDE DEF S
    <2>7. ~Deterministic(S) <=> Drifted(S)
      BY <2>4, <2>5, <2>6, DriftIsSeen
    <2>8. QED
      BY <2>7 DEF S, Drifted
  <1>4. warnings' = {pair \in ToSet(settings.modes) \X ToSet(settings.workloads) :
            \E r, t \in OfPair(pair[1], pair[2]) : r.body = t.body /\ r.output # t.output}
    <2>1. ASSUME NEW pair \in ToSet(settings.modes) \X ToSet(settings.workloads)
          PROVE  ~Deterministic(OfPair(pair[1], pair[2])) <=>
                    \E r, t \in OfPair(pair[1], pair[2]) : r.body = t.body /\ r.output # t.output
      <3>1. pair[1] \in ToSet(settings.modes) /\ pair[2] \in ToSet(settings.workloads)
        OBVIOUS
      <3>2. QED
        BY <1>3, <3>1
    <2>2. QED
      BY <1>1, <2>1
  <1>5. WarnsExactlyOnDrift'
    BY <1>1, <1>4 DEF WarnsExactlyOnDrift, OfPair
  <1>6. warnings' \subseteq ToSet(settings'.modes) \X ToSet(settings'.workloads)
    BY <1>1
  <1>7. /\ OptionsTyped(settings') /\ Sequenced(measured')
        /\ done' \in 0 .. Len(Schedule(settings')) /\ Len(measured') <= done'
    BY <1>1, <1>2
  <1>8. \A r \in ToSet(measured') : OfItsItem(r)'
    BY <1>1, <1>2 DEF OfItsItem, Body
  <1>9. \A n \in 1 .. done' : Counted(n)'
    BY <1>1, <1>2 DEF Counted
  <1>10. QED
    BY <1>1, <1>5, <1>6, <1>7, <1>8, <1>9 DEF BmInv

\* The benchmark takes no other step.
LEMMA StepKeepsBmInv == BmInv /\ [BmNext]_bmVars => BmInv'
  <1>1. SUFFICES ASSUME BmInv, [BmNext]_bmVars PROVE BmInv'
    OBVIOUS
  <1>2. CASE \E response \in Responses : \E end \in 0 .. Len(response.lines) :
                RunOnce(response, end)
    BY <1>1, <1>2, RunKeepsBmInv
  <1>3. CASE Conclude
    BY <1>1, <1>3, ConcludeKeepsBmInv
  <1>4. CASE UNCHANGED bmVars
    <2>1. /\ settings' = settings /\ bench' = bench /\ done' = done
          /\ measured' = measured /\ warnings' = warnings
      BY <1>4 DEF bmVars
    <2>2. WarnsExactlyOnDrift'
      BY <1>1, <2>1 DEF BmInv, WarnsExactlyOnDrift, OfPair
    <2>3. \A r \in ToSet(measured') : OfItsItem(r)'
      BY <1>1, <2>1 DEF BmInv, OfItsItem, Body
    <2>4. \A n \in 1 .. done' : Counted(n)'
      BY <1>1, <2>1 DEF BmInv, Counted
    <2>5. QED
      BY <1>1, <2>1, <2>2, <2>3, <2>4 DEF BmInv
  <1>5. QED
    BY <1>1, <1>2, <1>3, <1>4 DEF BmNext

\* Every variable of the benchmark keeps its type.
THEOREM BenchmarkTypeCorrect == BmSpec => []BmTypeOK
  <1>1. BmInv => BmTypeOK
    BY DEF BmInv, BmTypeOK
  <1>2. QED
    BY <1>1, BenchmarkStarts, StepKeepsBmInv, PTL DEF BmSpec

\* Whatever the options and the answers, the report warns of exactly the pairs
\* of a mode and a workload of which one request was answered in two ways.
THEOREM WarningsAreExact == BmSpec => []WarnsExactlyOnDrift
  <1>1. BmInv => WarnsExactlyOnDrift
    BY DEF BmInv
  <1>2. QED
    BY <1>1, BenchmarkStarts, StepKeepsBmInv, PTL DEF BmSpec

\* A result that counts was accepted, so it is of a response that was read to
\* its end and has what that response says.
LEMMA RunKeepsMeasures ==
    ASSUME NEW response \in Responses, NEW end \in 0 .. Len(response.lines),
           BmInv, MeasuresWhatWasSaid, RunOnce(response, end)
    PROVE  MeasuresWhatWasSaid'
  <1> DEFINE lines == response.lines
             item == Schedule(settings)[done + 1]
             run == RunOf(lines, end)
             result == [mode |-> item.mode, workload |-> item.workload,
                        repeat |-> item.repeat, body |-> Body(item),
                        ttft |-> run.ttft, elapsed |-> run.at,
                        output |-> [content |-> run.content, calls |-> run.calls],
                        says |-> response.says]
  <1>1. \/ measured' = measured
        \/ /\ Accepted(run, settings.cache_prompt)
           /\ measured' = Append(measured, result)
    BY DEF RunOnce
  <1>2. CASE measured' = measured
    BY <1>2 DEF MeasuresWhatWasSaid
  <1>3. CASE /\ Accepted(run, settings.cache_prompt)
             /\ measured' = Append(measured, result)
    <2>1. /\ result.ttft = run.ttft /\ result.elapsed = run.at
          /\ result.output = [content |-> run.content, calls |-> run.calls]
          /\ result.says = Meaning(lines)
      BY MeaningAssumption
    <2> HIDE DEF item, result
    <2>2. run.done /\ ~run.failed /\ run.ttft > 0
      BY <1>3 DEF Accepted
    <2>3. Typed(lines) /\ end \in 0 .. Len(lines)
      BY ResponsesAreTyped
    <2> HIDE DEF lines
    <2>4. /\ [content |-> run.content, calls |-> run.calls] = Meaning(lines)
          /\ run.ttft < run.at /\ run.ttft \in Nat
      BY <2>2, <2>3, RunIsMeant
    <2> HIDE DEF run
    <2>5. result.output = result.says /\ 0 < result.ttft /\ result.ttft < result.elapsed
      BY <2>1, <2>2, <2>4
    <2>6. ToSet(measured') = ToSet(measured) \cup {result}
      BY <1>3, OneMore DEF BmInv
    <2>7. QED
      BY <2>5, <2>6 DEF MeasuresWhatWasSaid
  <1>4. QED
    BY <1>1, <1>2, <1>3

\* Whatever the server sends, however it splits it and wherever it breaks off:
\* a result that counts has the text and the calls that the server said, all
\* of them, and its first output came before its end.
THEOREM MeasurementsAreWhole == BmSpec => []MeasuresWhatWasSaid
  <1>1. BmInit => BmInv /\ MeasuresWhatWasSaid
    <2> SUFFICES ASSUME BmInit PROVE BmInv /\ MeasuresWhatWasSaid
      OBVIOUS
    <2>1. ToSet(measured) = {}
      BY DEF BmInit, ToSet
    <2>2. QED
      BY <2>1, BenchmarkStarts DEF MeasuresWhatWasSaid
  <1>2. BmInv /\ MeasuresWhatWasSaid /\ [BmNext]_bmVars => (BmInv /\ MeasuresWhatWasSaid)'
    <2>1. SUFFICES ASSUME BmInv, MeasuresWhatWasSaid, [BmNext]_bmVars
                   PROVE  MeasuresWhatWasSaid'
      BY StepKeepsBmInv
    <2>2. CASE \E response \in Responses : \E end \in 0 .. Len(response.lines) :
                  RunOnce(response, end)
      BY <2>1, <2>2, RunKeepsMeasures
    <2>3. CASE Conclude \/ UNCHANGED bmVars
      <3>1. measured' = measured
        BY <2>3 DEF Conclude, bmVars
      <3>2. QED
        BY <2>1, <3>1 DEF MeasuresWhatWasSaid
    <2>4. QED
      BY <2>1, <2>2, <2>3 DEF BmNext
  <1>3. QED
    BY <1>1, <1>2, PTL DEF BmSpec

=============================================================================
