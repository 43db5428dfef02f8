-------------------------- MODULE QualityEvaluator --------------------------
(***************************************************************************)
(* scripts/cluster/evaluate-quality.py: invocations of the quality gate.   *)
(* Each asks the model every selected case once for every seed, plays the  *)
(* expected tool calls from canned results, scores the FINAL line, and may *)
(* compare its report with that of an earlier invocation, which the shell  *)
(* has redirected into a file.                                             *)
(*                                                                         *)
(* One action is one request with all the work up to the next one.  The    *)
(* conversation of a sample is determined by the number of its matched     *)
(* tool steps, so the messages themselves are left out.                    *)
(***************************************************************************)
EXTENDS Integers, Sequences, FiniteSets, SequencesExt, Selection

CONSTANTS
    Options,        \* [ids: the --case options, raw: the value of --seeds];
                    \* no --case option selects the corpus
    Wires,          \* what comes back for a request: a failure or a payload
    MaxInvocations  \* bound: how often the program is started

ASSUME OptionsAssumption ==
    \A o \in Options : o.ids \in Seq(STRING) /\ o.raw \in Seq(Int)

VARIABLES
    inv,        \* the options of the current invocation
    phase,      \* "off", "asking" or "over"
    code,       \* exit status of the invocation that is over
    raised,     \* it ended by an exception and printed no report
    results,    \* results of build_report()
    step,       \* matched tool steps of the current sample
    file,       \* the redirected output: a report, nothing or no JSON
    started     \* invocations so far

evVars == <<inv, phase, code, raised, results, step, file, started>>

-----------------------------------------------------------------------------
(* The corpus and the options.                                             *)

Corpus ==
    LET Case(category, steps, ids) ==
            [i \in DOMAIN ids |-> [id |-> ids[i], category |-> category, steps |-> steps]]
    IN Case("reasoning", 0, <<"reasoning_crt", "reasoning_bayes", "reasoning_order",
            "reasoning_momentum", "reasoning_experiment",
            "reasoning_integer_area_triangles", "reasoning_five_house_grid">>)
       \o Case("coding", 0, <<"coding_trace", "coding_bug_line">>)
       \o Case("instruction", 0, <<"instruction_transform">>)
       \o Case("calibration", 0,
            <<"calibration_missing_attribute", "calibration_conflicting_sensors">>)
       \o Case("tool_use", 1, <<"tool_exchange_grounding", "tool_availability_grounding">>)
       \o Case("long_context", 0, <<"long_two_hop_archive", "long_distributed_ledger">>)

NumericCases == {"reasoning_momentum"}     \* their score_kind is "numeric"
PROTECTED_CATEGORIES == {"calibration", "long_context"}
CaseOf(id) == CHOOSE c \in ToSet(Corpus) : c.id = id

\* Options keep the order of their first occurrences.
Unique(s) == Picked(s, {i \in DOMAIN s : \A j \in 1 .. i - 1 : s[j] # s[i]})

ParseSeeds(raw) == Unique(raw)
SeedsAllowed(raw) ==
    /\ \A i \in DOMAIN raw : -2147483647 - 1 <= raw[i] /\ raw[i] <= 2147483647
    /\ Len(ParseSeeds(raw)) \in 1 .. 8

SelectCases(ids) ==
    IF ids = <<>> THEN [i \in DOMAIN Corpus |-> Corpus[i].id] ELSE Unique(ids)
Known(ids) == ToSet(ids) \subseteq {c.id : c \in ToSet(Corpus)}

-----------------------------------------------------------------------------
(* One request.                                                            *)

\* What request_chat() turns into an EvaluationError ...
TransportErrors == {"http_error", "unreachable", "timeout", "not_json_type",
                    "too_large", "invalid_json"}
\* ... and what it does not: a connection that breaks after the request was
\* sent is an http.client or OS error, which urllib hands on unwrapped.
Uncaught == {"dropped"}

\* _parse_chat_response(): one choice with a message, a finish reason, texts,
\* call objects and token counts of the right types.
ContractKept(payload) ==
    payload.choices = 1 /\ payload.finish # "" /\ payload.typed

\* A response, or the kind of exception raised instead.
RequestChat(wire) ==
    CASE wire.kind \in Uncaught -> [kind |-> "crash"]
      [] wire.kind \in TransportErrors -> [kind |-> "error"]
      [] wire.kind = "payload" -> IF ContractKept(wire) THEN wire ELSE [kind |-> "error"]

-----------------------------------------------------------------------------
(* The sample in progress.                                                 *)

Pairs(seeds, cases) ==
    [n \in 1 .. Len(seeds) * Len(cases) |->
        [seed |-> seeds[((n - 1) \div Len(cases)) + 1],
         case |-> CaseOf(cases[((n - 1) % Len(cases)) + 1])]]
Samples == Pairs(inv.seeds, inv.cases)
Sample == Samples[Len(results) + 1]
Asking == phase = "asking" /\ Len(results) < Len(Samples)

\* The last round of a case: no call, not cut off, and the answer after the
\* last FINAL marker equals an expected one.
FinalStatus(reply) ==
    IF reply.calls # <<>> \/ reply.finish = "length" THEN "protocol_error"
    ELSE IF reply.final = "right" THEN "pass" ELSE "wrong_answer"

\* What score_answer() and _case_result() let escape.  A lone surrogate of
\* JSON has no UTF-8: it is in the output to be hashed, or in the next request.
\* NaN is a Decimal, but to compare it raises InvalidOperation.
Escapes(reply) ==
    /\ reply.kind = "payload"
    /\ \/ reply.lone
       \/ /\ step = Sample.case.steps /\ Sample.case.id \in NumericCases
          /\ reply.calls = <<>> /\ reply.finish # "length" /\ reply.final = "NaN"

\* A round in which a tool step is expected: "matched", or the sample's end.
StepStatus(reply) ==
    IF Len(reply.calls) # 1 THEN "request_error"
    ELSE CASE reply.calls[1] = "malformed" -> "request_error"
           [] reply.calls[1] = "expected" -> "matched"
           [] OTHER -> "protocol_error"

RoundStatus(reply) ==
    IF reply.kind # "payload" THEN "request_error"
    ELSE IF step < Sample.case.steps THEN StepStatus(reply)
    ELSE FinalStatus(reply)

Result(status) ==
    [case |-> Sample.case.id, category |-> Sample.case.category,
     seed |-> Sample.seed, status |-> status]

-----------------------------------------------------------------------------
(* Reports and their comparison.                                           *)

Passed(rs) == {i \in DOMAIN rs : rs[i].status = "pass"}
InCategory(rs, category) == {i \in DOMAIN rs : rs[i].category = category}
\* summarize(): the counts its callers read.
Summary(rs) ==
    [passed |-> Cardinality(Passed(rs)),
     request_errors |-> Cardinality({i \in DOMAIN rs : rs[i].status = "request_error"}),
     categories |-> [c \in {rs[i].category : i \in DOMAIN rs} |->
                        Cardinality(Passed(rs) \cap InCategory(rs, c))]]

Key(result) == <<result.case, result.seed>>
Keys(report) == {Key(r) : r \in ToSet(report.results)}
\* _result_map() refuses a report that repeats a key.
Repeats(report) == Cardinality(Keys(report)) # Len(report.results)

\* slip: samples are paired whatever the reports are about.
ComparableAnyway(base, cand) == ~Repeats(base) /\ ~Repeats(cand)
\* What compare_reports() demands before and after pairing.
Comparable(base, cand) ==
    /\ base.selection = cand.selection
    /\ ~Repeats(base) /\ ~Repeats(cand)
    /\ Keys(base) = Keys(cand)
    /\ Summary(base.results).request_errors = 0
    /\ Summary(cand.results).request_errors = 0

CategoryDelta(base, cand, c) ==
    LET In(summary) == IF c \in DOMAIN summary.categories THEN summary.categories[c] ELSE 0
    IN In(Summary(cand.results)) - In(Summary(base.results))
DeltaPassed(base, cand) == Summary(cand.results).passed - Summary(base.results).passed

\* slip: only the total counts.
RegressedInTotal(base, cand) == DeltaPassed(base, cand) < 0
Regressed(base, cand) ==
    \/ DeltaPassed(base, cand) < 0
    \/ \E c \in PROTECTED_CATEGORIES : CategoryDelta(base, cand, c) < 0

ExitCode(base, cand) ==
    IF Summary(cand.results).request_errors > 0 THEN 1
    ELSE IF inv.compare /\ inv.gate /\ Regressed(base, cand) THEN 2 ELSE 0

-----------------------------------------------------------------------------
(* Actions.                                                                *)

EvInit ==
    /\ inv = [cases |-> <<>>, seeds |-> <<>>, compare |-> FALSE, gate |-> FALSE]
    /\ phase = "off" /\ code = 0 /\ raised = FALSE
    /\ results = <<>> /\ step = 0
    /\ file = [kind |-> "none"] /\ started = 0

\* A new invocation.  Without --compare its output goes to the baseline file,
\* which the shell empties at once.
Invoke ==
    /\ phase # "asking" /\ started < MaxInvocations
    /\ started' = started + 1
    /\ \E options \in Options, compare, gate \in BOOLEAN :
          LET ids == options.ids  raw == options.raw IN
          /\ gate => compare     \* --fail-on-regression alone has no effect
          /\ inv' = [cases |-> IF Known(ids) THEN SelectCases(ids) ELSE <<>>,
                     seeds |-> ParseSeeds(raw), compare |-> compare,
                     gate |-> gate]
          /\ IF Known(ids) /\ SeedsAllowed(raw)
             THEN phase' = "asking" /\ raised' = FALSE /\ code' = 0
             ELSE phase' = "over" /\ raised' = TRUE
                  /\ code' = IF SeedsAllowed(raw) THEN 1 ELSE 2
          /\ file' = IF compare THEN file ELSE [kind |-> "broken"]
    /\ results' = <<>> /\ step' = 0

\* The next request of run_case() and what follows from its reply.
Ask(wire) ==
    /\ Asking
    /\ LET reply == RequestChat(wire)
           status == RoundStatus(reply)
       IN IF reply.kind = "crash" \/ Escapes(reply)
          THEN /\ phase' = "over" /\ raised' = TRUE /\ code' = 1
               /\ UNCHANGED <<results, step>>
          ELSE /\ UNCHANGED <<phase, raised, code>>
               /\ IF status = "matched"
                  THEN step' = step + 1 /\ UNCHANGED results
                  ELSE step' = 0 /\ results' = Append(results, Result(status))
    /\ UNCHANGED <<inv, file, started>>

\* Every sample is in: main() compares, prints the report and exits.
Report ==
    /\ phase = "asking" /\ ~Asking
    /\ phase' = "over"
    /\ LET report == [kind |-> "report", selection |-> inv.cases, results |-> results]
           fails == inv.compare
                    /\ (file.kind # "report" \/ ~Comparable(file, report))
       IN /\ raised' = fails
          /\ code' = IF fails THEN 1 ELSE ExitCode(file, report)
          /\ file' = IF inv.compare THEN file ELSE report
    /\ UNCHANGED <<inv, results, step, started>>

EvNext == Invoke \/ (\E wire \in Wires : Ask(wire)) \/ Report

EvSpec == EvInit /\ [][EvNext]_evVars

-----------------------------------------------------------------------------
(* Properties.                                                             *)

\* Every variable has its type.
EvTypeOK ==
    /\ phase \in {"off", "asking", "over"} /\ code \in 0 .. 2 /\ raised \in BOOLEAN
    /\ step \in 0 .. 1
    /\ \A i \in DOMAIN results :
          results[i].status \in {"pass", "wrong_answer", "protocol_error", "request_error"}

Passes(rs, keep) == {Key(rs[i]) : i \in {j \in DOMAIN rs : rs[j].status = "pass"
                                            /\ rs[j].category \in keep}}

\* Exit status 0 of a gated comparison means what an operator takes it for:
\* both runs answered the same samples without a failed request, and the new
\* one passes no fewer of them, in total and in each protected category.
GateIsSound ==
    (phase = "over" /\ ~raised /\ inv.gate /\ code = 0) =>
        /\ {Key(r) : r \in ToSet(file.results)} = {Key(r) : r \in ToSet(results)}
        /\ \A r \in ToSet(file.results) \cup ToSet(results) : r.status # "request_error"
        /\ \A keep \in {{c} : c \in PROTECTED_CATEGORIES}
                       \cup {{c.category : c \in ToSet(Corpus)}} :
              Cardinality(Passes(results, keep)) >= Cardinality(Passes(file.results, keep))

\* EvaluationError is "a transport or response-contract failure that
\* invalidates a sample" (the docstring of the class): whatever the server
\* does, the other samples are asked and reported.
FailureStaysInSample ==
    (phase = "over" /\ inv.cases # <<>> /\ inv.seeds # <<>>) => Len(results) = Len(Samples)

=============================================================================
