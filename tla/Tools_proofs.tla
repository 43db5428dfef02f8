----------------------------- MODULE Tools_proofs -----------------------------
(***************************************************************************)
(* Proofs about the tools of the browser chat.                             *)
(*                                                                         *)
(* The loop, for every set of answers the model may give and every limit:  *)
(* the work of a chat is bounded, its preview is its answer, its tools end *)
(* with it, and every request it sends is well formed.                     *)
(*                                                                         *)
(* One call, for any URLs, name service and services: it contacts only     *)
(* what was checked, and cites what it read.                               *)
(***************************************************************************)
EXTENDS ToolLoop, LiveTools, Selection_proofs, SequenceTheorems

-----------------------------------------------------------------------------
(* Helpers.                                                                *)

\* The smaller of two numbers is one of them and at most the other.
LEMMA LeastIs ==
    ASSUME NEW a \in Int, NEW b \in Int
    PROVE  /\ Least(a, b) \in {a, b}
           /\ Least(a, b) <= a /\ Least(a, b) <= b
  BY DEF Least

\* The limits, one by one.
LEMMA Limits ==
    /\ MaxToolRounds \in Nat /\ MaxToolRounds >= 1
    /\ MaxToolCalls \in Nat /\ MaxToolCalls >= 1
    /\ ToolParallelism \in Nat /\ ToolParallelism >= 1
    /\ MaxChars \in Nat /\ MaxSaid \in Nat
  <1>1. /\ MaxToolRounds \in Nat \ {0} /\ MaxToolCalls \in Nat \ {0}
        /\ ToolParallelism \in Nat \ {0}
    <2>1. {MaxToolRounds, MaxToolCalls, ToolParallelism} \subseteq Nat \ {0}
      BY LimitAssumption
    <2>2. QED
      BY ONLY <2>1, Zenon
  <1>2. QED
    BY <1>1, LimitAssumption

\* What is executed of an answer fits the budget that is left.
LEMMA ParsedFits ==
    ASSUME NEW raw \in RawCalls, executed \in Nat, executed <= MaxToolCalls
    PROVE  /\ ParsedCalls(raw) \in Seq([id : RawIds, ok : BOOLEAN])
           /\ Len(ParsedCalls(raw)) \in 0 .. Remaining
  <1> DEFINE Call == [id : RawIds, ok : BOOLEAN]
             n == Least(Len(raw), Remaining)
             first == SubSeq(raw, 1, n)
             kept == {i \in DOMAIN first : first[i].ok}
  <1>1. raw \in Seq(Call) /\ Remaining \in Nat
    <2>1. raw \in Seq(Call)
      BY RawCallsAssumption
    <2>2. Remaining \in Nat
      BY Limits DEF Remaining
    <2>3. QED
      BY <2>1, <2>2
  <1>2. Len(raw) \in Nat
    BY <1>1
  <1>3. n \in 0 .. Len(raw) /\ n <= Remaining
    BY <1>1, <1>2, LeastIs
  <1> HIDE DEF n, Call
  <1>4. first \in Seq(Call) /\ Len(first) = n
    BY <1>1, <1>2, <1>3
  <1> HIDE DEF first
  <1>5. kept \in SUBSET (DOMAIN first)
    OBVIOUS
  <1> HIDE DEF kept
  <1>6. /\ Picked(first, kept) \in Seq(Call)
        /\ Len(Picked(first, kept)) \in 0 .. n
    BY <1>4, <1>5, PickedIsSeq
  <1>7. ParsedCalls(raw) = Picked(first, kept)
    BY DEF ParsedCalls, Accepted, first, kept, n
  <1>8. QED
    BY <1>1, <1>3, <1>6, <1>7 DEF Call

-----------------------------------------------------------------------------
(* Types.  They rest on when the tools are withdrawn: the rounds cannot go *)
(* on past the one after the last.                                         *)

Roles    == {"user", "assistant", "tool"}
Messages == [role : Roles, ids : Seq(RawIds), thought : BOOLEAN]

\* The last message of the conversation asked for the tools that are out.
Asked ==
    LET m == conversation[Len(conversation)]
    IN Asks(m) /\ Len(m.ids) = Len(tools)

\* TypeOK with the whole type of a message, one request for each round, and
\* tools that are out only while they were offered and asked for.
TypeInv ==
    /\ TypeOK
    /\ calls = round
    /\ conversation \in Seq(Messages) /\ conversation # <<>>
    /\ place = "asking" => tools = <<>>
    /\ place = "tools" => toolsEnabled /\ ~final /\ Asked
    /\ round > Rounds => final

\* A message of a conversation is one.
LEMMA MessageAt ==
    ASSUME NEW s \in Seq(Messages), NEW i \in DOMAIN s
    PROVE  s[i] \in Messages /\ s[i].role \in Roles /\ s[i].ids \in Seq(RawIds)
  <1>1. s[i] \in Messages
    OBVIOUS
  <1>2. QED
    BY <1>1 DEF Messages

\* The first request is in order.
LEMMA InitTypes == Init => TypeInv
  <1> SUFFICES ASSUME Init PROVE TypeInv
    OBVIOUS
  <1> DEFINE first == Message("user", <<>>, FALSE)
  <1>1. Rounds \in Nat /\ Rounds >= 1
    BY Limits DEF Rounds, Init
  <1>2. first \in Messages
    BY DEF Message, Messages, Roles
  <1>3. conversation = <<first>>
    BY DEF Init
  <1> HIDE DEF first
  <1>4. conversation \in Seq(Messages) /\ conversation # <<>>
    BY <1>2, <1>3
  <1>5. \A i \in DOMAIN conversation : conversation[i].role \in Roles
    BY <1>4, MessageAt
  <1>6. shown \in Seq(1 .. calls) /\ tools \in Seq(ToolStates)
    BY DEF Init
  <1>7. /\ round \in 1 .. Rounds + 1 /\ said \in 0 .. MaxSaid
        /\ streamed \in 0 .. MaxChars /\ reply \in 0 .. MaxChars
    BY <1>1, Limits DEF Init
  <1>8. TypeOK
    BY <1>5, <1>6, <1>7 DEF Init, TypeOK, Roles
  <1>9. ~(round > Rounds) /\ tools = <<>> /\ place # "tools" /\ calls = round
    BY <1>1 DEF Init
  <1>10. QED
    BY <1>4, <1>8, <1>9 DEF TypeInv

\* A run of the same number is a sequence, and two of them in a row are one.
LEMMA Runs ==
    ASSUME NEW a \in Nat, NEW b \in Nat, NEW c
    PROVE  /\ \A S : c \in S => [i \in 1 .. a |-> c] \in Seq(S)
           /\ [i \in 1 .. a |-> c] \o [i \in 1 .. b |-> c] = [i \in 1 .. a + b |-> c]
  OBVIOUS

\* A piece of an answer is shown as far as the cap allows.
LEMMA AllowedFits ==
    ASSUME streamed \in 0 .. MaxChars, NEW k \in Nat
    PROVE  /\ Allowed(k) \in Nat /\ Allowed(k) <= k
           /\ streamed + Allowed(k) = Least(streamed + k, MaxChars)
           /\ streamed + Allowed(k) \in 0 .. MaxChars
  BY Limits DEF Allowed, Least

\* Streaming a piece of the answer keeps the types.
LEMMA DeltaTypes == TypeInv /\ Delta => TypeInv'
  <1> SUFFICES ASSUME TypeInv, Delta PROVE TypeInv'
    OBVIOUS
  <1>1. PICK k \in 1 .. MaxSaid - said :
          LET allowed == Allowed(k) IN
          /\ said' = said + k
          /\ streamed' = streamed + allowed
          /\ streamedAny' = (streamedAny \/ allowed > 0)
          /\ shown' = shown \o [i \in 1 .. allowed |-> calls]
    BY DEF Delta
  <1>2. /\ k \in Nat /\ said \in 0 .. MaxSaid /\ MaxSaid \in Nat
        /\ streamed \in 0 .. MaxChars /\ calls \in Nat /\ shown \in Seq(1 .. calls)
    BY Limits DEF TypeInv, TypeOK
  <1>3. said' \in 0 .. MaxSaid
    BY <1>1, <1>2
  <1>4. streamed' \in 0 .. MaxChars /\ Allowed(k) \in Nat
    BY <1>1, <1>2, AllowedFits
  <1>5. [i \in 1 .. Allowed(k) |-> calls] \in Seq(1 .. calls)
    <2>1. calls \in 1 .. calls
      BY <1>2 DEF TypeInv, TypeOK
    <2>2. QED
      BY <1>4, <2>1, Runs
  <1>6. shown' \in Seq(1 .. calls)
    BY <1>1, <1>2, <1>5, ConcatProperties
  <1>7. streamedAny' \in BOOLEAN
    BY <1>1 DEF TypeInv, TypeOK
  <1>8. UNCHANGED <<mode, place, round, calls, final, thinking, conversation,
                    executed, tools, reply>>
    BY DEF Delta
  <1>9. QED
    BY <1>3, <1>4, <1>6, <1>7, <1>8 DEF TypeInv, TypeOK, Asked, mode, Rounds

\* The end of the chat keeps the types.
LEMMA ConcludeTypes == TypeInv /\ place = "asking" /\ Conclude => TypeInv'
  <1> SUFFICES ASSUME TypeInv, place = "asking", Conclude PROVE TypeInv'
    OBVIOUS
  <1>1. PICK left \in 0 .. said :
          /\ reply' = Least(left, MaxChars)
          /\ place' = IF left = 0 THEN "failed" ELSE "done"
    BY DEF Conclude
  <1>2. said \in 0 .. MaxSaid
    BY DEF TypeInv, TypeOK
  <1>3. reply' \in 0 .. MaxChars
    BY <1>1, <1>2, Limits DEF Least
  <1>4. place' \in {"done", "failed"}
    BY <1>1
  <1>5. UNCHANGED <<mode, round, calls, final, answerVars, conversation,
                    executed, tools>>
    BY DEF Conclude
  <1>6. QED
    BY <1>3, <1>4, <1>5 DEF TypeInv, TypeOK, mode, answerVars, Rounds

\* An answer with calls joins the conversation as a message of the assistant.
LEMMA AnswerCallsTypes ==
    ASSUME TypeInv, executed <= MaxToolCalls, AnswerCalls
    PROVE  TypeInv'
  <1>1. PICK raw \in RawCalls :
          LET parsed == ParsedCalls(raw)
              ids == [i \in DOMAIN parsed |-> parsed[i].id] IN
          /\ parsed # <<>>
          /\ conversation' = Append(conversation,
                               Message("assistant", ids, reasoning /\ thinking))
          /\ executed' = executed + Len(parsed)
          /\ tools' = [i \in DOMAIN parsed |-> "waiting"]
    BY DEF AnswerCalls
  <1> DEFINE parsed == ParsedCalls(raw)
             ids == [i \in DOMAIN parsed |-> parsed[i].id]
             m == Message("assistant", ids, reasoning /\ thinking)
  <1>2. parsed \in Seq([id : RawIds, ok : BOOLEAN]) /\ Len(parsed) \in Nat
    <2>1. executed \in Nat
      BY DEF TypeInv, TypeOK
    <2>2. parsed \in Seq([id : RawIds, ok : BOOLEAN])
      BY <2>1, ParsedFits
    <2>3. QED
      BY <2>2
  <1>3. ids \in Seq(RawIds) /\ DOMAIN parsed = 1 .. Len(parsed)
    <2> DEFINE Call == [id : RawIds, ok : BOOLEAN]
    <2>1. parsed \in Seq(Call) /\ \A c \in Call : c.id \in RawIds
      BY <1>2
    <2> HIDE DEF Call, parsed
    <2>2. \A i \in 1 .. Len(parsed) : parsed[i].id \in RawIds
      BY <2>1
    <2>3. DOMAIN parsed = 1 .. Len(parsed)
      BY <1>2
    <2>4. QED
      BY <1>2, <2>2, <2>3
  <1>4. m \in Messages
    BY <1>3 DEF Message, Messages, Roles
  <1>5. tools' \in Seq(ToolStates)
    BY <1>1, <1>2, <1>3 DEF ToolStates
  <1>6. executed' \in Nat
    BY <1>1, <1>2 DEF TypeInv, TypeOK
  <1> HIDE DEF m
  <1>7. conversation' = Append(conversation, m)
    BY <1>1 DEF m
  <1>8. conversation' \in Seq(Messages) /\ conversation' # <<>>
    BY <1>4, <1>7 DEF TypeInv
  <1>9. \A i \in DOMAIN conversation' : conversation'[i].role \in Roles
    BY <1>8, MessageAt
  <1>10. /\ place' = "tools" /\ ~final /\ toolsEnabled
         /\ UNCHANGED <<mode, round, calls, final, answerVars, reply>>
    BY DEF AnswerCalls
  <1>11. Asked'
    <2>1. m.role = "assistant" /\ m.ids = ids
      BY DEF m, Message
    <2>2. conversation'[Len(conversation')] = m
      BY <1>4, <1>7 DEF TypeInv
    <2>3. Len(ids) = Len(parsed) /\ Len(tools') = Len(parsed) /\ ids # <<>>
      <3>1. parsed # <<>>
        BY <1>1
      <3>2. QED
        BY <1>1, <1>2, <1>3, <3>1
    <2>4. QED
      BY <2>1, <2>2, <2>3 DEF Asked, Asks
  <1>12. QED
    BY <1>5, <1>6, <1>8, <1>9, <1>10, <1>11
    DEF TypeInv, TypeOK, Roles, mode, answerVars, Rounds

\* A tool that starts, ends or crashes changes its own state only.
LEMMA ToolMoves ==
    ASSUME TypeInv, NEW i \in DOMAIN tools, NEW state \in ToolStates,
           tools' = [tools EXCEPT ![i] = state],
           UNCHANGED <<mode, round, calls, final, answerVars, conversation,
                       executed, reply>>,
           place' = place \/ (place = "tools" /\ place' = "failed")
    PROVE  TypeInv'
  <1>1. tools' \in Seq(ToolStates) /\ place # "asking" /\ place' # "asking"
    BY DEF TypeInv, TypeOK
  <1>2. Len(tools') = Len(tools)
    BY DEF TypeInv, TypeOK
  <1>3. QED
    BY <1>1, <1>2 DEF TypeInv, TypeOK, Asked, mode, answerVars, Rounds

\* The results join the conversation as messages of tools.
LEMMA ResultsAreMessages ==
    ASSUME TypeInv, NEW ids \in Seq(RawIds), Len(ids) = Len(tools)
    PROVE  [i \in DOMAIN tools |-> Message("tool", <<ids[i]>>, FALSE)] \in Seq(Messages)
  <1> DEFINE n == Len(tools)
  <1>1. DOMAIN tools = 1 .. n /\ n \in Nat
    BY DEF TypeInv, TypeOK
  <1>2. ASSUME NEW i \in 1 .. n PROVE Message("tool", <<ids[i]>>, FALSE) \in Messages
    <2>1. ids[i] \in RawIds
      BY <1>1
    <2>2. <<ids[i]>> \in Seq(RawIds)
      BY <2>1
    <2>3. QED
      BY <2>2 DEF Message, Messages, Roles
  <1> HIDE DEF n
  <1> DEFINE f == [i \in 1 .. n |-> Message("tool", <<ids[i]>>, FALSE)]
  <1>3. f \in [1 .. n -> Messages]
    BY <1>2
  <1> HIDE DEF f
  <1>4. f \in Seq(Messages)
    BY <1>1, <1>3
  <1>5. QED
    BY <1>1, <1>4 DEF f

\* The next request keeps the types: it may be the one after the last round.
LEMMA GatherTypes == TypeInv /\ Gather => TypeInv'
  <1> SUFFICES ASSUME TypeInv, Gather PROVE TypeInv'
    OBVIOUS
  <1> DEFINE ids == conversation[Len(conversation)].ids
             results == [i \in DOMAIN tools |-> Message("tool", <<ids[i]>>, FALSE)]
  <1>1. place = "tools" /\ ~final /\ Asked /\ round <= Rounds
    <2>1. place = "tools"
      BY DEF Gather
    <2>2. round \in 1 .. Rounds + 1 /\ ~(round > Rounds) /\ Rounds \in Nat
      BY <2>1, Limits DEF TypeInv, TypeOK, Rounds
    <2>3. QED
      BY <2>1, <2>2 DEF TypeInv
  <1>2. ids \in Seq(RawIds) /\ Len(ids) = Len(tools)
    <2>1. Len(conversation) \in DOMAIN conversation
      BY DEF TypeInv
    <2>2. QED
      BY <1>1, <2>1, MessageAt DEF TypeInv, Asked
  <1> HIDE DEF ids
  <1>3. results \in Seq(Messages)
    BY <1>2, ResultsAreMessages
  <1> HIDE DEF results
  <1>4. conversation' = conversation \o results
    BY DEF Gather, results, ids
  <1>5. conversation' \in Seq(Messages) /\ conversation' # <<>>
    BY <1>3, <1>4 DEF TypeInv
  <1>6. \A i \in DOMAIN conversation' : conversation'[i].role \in Roles
    BY <1>5, MessageAt
  <1>7. /\ tools' = <<>> /\ place' = "asking" /\ calls' = calls + 1
        /\ round' = round + 1 /\ said' = 0 /\ thinking' = FALSE
        /\ final' = (round' > Rounds \/ (toolsEnabled /\ executed >= MaxToolCalls))
        /\ BeginRound
        /\ UNCHANGED <<mode, executed, reply>>
    BY DEF Gather, Ask
  <1>8. streamed' \in 0 .. MaxChars /\ streamedAny' \in BOOLEAN
        /\ shown' \in Seq(1 .. calls')
    <2>1. CASE streamedAny
      <3>1. streamed' = 0 /\ streamedAny' = FALSE /\ shown' = <<>>
        BY <1>7, <2>1 DEF BeginRound
      <3>2. 0 \in 0 .. MaxChars
        BY Limits
      <3>3. <<>> \in Seq(1 .. calls')
        BY EmptySeq
      <3>4. QED
        BY <3>1, <3>2, <3>3
    <2>2. CASE ~streamedAny
      <3>1. UNCHANGED <<streamed, streamedAny, shown>>
        BY <1>7, <2>2 DEF BeginRound
      <3>2. shown \in Seq(1 .. calls) /\ calls \in Nat
        BY DEF TypeInv, TypeOK
      <3>3. 1 .. calls \subseteq 1 .. calls'
        BY <1>7, <3>2
      <3>4. shown \in Seq(1 .. calls')
        BY <3>2, <3>3, SeqMonotonic
      <3>5. QED
        BY <3>1, <3>4 DEF TypeInv, TypeOK
    <2>3. QED
      BY <2>1, <2>2
  <1>9. /\ Rounds' = Rounds /\ Rounds \in Nat /\ round' \in 1 .. Rounds + 1
        /\ said' \in 0 .. MaxSaid /\ calls' = round' /\ calls' \in Nat
    BY <1>1, <1>7, Limits DEF TypeInv, TypeOK, Rounds, mode
  <1>10. round' > Rounds' => final'
    BY <1>7, <1>9
  <1>11. final' \in BOOLEAN
    BY <1>7
  <1>12. tools' \in Seq(ToolStates)
    BY <1>7
  <1>13. TypeOK'
    BY <1>6, <1>7, <1>8, <1>9, <1>11, <1>12 DEF TypeInv, TypeOK, Roles, mode
  <1>14. QED
    BY <1>5, <1>7, <1>9, <1>10, <1>13 DEF TypeInv

\* Every step keeps the types.
LEMMA StepKeepsTypes ==
    ASSUME TypeInv, executed <= MaxToolCalls, [Next]_vars
    PROVE  TypeInv'
  <1>1. CASE Delta
    BY <1>1, DeltaTypes
  <1>2. CASE Think
    BY <1>2 DEF Think, TypeInv, TypeOK, Asked, mode, Rounds
  <1>3. CASE Answer
    BY <1>3, ConcludeTypes DEF Answer
  <1>4. CASE AnswerCalls
    BY <1>4, AnswerCallsTypes
  <1>5. CASE ToolStarts
    BY <1>5, ToolMoves DEF ToolStarts, ToolStates
  <1>6. CASE ToolEnds
    BY <1>6, ToolMoves DEF ToolEnds, ToolStates, Running
  <1>7. CASE ToolCrashes
    BY <1>7, ToolMoves DEF ToolCrashes, ToolStates, Running
  <1>8. CASE Gather
    BY <1>8, GatherTypes
  <1>9. CASE Interrupted
    <2>1. tools' \in Seq(ToolStates)
      <3>1. /\ tools \in Seq(ToolStates)
            /\ tools' = [i \in DOMAIN tools |->
                           IF tools[i] = "crashed" THEN "crashed" ELSE "over"]
        BY <1>9 DEF Interrupted, TypeInv, TypeOK
      <3>2. DOMAIN tools = 1 .. Len(tools) /\ Len(tools) \in Nat
        BY <3>1
      <3>3. QED
        BY <3>1, <3>2 DEF ToolStates
    <2>2. QED
      BY <1>9, <2>1 DEF Interrupted, TypeInv, TypeOK, mode, answerVars, Rounds
  <1>10. CASE UNCHANGED vars \/ Returned
    BY <1>10 DEF vars, Returned, TypeInv, TypeOK, Asked, Rounds
  <1>11. QED
    BY <1>1, <1>2, <1>3, <1>4, <1>5, <1>6, <1>7, <1>8, <1>9, <1>10 DEF Next

-----------------------------------------------------------------------------
(* The work of a chat is bounded.  Each round that asks for tools executes *)
(* at least one call, so the call budget bounds the rounds as well.        *)

WorkInv ==
    /\ TypeInv
    /\ executed <= MaxToolCalls
    /\ round <= executed + 1
    /\ place = "tools" => round <= executed
    /\ Cardinality(Running) <= ToolParallelism

\* There are finitely many tools at any time.
LEMMA ToolsFinite ==
    ASSUME TypeInv, NEW S \in SUBSET (DOMAIN tools)
    PROVE  IsFiniteSet(S) /\ Cardinality(S) \in Nat
  <1>1. DOMAIN tools = 1 .. Len(tools) /\ Len(tools) \in Nat
    BY DEF TypeInv, TypeOK
  <1>2. QED
    BY <1>1, KeptFinite

\* A tool takes a free slot.
LEMMA StartKeepsParallelism ==
    ASSUME TypeInv, ToolStarts
    PROVE  Cardinality(Running') <= ToolParallelism
  <1>1. PICK i \in DOMAIN tools : tools' = [tools EXCEPT ![i] = "running"]
    BY DEF ToolStarts
  <1>2. Running' = Running \cup {i}
    BY <1>1 DEF Running
  <1>3. IsFiniteSet(Running) /\ Cardinality(Running) \in Nat
    BY ToolsFinite DEF Running
  <1>4. Cardinality(Running') <= Cardinality(Running) + 1
    BY <1>2, <1>3, FS_AddElement
  <1>5. Cardinality(Running) < ToolParallelism
    BY DEF ToolStarts, SlotsTaken
  <1>6. IsFiniteSet(Running') /\ Cardinality(Running') \in Nat
    BY <1>2, <1>3, FS_AddElement, FS_CardinalityType
  <1>7. QED
    BY <1>3, <1>4, <1>5, <1>6, Limits

\* No other step makes more tools run.
LEMMA FewerRunning ==
    ASSUME WorkInv, Running' \subseteq Running
    PROVE  Cardinality(Running') <= ToolParallelism
  <1>1. IsFiniteSet(Running) /\ Cardinality(Running) \in Nat
    BY ToolsFinite DEF WorkInv, Running
  <1>2. Cardinality(Running') <= Cardinality(Running) /\ IsFiniteSet(Running')
    BY <1>1, FS_Subset
  <1>3. Cardinality(Running') \in Nat
    BY <1>2, FS_CardinalityType
  <1>4. QED
    BY <1>1, <1>2, <1>3, Limits DEF WorkInv

\* A step that asks for nothing and starts nothing keeps the bounds.
LEMMA WorkKept ==
    ASSUME WorkInv, TypeInv', UNCHANGED <<executed, round>>,
           Running' \subseteq Running, place' = "tools" => place = "tools"
    PROVE  WorkInv'
  BY FewerRunning DEF WorkInv

\* Every step keeps the bounds.
LEMMA StepKeepsWork ==
    ASSUME WorkInv, [Next]_vars
    PROVE  WorkInv'
  <1>1. TypeInv'
    BY StepKeepsTypes DEF WorkInv
  <1>2. CASE Delta
    BY <1>1, <1>2, WorkKept DEF Delta, Running
  <1>3. CASE Think
    BY <1>1, <1>3, WorkKept DEF Think, Running
  <1>4. CASE Answer
    <2>1. UNCHANGED <<executed, round, tools>> /\ place' # "tools"
      BY <1>4 DEF Answer, Conclude
    <2>2. QED
      BY <1>1, <2>1, WorkKept DEF Running
  <1>5. CASE AnswerCalls
    <2>1. PICK raw \in RawCalls :
             /\ ParsedCalls(raw) # <<>>
             /\ executed' = executed + Len(ParsedCalls(raw))
             /\ tools' = [i \in DOMAIN ParsedCalls(raw) |-> "waiting"]
      BY <1>5 DEF AnswerCalls
    <2>2. executed \in Nat /\ round \in Nat /\ round' = round
      BY <1>5 DEF WorkInv, TypeInv, TypeOK, AnswerCalls
    <2>3. /\ ParsedCalls(raw) \in Seq([id : RawIds, ok : BOOLEAN])
          /\ Len(ParsedCalls(raw)) \in 0 .. Remaining
      BY <2>2, ParsedFits DEF WorkInv
    <2>4. Len(ParsedCalls(raw)) # 0
      BY <2>1, <2>3
    <2>5. round <= executed' /\ executed' <= MaxToolCalls
      BY <2>1, <2>2, <2>3, <2>4, Limits DEF WorkInv, Remaining
    <2>6. Running' \subseteq Running
      BY <2>1 DEF Running
    <2>7. executed' \in Nat
      BY <1>1 DEF TypeInv, TypeOK
    <2>8. Cardinality(Running') <= ToolParallelism
      BY <2>6, FewerRunning
    <2>9. round' <= executed' /\ round' <= executed' + 1
      <3>1. \A m, n \in Nat : m <= n => m <= n + 1
        OBVIOUS
      <3>2. QED
        BY <2>2, <2>5, <2>7, <3>1
    <2>10. QED
      BY <1>1, <2>5, <2>8, <2>9 DEF WorkInv
  <1>6. CASE ToolStarts
    <2>1. Cardinality(Running') <= ToolParallelism
      BY <1>6, StartKeepsParallelism DEF WorkInv
    <2>2. QED
      BY <1>1, <1>6, <2>1 DEF ToolStarts, WorkInv
  <1>7. CASE ToolEnds \/ ToolCrashes
    <2>1. Running' \subseteq Running /\ UNCHANGED <<executed, round>>
      BY <1>7 DEF ToolEnds, ToolCrashes, Running
    <2>2. place' = "tools" => place = "tools"
      BY <1>7 DEF ToolEnds, ToolCrashes
    <2>3. QED
      BY <1>1, <2>1, <2>2, WorkKept
  <1>8. CASE Gather
    <2>1. /\ place = "tools" /\ place' = "asking" /\ tools' = <<>>
          /\ round' = round + 1 /\ UNCHANGED executed
      BY <1>8 DEF Gather, Ask
    <2>2. Running' \subseteq Running
      BY <2>1 DEF Running
    <2>3. executed \in Nat /\ round \in Nat
      BY DEF WorkInv, TypeInv, TypeOK
    <2>4. QED
      BY <1>1, <2>1, <2>2, <2>3, FewerRunning DEF WorkInv
  <1>9. CASE Interrupted
    <2>1. Running' \subseteq Running /\ UNCHANGED <<executed, round>>
      BY <1>9 DEF Interrupted, Running
    <2>2. place' = "failed"
      BY <1>9 DEF Interrupted
    <2>3. QED
      BY <1>1, <2>1, <2>2, WorkKept
  <1>10. CASE UNCHANGED vars \/ Returned
    BY <1>1, <1>10, WorkKept DEF vars, Returned, Running
  <1>11. QED
    BY <1>2, <1>3, <1>4, <1>5, <1>6, <1>7, <1>8, <1>9, <1>10 DEF Next

\* The bounds hold throughout, and with them the types.
LEMMA WorkInductive == Spec => []WorkInv
  <1>1. Init => WorkInv
    <2> SUFFICES ASSUME Init PROVE WorkInv
      OBVIOUS
    <2>1. TypeInv
      BY InitTypes
    <2>2. Running = {}
      BY DEF Init, Running
    <2>3. Cardinality(Running) <= ToolParallelism
      BY <2>2, FS_EmptySet, Limits
    <2>4. QED
      BY <2>1, <2>3, Limits DEF Init, WorkInv
  <1>2. WorkInv /\ [Next]_vars => WorkInv'
    BY StepKeepsWork
  <1>3. QED
    BY <1>1, <1>2, PTL DEF Spec

\* Every variable has its type, for any calls the model may send.
THEOREM TypeCorrect == Spec => []TypeOK
  <1>1. WorkInv => TypeOK
    BY DEF WorkInv, TypeInv
  <1>2. QED
    BY <1>1, WorkInductive, PTL

\* One chat executes a bounded number of calls, a bounded number of them at a
\* time, and asks the model a bounded number of times, whatever it answers.
THEOREM WorkIsBounded == Spec => []WorkBounded
  <1>1. WorkInv => WorkBounded
    <2> SUFFICES ASSUME WorkInv PROVE WorkBounded
      OBVIOUS
    <2>1. /\ calls = round /\ round \in Nat /\ round <= Rounds + 1
          /\ Rounds \in Nat /\ Rounds <= MaxToolRounds
          /\ executed \in Nat
      BY Limits DEF WorkInv, TypeInv, TypeOK, Rounds
    <2>2. round <= MaxToolRounds + 1 /\ round <= MaxToolCalls + 1
      BY <2>1, Limits DEF WorkInv
    <2>3. calls <= Least(MaxToolRounds, MaxToolCalls) + 1
      BY <2>1, <2>2, Limits DEF Least
    <2>4. QED
      BY <2>3 DEF WorkInv, WorkBounded
  <1>2. QED
    BY <1>1, WorkInductive, PTL

-----------------------------------------------------------------------------
(* The preview.  At any time the browser shows the current answer as far   *)
(* as the cap allows, and streamed_any says whether that is anything.      *)

PreviewInv ==
    /\ streamed = Least(said, MaxChars)
    /\ streamedAny <=> streamed > 0
    /\ shown = [i \in 1 .. streamed |-> calls]

\* The part of a piece that is shown continues the preview up to the cap.
LEMMA DeltaPreview ==
    ASSUME TypeInv, PreviewInv, Delta
    PROVE  PreviewInv'
  <1>1. PICK k \in 1 .. MaxSaid - said :
          /\ said' = said + k
          /\ streamed' = streamed + Allowed(k)
          /\ streamedAny' = (streamedAny \/ Allowed(k) > 0)
          /\ shown' = shown \o [i \in 1 .. Allowed(k) |-> calls]
          /\ calls' = calls
    BY DEF Delta
  <1>2. /\ k \in Nat /\ said \in Nat /\ streamed \in 0 .. MaxChars
        /\ streamed \in Nat
    BY Limits DEF TypeInv, TypeOK
  <1>3. /\ Allowed(k) \in Nat
        /\ streamed + Allowed(k) = Least(streamed + k, MaxChars)
    BY <1>2, AllowedFits
  <1>4. Least(streamed + k, MaxChars) = Least(said + k, MaxChars)
    BY <1>2, Limits DEF PreviewInv, Least
  <1>5. streamed' = Least(said', MaxChars)
    BY <1>1, <1>3, <1>4
  <1>6. streamedAny' <=> streamed' > 0
    <2>1. streamed + Allowed(k) > 0 <=> (streamed > 0 \/ Allowed(k) > 0)
      BY <1>2, <1>3
    <2>2. streamedAny <=> streamed > 0
      BY DEF PreviewInv
    <2>3. QED
      BY <1>1, <2>1, <2>2, Zenon
  <1>7. shown' = [i \in 1 .. streamed' |-> calls']
    <2>1. [i \in 1 .. streamed |-> calls] \o [i \in 1 .. Allowed(k) |-> calls]
            = [i \in 1 .. streamed + Allowed(k) |-> calls]
      BY <1>2, <1>3, Runs
    <2>2. QED
      BY <1>1, <2>1 DEF PreviewInv
  <1>8. QED
    BY <1>5, <1>6, <1>7 DEF PreviewInv

\* A new round starts with an empty preview: begin_round() empties it, or there
\* was nothing in it.
LEMMA GatherPreview ==
    ASSUME TypeInv, PreviewInv, Gather
    PROVE  PreviewInv'
  <1>1. BeginRound /\ said' = 0
    BY DEF Gather, Ask
  <1>2. streamed \in Nat
    BY Limits DEF TypeInv, TypeOK
  <1>3. streamed' = 0 /\ streamedAny' = FALSE /\ shown' = <<>>
    <2>1. CASE streamedAny
      BY <1>1, <2>1 DEF BeginRound
    <2>2. CASE ~streamedAny
      <3>1. streamed = 0 /\ streamedAny = FALSE
        BY <1>2, <2>2 DEF PreviewInv, TypeInv, TypeOK
      <3>2. shown = <<>>
        BY <3>1 DEF PreviewInv
      <3>3. QED
        BY <1>1, <2>2, <3>1, <3>2 DEF BeginRound
    <2>3. QED
      BY <2>1, <2>2
  <1>4. Least(0, MaxChars) = 0
    BY Limits DEF Least
  <1>5. [i \in 1 .. 0 |-> calls'] = <<>>
    OBVIOUS
  <1>6. QED
    BY <1>1, <1>3, <1>4, <1>5 DEF PreviewInv

\* Every step keeps the preview the current answer.
LEMMA StepKeepsPreview ==
    ASSUME TypeInv, PreviewInv, [Next]_vars
    PROVE  PreviewInv'
  <1>1. CASE Delta
    BY <1>1, DeltaPreview
  <1>2. CASE Gather
    BY <1>2, GatherPreview
  <1>3. CASE UNCHANGED <<said, streamed, streamedAny, shown, calls>>
    BY <1>3 DEF PreviewInv
  <1>4. CASE \/ Think \/ Answer \/ AnswerCalls \/ ToolStarts \/ ToolEnds
             \/ ToolCrashes \/ Interrupted \/ Returned \/ UNCHANGED vars
    BY <1>3, <1>4
    DEF Think, Answer, Conclude, AnswerCalls, ToolStarts, ToolEnds, ToolCrashes,
        Interrupted, Returned, vars, answerVars
  <1>5. QED
    BY <1>1, <1>2, <1>4 DEF Next

\* However many rounds went before and whatever they showed, the preview at the
\* end is the last answer up to the cap.
THEOREM PreviewIsTheAnswer == Spec => []PreviewIsAnswer
  <1>1. Init => PreviewInv
    <2> SUFFICES ASSUME Init PROVE PreviewInv
      OBVIOUS
    <2>1. Least(0, MaxChars) = 0
      BY Limits DEF Least
    <2>2. [i \in 1 .. 0 |-> calls] = <<>>
      OBVIOUS
    <2>3. QED
      BY <2>1, <2>2 DEF Init, PreviewInv
  <1>2. WorkInv /\ PreviewInv /\ [Next]_vars => PreviewInv'
    BY StepKeepsPreview DEF WorkInv
  <1>3. PreviewInv => PreviewIsAnswer
    BY DEF PreviewInv, PreviewIsAnswer
  <1>4. QED
    BY <1>1, <1>2, <1>3, WorkInductive, PTL DEF Spec

-----------------------------------------------------------------------------
(* The tools and the end of the chat.                                      *)

\* Every step leaves no tool behind, except where one crashed.
LEMMA StepEndsTools ==
    ASSUME TypeInv, ToolsEndWithChat, [Next]_vars
    PROVE  ToolsEndWithChat'
  <1>1. CASE Delta \/ Think \/ AnswerCalls \/ Gather
    <2>1. place' \in {"asking", "tools"}
      BY <1>1 DEF Delta, Think, AnswerCalls, Gather, Ask
    <2>2. QED
      BY <2>1 DEF ToolsEndWithChat
  <1>2. CASE Answer
    BY <1>2 DEF Answer, Conclude, TypeInv, ToolsEndWithChat
  <1>3. CASE ToolStarts
    <2>1. PICK i \in DOMAIN tools :
             tools[i] = "waiting" /\ tools' = [tools EXCEPT ![i] = "running"]
      BY <1>3 DEF ToolStarts
    <2>2. place' = place
      BY <1>3 DEF ToolStarts
    <2>3. QED
      BY <2>1, <2>2 DEF ToolsEndWithChat
  <1>4. CASE ToolEnds
    <2>1. PICK i \in DOMAIN tools :
             tools[i] = "running" /\ tools' = [tools EXCEPT ![i] = "over"]
      BY <1>4 DEF ToolEnds, Running
    <2>2. place' = place
      BY <1>4 DEF ToolEnds
    <2>3. QED
      BY <2>1, <2>2 DEF ToolsEndWithChat
  <1>5. CASE ToolCrashes
    <2>1. \E i \in DOMAIN tools' : tools'[i] = "crashed"
      BY <1>5 DEF ToolCrashes, Running
    <2>2. QED
      BY <2>1 DEF ToolsEndWithChat
  <1>6. CASE Interrupted
    BY <1>6 DEF Interrupted, ToolsEndWithChat
  <1>7. CASE UNCHANGED vars \/ Returned
    BY <1>7 DEF vars, Returned, ToolsEndWithChat
  <1>8. QED
    BY <1>1, <1>2, <1>3, <1>4, <1>5, <1>6, <1>7 DEF Next

\* A cancellation, a deadline or a failure takes the tools of the chat with it;
\* only a tool that crashes leaves others running.
THEOREM ToolsEndWithTheirChat == Spec => []ToolsEndWithChat
  <1>1. Init => ToolsEndWithChat
    BY DEF Init, ToolsEndWithChat
  <1>2. WorkInv /\ ToolsEndWithChat /\ [Next]_vars => ToolsEndWithChat'
    BY StepEndsTools DEF WorkInv
  <1>3. QED
    BY <1>1, <1>2, WorkInductive, PTL DEF Spec

-----------------------------------------------------------------------------
(* Requests are well paired.  First the conversation itself: while the     *)
(* model is asked, every call in it has its result behind it, in order;    *)
(* while tools are out, all but the last message are like that.            *)

\* The first n messages of c are well paired among themselves.
Paired(c, n) ==
    /\ \A i \in 1 .. n : Asks(c[i]) =>
          \A k \in 1 .. Len(c[i].ids) :
              /\ i + k <= n
              /\ c[i + k].role = "tool"
              /\ c[i + k].ids = <<c[i].ids[k]>>
    /\ \A j \in 1 .. n : c[j].role = "tool" =>
          \E i \in 1 .. j - 1 : Asks(c[i]) /\ j - i <= Len(c[i].ids)

PairInv ==
    /\ place = "asking" => Paired(conversation, Len(conversation))
    /\ place = "tools" => Paired(conversation, Len(conversation) - 1)

\* Only the first n messages matter.
LEMMA PairedPrefix ==
    ASSUME NEW c, NEW d, NEW n \in Nat, \A i \in 1 .. n : d[i] = c[i], Paired(c, n)
    PROVE  Paired(d, n)
  <1>1. ASSUME NEW i \in 1 .. n, Asks(d[i]), NEW k \in 1 .. Len(d[i].ids)
        PROVE  i + k <= n /\ d[i + k].role = "tool" /\ d[i + k].ids = <<d[i].ids[k]>>
    <2>1. /\ d[i] = c[i] /\ i + k <= n /\ c[i + k].role = "tool"
          /\ c[i + k].ids = <<c[i].ids[k]>>
      BY <1>1 DEF Paired
    <2>2. k \in Int /\ k >= 1
      OBVIOUS
    <2>3. i + k \in 1 .. n
      BY <2>1, <2>2
    <2>4. QED
      BY <2>1, <2>3
  <1>2. ASSUME NEW j \in 1 .. n, d[j].role = "tool"
        PROVE  \E i \in 1 .. j - 1 : Asks(d[i]) /\ j - i <= Len(d[i].ids)
    <2>1. PICK i \in 1 .. j - 1 : Asks(c[i]) /\ j - i <= Len(c[i].ids)
      BY <1>2 DEF Paired
    <2>2. d[i] = c[i]
      OBVIOUS
    <2>3. QED
      BY <2>1, <2>2
  <1>3. QED
    BY <1>1, <1>2 DEF Paired

\* An assistant turn followed by one result per call, in order, completes what
\* was paired before it.
LEMMA ResultsPair ==
    ASSUME NEW c \in Seq(Messages), NEW n \in Nat, Len(c) = n + 1,
           Paired(c, n), Asks(c[n + 1]),
           NEW r \in Seq(Messages), Len(r) = Len(c[n + 1].ids),
           \A k \in 1 .. Len(r) : r[k].role = "tool" /\ r[k].ids = <<c[n + 1].ids[k]>>
    PROVE  Paired(c \o r, Len(c \o r))
  <1> DEFINE d == c \o r
             t == Len(r)
  <1>1. /\ t \in Nat /\ d \in Seq(Messages) /\ Len(d) = n + 1 + t
        /\ \A i \in 1 .. n + 1 : d[i] = c[i]
        /\ \A k \in 1 .. t : d[n + 1 + k] = r[k]
    <2>1. t \in Nat
      OBVIOUS
    <2>2. d \in Seq(Messages) /\ Len(d) = n + 1 + t
      <3>1. d \in Seq(Messages) /\ Len(d) = Len(c) + Len(r)
        BY ConcatProperties
      <3>2. QED
        BY <3>1
    <2>3. \A i \in 1 .. n + 1 + t : d[i] = IF i <= n + 1 THEN c[i] ELSE r[i - (n + 1)]
      <3>1. ASSUME NEW i \in 1 .. Len(c) + Len(r)
            PROVE  d[i] = IF i <= Len(c) THEN c[i] ELSE r[i - Len(c)]
        <4>1. c \in Seq(Messages) /\ r \in Seq(Messages)
          OBVIOUS
        <4>2. \A S : \A a, b \in Seq(S) : \A j \in 1 .. Len(a) + Len(b) :
                 (a \o b)[j] = IF j <= Len(a) THEN a[j] ELSE b[j - Len(a)]
          BY ConcatProperties
        <4> HIDE DEF Messages
        <4>3. QED
          BY <4>1, <4>2, Zenon
      <3> HIDE DEF d
      <3>2. QED
        BY <3>1
    <2> HIDE DEF d, t
    <2>4. \A i \in 1 .. n + 1 : d[i] = c[i]
      BY <2>1, <2>3
    <2>5. ASSUME NEW k \in 1 .. t PROVE d[n + 1 + k] = r[k]
      <3>1. n + 1 + k \in 1 .. n + 1 + t /\ ~(n + 1 + k <= n + 1)
            /\ (n + 1 + k) - (n + 1) = k
        BY <2>1
      <3>2. QED
        BY <2>3, <3>1
    <2>6. QED
      BY <2>1, <2>2, <2>4, <2>5
  <1> HIDE DEF d, t
  <1>2. Paired(d, n)
    <2>1. \A i \in 1 .. n : d[i] = c[i]
      BY <1>1
    <2>2. QED
      BY <2>1, PairedPrefix
  <1>3. d[n + 1] = c[n + 1] /\ Len(d[n + 1].ids) = t /\ Asks(d[n + 1])
    <2>1. n + 1 \in 1 .. n + 1
      OBVIOUS
    <2>2. d[n + 1] = c[n + 1]
      BY <1>1, <2>1
    <2>3. QED
      BY <2>2 DEF t
  <1>4. ASSUME NEW k \in 1 .. t
        PROVE  d[n + 1 + k].role = "tool" /\ d[n + 1 + k].ids = <<d[n + 1].ids[k]>>
    BY <1>1, <1>3 DEF t
  <1>5. ASSUME NEW i \in 1 .. n + 1 + t, Asks(d[i]), NEW k \in 1 .. Len(d[i].ids)
        PROVE  i + k <= n + 1 + t /\ d[i + k].role = "tool"
               /\ d[i + k].ids = <<d[i].ids[k]>>
    <2>1. CASE i <= n
      <3>1. i \in 1 .. n
        BY <2>1
      <3>2. i + k <= n /\ d[i + k].role = "tool" /\ d[i + k].ids = <<d[i].ids[k]>>
        BY <1>2, <1>5, <3>1 DEF Paired
      <3>3. QED
        BY <1>1, <3>1, <3>2
    <2>2. CASE i = n + 1
      <3>1. k \in 1 .. t
        BY <1>3, <2>2
      <3>2. i + k <= n + 1 + t
        BY <1>1, <2>2, <3>1
      <3>3. QED
        BY <1>4, <2>2, <3>1, <3>2
    <2>3. CASE i > n + 1
      <3>1. i - (n + 1) \in 1 .. t /\ i = n + 1 + (i - (n + 1))
        BY <1>1, <2>3
      <3>2. d[i].role = "tool"
        BY <1>4, <3>1
      <3>3. QED
        BY <1>5, <3>2 DEF Asks
    <2>4. QED
      BY <2>1, <2>2, <2>3
  <1>6. ASSUME NEW j \in 1 .. n + 1 + t, d[j].role = "tool"
        PROVE  \E i \in 1 .. j - 1 : Asks(d[i]) /\ j - i <= Len(d[i].ids)
    <2>1. CASE j <= n
      <3>1. j \in 1 .. n
        BY <2>1
      <3>2. QED
        BY <1>2, <1>6, <3>1 DEF Paired
    <2>2. CASE j = n + 1
      BY <1>3, <1>6, <2>2 DEF Asks
    <2>3. CASE j > n + 1
      <3>1. n + 1 \in 1 .. j - 1 /\ j - (n + 1) <= t
        BY <1>1, <2>3
      <3>2. QED
        BY <1>3, <3>1
    <2>4. QED
      BY <2>1, <2>2, <2>3
  <1>7. Paired(d, n + 1 + t)
    BY <1>5, <1>6 DEF Paired
  <1>8. QED
    BY <1>1, <1>7 DEF d

\* Every step keeps the conversation paired.
LEMMA StepKeepsPairs ==
    ASSUME TypeInv, PairInv, [Next]_vars
    PROVE  PairInv'
  <1>1. CASE AnswerCalls
    <2>1. PICK m : conversation' = Append(conversation, m)
      BY <1>1 DEF AnswerCalls
    <2>2. place = "asking" /\ place' = "tools"
      BY <1>1 DEF AnswerCalls
    <2>3. /\ Len(conversation) \in Nat /\ Len(conversation') - 1 = Len(conversation)
          /\ \A i \in 1 .. Len(conversation) : conversation'[i] = conversation[i]
      BY <2>1 DEF TypeInv
    <2>4. Paired(conversation', Len(conversation))
      BY <2>2, <2>3, PairedPrefix DEF PairInv
    <2>5. QED
      BY <2>2, <2>3, <2>4 DEF PairInv
  <1>2. CASE Gather
    <2> DEFINE n == Len(conversation) - 1
               ids == conversation[Len(conversation)].ids
               results == [i \in DOMAIN tools |-> Message("tool", <<ids[i]>>, FALSE)]
    <2>1. /\ place = "tools" /\ place' = "asking" /\ Asked
          /\ conversation' = conversation \o results
      BY <1>2 DEF Gather, Ask, TypeInv
    <2>2. /\ n \in Nat /\ Len(conversation) = n + 1 /\ conversation \in Seq(Messages)
          /\ ids = conversation[n + 1].ids
      BY DEF TypeInv
    <2>3. Asks(conversation[n + 1]) /\ Len(ids) = Len(tools) /\ ids \in Seq(RawIds)
      <3>1. Len(conversation) \in DOMAIN conversation
        BY DEF TypeInv
      <3>2. QED
        BY <2>1, <2>2, <3>1, MessageAt DEF Asked
    <2>4. results \in Seq(Messages)
      BY <2>3, ResultsAreMessages
    <2>5. DOMAIN tools = 1 .. Len(tools) /\ Len(tools) \in Nat
      BY DEF TypeInv, TypeOK
    <2>6. /\ Len(results) = Len(ids)
          /\ \A k \in 1 .. Len(results) :
                results[k].role = "tool" /\ results[k].ids = <<ids[k]>>
      BY <2>3, <2>5 DEF Message
    <2>7. Paired(conversation, n)
      BY <2>1 DEF PairInv
    <2> HIDE DEF n, ids, results
    <2>8. Paired(conversation \o results, Len(conversation \o results))
      BY <2>2, <2>3, <2>4, <2>6, <2>7, ResultsPair
    <2>9. QED
      BY <2>1, <2>8 DEF PairInv
  <1>3. CASE \/ Delta \/ Think \/ Answer \/ ToolStarts \/ ToolEnds
             \/ ToolCrashes \/ Interrupted \/ Returned \/ UNCHANGED vars
    <2>1. UNCHANGED conversation /\ (place' \in {"asking", "tools"} => place' = place)
      BY <1>3
      DEF Delta, Think, Answer, Conclude, ToolStarts, ToolEnds, ToolCrashes,
          Interrupted, Returned, vars
    <2>2. QED
      BY <2>1 DEF PairInv
  <1>4. QED
    BY <1>1, <1>2, <1>3 DEF Next

-----------------------------------------------------------------------------
(* _openai_messages() of a paired conversation.  The recursion has a       *)
(* closed form: every turn keeps its ids or gets the local ones, and the   *)
(* pending list is what of the last assistant turn is still unanswered.    *)

\* The ids the assistant turn i goes on the wire with.
LocalIds(c, i) ==
    [k \in 1 .. Len(c[i].ids) |-> IF c[i].ids[k] = NoId THEN <<i, k>> ELSE c[i].ids[k]]

\* Message n is the assistant turn i or one of its results.
BelongsTo(c, n, i) == Asks(c[i]) /\ i <= n /\ n - i <= Len(c[i].ids)

AskerOf(c, n) == CHOOSE i \in 1 .. n : BelongsTo(c, n, i)

OnWire(c, n) ==
    IF Asks(c[n]) THEN [c[n] EXCEPT !.ids = LocalIds(c, n)]
    ELSE IF c[n].role = "tool"
    THEN [c[n] EXCEPT !.ids = <<LocalIds(c, AskerOf(c, n))[n - AskerOf(c, n)]>>]
    ELSE c[n]

StillPending(c, n) ==
    IF \E i \in 1 .. n : BelongsTo(c, n, i)
    THEN LET i == AskerOf(c, n)
         IN SubSeq(LocalIds(c, i), n - i + 1, Len(c[i].ids))
    ELSE <<>>

Closed(c, n) ==
    [wire |-> [m \in 1 .. n |-> OnWire(c, m)], pending |-> StillPending(c, n)]

\* No two assistant turns share a message.
LEMMA OneAsker ==
    ASSUME NEW c \in Seq(Messages), Paired(c, Len(c)), NEW n \in 1 .. Len(c),
           NEW i \in 1 .. n, BelongsTo(c, n, i)
    PROVE  AskerOf(c, n) = i
  <1>1. ASSUME NEW h \in 1 .. n, NEW j \in 1 .. n,
               BelongsTo(c, n, h), BelongsTo(c, n, j), h < j
        PROVE  FALSE
    <2>1. /\ h \in 1 .. Len(c) /\ Asks(c[h]) /\ Asks(c[j])
          /\ n - h <= Len(c[h].ids) /\ h \in Int /\ j \in Int /\ n \in Int
      BY <1>1 DEF BelongsTo
    <2>2. Len(c[h].ids) \in Nat
      BY <2>1, MessageAt
    <2>3. j - h \in 1 .. Len(c[h].ids) /\ h + (j - h) = j
      BY <1>1, <2>1, <2>2
    <2>4. c[h + (j - h)].role = "tool"
      BY <2>1, <2>3 DEF Paired
    <2>5. QED
      BY <2>1, <2>3, <2>4 DEF Asks
  <1>2. AskerOf(c, n) \in 1 .. n /\ BelongsTo(c, n, AskerOf(c, n))
    BY DEF AskerOf
  <1>3. ~(AskerOf(c, n) < i) /\ ~(i < AskerOf(c, n))
    BY <1>1, <1>2
  <1>4. i \in Int /\ AskerOf(c, n) \in Int
    BY <1>2
  <1>5. QED
    BY <1>3, <1>4

\* The ids on the wire are one per call.
LEMMA LocalIdsSeq ==
    ASSUME NEW c \in Seq(Messages), NEW i \in 1 .. Len(c)
    PROVE  /\ LocalIds(c, i) \in Seq({LocalIds(c, i)[k] : k \in 1 .. Len(c[i].ids)})
           /\ Len(LocalIds(c, i)) = Len(c[i].ids) /\ Len(c[i].ids) \in Nat
           /\ DOMAIN c[i].ids = 1 .. Len(c[i].ids)
  <1>1. Len(c[i].ids) \in Nat /\ DOMAIN c[i].ids = 1 .. Len(c[i].ids)
    BY MessageAt
  <1> DEFINE t == Len(c[i].ids)
             f == LocalIds(c, i)
  <1>2. f = [k \in 1 .. t |-> f[k]]
    BY DEF LocalIds
  <1>3. t \in Nat
    BY <1>1
  <1> HIDE DEF t, f
  <1>4. f \in Seq({f[k] : k \in 1 .. t}) /\ Len(f) = t
    BY <1>2, <1>3
  <1>5. QED
    BY <1>1, <1>4 DEF t, f

\* The converted messages, one more at a time.
LEMMA WireGrows ==
    ASSUME NEW c, NEW n \in Nat, n >= 1
    PROVE  Append([m \in 1 .. n - 1 |-> OnWire(c, m)], OnWire(c, n))
             = [m \in 1 .. n |-> OnWire(c, m)]
  OBVIOUS

\* Taking the first id off a list of pending ones.
LEMMA FirstTaken ==
    ASSUME NEW T, NEW s \in Seq(T), NEW a \in 1 .. Len(s)
    PROVE  LET p == SubSeq(s, a, Len(s))
           IN  /\ p # <<>> /\ Head(p) = s[a] /\ 1 \in DOMAIN p /\ p[1] = s[a]
               /\ Without(p, s[a]) = SubSeq(s, a + 1, Len(s))
  <1> DEFINE p == SubSeq(s, a, Len(s))
  <1>1. /\ p \in Seq(T) /\ Len(p) = Len(s) - a + 1 /\ Len(s) \in Nat /\ a \in Nat /\ a >= 1
        /\ \A i \in 1 .. Len(s) - a + 1 : p[i] = s[a + i - 1]
    OBVIOUS
  <1> HIDE DEF p
  <1>2. Len(p) \in Nat /\ Len(p) >= 1
    BY <1>1
  <1>3. p # <<>> /\ 1 \in DOMAIN p /\ p[1] = s[a] /\ Head(p) = s[a]
    BY <1>1, <1>2
  <1> DEFINE First(i) == i \in DOMAIN p /\ p[i] = s[a] /\ \A j \in 1 .. i - 1 : p[j] # s[a]
  <1>4. First(1)
    BY <1>3
  <1>5. ASSUME NEW i, First(i) PROVE i = 1
    <2>1. i \in Nat /\ i >= 1
      BY <1>2, <1>5
    <2>2. CASE i > 1
      <3>1. 1 \in 1 .. i - 1
        BY <2>1, <2>2
      <3>2. QED
        BY <1>3, <1>5, <3>1
    <2>3. QED
      BY <2>1, <2>2
  <1> DEFINE at == CHOOSE i \in DOMAIN p :
                     /\ p[i] = s[a]
                     /\ \A j \in 1 .. i - 1 : p[j] # s[a]
  <1>6. Without(p, s[a]) = SubSeq(p, 1, at - 1) \o SubSeq(p, at + 1, Len(p))
    BY DEF Without
  <1>7. Without(p, s[a]) = SubSeq(p, 1, 0) \o SubSeq(p, 2, Len(p))
    <2>1. at = 1
      BY <1>4, <1>5
    <2> HIDE DEF at
    <2>2. at - 1 = 0 /\ at + 1 = 2
      BY <2>1
    <2>3. QED
      BY <1>6, <2>2
  <1>8. SubSeq(p, 1, 0) \o SubSeq(p, 2, Len(p)) = SubSeq(p, 2, Len(p))
    BY <1>1, <1>2
  <1>9. SubSeq(p, 2, Len(p)) = SubSeq(s, a + 1, Len(s))
    BY <1>1, <1>2
  <1>10. QED
    BY <1>3, <1>7, <1>8, <1>9 DEF p

\* An assistant turn with calls.
LEMMA AssistantOnWire ==
    ASSUME NEW c \in Seq(Messages), Paired(c, Len(c)), NEW n \in 1 .. Len(c),
           Asks(c[n])
    PROVE  WireStep(Closed(c, n - 1), n, c[n]) = Closed(c, n)
  <1> DEFINE ids == [k \in DOMAIN c[n].ids |->
                       IF c[n].ids[k] = NoId THEN <<n, k>> ELSE c[n].ids[k]]
             m == [c[n] EXCEPT !.ids = ids]
             before == [i \in 1 .. n - 1 |-> OnWire(c, i)]
             after == [i \in 1 .. n |-> OnWire(c, i)]
  <1>1. ids = LocalIds(c, n)
    BY LocalIdsSeq DEF LocalIds
  <1>2. m = OnWire(c, n)
    BY <1>1 DEF OnWire
  <1>3. StillPending(c, n) = LocalIds(c, n)
    <2>1. n \in 1 .. n /\ BelongsTo(c, n, n)
      BY LocalIdsSeq DEF BelongsTo
    <2>2. AskerOf(c, n) = n
      BY <2>1, OneAsker
    <2>3. n - n + 1 = 1
      OBVIOUS
    <2>4. StillPending(c, n) = SubSeq(LocalIds(c, n), 1, Len(LocalIds(c, n)))
      BY <2>1, <2>2, <2>3, LocalIdsSeq DEF StillPending
    <2>5. QED
      BY <2>4, LocalIdsSeq, SubSeqFull
  <1>4. Append(before, OnWire(c, n)) = after
    BY WireGrows
  <1>5. WireStep(Closed(c, n - 1), n, c[n]) =
          [wire |-> Append(Closed(c, n - 1).wire, m), pending |-> ids]
    BY DEF WireStep
  <1>6. Closed(c, n - 1).wire = before
    BY DEF Closed
  <1>7. Closed(c, n) = [wire |-> after, pending |-> StillPending(c, n)]
    BY DEF Closed
  <1> HIDE DEF ids, m, before, after
  <1>8. QED
    BY <1>1, <1>2, <1>3, <1>4, <1>5, <1>6, <1>7

\* A result: its id, given or taken from the pending list, is that of its call.
LEMMA ResultOnWire ==
    ASSUME NEW c \in Seq(Messages), Paired(c, Len(c)), NEW n \in 1 .. Len(c),
           c[n].role = "tool"
    PROVE  WireStep(Closed(c, n - 1), n, c[n]) = Closed(c, n)
  <1>1. PICK i \in 1 .. n - 1 : Asks(c[i]) /\ n - i <= Len(c[i].ids)
    BY DEF Paired
  <1> DEFINE local == LocalIds(c, i)
             k == n - i
             pending == SubSeq(local, k, Len(local))
  <1>2. /\ i \in 1 .. Len(c) /\ n \in Nat /\ i \in Nat /\ Len(local) = Len(c[i].ids)
        /\ Len(local) \in Nat /\ k \in 1 .. Len(local) /\ i + k = n
    <2>1. i \in 1 .. Len(c) /\ n \in Nat /\ i \in Nat
      OBVIOUS
    <2>2. Len(local) = Len(c[i].ids) /\ Len(local) \in Nat
      BY <2>1, LocalIdsSeq
    <2>3. n - i <= Len(local) /\ i <= n - 1
      BY <1>1, <2>2
    <2> HIDE DEF local
    <2>4. k \in 1 .. Len(local) /\ i + k = n
      BY <2>1, <2>2, <2>3
    <2>5. QED
      BY <2>1, <2>2, <2>4
  <1>3. c[n].ids = <<c[i].ids[k]>>
    BY <1>1, <1>2 DEF Paired
  <1>4. local[k] = IF c[i].ids[k] = NoId THEN <<i, k>> ELSE c[i].ids[k]
    BY <1>2 DEF LocalIds
  <1>5. /\ pending # <<>> /\ Head(pending) = local[k]
        /\ 1 \in DOMAIN pending /\ pending[1] = local[k]
        /\ Without(pending, local[k]) = SubSeq(local, k + 1, Len(local))
    <2> DEFINE T == {LocalIds(c, i)[j] : j \in 1 .. Len(c[i].ids)}
    <2>1. local \in Seq(T)
      BY <1>2, LocalIdsSeq
    <2>2. k \in 1 .. Len(local)
      BY <1>2
    <2> HIDE DEF T, local, k
    <2>3. QED
      BY <2>1, <2>2, FirstTaken
  <1>6. AskerOf(c, n) = i /\ BelongsTo(c, n, i) /\ i \in 1 .. n
    BY <1>1, <1>2, OneAsker DEF BelongsTo
  <1>7. StillPending(c, n) = SubSeq(local, k + 1, Len(local))
    BY <1>2, <1>6 DEF StillPending
  <1>8. StillPending(c, n - 1) = pending
    <2>1. BelongsTo(c, n - 1, i) /\ i \in 1 .. n - 1 /\ n - 1 \in 1 .. Len(c)
      <3>1. i \in 1 .. n - 1 /\ n - 1 \in 1 .. Len(c)
        BY <1>1, <1>2
      <3>2. BelongsTo(c, n - 1, i)
        BY <1>1, <1>2, <3>1 DEF BelongsTo
      <3>3. QED
        BY <3>1, <3>2
    <2>2. AskerOf(c, n - 1) = i
      BY <2>1, OneAsker
    <2>3. (n - 1) - i + 1 = k
      BY <1>2
    <2>4. QED
      BY <1>2, <2>1, <2>2, <2>3 DEF StillPending
  <1>9. ~Asks(c[n])
    BY DEF Asks
  <1>10. OnWire(c, n) = [c[n] EXCEPT !.ids = <<local[k]>>]
    BY <1>6, <1>9 DEF OnWire
  <1> DEFINE before == [j \in 1 .. n - 1 |-> OnWire(c, j)]
             after == [j \in 1 .. n |-> OnWire(c, j)]
  <1>11. Append(before, OnWire(c, n)) = after
    BY <1>2, WireGrows
  <1>12. Closed(c, n - 1).wire = before /\ Closed(c, n - 1).pending = pending
    BY <1>8 DEF Closed
  <1>13. Closed(c, n) = [wire |-> after, pending |-> SubSeq(local, k + 1, Len(local))]
    BY <1>7 DEF Closed
  <1> DEFINE id == IF c[n].ids[1] = NoId THEN FirstPending(pending) ELSE c[n].ids[1]
  <1>14. id = local[k]
    BY <1>3, <1>4, <1>5 DEF FirstPending
  <1> HIDE DEF local, k, pending, before, after
  <1>15. WireStep(Closed(c, n - 1), n, c[n]) =
           [wire |-> Append(before, [c[n] EXCEPT !.ids = <<id>>]),
            pending |-> IF \E j \in DOMAIN pending : pending[j] = id
                        THEN Without(pending, id) ELSE pending]
    BY <1>5, <1>9, <1>12 DEF WireStep
  <1> HIDE DEF id
  <1>16. QED
    BY <1>5, <1>10, <1>11, <1>13, <1>14, <1>15

\* Any other message goes on the wire as it is, and leaves nothing pending.
LEMMA OtherOnWire ==
    ASSUME NEW c \in Seq(Messages), Paired(c, Len(c)), NEW n \in 1 .. Len(c),
           ~Asks(c[n]), c[n].role # "tool"
    PROVE  WireStep(Closed(c, n - 1), n, c[n]) = Closed(c, n)
  <1> DEFINE before == [j \in 1 .. n - 1 |-> OnWire(c, j)]
             after == [j \in 1 .. n |-> OnWire(c, j)]
  <1>1. OnWire(c, n) = c[n]
    BY DEF OnWire
  <1>2. Append(before, c[n]) = after
    BY <1>1, WireGrows
  <1>3. ASSUME NEW i \in 1 .. n, BelongsTo(c, n, i) PROVE FALSE
    <2>1. i \in 1 .. Len(c) /\ i \in Nat /\ n \in Nat /\ Len(c[i].ids) \in Nat
      BY MessageAt
    <2>2. i # n
      BY <1>3 DEF BelongsTo
    <2>3. n - i \in 1 .. Len(c[i].ids) /\ i + (n - i) = n /\ Asks(c[i])
      BY <1>3, <2>1, <2>2 DEF BelongsTo
    <2>4. c[i + (n - i)].role = "tool"
      BY <2>1, <2>3 DEF Paired
    <2>5. QED
      BY <2>3, <2>4
  <1>4. StillPending(c, n) = <<>>
    BY <1>3 DEF StillPending
  <1>5. StillPending(c, n - 1) = <<>>
    <2>1. CASE \E i \in 1 .. n - 1 : BelongsTo(c, n - 1, i)
      <3>1. PICK i \in 1 .. n - 1 : BelongsTo(c, n - 1, i)
        BY <2>1
      <3>2. /\ i \in 1 .. n /\ i \in 1 .. Len(c) /\ i \in Nat /\ n \in Nat
            /\ n - 1 \in 1 .. Len(c) /\ Len(c[i].ids) \in Nat
        BY MessageAt
      <3>3. ~(n - i <= Len(c[i].ids))
        BY <1>3, <3>1, <3>2 DEF BelongsTo
      <3>4. AskerOf(c, n - 1) = i
        BY <3>1, <3>2, OneAsker
      <3>5. (n - 1) - i + 1 > Len(c[i].ids) /\ (n - 1) - i + 1 \in Int
        BY <3>2, <3>3
      <3>6. StillPending(c, n - 1) = SubSeq(LocalIds(c, i), (n - 1) - i + 1, Len(c[i].ids))
        BY <2>1, <3>4 DEF StillPending
      <3>7. QED
        BY <3>2, <3>5, <3>6, SubSeqEmpty
    <2>2. CASE ~\E i \in 1 .. n - 1 : BelongsTo(c, n - 1, i)
      BY <2>2 DEF StillPending
    <2>3. QED
      BY <2>1, <2>2
  <1>6. WireStep(Closed(c, n - 1), n, c[n])
          = [Closed(c, n - 1) EXCEPT !.wire = Append(@, c[n])]
    BY DEF WireStep
  <1>7. /\ Closed(c, n - 1) = [wire |-> before, pending |-> <<>>]
        /\ Closed(c, n) = [wire |-> after, pending |-> <<>>]
    BY <1>4, <1>5 DEF Closed
  <1> HIDE DEF before, after
  <1>8. WireStep(Closed(c, n - 1), n, c[n]) = [wire |-> Append(before, c[n]), pending |-> <<>>]
    <2> DEFINE done == Closed(c, n - 1)
               longer == Append(before, c[n])
    <2>1. done = [wire |-> before, pending |-> <<>>]
      BY <1>7
    <2>2. Append(done.wire, c[n]) = longer
      BY <2>1
    <2>3. WireStep(done, n, c[n]) = [done EXCEPT !.wire = Append(done.wire, c[n])]
      BY <1>6
    <2> HIDE DEF done, longer
    <2>4. [done EXCEPT !.wire = longer] = [wire |-> longer, pending |-> <<>>]
      BY <2>1
    <2>5. WireStep(done, n, c[n]) = [wire |-> longer, pending |-> <<>>]
      BY <2>2, <2>3, <2>4
    <2>6. QED
      BY <2>5 DEF done, longer
  <1>9. QED
    BY <1>2, <1>7, <1>8

\* Whatever the message, the conversion goes from one closed form to the next.
LEMMA StepOnWire ==
    ASSUME NEW c \in Seq(Messages), Paired(c, Len(c)), NEW n \in 1 .. Len(c)
    PROVE  WireStep(Closed(c, n - 1), n, c[n]) = Closed(c, n)
  <1>1. CASE Asks(c[n])
    BY <1>1, AssistantOnWire
  <1>2. CASE c[n].role = "tool"
    BY <1>2, ResultOnWire
  <1>3. CASE ~Asks(c[n]) /\ c[n].role # "tool"
    BY <1>3, OtherOnWire
  <1>4. QED
    BY <1>1, <1>2, <1>3

\* A paired conversation goes on the wire message by message.
LEMMA WireIs ==
    ASSUME NEW c \in Seq(Messages), Paired(c, Len(c))
    PROVE  Wire(c) = [m \in 1 .. Len(c) |-> OnWire(c, m)]
  <1> DEFINE N == Len(c)
             F(g) == [n \in 0 .. N |-> IF n = 0 THEN [wire |-> <<>>, pending |-> <<>>]
                                       ELSE WireStep(g[n - 1], n, c[n])]
             h == [n \in 0 .. N |-> Closed(c, n)]
             g == CHOOSE converted : converted = F(converted)
  <1>1. N \in Nat
    OBVIOUS
  <1>2. Closed(c, 0) = [wire |-> <<>>, pending |-> <<>>]
    <2>1. [m \in 1 .. 0 |-> OnWire(c, m)] = <<>>
      OBVIOUS
    <2>2. StillPending(c, 0) = <<>>
      BY DEF StillPending
    <2>3. QED
      BY <2>1, <2>2 DEF Closed
  <1>3. \A n \in 1 .. N : WireStep(Closed(c, n - 1), n, c[n]) = Closed(c, n)
    BY StepOnWire
  <1>4. h = F(h)
    <2>1. ASSUME NEW n \in 0 .. N PROVE h[n] = F(h)[n]
      <3>1. CASE n = 0
        BY <1>2, <3>1
      <3>2. CASE n # 0
        <4>1. n \in 1 .. N /\ n - 1 \in 0 .. N
          BY <1>1, <3>2
        <4>2. h[n - 1] = Closed(c, n - 1) /\ h[n] = Closed(c, n)
          BY <4>1
        <4>3. F(h)[n] = WireStep(h[n - 1], n, c[n])
          BY <3>2
        <4>4. QED
          BY <1>3, <4>1, <4>2, <4>3
      <3>3. QED
        BY <3>1, <3>2
    <2>2. h = [n \in 0 .. N |-> h[n]] /\ F(h) = [n \in 0 .. N |-> F(h)[n]]
      OBVIOUS
    <2> HIDE DEF h, F
    <2>3. QED
      BY <2>1, <2>2
  <1>5. g = F(g)
    BY <1>4
  <1>6. g[0] = Closed(c, 0) /\ \A n \in 1 .. N : g[n] = WireStep(g[n - 1], n, c[n])
    <2> HIDE DEF g
    <2>1. ASSUME NEW n \in 0 .. N
          PROVE  g[n] = IF n = 0 THEN [wire |-> <<>>, pending |-> <<>>]
                        ELSE WireStep(g[n - 1], n, c[n])
      BY <1>5
    <2>2. g[0] = Closed(c, 0)
      BY <1>1, <1>2, <2>1
    <2>3. ASSUME NEW n \in 1 .. N PROVE g[n] = WireStep(g[n - 1], n, c[n])
      <3>1. n \in 0 .. N /\ n # 0
        BY <1>1
      <3>2. QED
        BY <2>1, <3>1
    <2>4. QED
      BY <2>2, <2>3
  <1> HIDE DEF g
  <1>7. g[N] = Closed(c, N)
    <2> DEFINE Wrong == {n \in 0 .. N : g[n] # Closed(c, n)}
    <2> SUFFICES ASSUME Wrong # {} PROVE FALSE
      BY <1>1
    <2>1. PICK n \in Wrong : \A j \in Wrong : n <= j
      <3>1. Wrong \subseteq Nat
        OBVIOUS
      <3> HIDE DEF Wrong
      <3>2. QED
        BY <3>1, FirstPosition
    <2>2. n \in 0 .. N /\ g[n] # Closed(c, n)
      OBVIOUS
    <2>3. n # 0
      BY <1>6, <2>2
    <2>4. n \in 1 .. N /\ n - 1 \in 0 .. N /\ n - 1 \in Int /\ n \in Int
      BY <1>1, <2>2, <2>3
    <2>5. g[n - 1] = Closed(c, n - 1)
      <3>1. ~(n <= n - 1)
        BY <2>4
      <3>2. n - 1 \notin Wrong
        BY <2>1, <3>1
      <3>3. QED
        BY <2>4, <3>2
    <2>6. QED
      BY <1>3, <1>6, <2>2, <2>4, <2>5
  <1>8. Wire(c) = g[N].wire
    BY DEF Wire, g
  <1>9. QED
    BY <1>7, <1>8 DEF Closed

\* On the wire a message keeps its role, and an assistant turn its calls.
LEMMA OnWireKeeps ==
    ASSUME NEW c \in Seq(Messages), NEW n \in 1 .. Len(c)
    PROVE  /\ OnWire(c, n).role = c[n].role
           /\ Asks(OnWire(c, n)) <=> Asks(c[n])
           /\ Asks(c[n]) => /\ OnWire(c, n).ids = LocalIds(c, n)
                            /\ DOMAIN OnWire(c, n).ids = 1 .. Len(c[n].ids)
  <1>1. c[n] \in Messages /\ c[n].ids \in Seq(RawIds)
    BY MessageAt
  <1>2. CASE Asks(c[n])
    <2> DEFINE local == LocalIds(c, n)
    <2>1. DOMAIN local = 1 .. Len(c[n].ids) /\ Len(c[n].ids) \in Nat
      BY LocalIdsSeq DEF LocalIds
    <2>2. Len(c[n].ids) >= 1
      BY <1>1, <1>2 DEF Asks
    <2>3. local # <<>>
      BY <2>1, <2>2
    <2> HIDE DEF local
    <2>4. OnWire(c, n) = [c[n] EXCEPT !.ids = local]
      BY <1>2 DEF OnWire, local
    <2>5. OnWire(c, n).role = c[n].role /\ OnWire(c, n).ids = local
      BY <1>1, <2>4 DEF Messages
    <2>6. Asks(OnWire(c, n))
      BY <1>2, <2>3, <2>5 DEF Asks
    <2>7. QED
      BY <1>2, <2>1, <2>5, <2>6 DEF local
  <1>3. CASE ~Asks(c[n])
    <2>1. OnWire(c, n).role = c[n].role
      BY <1>1, <1>3 DEF OnWire, Messages
    <2>2. CASE c[n].role = "tool"
      BY <1>3, <2>1, <2>2 DEF Asks
    <2>3. CASE c[n].role # "tool"
      BY <1>3, <2>3 DEF OnWire
    <2>4. QED
      BY <1>3, <2>1, <2>2, <2>3
  <1>4. QED
    BY <1>2, <1>3

\* A paired conversation is well paired on the wire: the ids that were missing
\* are the same at the call and at its result.
LEMMA WireWellPaired ==
    ASSUME NEW c \in Seq(Messages), Paired(c, Len(c))
    PROVE  WellPaired(Wire(c))
  <1> DEFINE w == Wire(c)
  <1>1. /\ Len(w) = Len(c) /\ DOMAIN w = 1 .. Len(c) /\ Len(c) \in Nat
        /\ \A n \in 1 .. Len(c) : w[n] = OnWire(c, n)
    BY WireIs
  <1> HIDE DEF w
  <1>2. ASSUME NEW i \in DOMAIN w, Asks(w[i]), NEW k \in DOMAIN w[i].ids
        PROVE  i + k <= Len(w) /\ w[i + k].role = "tool" /\ w[i + k].ids = <<w[i].ids[k]>>
    <2>1. i \in 1 .. Len(c) /\ w[i] = OnWire(c, i)
      BY <1>1
    <2>2. Asks(c[i]) /\ w[i].ids = LocalIds(c, i) /\ k \in 1 .. Len(c[i].ids)
      BY <1>2, <2>1, OnWireKeeps
    <2>3. i + k <= Len(c) /\ c[i + k].role = "tool"
      BY <2>1, <2>2 DEF Paired
    <2>4. Len(c[i].ids) \in Nat
      BY <2>1, MessageAt
    <2> DEFINE n == i + k
    <2>5. n \in 1 .. Len(c) /\ i \in 1 .. n /\ n - i = k /\ n - i <= Len(c[i].ids) /\ i <= n
      BY <1>1, <2>1, <2>2, <2>3, <2>4
    <2>6. c[n].role = "tool"
      BY <2>3
    <2> HIDE DEF n
    <2>7. AskerOf(c, n) = i
      BY <2>2, <2>5, OneAsker DEF BelongsTo
    <2>8. ~Asks(c[n]) /\ c[n] \in Messages
      BY <2>5, <2>6, MessageAt DEF Asks
    <2>9. OnWire(c, n) = [c[n] EXCEPT !.ids = <<LocalIds(c, i)[k]>>]
      BY <2>5, <2>6, <2>7, <2>8 DEF OnWire
    <2>10. w[n].ids = <<w[i].ids[k]>> /\ w[n].role = "tool"
      BY <1>1, <2>2, <2>5, <2>6, <2>8, <2>9 DEF Messages
    <2>11. QED
      BY <1>1, <2>3, <2>10 DEF n
  <1>3. ASSUME NEW j \in DOMAIN w, w[j].role = "tool"
        PROVE  \E i \in 1 .. j - 1 : Asks(w[i]) /\ j - i \in DOMAIN w[i].ids
    <2>1. j \in 1 .. Len(c) /\ c[j].role = "tool"
      BY <1>1, <1>3, OnWireKeeps
    <2>2. PICK i \in 1 .. j - 1 : Asks(c[i]) /\ j - i <= Len(c[i].ids)
      BY <2>1 DEF Paired
    <2>3. i \in 1 .. Len(c)
      BY <2>1
    <2>4. Asks(w[i]) /\ DOMAIN w[i].ids = 1 .. Len(c[i].ids) /\ Len(c[i].ids) \in Nat
      BY <1>1, <2>2, <2>3, OnWireKeeps, MessageAt
    <2>5. j - i \in 1 .. Len(c[i].ids)
      BY <2>1, <2>2, <2>4
    <2>6. QED
      BY <2>2, <2>4, <2>5
  <1>4. WellPaired(w)
    BY <1>2, <1>3 DEF WellPaired
  <1>5. QED
    BY <1>4 DEF w

\* Whatever ids the model sends, omits or repeats, and in whatever order its
\* tools end, every request answers each call of each turn once, in order and
\* under the id it has on the wire.
THEOREM RequestsAreWellPaired == Spec => []RequestsWellPaired
  <1>1. Init => PairInv
    <2> SUFFICES ASSUME Init PROVE Paired(conversation, Len(conversation))
      BY DEF Init, PairInv
    <2>1. Len(conversation) = 1 /\ conversation[1].role = "user"
      BY DEF Init, Message
    <2>2. QED
      BY <2>1 DEF Paired, Asks
  <1>2. WorkInv /\ PairInv /\ [Next]_vars => PairInv'
    BY StepKeepsPairs DEF WorkInv
  <1>3. WorkInv /\ PairInv => RequestsWellPaired
    BY WireWellPaired DEF WorkInv, TypeInv, PairInv, RequestsWellPaired
  <1>4. QED
    BY <1>1, <1>2, <1>3, WorkInductive, PTL DEF Spec

-----------------------------------------------------------------------------
(***************************************************************************)
(* ONE CALL: LiveTools                                                     *)
(***************************************************************************)

-----------------------------------------------------------------------------
(* Types.                                                                  *)

Addresses == Elements(Answers)

\* LtTypeOK with what the page and the search work on: a page is never being
\* fetched without an address to fetch it from.
LtTypeInv ==
    /\ LtTypeOK
    /\ targets \in Seq(Addresses) /\ hop \in 0 .. MAX_REDIRECTS
    /\ items \in Seq(Elements(Results))
    /\ stage \in {"connecting", "reading"} => targets # <<>>

\* The addresses of a host, each of them once, are addresses it has.
LEMMA DistinctKeeps ==
    ASSUME NEW s \in Seq(Addresses)
    PROVE  /\ Distinct(s) \in Seq(Addresses)
           /\ \A k \in DOMAIN Distinct(s) : Distinct(s)[k] \in ToSet(s)
           /\ s # <<>> => Distinct(s) # <<>>
  <1> DEFINE kept == {i \in DOMAIN s : \A j \in 1 .. i - 1 : s[j] # s[i]}
  <1>1. kept \in SUBSET (DOMAIN s) /\ Distinct(s) = Picked(s, kept)
    BY DEF Distinct
  <1>2. s # <<>> => 1 \in kept
    OBVIOUS
  <1> HIDE DEF kept
  <1>3. Distinct(s) \in Seq(Addresses) /\ DOMAIN Distinct(s) = 1 .. Len(Distinct(s))
    BY <1>1, PickedIsSeq
  <1>4. ASSUME NEW k \in DOMAIN Distinct(s) PROVE Distinct(s)[k] \in ToSet(s)
    <2>1. \E i \in kept : Distinct(s)[k] = s[i]
      BY <1>1, PickedElements
    <2>2. QED
      BY <1>1, <2>1 DEF ToSet
  <1>5. ASSUME s # <<>> PROVE Distinct(s) # <<>>
    <2>1. Rank(kept, 1) \in DOMAIN Distinct(s)
      BY <1>1, <1>2, <1>5, PickedElements
    <2>2. QED
      BY <2>1
  <1>6. QED
    BY <1>3, <1>4, <1>5

\* What name service says of the host of a URL that passed the check.
LEMMA HostIsKnown ==
    ASSUME LtTypeInv, ValidatedUrl(url)
    PROVE  dns[url.host] \in Seq(Addresses)
  <1>1. url.host # NoHost
    BY DEF ValidatedUrl
  <1>2. url # NoUrl
    <2>1. NoUrl.host = NoHost
      BY Zenon DEF NoUrl
    <2>2. QED
      BY <1>1, <2>1
  <1>3. url.host \in Hosts
    BY <1>1, <1>2, UrlsAssumption DEF LtTypeInv, LtTypeOK
  <1>4. dns[url.host] \in Answers
    BY <1>3 DEF LtTypeInv, LtTypeOK
  <1>5. QED
    BY <1>4, AnswersAssumption DEF Addresses

\* The items of a service's answer are items it answered with.
LEMMA ItemsTyped ==
    ASSUME NEW raw \in Results, ServiceAnswers(raw)
    PROVE  items' \in Seq(Elements(Results))
  <1> DEFINE T == Elements(Results)
             named == {i \in DOMAIN raw : raw[i].named /\ (call.gguf => raw[i].gguf)}
             shaped == IF call.tool = "models" THEN Models(raw, call.gguf) ELSE raw
             n == Min({Len(shaped), Considered(call.tool)})
             first == SubSeq(shaped, 1, n)
             kept == {i \in DOMAIN first : first[i].object}
  <1>1. raw \in Seq(T) /\ named \in SUBSET (DOMAIN raw)
    BY AnswersAssumption
  <1>2. Models(raw, call.gguf) = Picked(raw, named)
    BY DEF Models
  <1> HIDE DEF T, named
  <1>3. shaped \in Seq(T)
    BY <1>1, <1>2, PickedIsSeq
  <1>4. items' = Picked(first, kept)
    BY DEF ServiceAnswers
  <1>5. Considered(call.tool) \in Nat
    BY DEF Considered
  <1> HIDE DEF shaped
  <1>6. n \in 0 .. Len(shaped)
    BY <1>3, <1>5 DEF Min
  <1> HIDE DEF n
  <1>7. first \in Seq(T)
    BY <1>3, <1>6
  <1> HIDE DEF first
  <1>8. kept \in SUBSET (DOMAIN first)
    OBVIOUS
  <1> HIDE DEF kept
  <1>9. QED
    BY <1>4, <1>7, <1>8, PickedIsSeq DEF T

\* Every step keeps the types.
LEMMA CallStepKeepsTypes ==
    ASSUME LtTypeInv, [LtNext]_ltVars
    PROVE  LtTypeInv'
  <1> USE DEF LtTypeInv, LtTypeOK
  <1>1. ASSUME NEW c \in Calls, Begin(c) PROVE LtTypeInv'
    <2>1. /\ stage' \in {"over", "resolving", "asking"}
          /\ url' = url \/ (c.tool = "page" /\ url' = c.url)
      BY <1>1 DEF Begin, Finish
    <2>2. UNCHANGED <<dns, rebinds, hop, targets, got, items, verdicts>>
      BY <1>1 DEF Begin, network, found
    <2>3. url' \in Urls \cup {NoUrl}
      BY <2>1, UrlsAssumption
    <2>4. QED
      BY <2>1, <2>2, <2>3
  <1>2. ASSUME NEW host \in Hosts, NEW addresses \in Answers, Rebind(host, addresses)
        PROVE  LtTypeInv'
    BY <1>2 DEF Rebind, page, found
  <1>3. CASE Resolve
    <2>1. CASE ChecksHop(url) /\ ResolvesPublic(url.host)
      <3>1. dns[url.host] \in Seq(Addresses)
        BY <2>1, HostIsKnown DEF ChecksHop
      <3>2. targets' \in Seq(Addresses) /\ targets' # <<>>
        BY <1>3, <2>1, <3>1, DistinctKeeps DEF Resolve, ResolvesPublic
      <3>3. QED
        BY <1>3, <2>1, <3>2 DEF Resolve, network, found
    <2>2. CASE ~(ChecksHop(url) /\ ResolvesPublic(url.host))
      BY <1>3, <2>2 DEF Resolve, Finish, network, found
    <2>3. QED
      BY <2>1, <2>2
  <1>4. CASE Connect
    BY <1>4, BoundsAssumption DEF Connect, Finish, network, found
  <1>5. CASE TransportError
    <2>1. targets # <<>> /\ targets' = Tail(targets)
      BY <1>5 DEF TransportError
    <2>2. /\ targets' \in Seq(Addresses)
          /\ Len(targets) > 1 => targets' # <<>>
      <3> DEFINE rest == Tail(targets)
      <3>1. rest \in Seq(Addresses) /\ Len(rest) = Len(targets) - 1
        BY <2>1
      <3>2. Len(targets) \in Nat
        OBVIOUS
      <3> HIDE DEF rest
      <3>3. Len(targets) > 1 => rest # <<>>
        BY <3>1, <3>2
      <3>4. QED
        BY <2>1, <3>1, <3>3 DEF rest
    <2>3. QED
      BY <1>5, <2>2 DEF TransportError, Finish, network, found
  <1>6. CASE Chunk
    BY <1>6, BoundsAssumption DEF Chunk, Finish, network, found
  <1>7. CASE PageEnds
    BY <1>7 DEF PageEnds, Finish, network, page, found
  <1>8. ASSUME NEW location \in Urls, Redirect(location) PROVE LtTypeInv'
    BY <1>8 DEF Redirect, MayRedirect, MAX_REDIRECTS, Finish, network, found
  <1>9. CASE ServiceFails \/ FetchEscapes
    BY <1>9 DEF ServiceFails, FetchEscapes, Finish, network, page, found
  <1>10. ASSUME NEW raw \in Results, ServiceAnswers(raw) PROVE LtTypeInv'
    <2>1. items' \in Seq(Elements(Results))
      BY <1>10, ItemsTyped
    <2>2. DOMAIN verdicts' = DOMAIN items' /\ stage' = "validating"
          /\ UNCHANGED <<dns, url, got, targets, hop>>
      BY <1>10 DEF ServiceAnswers, network, page
    <2>3. QED
      BY <2>1, <2>2
  <1>11. ASSUME NEW n \in DOMAIN verdicts, Validate(n) PROVE LtTypeInv'
    BY <1>11 DEF Validate, network, page
  <1>12. CASE Cite
    BY <1>12 DEF Cite, Finish, network, page, found
  <1>13. CASE Deadline
    BY <1>13 DEF Deadline, Finish, network, page, found
  <1>14. CASE UNCHANGED ltVars
    BY <1>14 DEF ltVars, network, page, found
  <1>15. QED
    BY <1>1, <1>2, <1>3, <1>4, <1>5, <1>6, <1>7, <1>8, <1>9, <1>10, <1>11, <1>12,
       <1>13, <1>14 DEF LtNext


\* The call begins in order, and stays so.
LEMMA CallTypesInductive == LtSpec => []LtTypeInv
  <1>1. LtInit => LtTypeInv
    <2> SUFFICES ASSUME LtInit PROVE LtTypeInv
      OBVIOUS
    <2>1. /\ stage = "idle" /\ dns \in [Hosts -> Answers] /\ url = NoUrl
          /\ hop = 0 /\ got = 0 /\ targets = <<>> /\ items = <<>> /\ verdicts = <<>>
      BY DEF LtInit
    <2>2. hop \in 0 .. MAX_REDIRECTS /\ got \in 0 .. MaxBytes
      BY <2>1, BoundsAssumption DEF MAX_REDIRECTS
    <2>3. targets \in Seq(Addresses) /\ items \in Seq(Elements(Results))
      BY <2>1
    <2>4. QED
      BY <2>1, <2>2, <2>3 DEF LtTypeInv, LtTypeOK
  <1>2. LtTypeInv /\ [LtNext]_ltVars => LtTypeInv'
    BY CallStepKeepsTypes
  <1>3. QED
    BY <1>1, <1>2, PTL DEF LtSpec

\* However name service and the services answer, every variable of a tool call
\* keeps its type.
THEOREM CallTypeCorrect == LtSpec => []LtTypeOK
  <1>1. LtTypeInv => LtTypeOK
    BY DEF LtTypeInv
  <1>2. QED
    BY <1>1, CallTypesInductive, PTL

-----------------------------------------------------------------------------
(* Contacts.  Between the check of a URL and its connections the addresses *)
(* are kept, so what name service says meanwhile does not matter.          *)

ContactInv ==
    /\ ContactsWereChecked
    /\ \A pair \in checked : pair[2] \in Public
    /\ stage \in {"connecting", "reading"} =>
          /\ ValidatedUrl(url)
          /\ \A k \in DOMAIN targets : <<url.host, targets[k]>> \in checked

\* A connection goes to an address that was checked.
LEMMA AttemptIsChecked ==
    ASSUME LtTypeInv, ContactInv, stage \in {"connecting", "reading"},
           contacts' = contacts \cup {Attempt}, checked' = checked
    PROVE  ContactsWereChecked'
  <1>1. targets \in Seq(Addresses) /\ targets # <<>>
    BY DEF LtTypeInv
  <1>2. 1 \in DOMAIN targets /\ Head(targets) = targets[1]
    BY <1>1
  <1>3. ValidatedUrl(url) /\ <<url.host, Head(targets)>> \in checked
    BY <1>2 DEF ContactInv
  <1>4. Head(targets) \in Public
    <2>1. <<url.host, Head(targets)>>[2] \in Public
      BY <1>3 DEF ContactInv
    <2>2. QED
      BY <2>1
  <1>5. hop <= MAX_REDIRECTS
    BY DEF LtTypeInv, MAX_REDIRECTS
  <1>6. Attempt.url = url /\ Attempt.address = Head(targets) /\ Attempt.hop = hop
    BY DEF Attempt, Target
  <1> DEFINE Fine(c) == /\ ValidatedUrl(c.url) /\ <<c.url.host, c.address>> \in checked
                        /\ c.address \in Public /\ c.hop <= MAX_REDIRECTS
  <1>7. Fine(Attempt)
    BY <1>3, <1>4, <1>5, <1>6
  <1>8. \A c \in contacts : Fine(c)
    BY DEF ContactInv, ContactsWereChecked
  <1> HIDE DEF Fine
  <1>9. \A c \in contacts' : Fine(c)
    BY <1>7, <1>8
  <1>10. QED
    BY <1>9 DEF ContactsWereChecked, Fine

\* Every step keeps the contacts among what was checked.
LEMMA StepKeepsContacts ==
    ASSUME LtTypeInv, ContactInv, [LtNext]_ltVars
    PROVE  ContactInv'
  <1>1. CASE Resolve
    <2>1. CASE ChecksHop(url) /\ ResolvesPublic(url.host)
      <3> DEFINE addresses == dns[url.host]
                 new == {url.host} \X ToSet(addresses)
      <3>1. addresses \in Seq(Addresses) /\ ValidatedUrl(url)
        BY <2>1, HostIsKnown DEF ChecksHop
      <3>2. \A k \in DOMAIN Distinct(addresses) : Distinct(addresses)[k] \in ToSet(addresses)
        BY <3>1, DistinctKeeps
      <3>3. ToSet(addresses) \subseteq Public
        BY <2>1 DEF ResolvesPublic
      <3>4. /\ checked' = checked \cup new /\ targets' = Distinct(addresses)
            /\ UNCHANGED <<url, contacts>>
        BY <1>1, <2>1 DEF Resolve
      <3> HIDE DEF addresses
      <3>5. \A pair \in new : pair[2] \in Public
        BY <3>3
      <3>6. \A k \in DOMAIN targets' : <<url'.host, targets'[k]>> \in checked'
        BY <3>2, <3>4
      <3>7. ContactsWereChecked'
        <4>1. checked \subseteq checked' /\ contacts' = contacts
          BY <3>4
        <4>2. QED
          BY <4>1 DEF ContactInv, ContactsWereChecked
      <3>8. \A pair \in checked' : pair[2] \in Public
        BY <3>4, <3>5 DEF ContactInv
      <3>9. ValidatedUrl(url)'
        BY <3>1, <3>4
      <3>10. QED
        BY <3>6, <3>7, <3>8, <3>9 DEF ContactInv
    <2>2. CASE ~(ChecksHop(url) /\ ResolvesPublic(url.host))
      BY <1>1, <2>2 DEF Resolve, Finish, ContactInv, ContactsWereChecked
    <2>3. QED
      BY <2>1, <2>2
  <1>2. CASE Connect
    <2>1. ContactsWereChecked'
      BY <1>2, AttemptIsChecked DEF Connect
    <2>2. UNCHANGED <<url, targets, checked>> /\ stage = "connecting"
      BY <1>2 DEF Connect
    <2>3. QED
      BY <2>1, <2>2 DEF ContactInv
  <1>3. CASE TransportError
    <2>1. ContactsWereChecked'
      BY <1>3, AttemptIsChecked DEF TransportError
    <2>2. /\ UNCHANGED <<url, checked>> /\ stage \in {"connecting", "reading"}
          /\ targets' = Tail(targets)
      BY <1>3 DEF TransportError
    <2> DEFINE rest == Tail(targets)
    <2>3. targets \in Seq(Addresses) /\ targets # <<>>
      BY <2>2 DEF LtTypeInv
    <2>4. \A k \in DOMAIN rest : k + 1 \in DOMAIN targets /\ rest[k] = targets[k + 1]
      BY <2>3
    <2>5. \A k \in DOMAIN targets : <<url.host, targets[k]>> \in checked
      BY <2>2 DEF ContactInv
    <2> HIDE DEF rest
    <2>6. \A k \in DOMAIN rest : <<url.host, rest[k]>> \in checked
      BY <2>4, <2>5
    <2>7. \A k \in DOMAIN targets' : <<url'.host, targets'[k]>> \in checked'
      BY <2>2, <2>6 DEF rest
    <2>8. QED
      BY <2>1, <2>2, <2>7 DEF ContactInv
  <1>4. ASSUME NEW c \in Calls, Begin(c) PROVE ContactInv'
    BY <1>4 DEF Begin, Finish, ContactInv, ContactsWereChecked
  <1>5. ASSUME NEW location \in Urls, Redirect(location) PROVE ContactInv'
    BY <1>5 DEF Redirect, Finish, ContactInv, ContactsWereChecked
  <1>6. CASE UNCHANGED <<url, targets, checked, contacts>>
             /\ (stage' \in {"connecting", "reading"} => stage' = stage)
    BY <1>6 DEF ContactInv, ContactsWereChecked
  <1>7. ASSUME NEW host \in Hosts, NEW addresses \in Answers, Rebind(host, addresses)
        PROVE  ContactInv'
    BY <1>6, <1>7 DEF Rebind, page
  <1>8. ASSUME NEW raw \in Results, ServiceAnswers(raw) PROVE ContactInv'
    BY <1>6, <1>8 DEF ServiceAnswers, page
  <1>9. ASSUME NEW n \in DOMAIN verdicts, Validate(n) PROVE ContactInv'
    BY <1>6, <1>9 DEF Validate, page
  <1>10. CASE Chunk \/ FetchEscapes \/ PageEnds \/ ServiceFails \/ Cite \/ Deadline \/ UNCHANGED ltVars
    BY <1>6, <1>10
    DEF Chunk, FetchEscapes, PageEnds, ServiceFails, Cite, Deadline, Finish, page, ltVars
  <1>11. QED
    BY <1>1, <1>2, <1>3, <1>4, <1>5, <1>7, <1>8, <1>9, <1>10 DEF LtNext

\* Wherever redirects lead and whenever name service changes, a page is only
\* fetched from public addresses that the check of its URL has seen.
THEOREM ContactsAreChecked == LtSpec => []ContactsWereChecked
  <1>1. LtInit => ContactInv
    BY DEF LtInit, ContactInv, ContactsWereChecked
  <1>2. LtTypeInv /\ ContactInv /\ [LtNext]_ltVars => ContactInv'
    BY StepKeepsContacts
  <1>3. ContactInv => ContactsWereChecked
    BY DEF ContactInv
  <1>4. QED
    BY <1>1, <1>2, <1>3, CallTypesInductive, PTL DEF LtSpec

-----------------------------------------------------------------------------
(* Citations.                                                              *)

Citing == answer.kind \in {"page", "cited"}

\* The page that is being read has the URL of the last contact, and an answer
\* with sources is the end of the call.
CiteInv ==
    /\ \A c \in contacts : c.hop \in Nat /\ c.hop <= hop
    /\ stage = "reading" => \E c \in contacts : c.url = url /\ c.hop = hop
    /\ Citing => stage = "over"
    /\ CitesWhatItRead

\* What zip() pairs: the k-th source is the k-th item that was found good.
LEMMA SourcesAreTheGood ==
    ASSUME LtTypeInv
    PROVE  LET good == {n \in DOMAIN items : verdicts[n] = "yes"}
           IN  /\ Len(Sources) = Cardinality(good)
               /\ \A n \in good : Sources[Rank(good, n)] =
                                    [title |-> items[n].title, url |-> items[n].url]
  <1> DEFINE good == {n \in DOMAIN items : verdicts[n] = "yes"}
             places == [n \in DOMAIN items |-> n]
  <1>1. DOMAIN items = 1 .. Len(items) /\ Len(items) \in Nat
    BY DEF LtTypeInv
  <1>2. places \in Seq(Nat) /\ DOMAIN places = DOMAIN items
    BY <1>1
  <1>3. Valid = Picked(places, good)
    BY DEF Valid
  <1>4. good \in SUBSET (DOMAIN places) /\ \A n \in good : places[n] = n
    OBVIOUS
  <1> HIDE DEF good, places
  <1>5. DOMAIN Valid = 1 .. Cardinality(good) /\ Cardinality(good) \in Nat
    BY <1>2, <1>3, <1>4, PickedIsSeq
  <1>6. \A n \in good : Rank(good, n) \in DOMAIN Valid /\ Valid[Rank(good, n)] = n
    BY <1>2, <1>3, <1>4, PickedElements
  <1>7. Len(Sources) = Cardinality(good)
    BY <1>5 DEF Sources
  <1>8. ASSUME NEW n \in good
        PROVE  Sources[Rank(good, n)] = [title |-> items[n].title, url |-> items[n].url]
    BY <1>6 DEF Sources
  <1>9. QED
    BY <1>7, <1>8 DEF good

\* A page that is read is cited by the URL of its last contact.
LEMMA PageIsCited ==
    ASSUME LtTypeInv, CiteInv, PageEnds
    PROVE  CiteInv'
  <1>1. stage = "reading" /\ UNCHANGED <<contacts, hop, url>> /\ stage' = "over"
    BY DEF PageEnds, page, Finish
  <1>2. PICK c \in contacts : c.url = url /\ c.hop = hop
    BY <1>1 DEF CiteInv
  <1>3. CASE answer'.kind \notin {"page", "cited"}
    BY <1>1, <1>3 DEF CiteInv, Citing, CitesWhatItRead
  <1>4. CASE answer' = [kind |-> "page", sources |-> <<PageSource>>]
    <2>1. answer'.kind = "page" /\ answer'.sources = <<[title |-> "page", url |-> c.url]>>
      BY <1>2, <1>4 DEF PageSource
    <2>2. \A d \in contacts : d.hop <= c.hop
      BY <1>2 DEF CiteInv
    <2>3. CitesWhatItRead'
      BY <1>1, <2>1, <2>2 DEF CitesWhatItRead
    <2>4. QED
      BY <1>1, <2>3 DEF CiteInv, Citing
  <1>5. QED
    BY <1>3, <1>4 DEF PageEnds, Finish, ToolError, Escaped

\* Validated items are cited in their places.
LEMMA ItemsAreCited ==
    ASSUME LtTypeInv, CiteInv, Cite
    PROVE  CiteInv'
  <1>1. /\ UNCHANGED <<contacts, hop, url, items, verdicts>> /\ stage' = "over"
        /\ answer'.kind = "cited" /\ answer'.sources = Sources
    BY DEF Cite, page, found, Finish
  <1> DEFINE good == {n \in DOMAIN items : verdicts[n] = "yes"}
  <1>2. /\ Len(Sources) = Cardinality(good)
        /\ \A n \in good : Sources[Rank(good, n)] =
                             [title |-> items[n].title, url |-> items[n].url]
    BY SourcesAreTheGood
  <1>3. \A n : Rank(good, n) = Cardinality({m \in good : m <= n})
    BY DEF Rank
  <1> DEFINE after == {n \in DOMAIN items' : verdicts'[n] = "yes"}
  <1>4. after = good
    BY <1>1
  <1>5. /\ Len(answer'.sources) = Cardinality(after)
        /\ \A n \in after : answer'.sources[Cardinality({m \in after : m <= n})] =
                              [title |-> items'[n].title, url |-> items'[n].url]
    <2> HIDE DEF after, good
    <2>1. QED
      BY <1>1, <1>2, <1>3, <1>4
  <1>6. CitesWhatItRead'
    BY <1>1, <1>5 DEF CitesWhatItRead
  <1>7. QED
    BY <1>1, <1>6 DEF CiteInv, Citing

\* Every step keeps citations true to what was read.
LEMMA StepKeepsCitations ==
    ASSUME LtTypeInv, CiteInv, [LtNext]_ltVars
    PROVE  CiteInv'
  <1>1. CASE PageEnds
    BY <1>1, PageIsCited
  <1>2. CASE Cite
    BY <1>2, ItemsAreCited
  <1>3. CASE Connect \/ TransportError
    <2>1. /\ contacts' = contacts \cup {Attempt} /\ UNCHANGED <<url, hop>>
          /\ stage # "over" /\ (answer' = answer \/ answer' = ToolError)
      BY <1>3 DEF Connect, TransportError, Finish
    <2>2. Attempt.url = url /\ Attempt.hop = hop /\ hop \in Nat
      BY DEF Attempt, LtTypeInv, MAX_REDIRECTS
    <2>3. ~Citing'
      BY <2>1 DEF CiteInv, Citing, ToolError
    <2>4. \A c \in contacts' : c.hop \in Nat /\ c.hop <= hop
      BY <2>1, <2>2 DEF CiteInv
    <2>5. QED
      BY <2>1, <2>2, <2>3, <2>4 DEF CiteInv, Citing, CitesWhatItRead
  <1>4. ASSUME NEW location \in Urls, Redirect(location) PROVE CiteInv'
    <2>1. /\ contacts' = contacts /\ stage = "reading" /\ stage' # "reading"
          /\ hop' \in {hop, hop + 1} /\ (answer' = answer \/ answer' = ToolError)
      BY <1>4 DEF Redirect, Finish
    <2>2. ~Citing'
      BY <2>1 DEF CiteInv, Citing, ToolError
    <2>3. \A c \in contacts' : c.hop \in Nat /\ c.hop <= hop'
      BY <2>1 DEF CiteInv, LtTypeInv, MAX_REDIRECTS
    <2>4. QED
      BY <2>1, <2>2, <2>3 DEF CiteInv, Citing, CitesWhatItRead
  <1>5. CASE /\ UNCHANGED <<contacts, hop>> /\ stage # "over"
             /\ (answer' = answer \/ answer' = ToolError \/ answer' = Escaped)
             /\ (stage' = "reading" => stage = "reading" /\ url' = url)
    <2>1. ~Citing'
      BY <1>5 DEF CiteInv, Citing, ToolError, Escaped
    <2>2. QED
      BY <1>5, <2>1 DEF CiteInv, Citing, CitesWhatItRead
  <1>6. ASSUME NEW c \in Calls, Begin(c) PROVE CiteInv'
    BY <1>5, <1>6 DEF Begin, Refusal, Finish
  <1>7. ASSUME NEW raw \in Results, ServiceAnswers(raw) PROVE CiteInv'
    BY <1>5, <1>7 DEF ServiceAnswers, page
  <1>8. ASSUME NEW n \in DOMAIN verdicts, Validate(n) PROVE CiteInv'
    BY <1>5, <1>8 DEF Validate, page
  <1>9. CASE Resolve \/ FetchEscapes \/ Chunk \/ ServiceFails \/ Deadline
    BY <1>5, <1>9 DEF Resolve, FetchEscapes, Chunk, ServiceFails, Deadline, Finish, page
  <1>10. CASE UNCHANGED <<contacts, hop, url, stage, answer, items, verdicts>>
    BY <1>10 DEF CiteInv, Citing, CitesWhatItRead
  <1>11. ASSUME NEW host \in Hosts, NEW addresses \in Answers, Rebind(host, addresses)
         PROVE  CiteInv'
    BY <1>10, <1>11 DEF Rebind, page, found
  <1>12. CASE UNCHANGED ltVars
    BY <1>10, <1>12 DEF ltVars, page, found
  <1>13. QED
    BY <1>1, <1>2, <1>3, <1>4, <1>6, <1>7, <1>8, <1>9, <1>11, <1>12 DEF LtNext

\* However validations and redirects go, what a call hands to the model is cited
\* by where it was read, each good item in its place and under its own title.
THEOREM CitationsAreTrue == LtSpec => []CitesWhatItRead
  <1>1. LtInit => CiteInv
    BY DEF LtInit, CiteInv, Citing, CitesWhatItRead, NoAnswer
  <1>2. LtTypeInv /\ CiteInv /\ [LtNext]_ltVars => CiteInv'
    BY StepKeepsCitations
  <1>3. CiteInv => CitesWhatItRead
    BY DEF CiteInv
  <1>4. QED
    BY <1>1, <1>2, <1>3, CallTypesInductive, PTL DEF LtSpec

=============================================================================
