----------------------------- MODULE BrowserChat -----------------------------
(***************************************************************************)
(* The chat page, app.js: the transcript it keeps in memory, the bounded   *)
(* request it builds of it, and sendMessage() with everything the user may *)
(* do while an answer is being generated: stop it, begin a new             *)
(* conversation, sign out or change the password.                          *)
(*                                                                         *)
(* The page has one thread; an action is what runs between two awaits.     *)
(* After abort() the pending read of the stream rejects, so the only thing *)
(* sendMessage() still does is to fail.  Messages remember the             *)
(* conversation they were written in, which the page does not: history for *)
(* the properties.                                                         *)
(*                                                                         *)
(* Text is a number of UTF-16 units, which is what the page counts and     *)
(* where it cuts; a unit takes `wide' bytes on the wire.  Two units may be *)
(* the halves of one character, and a cut between them leaves a half that  *)
(* no encoding of text has: `charSplits' are the lengths to which the      *)
(* content, and `thoughtSplits' those to which the end of the trace, may   *)
(* not be cut.  The server counts characters, of which there are never     *)
(* more than units, so its limits are no tighter than they are here.       *)
(***************************************************************************)
EXTENDS Naturals, Sequences, SequencesExt

CONSTANTS
    MaxPrompt,          \* MAX_PROMPT_CHARS (8,000)
    MaxMessage,         \* MAX_REQUEST_MESSAGE_CHARS (12,000)
    MaxMessages,        \* MAX_REQUEST_MESSAGES (32)
    MaxChars,           \* MAX_REQUEST_CHARS (48,000)
    MaxBytes,           \* MAX_REQUEST_BYTES (120 KiB)
    MaxStored,          \* MAX_STORED_MESSAGES (64)
    ServerMessage, ServerMessages, ServerChars, ServerBytes,
                        \* the same limits in ChatBody and the body middleware
    Widths,             \* bytes one character may take in JSON
    Overhead,           \* bytes of JSON around a message
    MaxAnswer,          \* bound: units of an answer
    MaxThought,         \* bound: units of a reasoning trace
    MaxTurns            \* bound: prompts sent

ASSUME BoundAssumption ==
    /\ {MaxPrompt, MaxMessage, MaxMessages, MaxChars, MaxBytes, MaxStored}
          \subseteq Nat \ {0}
    /\ {ServerMessage, ServerMessages, ServerChars, ServerBytes} \subseteq Nat
    /\ Widths \subseteq Nat /\ Overhead \in Nat
    /\ MaxAnswer \in Nat \ {0} /\ {MaxThought, MaxTurns} \subseteq Nat
\* The limits of the page, compared with those of the server and each other.
ASSUME LimitAssumption ==
    /\ MaxPrompt <= MaxMessage /\ MaxMessage <= MaxChars
    /\ MaxMessage <= ServerMessage /\ MaxMessages <= ServerMessages
    /\ MaxChars <= ServerChars /\ MaxBytes <= ServerBytes
    /\ \A w \in Widths : Overhead + MaxPrompt * w <= MaxBytes

VARIABLES
    messages,   \* state.messages
    place,      \* sendMessage(): "idle", "fetching" or "streaming"
    aborted,    \* the controller of this turn has been aborted
    prior,      \* priorMessageCount
    view,       \* what the assistant's article holds: [chars, thought, done]
    request,    \* this turn's request: [messages, trimmed, of]
    turns,      \* prompts sent
    conv,       \* number of the conversation on screen
    leaving,    \* the page has asked for the login page
    logout, password        \* those handlers: "idle" or "waiting"

vars == <<messages, place, aborted, prior, view, request, turns, conv,
          leaving, logout, password>>
handlers == <<logout, password>>

Least(a, b) == IF a <= b THEN a ELSE b
Newest(s, n) == SubSeq(s, Len(s) - Least(Len(s), n) + 1, Len(s))

NoRequest == [messages |-> <<>>, trimmed |-> FALSE, of |-> <<>>]
Blank == [chars |-> 0, thought |-> 0, done |-> FALSE]

Init ==
    /\ messages = <<>> /\ place = "idle" /\ aborted = FALSE /\ prior = 0
    /\ view = Blank
    /\ request = NoRequest
    /\ turns = 0 /\ conv = 1 /\ leaving = FALSE
    /\ logout = "idle" /\ password = "idle"

-----------------------------------------------------------------------------
(* buildBoundedRequest().                                                  *)

\* The part of a message that is sent if `used' characters are taken: the
\* content up to its limit, then as much of the trace as there is room for.
Cut(m, used) ==
    LET content == Least(m.chars, MaxMessage)
        room == MaxChars - used - content
    IN [m EXCEPT !.chars = content,
                 !.thought = Least(Least(@, MaxMessage), room)]

\* slip: a message that does not fit is passed over.
PassOver(picked) == [picked EXCEPT !.trimmed = TRUE]
\* It ends the search.
EndSearch(picked) == [picked EXCEPT !.trimmed = TRUE, !.full = TRUE]

\* One step of the loop from the newest message to the oldest.
Pick(picked, m) ==
    IF picked.full THEN picked
    ELSE IF \/ Len(picked.sent) >= MaxMessages
            \/ picked.used + Least(m.chars, MaxMessage) > MaxChars
    THEN EndSearch(picked)
    ELSE LET cut == Cut(m, picked.used)
         IN [picked EXCEPT !.sent = <<cut>> \o @,
                           !.used = @ + cut.chars + cut.thought,
                           !.trimmed = @ \/ cut # m]

\* The sum of a sequence of numbers, from its last one on.
Total(s) ==
    LET last[n \in 0 .. Len(s)] ==
          IF n = 0 THEN 0 ELSE s[Len(s) - n + 1] + last[n - 1]
    IN last[Len(s)]

Bytes(s) ==
    Total([i \in DOMAIN s |-> Overhead + (s[i].chars + s[i].thought) * s[i].wide])
Characters(s) == Total([i \in DOMAIN s |-> s[i].chars + s[i].thought])

\* slip: no byte limit.
Unlimited(sent) == sent
\* The oldest messages go until the serialized request fits.
WithinBytes(sent) ==
    LET n == CHOOSE n \in 0 .. Len(sent) - 1 :
               /\ \/ Bytes(SubSeq(sent, n + 1, Len(sent))) <= MaxBytes
                  \/ n = Len(sent) - 1
               /\ \A k \in 0 .. n - 1 :
                     Bytes(SubSeq(sent, k + 1, Len(sent))) > MaxBytes
    IN SubSeq(sent, n + 1, Len(sent))

\* wasTrimmed, which the status line tells the user.
WasTrimmed(picked, sent) == picked.trimmed \/ Len(sent) < Len(picked.sent)

BoundedRequest(history) ==
    LET picked[n \in 0 .. Len(history)] ==
          IF n = 0
          THEN [sent |-> <<>>, used |-> 0, full |-> FALSE, trimmed |-> FALSE]
          ELSE Pick(picked[n - 1], history[Len(history) - n + 1])
        all == picked[Len(history)]
        sent == WithinBytes(all.sent)
    IN [messages |-> sent, trimmed |-> WasTrimmed(all, sent), of |-> history]

\* A cut has left half a character at the end of the content or at the
\* beginning of the trace.
Torn(m) == m.chars \in m.charSplits \/ m.thought \in m.thoughtSplits

\* The server: RequestBodyLimitMiddleware, ChatMessage and ChatBody.  Half a
\* character comes as an escape that JSON has and a constrained string refuses.
Accepts(body) ==
    /\ Bytes(body) <= ServerBytes
    /\ Len(body) \in 1 .. ServerMessages
    /\ \A i \in DOMAIN body :
          /\ body[i].chars \in 1 .. ServerMessage
          /\ body[i].thought \in 0 .. ServerMessage
          /\ body[i].thought > 0 => body[i].role = "assistant"
          /\ ~Torn(body[i])
    /\ body[Len(body)].role = "user"
    /\ Characters(body) <= ServerChars

-----------------------------------------------------------------------------
(* sendMessage().                                                          *)

Generating == place # "idle"
UserActs == ~leaving /\ password = "idle"   \* the password dialog is modal

\* A prompt is never cut, so where its characters have two units is left out.
Send ==
    /\ UserActs /\ ~Generating /\ turns < MaxTurns
    /\ \E k \in 1 .. MaxPrompt, w \in Widths :
        LET asked == Append(messages,
              [role |-> "user", chars |-> k, thought |-> 0, wide |-> w,
               charSplits |-> {}, thoughtSplits |-> {}, conv |-> conv])
        IN messages' = asked /\ request' = BoundedRequest(asked)
    /\ prior' = Len(messages)
    /\ place' = "fetching" /\ aborted' = FALSE /\ view' = Blank
    /\ turns' = turns + 1
    /\ UNCHANGED <<conv, leaving, handlers>>

\* The finally of sendMessage().
Finally ==
    /\ place' = "idle" /\ aborted' = FALSE
    /\ prior' = 0 /\ view' = Blank /\ request' = NoRequest

\* The session is gone: 401.
Unauthorized ==
    /\ place = "fetching" /\ ~aborted
    /\ leaving' = TRUE
    /\ Finally
    /\ UNCHANGED <<messages, turns, conv, handlers>>

\* An event stream opens.
Opens ==
    /\ place = "fetching" /\ ~aborted
    /\ place' = "streaming"
    /\ UNCHANGED <<messages, aborted, prior, view, request, turns, conv,
                   leaving, handlers>>

\* Events of the stream: deltas (of which only the presence matters), the
\* reasoning pieces, a reset, or the done event with the authoritative text.
\* The stream carries nothing after it.
Event ==
    /\ place = "streaming" /\ ~aborted /\ ~view.done
    /\ \/ view.chars = 0 /\ view' = [view EXCEPT !.chars = 1]
       \/ \E k \in 1 .. MaxThought :
             view.thought = 0 /\ view' = [view EXCEPT !.thought = k]
       \/ view.chars > 0 /\ view' = [view EXCEPT !.chars = 0]
       \/ \E k \in 1 .. MaxAnswer : view' = [view EXCEPT !.chars = k, !.done = TRUE]
    /\ UNCHANGED <<messages, place, aborted, prior, request, turns, conv,
                   leaving, handlers>>

\* slip: a stream that was cut counts as an answer.
AnyText == view.chars > 0
\* What sendMessage() requires when the stream has ended: a done event that
\* left some text.
Complete == view.done /\ view.chars > 0

\* Where characters with two units can be in a text of n units.
Splits(n) == {s \in SUBSET (1 .. n - 1) : \A k \in s : k + 1 \notin s}

\* The stream has ended, and the answer joins the transcript: its text, and the
\* end of its trace, cut without regard to the characters.  (The content is only
\* ever cut to MaxMessage, so no other place in it is of interest.)
Answered ==
    /\ place = "streaming" /\ ~aborted /\ Complete
    /\ \E w \in Widths, s \in Splits(view.chars) \cap SUBSET {MaxMessage},
          t \in Splits(view.thought) :
        messages' = Newest(Append(messages,
              [role |-> "assistant", chars |-> view.chars,
               thought |-> Least(view.thought, MaxMessage), wide |-> w,
               charSplits |-> s, thoughtSplits |-> t,
               conv |-> Last(request.of).conv]), MaxStored)
    /\ Finally
    /\ UNCHANGED <<turns, conv, leaving, handlers>>

\* The transcript after a failure: up to the prompt, and within its bound.
AfterFailure(s) == Newest(SubSeq(s, 1, Least(Len(s), prior + 1)), MaxStored)

\* The catch of sendMessage(): abort, network error, refusal by the server,
\* an error event, or a stream that ended early.
Fails ==
    /\ Generating
    /\ ~Complete \/ aborted
    /\ messages' = AfterFailure(messages)
    /\ Finally
    /\ UNCHANGED <<turns, conv, leaving, handlers>>

\* The connection breaks after the done event but before the stream's end.
BreaksLate ==
    /\ place = "streaming" /\ ~aborted /\ Complete
    /\ messages' = AfterFailure(messages)
    /\ Finally
    /\ UNCHANGED <<turns, conv, leaving, handlers>>

-----------------------------------------------------------------------------
(* What happens around it.                                                 *)

\* slip: the generation goes on.
KeepsGoing == UNCHANGED aborted
\* activeController.abort(), if a turn is active.
Abort == aborted' = (aborted \/ Generating)

\* stopGeneration(), and the 20-minute timer of the turn.
Stop ==
    /\ Generating
    /\ Abort
    /\ UNCHANGED <<messages, place, prior, view, request, turns, conv, leaving,
                   handlers>>

NewConversation ==
    /\ UserActs /\ conv <= MaxTurns
    /\ Abort
    /\ messages' = <<>>
    /\ conv' = conv + 1
    /\ UNCHANGED <<place, prior, view, request, turns, leaving, handlers>>

\* logout(): aborts at once, then waits for the server.
LogoutStarts ==
    /\ UserActs /\ logout = "idle"
    /\ Abort
    /\ logout' = "waiting"
    /\ UNCHANGED <<messages, place, prior, view, request, turns, conv, leaving,
                   password>>

\* changePassword() waits for the server, in a modal dialog.
PasswordStarts ==
    /\ UserActs
    /\ password' = "waiting"
    /\ UNCHANGED <<messages, place, aborted, prior, view, request, turns, conv,
                   leaving, logout>>

\* The server has signed the user out: the transcript is dropped.
SignedOut ==
    /\ \/ logout = "waiting" /\ logout' = "idle" /\ UNCHANGED password
       \/ password = "waiting" /\ password' = "idle" /\ UNCHANGED logout
    /\ messages' = <<>> /\ leaving' = TRUE /\ conv' = conv + 1
    /\ UNCHANGED <<place, aborted, prior, view, request, turns>>

\* It has not.
HandlerFails ==
    /\ \/ logout = "waiting" /\ logout' = "idle" /\ UNCHANGED password
       \/ password = "waiting" /\ password' = "idle" /\ UNCHANGED logout
    /\ UNCHANGED <<messages, place, aborted, prior, view, request, turns, conv,
                   leaving>>

\* The login page replaces this one.
Closed == leaving /\ ~Generating /\ UNCHANGED vars

Next ==
    \/ Send \/ Unauthorized \/ Opens \/ Event \/ Answered \/ Fails \/ BreaksLate
    \/ Stop \/ NewConversation
    \/ LogoutStarts \/ PasswordStarts \/ SignedOut \/ HandlerFails
    \/ Closed

Spec == Init /\ [][Next]_vars

-----------------------------------------------------------------------------
(* Properties.                                                             *)

Text == [role : {"user", "assistant"}, chars : Nat \ {0}, thought : Nat,
         wide : Widths, charSplits : SUBSET Nat, thoughtSplits : SUBSET Nat,
         conv : 1 .. MaxTurns + 1]

\* Every variable has its type, and the transcript its bound.
TypeOK ==
    /\ messages \in Seq(Text) /\ Len(messages) <= MaxStored + 1
    /\ Generating \/ leaving \/ Len(messages) <= MaxStored
    /\ place \in {"idle", "fetching", "streaming"}
    /\ aborted \in BOOLEAN /\ leaving \in BOOLEAN
    /\ prior \in 0 .. MaxStored /\ turns \in 0 .. MaxTurns
    /\ conv \in Nat
    /\ view \in [chars : 0 .. MaxAnswer, thought : 0 .. MaxThought,
                 done : BOOLEAN]
    /\ request.messages \in Seq(Text) /\ request.of \in Seq(Text)
    /\ {logout, password} \subseteq {"idle", "waiting"}

\* Whatever the transcript has become, the request that the page builds of it
\* keeps every limit and rule of the server's validation, and the new prompt is
\* in it in full: if it is refused, the page has cut a character in half.
RefusedOnlyIfTorn ==
    Generating =>
        /\ \/ Accepts(request.messages)
           \/ \E i \in DOMAIN request.messages : Torn(request.messages[i])
        /\ Last(request.messages) = Last(request.of)

\* The request is the end of the transcript without a gap: if a message was
\* left out, so was everything before it.
ContextHasNoGap ==
    LET n == Len(request.messages)
        tail == Newest(request.of, n)
    IN \A i \in 1 .. n :
          request.messages[i] =
             [tail[i] EXCEPT !.chars = Least(@, MaxMessage),
                             !.thought = request.messages[i].thought]

\* "Partial output was not added to the next request's context"
\* (app.js:550).  However stops, breaks, late failures and new conversations
\* fall, a turn leaves the transcript as its prompt made it, with at most the
\* oldest messages gone, or adds to that its answer, the one of the done event
\* and with all of its trace that is kept; a turn whose conversation was
\* dropped leaves nothing.
IsAnswer(a) ==
    /\ a.role = "assistant" /\ a.chars = view.chars
    /\ a.thought = Least(view.thought, MaxMessage)
TurnIsAllOrNothing ==
    [][Generating /\ ~Generating' /\ ~leaving' =>
          IF Last(request.of).conv # conv THEN messages' = <<>>
          ELSE \/ messages' = Newest(request.of, MaxStored)
               \/ /\ view.done /\ ~aborted /\ IsAnswer(Last(messages'))
                  /\ messages' = Newest(Append(request.of, Last(messages')), MaxStored)]_vars

\* A new conversation knows nothing of the one before, even if that was still
\* being answered.
OnlyThisConversation ==
    ~leaving => \A i \in DOMAIN messages : messages[i].conv = conv

-----------------------------------------------------------------------------
(* What the documentation promises and the code does not keep.             *)

\* Of an answer and its trace, "at most 12,000 characters are retained ... and
\* may be sent with a later turn" (README.md:339-341): the server accepts what
\* the page makes of its history.
RequestAccepted == Generating => Accepts(request.messages)

=============================================================================
