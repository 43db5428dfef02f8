--------------------------- MODULE StreamContract ---------------------------
(***************************************************************************)
(* What the worker of a browser chat and its event stream owe each other,  *)
(* whatever the worker does in between and whatever the queue holds.  The  *)
(* worker may be told to stop at any time and then does nothing but stop.  *)
(* The stream leaves when it reads the terminator or when its client is    *)
(* gone; it closes only after the worker, and a worker that it leaves      *)
(* behind at work is told to stop.                                         *)
(*                                                                         *)
(* ChatService shows the stream only from this side, EventStream what is   *)
(* inside; both implement this module.                                     *)
(***************************************************************************)

CONSTANT Chats

VARIABLES
    phase,      \* how far the worker of each chat is
    doomed,     \* chats whose worker will resume with CancelledError
    reader      \* how far the event stream of each chat is

vars == <<phase, doomed, reader>>

\* "told" is a worker that is over with a terminator to be read, "mute" one
\* without: it was cancelled before its first step.
Alive == {"fresh", "working", "ending"}
Gone  == {"told", "mute"}

\* A chat has not begun, or is under way with the model.
Init ==
    /\ \E begun \in SUBSET Chats :
          /\ phase = [c \in Chats |-> IF c \in begun THEN "working" ELSE "none"]
          /\ reader = [c \in Chats |-> IF c \in begun THEN "open" ELSE "none"]
    /\ doomed = {}

Turns(c, place) == phase' = [phase EXCEPT ![c] = place]
Reads(c, place) == reader' = [reader EXCEPT ![c] = place]

\* The stream starts and creates its worker.
Opens(c) ==
    /\ reader[c] = "none"
    /\ Reads(c, "open") /\ Turns(c, "fresh")
    /\ UNCHANGED doomed

\* The worker takes its first step.
Starts(c) ==
    /\ phase[c] = "fresh" /\ c \notin doomed
    /\ Turns(c, "working")
    /\ UNCHANGED <<doomed, reader>>

\* The worker is done with the model and has only its last event to send.
Concludes(c) ==
    /\ phase[c] = "working" /\ c \notin doomed
    /\ Turns(c, "ending")
    /\ UNCHANGED <<doomed, reader>>

\* The worker is over and has left its terminator.
Tells(c) ==
    /\ phase[c] \in {"working", "ending"}
    /\ Turns(c, "told")
    /\ doomed' = doomed \ {c}
    /\ UNCHANGED reader

\* A worker stopped before its first step leaves nothing.
Vanishes(c) ==
    /\ phase[c] = "fresh" /\ c \in doomed
    /\ Turns(c, "mute")
    /\ doomed' = doomed \ {c}
    /\ UNCHANGED reader

\* A revoking handler tells workers to stop, several at once.
Dooms ==
    /\ doomed' \subseteq Chats /\ doomed \subseteq doomed'
    /\ \A c \in doomed' : phase[c] \in Alive
    /\ UNCHANGED <<phase, reader>>

\* The stream reads the terminator.
ReadsEnd(c) ==
    /\ reader[c] = "open" /\ phase[c] = "told"
    /\ Reads(c, "leaving")
    /\ UNCHANGED <<phase, doomed>>

\* The client is gone: the stream leaves and stops a worker that is alive.
\* It waited for an event, so the worker has taken its first step.
Cuts(c) ==
    /\ reader[c] = "open" /\ phase[c] # "fresh"
    /\ Reads(c, "leaving")
    /\ doomed' = IF phase[c] \in Alive THEN doomed \cup {c} ELSE doomed
    /\ UNCHANGED phase

\* The worker that the stream waits for is over.
Closes(c) ==
    /\ reader[c] = "leaving" /\ phase[c] \in Gone
    /\ Reads(c, "closed")
    /\ UNCHANGED <<phase, doomed>>

Step(c) ==
    \/ Opens(c) \/ Starts(c) \/ Concludes(c) \/ Tells(c) \/ Vanishes(c)
    \/ ReadsEnd(c) \/ Cuts(c) \/ Closes(c)

Next == Dooms \/ \E c \in Chats : Step(c)

Spec == Init /\ [][Next]_vars

-----------------------------------------------------------------------------
(* What the contract is good for.                                          *)

\* No worker outlives its stream, and one that is alive behind a stream that
\* has left has been told to stop.
NoneLeftBehind ==
    \A c \in Chats :
        /\ reader[c] = "closed" => phase[c] \in Gone
        /\ reader[c] = "leaving" /\ phase[c] \in Alive => c \in doomed

=============================================================================
