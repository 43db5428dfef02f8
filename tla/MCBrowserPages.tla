--------------------------- MODULE MCBrowserPages ---------------------------
(* The two pages of the browser for TLC.  The chat page has limits in the  *)
(* proportions of the program's, small enough for a transcript of four     *)
(* messages to exceed each of them.  The pages share no state, so each     *)
(* behaviour exercises one of them.                                        *)
EXTENDS BrowserChat, ZooCredentials

VARIABLE part

MCWidths == {1, 3}

\* A bound: all messages of a transcript are written in the same alphabet.
OneAlphabet == \A m, n \in ToSet(messages) : m.wide = n.wide

PagesInit ==
    /\ Init /\ ZcInit
    /\ \/ part = "chat" /\ table = {}
       \/ part = "credentials"
PagesNext ==
    /\ UNCHANGED part
    /\ \/ part = "chat" /\ Next /\ OneAlphabet' /\ UNCHANGED zcVars
       \/ part = "credentials" /\ ZcNext /\ UNCHANGED vars

Pages == PagesInit /\ [][PagesNext]_<<part, vars, zcVars>>
=============================================================================
