-------------------------------- MODULE MCTools --------------------------------
(* The tools of the browser chat for TLC: the loop that asks for them, and *)
(* one call of a tool in detail.  They share no state, so each behaviour   *)
(* exercises one of them.                                                  *)
EXTENDS ToolLoop, LiveTools

CONSTANTS a, b

VARIABLE part

Call(id) == [id |-> id, ok |-> TRUE]
Malformed == [id |-> NoId, ok |-> FALSE]

\* No call, one, several; with, without and with repeated ids; malformed ones
\* alone and among others; more than the budget allows.
MCRawCalls ==
    {<<>>, <<Malformed>>, <<Call(a)>>, <<Call(NoId), Call(NoId)>>,
     <<Call(a), Malformed, Call(a)>>, <<Call(NoId), Call(b), Call(NoId)>>,
     <<Call(b), Call(a), Call(NoId), Call(b)>>}

Url(scheme, host, port) ==
    [scheme |-> scheme, host |-> host, port |-> port, credentials |-> FALSE, length |-> 20]
Good == Url("https", "a", 0)
Other == Url("http", "b", 80)
MCUrls == {Good, Other, Url("ftp", "a", 0), [Good EXCEPT !.credentials = TRUE]}
MCAnswers == {<<"p1", "p2">>, <<"p2", "p2">>, <<"p1", "lan">>, <<"lan">>, <<>>}
Wanted(name, size, count) ==
    [tool |-> name, length |-> size, number |-> count, option |-> "known",
     gguf |-> FALSE, url |-> Good]
MCCalls ==
    {Wanted("page", 20, 0), Wanted("page", 2049, 0), Wanted("search", 5, 0),
     Wanted("weather", 2, 7), Wanted("weather", 1, 3), Wanted("models", 0, 10),
     Wanted("models", 3, 15), [Wanted("models", 3, 8) EXCEPT !.gguf = TRUE],
     [Wanted("weather", 2, 7) EXCEPT !.option = "unhashable"],
     Wanted("models", 101, 8), Wanted("no_such_tool", 1, 1)}
Item(name, target) ==
    [object |-> TRUE, named |-> TRUE, gguf |-> TRUE, title |-> name, url |-> target]
MCResults ==
    {<<>>, <<Item("one", Good), Item("two", Other), Item("three", Good)>>,
     <<[Item("x", Good) EXCEPT !.object = FALSE], Item("four", Url("ftp", "a", 0)),
       Item("five", Other)>>,
     <<[Item("six", Good) EXCEPT !.named = FALSE], [Item("seven", Good) EXCEPT !.gguf = FALSE],
       Item("eight", Other)>>}

ToolsInit ==
    /\ part \in {"loop", "call"} /\ Init /\ LtInit
    /\ part = "call" => ~toolsEnabled /\ ~reasoning
    /\ part = "loop" => dns = [host \in Hosts |-> <<>>]

\* The call has ended.
CallOver == stage = "over" /\ UNCHANGED ltVars

ToolsNext ==
    /\ UNCHANGED part
    /\ \/ part = "loop" /\ Next /\ UNCHANGED ltVars
       \/ part = "call" /\ (LtNext \/ CallOver) /\ UNCHANGED vars

\* The fairness of ToolLoop, for the behaviours that exercise it.
ToolsSpec ==
    /\ ToolsInit /\ [][ToolsNext]_<<part, vars, ltVars>>
    /\ part = "loop" => Fairness

\* The loop that is exercised comes to an end, and so do its tools: its
\* requests and tools fail, crash, take their time or are interrupted.
LoopTerminates == part = "loop" => Terminates

==============================================================================
