---------------------------- MODULE BoundedModel ----------------------------
(***************************************************************************)
(* What the chat service promises about the one model it guards: at most   *)
(* Capacity requests are inside, at most Concurrency of those use the      *)
(* model, nobody uses it without being inside, and requests come and go    *)
(* one at a time.                                                          *)
(***************************************************************************)
EXTENDS Naturals, FiniteSets

CONSTANTS Req, Capacity, Concurrency

VARIABLES
    inside,     \* requests that count against Capacity
    using       \* those that use the model

vars == <<inside, using>>

Init == inside = {} /\ using = {}

Enter(r) ==
    /\ r \notin inside
    /\ Cardinality(inside) < Capacity
    /\ inside' = inside \cup {r}
    /\ UNCHANGED using

Begin(r) ==
    /\ r \in inside \ using
    /\ Cardinality(using) < Concurrency
    /\ using' = using \cup {r}
    /\ UNCHANGED inside

\* The request stops using the model but stays inside to report its result.
Finish(r) ==
    /\ r \in using
    /\ using' = using \ {r}
    /\ UNCHANGED inside

Leave(r) ==
    /\ r \in inside
    /\ inside' = inside \ {r}
    /\ using' = using \ {r}

Next == \E r \in Req : Enter(r) \/ Begin(r) \/ Finish(r) \/ Leave(r)

Spec == Init /\ [][Next]_vars

=============================================================================
