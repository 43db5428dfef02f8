----------------------------- MODULE MCFrontDoor -----------------------------
(* What a request meets before its handler does its work: the rate limiter *)
(* and the body limits, side by side.  They share no state, so each        *)
(* behaviour exercises one of them.                                        *)
EXTENDS RateLimiter, BodyLimit

CONSTANTS c1, c2, w1

VARIABLE part

MCChats == {c1, c2}
MCReq == MCChats \cup {w1}

FrontDoorInit == part \in {"rate", "body"} /\ RlInit /\ Init
FrontDoorNext ==
    /\ UNCHANGED part
    /\ \/ part = "rate" /\ RlNext /\ UNCHANGED vars
       \/ part = "body" /\ Next /\ UNCHANGED rlVars

FrontDoor ==
    /\ FrontDoorInit /\ [][FrontDoorNext]_<<part, rlVars, vars>>
    /\ Fairness
=============================================================================
