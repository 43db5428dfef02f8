--------------------------- MODULE MCChatService ---------------------------
(* Small instances of ChatService for TLC.                                 *)
EXTENDS ChatService, TLC

CONSTANTS alice, bob, s1, s2, t1, r1, r2, r3, r4

\* alice works through the gateway, bob in the browser.
MCPair == (t1 :> alice) @@ (s2 :> bob)

\* One user with both kinds of credential.
MCSolo == (s1 :> alice) @@ (t1 :> alice)

Symmetry == Permutations(Req)
=============================================================================
