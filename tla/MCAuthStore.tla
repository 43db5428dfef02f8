----------------------------- MODULE MCAuthStore -----------------------------
(* Small instances of AuthStore for TLC.                                   *)
EXTENDS AuthStore, TLC

Symmetry ==
    Permutations(Users) \cup Permutations(Logins) \cup Permutations(Creators)
        \cup Permutations(Callers)
=============================================================================
