------------------------------ MODULE AuthStore ------------------------------
(***************************************************************************)
(* Accounts, sessions and API tokens: the SQLite tables of database.py and *)
(* the handlers of main.py that use them (login, the Zoo Code credential   *)
(* page, gateway authentication, logout, change-password).                 *)
(*                                                                         *)
(* Each handler is a sequence of database calls with awaits between them.  *)
(* A database call that writes is one transaction, hence one action; the   *)
(* password hash a handler verified, the clock reading it uses and the     *)
(* row it chose are read earlier and may be out of date by then.           *)
(*                                                                         *)
(* Secrets are random and never repeat, so the session or token that a     *)
(* handler creates is named by the handler; and a password hash is salted, *)
(* so the hash that a change stores is named by the handler as well.       *)
(***************************************************************************)
EXTENDS Naturals, FiniteSets

CONSTANTS
    Users,
    Logins,             \* login handlers, each used once
    Creators,           \* create_api_token handlers
    Changers,           \* change_password handlers
    Leavers,            \* logout handlers
    Revokers,           \* revoke_api_token handlers, with the list before them
    Callers,            \* gateway requests that present an API token
    MaxSessions,        \* sessions kept for one user (10)
    MaxTokens,          \* active tokens of one user (10)
    SessionTTL, TokenTTL,
    TouchEvery,         \* age of last_used_at that a call refreshes (300 s)
    MaxNow,             \* bound: the clock stops here
    NoUser, NoRow,
    Bootstrap           \* the password hash that bootstrap_user() stored

Handlers == Logins \cup Creators \cup Changers \cup Leavers \cup Revokers
              \cup Callers
Signed == Creators \cup Changers \cup Leavers \cup Revokers

ASSUME HandlerAssumption ==
    /\ LET kinds == <<Logins, Creators, Changers, Leavers, Revokers, Callers>>
       IN \A i, j \in DOMAIN kinds : i # j => kinds[i] \cap kinds[j] = {}
    /\ NoUser \notin Users
    /\ NoRow \notin Nat
    /\ Bootstrap \notin Changers
ASSUME LimitAssumption ==
    /\ MaxSessions \in Nat \ {0} /\ MaxTokens \in Nat \ {0}
    /\ SessionTTL \in Nat /\ TokenTTL \in Nat /\ TouchEvery \in Nat
    /\ MaxNow \in Nat

VARIABLES
    now,        \* int(time.time())
    hash,       \* users.password_hash
    sessions,   \* the sessions table: [key, user, made, ends]
    tokens,     \* the api_tokens table: [key, id, user, ends, used]
    nextId,     \* the AUTOINCREMENT sequence of api_tokens
    pc,         \* where each handler is suspended
    who,        \* the user a handler acts for
    mine,       \* the session a handler authenticated with
    seen,       \* the password hash a handler verified its password against
    stamp,      \* the clock reading a handler's next transaction uses
    chosen      \* the token row a handler has read

vars == <<now, hash, sessions, tokens, nextId, pc, who, mine, seen, stamp,
          chosen>>
tables == <<hash, sessions, tokens, nextId>>
locals == <<who, mine, seen, stamp, chosen>>

Init ==
    /\ now = 0
    /\ hash = [u \in Users |-> Bootstrap]
    /\ sessions = {} /\ tokens = {} /\ nextId = 1
    /\ pc = [h \in Handlers |-> "idle"]
    /\ who = [h \in Handlers |-> NoUser]
    /\ mine = [h \in Handlers |-> h]
    /\ seen = [h \in Handlers |-> Bootstrap]
    /\ stamp = [h \in Handlers |-> 0]
    /\ chosen = [h \in Handlers |-> NoRow]

Go(h, place) == pc' = [pc EXCEPT ![h] = place]
OfUser(table, u) == {row \in table : row.user = u}
Unexpired(table, t) == {row \in table : row.ends > t}

Tick ==
    /\ now < MaxNow
    /\ now' = now + 1
    /\ UNCHANGED <<tables, pc, locals>>

-----------------------------------------------------------------------------
(* The transactions of database.py.                                        *)

\* The sessions create_session() keeps beside the new one: the newest
\* MaxSessions - 1; which of two equally old ones goes is up to SQLite.
Kept(table, u, keep) ==
    {K \in SUBSET OfUser(table, u) :
        /\ Cardinality(K) =
             IF Cardinality(OfUser(table, u)) < keep
             THEN Cardinality(OfUser(table, u)) ELSE keep
        /\ \A k \in K : \A s \in OfUser(table, u) \ K : k.made >= s.made}

\* The DELETEs of create_session(): expired rows of everybody, then the
\* user's oldest.
Evict(u, t) ==
    {K \cup {s \in Unexpired(sessions, t) : s.user # u} :
        K \in Kept(Unexpired(sessions, t), u, MaxSessions - 1)}

\* slip: nothing is validated again.
NothingAgain(h)  == TRUE

\* create_api_token() validates the session and the password hash again in
\* the transaction that inserts the token.
StillAuthorized(h) ==
    /\ \E s \in Unexpired(sessions, stamp[h]) :
          s.key = mine[h] /\ s.user = who[h]
    /\ hash[who[h]] = seen[h]

\* slip: the count is compared with the wrong relation.
RoomForOneTooMany(u, t) ==
    Cardinality(OfUser(Unexpired(tokens, t), u)) <= MaxTokens
RoomForToken(u, t) ==
    Cardinality(OfUser(Unexpired(tokens, t), u)) < MaxTokens

\* slip: without AUTOINCREMENT SQLite gives out the largest id plus one.
ReusedId(n) ==
    IF tokens = {} THEN 1
    ELSE 1 + (CHOOSE i \in {t.id : t \in tokens} : \A t \in tokens : t.id <= i)
FreshId(n) == n

-----------------------------------------------------------------------------
(* POST /api/auth/login.                                                   *)

\* user_for_login() returns the account's hash, or no account; then
\* verify_password() works in a thread.
LoginReads(h) ==
    /\ pc[h] = "idle"
    /\ \/ \E u \in Users :
             /\ who' = [who EXCEPT ![h] = u]
             /\ seen' = [seen EXCEPT ![h] = hash[u]]
       \/ UNCHANGED <<who, seen>>
    /\ Go(h, "verifying")
    /\ UNCHANGED <<now, tables, mine, stamp, chosen>>

\* The password did not match the hash: 401 or 400.
Refuses(h) ==
    /\ pc[h] = "verifying"
    /\ Go(h, "over")
    /\ UNCHANGED <<now, tables, locals>>

\* It matched, which it never does without an account; create_session() reads the clock before it connects.
LoginVerified(h) ==
    /\ pc[h] = "verifying" /\ who[h] # NoUser
    /\ stamp' = [stamp EXCEPT ![h] = now]
    /\ Go(h, "writing")
    /\ UNCHANGED <<now, tables, who, mine, seen, chosen>>

\* The transaction of create_session().
CreateSession(h) ==
    /\ pc[h] = "writing"
    /\ \E kept \in Evict(who[h], stamp[h]) :
          sessions' = kept \cup
             {[key |-> h, user |-> who[h], made |-> stamp[h],
               ends |-> stamp[h] + SessionTTL]}
    /\ Go(h, "over")
    /\ UNCHANGED <<now, hash, tokens, nextId, locals>>

-----------------------------------------------------------------------------
(* The handlers of a signed-in browser.                                    *)

\* require_user(): the cookie names a session that has not expired.
Authenticate(h) ==
    /\ pc[h] = "idle"
    /\ \E s \in Unexpired(sessions, now) :
          /\ mine' = [mine EXCEPT ![h] = s.key]
          /\ who' = [who EXCEPT ![h] = s.user]
    /\ Go(h, "authenticated")
    /\ UNCHANGED <<now, tables, seen, stamp, chosen>>

\* create_api_token and change_password read the hash of the account again
\* and verify the current password against it.
ReadHash(h) ==
    /\ pc[h] = "authenticated"
    /\ seen' = [seen EXCEPT ![h] = hash[who[h]]]
    /\ Go(h, "verifying")
    /\ UNCHANGED <<now, tables, who, mine, stamp, chosen>>

\* The current password is right; the transaction of create_api_token() will
\* use this clock reading.  (change_password reads no clock, but hashes the
\* new password first; its transaction is as far away.)
Verified(h) ==
    /\ pc[h] = "verifying"
    /\ stamp' = [stamp EXCEPT ![h] = now]
    /\ Go(h, "writing")
    /\ UNCHANGED <<now, tables, who, mine, seen, chosen>>

\* The transaction of create_api_token() inserts the token.
CreateToken(h) ==
    /\ pc[h] = "writing"
    /\ StillAuthorized(h)
    /\ RoomForToken(who[h], stamp[h])
    /\ tokens' = Unexpired(tokens, stamp[h]) \cup
          {[key |-> h, id |-> FreshId(nextId), user |-> who[h],
            ends |-> stamp[h] + TokenTTL, used |-> NoRow]}
    /\ nextId' = nextId + 1
    /\ Go(h, "over")
    /\ UNCHANGED <<now, hash, sessions, locals>>

\* It rolls back: the authentication changed (401), or ten tokens (409).
CreateTokenRefused(h) ==
    /\ pc[h] = "writing"
    /\ ~StillAuthorized(h) \/ ~RoomForToken(who[h], stamp[h])
    /\ Go(h, "over")
    /\ UNCHANGED <<now, tables, locals>>

\* The transaction of change_password(): a new hash, and every session and
\* token of the user deleted.
ChangePassword(h) ==
    /\ pc[h] = "writing"
    /\ hash' = [hash EXCEPT ![who[h]] = h]
    /\ sessions' = {s \in sessions : s.user # who[h]}
    /\ tokens' = {t \in tokens : t.user # who[h]}
    /\ Go(h, "over")
    /\ UNCHANGED <<now, nextId, locals>>

\* delete_session() of logout.
Logout(h) ==
    /\ pc[h] = "authenticated"
    /\ sessions' = {s \in sessions : s.key # mine[h]}
    /\ Go(h, "over")
    /\ UNCHANGED <<now, hash, tokens, nextId, locals>>

\* The page lists the user's tokens (which purges expired ones) and the user
\* picks one; the revoke request with its id comes later.
ListTokens(h) ==
    /\ pc[h] = "authenticated"
    /\ tokens' = Unexpired(tokens, now)
    /\ \E t \in OfUser(tokens', who[h]) : chosen' = [chosen EXCEPT ![h] = t]
    /\ Go(h, "picked")
    /\ UNCHANGED <<now, hash, sessions, nextId, who, mine, seen, stamp>>

\* delete_api_token(): by id and user; a missing row is a 404.
RevokeToken(h) ==
    /\ pc[h] = "picked"
    /\ tokens' = {t \in tokens : t.id # chosen[h].id \/ t.user # who[h]}
    /\ Go(h, "over")
    /\ UNCHANGED <<now, hash, sessions, nextId, locals>>

-----------------------------------------------------------------------------
(* Gateway authentication: user_for_api_token().                           *)

\* The SELECT finds the row of a token that has not expired.
CallerReads(h) ==
    /\ pc[h] = "idle"
    /\ \E t \in Unexpired(tokens, now) :
          /\ chosen' = [chosen EXCEPT ![h] = t]
          /\ who' = [who EXCEPT ![h] = t.user]
          /\ Go(h, IF t.used = NoRow THEN "touching"
                   ELSE IF t.used + TouchEvery <= now THEN "touching" ELSE "over")
    /\ stamp' = [stamp EXCEPT ![h] = now]
    /\ UNCHANGED <<now, tables, mine, seen>>

\* The separate UPDATE of last_used_at, by id.
CallerTouches(h) ==
    /\ pc[h] = "touching"
    /\ tokens' = {IF t.id = chosen[h].id THEN [t EXCEPT !.used = stamp[h]] ELSE t :
                    t \in tokens}
    /\ Go(h, "over")
    /\ UNCHANGED <<now, hash, sessions, nextId, locals>>

-----------------------------------------------------------------------------
Next ==
    \/ Tick
    \/ \E h \in Logins : LoginReads(h) \/ LoginVerified(h) \/ CreateSession(h)
    \/ \E h \in Signed : Authenticate(h)
    \/ \E h \in Creators \cup Changers : ReadHash(h) \/ Verified(h)
    \/ \E h \in Logins \cup Creators \cup Changers : Refuses(h)
    \/ \E h \in Creators : CreateToken(h) \/ CreateTokenRefused(h)
    \/ \E h \in Changers : ChangePassword(h)
    \/ \E h \in Leavers : Logout(h)
    \/ \E h \in Revokers : ListTokens(h) \/ RevokeToken(h)
    \/ \E h \in Callers : CallerReads(h) \/ CallerTouches(h)

Spec == Init /\ [][Next]_vars

-----------------------------------------------------------------------------
(* Properties.                                                             *)

SessionRow == [key : Logins, user : Users, made : 0 .. MaxNow,
               ends : Nat]
TokenRow == [key : Creators, id : Nat, user : Users, ends : Nat,
             used : Nat \cup {NoRow}]

\* Every variable has its type.
TypeOK ==
    /\ now \in 0 .. MaxNow
    /\ hash \in [Users -> Changers \cup {Bootstrap}]
    /\ sessions \subseteq SessionRow
    /\ tokens \subseteq TokenRow
    /\ nextId \in Nat
    /\ pc \in [Handlers -> {"idle", "verifying", "writing", "authenticated",
                            "picked", "touching", "over"}]
    /\ who \in [Handlers -> Users \cup {NoUser}]
    /\ mine \in [Handlers -> Handlers]
    /\ seen \in [Handlers -> Changers \cup {Bootstrap}]
    /\ stamp \in [Handlers -> 0 .. MaxNow]
    /\ chosen \in [Handlers -> TokenRow \cup {NoRow}]

\* No user ever has more sessions or tokens than the limits, however logins
\* and token creations overlap and whatever clock readings they use.
CredentialsBounded ==
    \A u \in Users :
        /\ Cardinality(OfUser(sessions, u)) <= MaxSessions
        /\ Cardinality(OfUser(tokens, u)) <= MaxTokens

\* Every API token was authorized by the password that is still the user's:
\* create_api_token() and change_password(), in any order and overlap, leave
\* no token behind that the old password authorized.
TokensOfCurrentPassword == \A t \in tokens : seen[t.key] = hash[t.user]

\* The revoke request deletes the credential that the user picked from the
\* list, or nothing: its id never comes to name a newer credential.
RevokesWhatWasPicked ==
    [][\A h \in Revokers : (pc[h] = "picked" /\ pc'[h] = "over") =>
          \A t \in tokens : (t.key # chosen[h].key) => t \in tokens']_vars

\* change_password() "revoke[s] every session" (database.py:305): no session
\* is left that was opened with a password that is no longer the user's.
SessionsOfCurrentPassword == \A s \in sessions : seen[s.key] = hash[s.user]

=============================================================================
