-------------------------- MODULE AuthStore_proofs --------------------------
(***************************************************************************)
(* Proofs about AuthStore for every number of users and handlers and every *)
(* limit: what holds of sessions and tokens however handlers overlap.      *)
(***************************************************************************)
EXTENDS AuthStore, FiniteSetTheorems, TLAPS

-----------------------------------------------------------------------------
(* The inductive invariant.                                                *)

\* A login that goes on to write has found an account, and a handler of a
\* signed-in browser acts for one from the start.
ActsForUser ==
    /\ \A h \in Logins : pc[h] = "writing" => who[h] # NoUser
    /\ \A h \in Signed : pc[h] # "idle" => who[h] \in Users

\* The handler that made a token is over and acted for the token's user, so
\* what it verified cannot change any more.
MakersAreOver == \A t \in tokens : pc[t.key] = "over" /\ who[t.key] = t.user

\* An id names one token only, now and for ever, and so does an id that a
\* revocation remembers.
IdsNameOne ==
    /\ \A t \in tokens : t.id < nextId
    /\ \A s, t \in tokens : s.id = t.id => s.key = t.key
    /\ \A h \in Revokers : pc[h] = "picked" =>
          /\ chosen[h] \in TokenRow /\ chosen[h].id < nextId
          /\ \A t \in tokens : t.id = chosen[h].id => t.key = chosen[h].key

IInv ==
    /\ TypeOK /\ ActsForUser /\ MakersAreOver
    /\ TokensOfCurrentPassword /\ IdsNameOne

\* The steps, by name.
Step(h) ==
    \/ h \in Logins /\ (LoginReads(h) \/ LoginVerified(h) \/ CreateSession(h))
    \/ h \in Signed /\ Authenticate(h)
    \/ h \in Creators \cup Changers /\ (ReadHash(h) \/ Verified(h))
    \/ h \in Logins \cup Creators \cup Changers /\ Refuses(h)
    \/ h \in Creators /\ (CreateToken(h) \/ CreateTokenRefused(h))
    \/ h \in Changers /\ ChangePassword(h)
    \/ h \in Leavers /\ Logout(h)
    \/ h \in Revokers /\ (ListTokens(h) \/ RevokeToken(h))
    \/ h \in Callers /\ (CallerReads(h) \/ CallerTouches(h))

\* The next-state relation is Tick or a step of a handler.
LEMMA Steps == ASSUME Next PROVE Tick \/ \E h \in Handlers : Step(h)
  BY DEF Next, Step, Handlers, Signed

\* No handler is of two kinds.
LEMMA Kinds ==
    /\ Logins \cap Creators = {} /\ Logins \cap Changers = {}
    /\ Logins \cap Leavers = {} /\ Logins \cap Revokers = {}
    /\ Logins \cap Callers = {} /\ Creators \cap Changers = {}
    /\ Creators \cap Leavers = {} /\ Creators \cap Revokers = {}
    /\ Creators \cap Callers = {} /\ Changers \cap Leavers = {}
    /\ Changers \cap Revokers = {} /\ Changers \cap Callers = {}
    /\ Leavers \cap Revokers = {} /\ Leavers \cap Callers = {}
    /\ Revokers \cap Callers = {}
  <1> DEFINE kinds == <<Logins, Creators, Changers, Leavers, Revokers, Callers>>
  <1>1. \A i, j \in 1 .. 6 : i # j => kinds[i] \cap kinds[j] = {}
    BY HandlerAssumption
  <1>2. QED
    BY <1>1, 1 \in 1 .. 6, 2 \in 1 .. 6, 3 \in 1 .. 6, 4 \in 1 .. 6,
       5 \in 1 .. 6, 6 \in 1 .. 6

\* A step of one handler leaves the places of the others alone.
LEMMA OthersWait ==
    ASSUME TypeOK, NEW h \in Handlers, NEW place, Go(h, place)
    PROVE  pc'[h] = place /\ \A g \in Handlers \ {h} : pc'[g] = pc[g]
  BY DEF TypeOK, Go

-----------------------------------------------------------------------------
(* Types.                                                                  *)

\* The invariant holds at the start.
LEMMA InvInitially == ASSUME Init PROVE IInv
  <1>1. TypeOK
    BY LimitAssumption DEF Init, TypeOK
  <1>2. ActsForUser /\ MakersAreOver /\ TokensOfCurrentPassword /\ IdsNameOne
    BY DEF Init, ActsForUser, MakersAreOver, TokensOfCurrentPassword, IdsNameOne,
           Handlers, Signed
  <1>3. QED
    BY <1>1, <1>2 DEF IInv

\* A row that create_session() adds, and one that create_api_token() adds.
LEMMA NewRows ==
    ASSUME TypeOK, NEW h \in Handlers
    PROVE  /\ h \in Logins /\ who[h] # NoUser =>
                [key |-> h, user |-> who[h], made |-> stamp[h],
                 ends |-> stamp[h] + SessionTTL] \in SessionRow
           /\ h \in Creators /\ StillAuthorized(h) =>
                [key |-> h, id |-> nextId, user |-> who[h],
                 ends |-> stamp[h] + TokenTTL, used |-> NoRow] \in TokenRow
  <1>1. stamp[h] \in 0 .. MaxNow /\ who[h] \in Users \cup {NoUser}
        /\ nextId \in Nat /\ sessions \subseteq SessionRow
    BY DEF TypeOK
  <1>2. StillAuthorized(h) => who[h] \in Users
    BY <1>1 DEF StillAuthorized, Unexpired, SessionRow
  <1>3. stamp[h] + SessionTTL \in Nat /\ stamp[h] + TokenTTL \in Nat
    BY <1>1, LimitAssumption
  <1>4. QED
    BY <1>1, <1>2, <1>3 DEF SessionRow, TokenRow

\* Each step keeps the types.
LEMMA StepKeepsTypes ==
    ASSUME TypeOK, ActsForUser, NEW h \in Handlers, Step(h)
    PROVE  TypeOK'
  <1> USE DEF TypeOK, Go, tables, locals
  <1>1. CASE h \in Logins /\ LoginReads(h)
    BY <1>1 DEF LoginReads
  <1>2. CASE h \in Logins /\ LoginVerified(h)
    BY <1>2 DEF LoginVerified
  <1>3. CASE h \in Logins /\ CreateSession(h)
    <2>1. who[h] # NoUser
      BY <1>3 DEF CreateSession, ActsForUser
    <2>2. \A kept \in Evict(who[h], stamp[h]) : kept \subseteq sessions
      BY DEF Evict, Kept, OfUser, Unexpired
    <2>3. [key |-> h, user |-> who[h], made |-> stamp[h],
           ends |-> stamp[h] + SessionTTL] \in SessionRow
      BY <1>3, <2>1, NewRows
    <2>4. sessions' \subseteq SessionRow
      BY <1>3, <2>2, <2>3 DEF CreateSession
    <2>5. QED
      BY <1>3, <2>4 DEF CreateSession
  <1>4. CASE h \in Signed /\ Authenticate(h)
    <2>1. \A s \in Unexpired(sessions, now) : s.key \in Handlers /\ s.user \in Users
      BY DEF Unexpired, SessionRow, Handlers
    <2>2. QED
      BY <1>4, <2>1 DEF Authenticate
  <1>5. CASE h \in Creators \cup Changers /\ ReadHash(h)
    <2>1. hash[who[h]] \in Changers \cup {Bootstrap}
      BY <1>5 DEF ReadHash, ActsForUser, Signed
    <2>2. QED
      BY <1>5, <2>1 DEF ReadHash
  <1>6. CASE Verified(h)
    BY <1>6 DEF Verified
  <1>7. CASE Refuses(h)
    BY <1>7 DEF Refuses
  <1>8. CASE h \in Creators /\ CreateToken(h)
    <2>1. tokens' \subseteq TokenRow
      BY <1>8, NewRows DEF CreateToken, Unexpired, FreshId
    <2>2. QED
      BY <1>8, <2>1 DEF CreateToken
  <1>9. CASE CreateTokenRefused(h)
    BY <1>9 DEF CreateTokenRefused
  <1>10. CASE h \in Changers /\ ChangePassword(h)
    BY <1>10 DEF ChangePassword
  <1>11. CASE Logout(h)
    BY <1>11 DEF Logout
  <1>12. CASE ListTokens(h)
    <2>1. /\ tokens' \subseteq TokenRow
          /\ chosen' \in [Handlers -> TokenRow \cup {NoRow}]
      BY <1>12 DEF ListTokens, OfUser, Unexpired
    <2>2. QED
      BY <1>12, <2>1 DEF ListTokens
  <1>13. CASE RevokeToken(h)
    BY <1>13 DEF RevokeToken
  <1>14. CASE CallerReads(h)
    <2>1. PICK t \in Unexpired(tokens, now) :
             /\ chosen' = [chosen EXCEPT ![h] = t]
             /\ who' = [who EXCEPT ![h] = t.user]
             /\ Go(h, IF t.used = NoRow THEN "touching"
                      ELSE IF t.used + TouchEvery <= now THEN "touching" ELSE "over")
      BY <1>14 DEF CallerReads
    <2>2. t \in TokenRow /\ t.user \in Users
      BY DEF Unexpired, TokenRow
    <2>3. QED
      BY <1>14, <2>1, <2>2 DEF CallerReads
  <1>15. CASE CallerTouches(h)
    <2>1. \A t \in tokens : [t EXCEPT !.used = stamp[h]] \in TokenRow
      BY DEF TokenRow
    <2>2. tokens' \subseteq TokenRow
      BY <1>15, <2>1 DEF CallerTouches
    <2>3. QED
      BY <1>15, <2>2 DEF CallerTouches
  <1>16. QED
    BY <1>1, <1>2, <1>3, <1>4, <1>5, <1>6, <1>7, <1>8, <1>9, <1>10, <1>11,
       <1>12, <1>13, <1>14, <1>15 DEF Step

-----------------------------------------------------------------------------
(* Handlers.                                                               *)

\* A step changes the place and the notes of the handler that takes it only.
LEMMA OnlyOwnNotes ==
    ASSUME TypeOK, NEW h \in Handlers, Step(h), NEW g \in Handlers \ {h}
    PROVE  /\ pc'[g] = pc[g] /\ who'[g] = who[g] /\ mine'[g] = mine[g]
           /\ seen'[g] = seen[g] /\ stamp'[g] = stamp[g] /\ chosen'[g] = chosen[g]
  <1> USE DEF TypeOK, Go, locals
  <1>1. pc'[g] = pc[g]
    BY DEF Step, LoginReads, LoginVerified, CreateSession, Authenticate, ReadHash,
           Verified, Refuses, CreateToken, CreateTokenRefused, ChangePassword, Logout,
           ListTokens, RevokeToken, CallerReads, CallerTouches
  <1>2. who'[g] = who[g] /\ mine'[g] = mine[g]
    BY DEF Step, LoginReads, LoginVerified, CreateSession, Authenticate, ReadHash,
           Verified, Refuses, CreateToken, CreateTokenRefused, ChangePassword, Logout,
           ListTokens, RevokeToken, CallerReads, CallerTouches
  <1>3. seen'[g] = seen[g] /\ stamp'[g] = stamp[g]
    BY DEF Step, LoginReads, LoginVerified, CreateSession, Authenticate, ReadHash,
           Verified, Refuses, CreateToken, CreateTokenRefused, ChangePassword, Logout,
           ListTokens, RevokeToken, CallerReads, CallerTouches
  <1>4. chosen'[g] = chosen[g]
    BY DEF Step, LoginReads, LoginVerified, CreateSession, Authenticate, ReadHash,
           Verified, Refuses, CreateToken, CreateTokenRefused, ChangePassword, Logout,
           ListTokens, RevokeToken, CallerReads, CallerTouches
  <1>5. QED
    BY <1>1, <1>2, <1>3, <1>4

\* A handler that is over takes no step, and none returns to its start.
LEMMA OverIsOver ==
    ASSUME TypeOK, NEW h \in Handlers, Step(h)
    PROVE  pc[h] # "over" /\ pc'[h] # "idle"
  BY DEF TypeOK, Go, Step, LoginReads, LoginVerified, CreateSession, Authenticate,
         ReadHash, Verified, Refuses, CreateToken, CreateTokenRefused, ChangePassword,
         Logout, ListTokens, RevokeToken, CallerReads, CallerTouches

\* What a step of a signed-in handler or a login does to whom it acts for.
LEMMA StepKeepsActsForUser ==
    ASSUME TypeOK, ActsForUser, NEW h \in Handlers, Step(h)
    PROVE  ActsForUser'
  <1>1. ASSUME NEW g \in Logins, pc'[g] = "writing"
        PROVE  who'[g] # NoUser
    <2>1. CASE g # h
      BY <1>1, <2>1, OnlyOwnNotes DEF ActsForUser, Handlers
    <2>2. CASE g = h /\ LoginVerified(h)
      BY <2>2 DEF LoginVerified
    <2>3. CASE g = h /\ ~LoginVerified(h)
      <3>1. (LoginReads(h) \/ CreateSession(h) \/ Refuses(h))
        BY <1>1, <2>3, Kinds DEF Step, Signed
      <3>2. pc'[h] \in {"verifying", "over"}
        BY <3>1 DEF TypeOK, Go, LoginReads, CreateSession, Refuses
      <3>3. QED
        BY <1>1, <2>3, <3>2
    <2>4. QED
      BY <2>1, <2>2, <2>3
  <1>2. ASSUME NEW g \in Signed, pc'[g] # "idle"
        PROVE  who'[g] \in Users
    <2>1. CASE g # h
      BY <1>2, <2>1, OnlyOwnNotes DEF ActsForUser, Handlers, Signed
    <2>2. CASE g = h /\ Authenticate(h)
      <3>1. \A s \in Unexpired(sessions, now) : s.user \in Users
        BY DEF Unexpired, SessionRow, TypeOK
      <3>2. QED
        BY <2>2, <3>1 DEF Authenticate, TypeOK
    <2>3. CASE g = h /\ ~Authenticate(h)
      <3>1. \/ ReadHash(h) \/ Verified(h) \/ Refuses(h) \/ CreateToken(h)
            \/ CreateTokenRefused(h) \/ ChangePassword(h) \/ Logout(h)
            \/ ListTokens(h) \/ RevokeToken(h)
        BY <1>2, <2>3, Kinds DEF Step, Signed
      <3>2. who' = who /\ pc[h] # "idle"
        BY <3>1 DEF ReadHash, Verified, Refuses, CreateToken, CreateTokenRefused,
                    ChangePassword, Logout, ListTokens, RevokeToken, locals
      <3>3. QED
        BY <1>2, <2>3, <3>2 DEF ActsForUser
    <2>4. QED
      BY <2>1, <2>2, <2>3
  <1>3. QED
    BY <1>1, <1>2 DEF ActsForUser

-----------------------------------------------------------------------------
(* Tokens.                                                                 *)

\* What a step does to the table of tokens: rows go, last_used_at changes, and
\* create_api_token() adds one.
TokenOf(t, table) ==
    \E old \in table : old.key = t.key /\ old.id = t.id /\ old.user = t.user
NewToken(h, t) ==
    /\ h \in Creators /\ CreateToken(h)
    /\ t = [key |-> h, id |-> nextId, user |-> who[h],
            ends |-> stamp[h] + TokenTTL, used |-> NoRow]

\* A token in the table was there before the step, perhaps with another time
\* of use, or the step created it.
LEMMA TokensComeFrom ==
    ASSUME TypeOK, NEW h \in Handlers, Step(h), NEW t \in tokens'
    PROVE  TokenOf(t, tokens) \/ NewToken(h, t)
  <1> USE DEF tables, TokenOf, Unexpired
  <1>1. CASE h \in Creators /\ CreateToken(h)
    BY <1>1 DEF CreateToken, NewToken, FreshId
  <1>2. CASE ChangePassword(h) \/ ListTokens(h) \/ RevokeToken(h)
    BY <1>2 DEF ChangePassword, ListTokens, RevokeToken
  <1>3. CASE CallerTouches(h)
    <2>1. PICK old \in tokens :
             t = IF old.id = chosen[h].id THEN [old EXCEPT !.used = stamp[h]] ELSE old
      BY <1>3 DEF CallerTouches
    <2>2. old \in TokenRow
      BY DEF TypeOK
    <2>3. t.key = old.key /\ t.id = old.id /\ t.user = old.user
      BY <2>1, <2>2 DEF TokenRow
    <2>4. QED
      BY <2>3
  <1>4. CASE tokens' = tokens
    BY <1>4
  <1>5. QED
    BY <1>1, <1>2, <1>3, <1>4
    DEF Step, LoginReads, LoginVerified, CreateSession, Authenticate, ReadHash,
        Verified, Refuses, CreateTokenRefused, Logout, CallerReads

\* Rows have keys of handlers and a user.
LEMMA TokenTypes ==
    ASSUME TypeOK, NEW t \in tokens
    PROVE  t.key \in Creators /\ t.key \in Handlers /\ t.user \in Users /\ t.id \in Nat
  BY DEF TypeOK, TokenRow, Handlers

\* Handlers that are over do not move, so a token keeps its maker.
LEMMA StepKeepsMakers ==
    ASSUME TypeOK, MakersAreOver, NEW h \in Handlers, Step(h)
    PROVE  MakersAreOver'
  <1>1. SUFFICES ASSUME NEW t \in tokens'
                 PROVE  pc'[t.key] = "over" /\ who'[t.key] = t.user
    BY DEF MakersAreOver
  <1>2. CASE TokenOf(t, tokens)
    <2>1. PICK old \in tokens : old.key = t.key /\ old.user = t.user
      BY <1>2 DEF TokenOf
    <2>2. pc[old.key] = "over" /\ old.key # h /\ old.key \in Handlers
      BY OverIsOver, TokenTypes DEF MakersAreOver
    <2>3. QED
      BY <2>1, <2>2, OnlyOwnNotes DEF MakersAreOver
  <1>3. CASE NewToken(h, t)
    BY <1>3, OthersWait DEF NewToken, CreateToken, locals
  <1>4. QED
    BY <1>2, <1>3, TokensComeFrom

\* A password change deletes the tokens of its user, and a token is created
\* only against the hash its handler verified.
LEMMA StepKeepsPassword ==
    ASSUME TypeOK, MakersAreOver, TokensOfCurrentPassword, NEW h \in Handlers, Step(h)
    PROVE  TokensOfCurrentPassword'
  <1>1. SUFFICES ASSUME NEW t \in tokens'
                 PROVE  seen'[t.key] = hash'[t.user]
    BY DEF TokensOfCurrentPassword
  <1>2. CASE TokenOf(t, tokens)
    <2>1. PICK old \in tokens : old.key = t.key /\ old.user = t.user
      BY <1>2 DEF TokenOf
    <2>2. old.key # h /\ old.key \in Handlers /\ old.user \in Users
      BY OverIsOver, TokenTypes DEF MakersAreOver
    <2>3. seen'[t.key] = hash[t.user]
      BY <2>1, <2>2, OnlyOwnNotes DEF TokensOfCurrentPassword
    <2>4. CASE ChangePassword(h)
      <3>1. t.user # who[h]
        BY <2>4 DEF ChangePassword
      <3>2. hash'[t.user] = hash[t.user]
        BY <2>1, <2>2, <2>4, <3>1 DEF ChangePassword, TypeOK
      <3>3. QED
        BY <2>3, <3>2
    <2>5. CASE ~ChangePassword(h)
      <3>1. hash' = hash
        BY <2>5 DEF Step, LoginReads, LoginVerified, CreateSession, Authenticate,
                    ReadHash, Verified, Refuses, CreateToken, CreateTokenRefused,
                    Logout, ListTokens, RevokeToken, CallerReads, CallerTouches, tables
      <3>2. QED
        BY <2>3, <3>1
    <2>6. QED
      BY <2>4, <2>5
  <1>3. CASE NewToken(h, t)
    BY <1>3 DEF NewToken, CreateToken, StillAuthorized, locals
  <1>4. QED
    BY <1>2, <1>3, TokensComeFrom

\* The sequence of ids never goes back, and passes an id it has given out.
LEMMA IdsAscend ==
    ASSUME TypeOK, NEW h \in Handlers, Step(h)
    PROVE  /\ nextId \in Nat /\ nextId' \in Nat /\ nextId <= nextId'
           /\ CreateToken(h) => nextId < nextId'
  BY DEF TypeOK, Step, LoginReads, LoginVerified, CreateSession, Authenticate, ReadHash,
         Verified, Refuses, CreateToken, CreateTokenRefused, ChangePassword, Logout,
         ListTokens, RevokeToken, CallerReads, CallerTouches, tables

\* A row in the table has an old id with an old key, or the next id.
LEMMA StepKeepsIds ==
    ASSUME TypeOK, IdsNameOne, NEW h \in Handlers, Step(h)
    PROVE  IdsNameOne'
  <1>1. ASSUME NEW t \in tokens'
        PROVE  t.id < nextId'
    <2>1. CASE TokenOf(t, tokens)
      <3>1. PICK old \in tokens : old.id = t.id
        BY <2>1 DEF TokenOf
      <3>2. old.id \in Nat /\ old.id < nextId
        BY TokenTypes DEF IdsNameOne
      <3>3. QED
        BY <3>1, <3>2, IdsAscend
    <2>2. CASE NewToken(h, t)
      BY <2>2, IdsAscend DEF NewToken
    <2>3. QED
      BY <2>1, <2>2, TokensComeFrom
  <1>2. ASSUME NEW s \in tokens', NEW t \in tokens', s.id = t.id
        PROVE  s.key = t.key
    <2>1. \A r \in tokens' : \/ \E old \in tokens : old.id = r.id /\ old.key = r.key
                             \/ r.id = nextId /\ r.key = h
      BY TokensComeFrom DEF TokenOf, NewToken
    <2>2. \A old \in tokens : old.id # nextId
      BY TokenTypes, IdsAscend DEF IdsNameOne
    <2>3. QED
      BY <1>2, <2>1, <2>2 DEF IdsNameOne
  <1>3. ASSUME NEW g \in Revokers, pc'[g] = "picked"
        PROVE  /\ chosen'[g] \in TokenRow /\ chosen'[g].id < nextId'
               /\ \A t \in tokens' : t.id = chosen'[g].id => t.key = chosen'[g].key
    <2>1. CASE g # h
      <3>1. pc[g] = "picked" /\ chosen'[g] = chosen[g]
        BY <1>3, <2>1, OnlyOwnNotes DEF Handlers
      <3>2. chosen[g] \in TokenRow /\ chosen[g].id < nextId /\ chosen[g].id \in Nat
        BY <3>1 DEF IdsNameOne, TokenRow
      <3>3. ASSUME NEW t \in tokens', t.id = chosen[g].id
            PROVE  t.key = chosen[g].key
        <4>1. ~NewToken(h, t)
          BY <3>2, <3>3, IdsAscend DEF NewToken
        <4>2. PICK old \in tokens : old.id = t.id /\ old.key = t.key
          BY <4>1, TokensComeFrom DEF TokenOf
        <4>3. QED
          BY <3>1, <3>3, <4>2 DEF IdsNameOne
      <3>4. QED
        BY <3>1, <3>2, <3>3, IdsAscend
    <2>2. CASE g = h
      <3>1. h \in Revokers /\ (Authenticate(h) \/ ListTokens(h) \/ RevokeToken(h))
        BY <2>2, Kinds DEF Step
      <3>2. ListTokens(h)
        BY <1>3, <2>2, <3>1 DEF Authenticate, RevokeToken, Go, TypeOK
      <3>3. PICK t \in OfUser(tokens', who[h]) : chosen' = [chosen EXCEPT ![h] = t]
        BY <3>2 DEF ListTokens
      <3>4. chosen'[h] = t /\ t \in tokens' /\ t \in TokenRow
        BY <3>2, <3>3 DEF ListTokens, OfUser, Unexpired, TypeOK
      <3>5. QED
        BY <1>1, <1>2, <2>2, <3>4
    <2>3. QED
      BY <2>1, <2>2
  <1>4. QED
    BY <1>1, <1>2, <1>3 DEF IdsNameOne

-----------------------------------------------------------------------------
(* The invariant, and what follows from it alone.                          *)

\* Every step keeps the invariant.
LEMMA NextKeepsInv == ASSUME IInv, [Next]_vars PROVE IInv'
  <1>1. CASE UNCHANGED vars
    BY <1>1 DEF IInv, vars, TypeOK, ActsForUser, MakersAreOver,
                TokensOfCurrentPassword, IdsNameOne
  <1>2. CASE Tick
    <2>1. now' \in 0 .. MaxNow
      BY <1>2, LimitAssumption DEF Tick, IInv, TypeOK
    <2>2. QED
      BY <1>2, <2>1 DEF IInv, Tick, tables, locals, TypeOK, ActsForUser, MakersAreOver,
                        TokensOfCurrentPassword, IdsNameOne
  <1>3. ASSUME NEW h \in Handlers, Step(h)
        PROVE  IInv'
    BY <1>3, StepKeepsTypes, StepKeepsActsForUser, StepKeepsMakers, StepKeepsPassword,
       StepKeepsIds DEF IInv
  <1>4. QED
    BY <1>1, <1>2, <1>3, Steps

\* Every variable has its type.
THEOREM TypeCorrect == Spec => []TypeOK
  <1>1. IInv => TypeOK
    BY DEF IInv
  <1>2. QED
    BY <1>1, InvInitially, NextKeepsInv, PTL DEF Spec

\* However create_api_token() and change_password() overlap, no token outlives
\* the password that authorized it.
THEOREM NoTokenOfOldPassword == Spec => []TokensOfCurrentPassword
  <1>1. IInv => TokensOfCurrentPassword
    BY DEF IInv
  <1>2. QED
    BY <1>1, InvInitially, NextKeepsInv, PTL DEF Spec

\* A revocation deletes what its user picked, and nothing else: an id that
\* has been on a list never names a newer token.
THEOREM RevocationHitsItsToken == Spec => RevokesWhatWasPicked
  <1> DEFINE Spares ==
        \A h \in Revokers : (pc[h] = "picked" /\ pc'[h] = "over") =>
          \A t \in tokens : (t.key # chosen[h].key) => t \in tokens'
  <1>1. ASSUME IInv, [Next]_vars
        PROVE  [Spares]_vars
    <2>1. CASE UNCHANGED vars \/ Tick
      BY <2>1 DEF vars, Tick, tables
    <2>2. ASSUME NEW h \in Handlers, Step(h)
          PROVE  Spares
      <3>1. SUFFICES ASSUME NEW g \in Revokers, pc[g] = "picked", pc'[g] = "over",
                            NEW t \in tokens, t.key # chosen[g].key
                     PROVE  t \in tokens'
        OBVIOUS
      <3>2. g = h
        BY <1>1, <2>2, <3>1, OnlyOwnNotes DEF IInv, Handlers
      <3>3. RevokeToken(h)
        <4>1. Authenticate(h) \/ ListTokens(h) \/ RevokeToken(h)
          BY <2>2, <3>1, <3>2, Kinds DEF Step
        <4>2. QED
          BY <3>1, <3>2, <4>1 DEF Authenticate, ListTokens
      <3>4. t.id # chosen[h].id
        BY <1>1, <3>1, <3>2 DEF IInv, IdsNameOne
      <3>5. QED
        BY <3>3, <3>4 DEF RevokeToken
    <2>3. QED
      BY <1>1, <2>1, <2>2, Steps
  <1>2. QED
    BY <1>1, InvInitially, NextKeepsInv, PTL DEF Spec, RevokesWhatWasPicked

-----------------------------------------------------------------------------
(* The limits.                                                             *)

\* A finite set of at most n rows.
Few(table, n) == IsFiniteSet(table) /\ Cardinality(table) <= n

FewRows ==
    \A u \in Users : Few(OfUser(sessions, u), MaxSessions) /\ Few(OfUser(tokens, u), MaxTokens)

\* A part of a few rows is a few rows.
LEMMA FewerRows ==
    ASSUME NEW n \in Nat, NEW S, Few(S, n), NEW T \in SUBSET S
    PROVE  Few(T, n)
  <1>1. IsFiniteSet(T) /\ Cardinality(T) <= Cardinality(S)
    BY FS_Subset DEF Few
  <1>2. Cardinality(T) \in Nat /\ Cardinality(S) \in Nat
    BY <1>1, FS_CardinalityType DEF Few
  <1>3. QED
    BY <1>1, <1>2 DEF Few

\* One row more than fewer than n is still a few.
LEMMA OneRowMore ==
    ASSUME NEW n \in Nat, NEW S, IsFiniteSet(S), Cardinality(S) < n, NEW row
    PROVE  Few(S \cup {row}, n)
  <1>1. /\ IsFiniteSet(S \cup {row})
        /\ Cardinality(S \cup {row}) = IF row \in S THEN Cardinality(S)
                                                    ELSE Cardinality(S) + 1
    BY FS_AddElement
  <1>2. Cardinality(S) \in Nat
    BY FS_CardinalityType
  <1>3. QED
    BY <1>1, <1>2 DEF Few

\* Changing rows makes them no more.
LEMMA AsManyRows ==
    ASSUME NEW n \in Nat, NEW S, Few(S, n), NEW f, NEW T, f \in Surjection(S, T)
    PROVE  Few(T, n)
  <1>1. IsFiniteSet(T) /\ Cardinality(T) <= Cardinality(S)
    BY FS_Surjection DEF Few
  <1>2. Cardinality(T) \in Nat /\ Cardinality(S) \in Nat
    BY <1>1, FS_CardinalityType DEF Few
  <1>3. QED
    BY <1>1, <1>2 DEF Few

\* A login evicts before it inserts.
LEMMA StepKeepsSessionsFew ==
    ASSUME TypeOK, ActsForUser, FewRows, NEW h \in Handlers, Step(h), NEW u \in Users
    PROVE  Few(OfUser(sessions', u), MaxSessions)
  <1> USE LimitAssumption
  <1>1. CASE CreateSession(h)
    <2>1. PICK kept \in Evict(who[h], stamp[h]) :
             sessions' = kept \cup
               {[key |-> h, user |-> who[h], made |-> stamp[h],
                 ends |-> stamp[h] + SessionTTL]}
      BY <1>1 DEF CreateSession
    <2> DEFINE alive == Unexpired(sessions, stamp[h])
               row == [key |-> h, user |-> who[h], made |-> stamp[h],
                       ends |-> stamp[h] + SessionTTL]
    <2>2. PICK K \in Kept(alive, who[h], MaxSessions - 1) :
             kept = K \cup {s \in alive : s.user # who[h]}
      BY <2>1 DEF Evict
    <2>3. K \subseteq OfUser(alive, who[h]) /\ OfUser(alive, u) \subseteq OfUser(sessions, u)
      BY <2>2 DEF Kept, OfUser, Unexpired
    <2>4. row.user = who[h] /\ sessions' = K \cup {s \in alive : s.user # who[h]} \cup {row}
      BY <2>1, <2>2
    <2>5. CASE u = who[h]
      <3>1. OfUser(sessions', u) = K \cup {row}
        BY <2>3, <2>4, <2>5 DEF OfUser
      <3>2. Few(OfUser(alive, u), MaxSessions)
        BY <2>3, FewerRows DEF FewRows
      <3>3. Few(K, MaxSessions)
        BY <2>3, <2>5, <3>2, FewerRows
      <3>4. Cardinality(OfUser(alive, u)) \in Nat
        BY <3>2, FS_CardinalityType DEF Few
      <3>5. Cardinality(K) < MaxSessions
        BY <2>2, <2>5, <3>4 DEF Kept
      <3>6. IsFiniteSet(K) /\ MaxSessions \in Nat
        BY <3>3 DEF Few
      <3> HIDE DEF row
      <3>7. Few(K \cup {row}, MaxSessions)
        BY <3>5, <3>6, OneRowMore
      <3>8. QED
        BY <3>1, <3>7
    <2>6. CASE u # who[h]
      <3>1. OfUser(sessions', u) \subseteq OfUser(sessions, u)
        BY <2>3, <2>4, <2>6 DEF OfUser, Unexpired
      <3>2. QED
        BY <3>1, FewerRows DEF FewRows
    <2>7. QED
      BY <2>5, <2>6
  <1>2. CASE ~CreateSession(h)
    <2>1. sessions' \subseteq sessions
      BY <1>2 DEF Step, LoginReads, LoginVerified, Authenticate, ReadHash, Verified,
                  Refuses, CreateToken, CreateTokenRefused, ChangePassword, Logout,
                  ListTokens, RevokeToken, CallerReads, CallerTouches, tables
    <2>2. OfUser(sessions', u) \subseteq OfUser(sessions, u)
      BY <2>1 DEF OfUser
    <2>3. QED
      BY <2>2, FewerRows DEF FewRows
  <1>3. QED
    BY <1>1, <1>2

\* A token is created only below the limit, counted after the expired ones go.
LEMMA StepKeepsTokensFew ==
    ASSUME TypeOK, FewRows, NEW h \in Handlers, Step(h), NEW u \in Users
    PROVE  Few(OfUser(tokens', u), MaxTokens)
  <1> USE LimitAssumption
  <1>1. CASE CreateToken(h)
    <2> DEFINE alive == OfUser(Unexpired(tokens, stamp[h]), u)
               row == [key |-> h, id |-> FreshId(nextId), user |-> who[h],
                       ends |-> stamp[h] + TokenTTL, used |-> NoRow]
    <2>1. row.user = who[h] /\ tokens' = Unexpired(tokens, stamp[h]) \cup {row}
      BY <1>1 DEF CreateToken
    <2>2. Few(alive, MaxTokens)
      <3>1. alive \in SUBSET OfUser(tokens, u)
        BY DEF OfUser, Unexpired
      <3>2. QED
        BY <3>1, FewerRows DEF FewRows
    <2>3. CASE u = who[h]
      <3>1. OfUser(tokens', u) = alive \cup {row}
        BY <2>1, <2>3 DEF OfUser
      <3>2. Cardinality(alive) < MaxTokens
        BY <1>1, <2>3 DEF CreateToken, RoomForToken
      <3>3. IsFiniteSet(alive) /\ MaxTokens \in Nat
        BY <2>2 DEF Few
      <3> HIDE DEF row, alive
      <3>4. Few(alive \cup {row}, MaxTokens)
        BY <3>2, <3>3, OneRowMore
      <3>5. QED
        BY <3>1, <3>4
    <2>4. CASE u # who[h]
      <3>1. OfUser(tokens', u) = alive
        BY <2>1, <2>4 DEF OfUser
      <3>2. QED
        BY <2>2, <3>1
    <2>5. QED
      BY <2>3, <2>4
  <1>2. CASE CallerTouches(h)
    <2> DEFINE Touch(t) == IF t.id = chosen[h].id THEN [t EXCEPT !.used = stamp[h]] ELSE t
               f == [t \in OfUser(tokens, u) |-> Touch(t)]
    <2>1. \A t \in tokens : Touch(t).user = t.user
      BY DEF TypeOK, TokenRow
    <2>2. OfUser(tokens', u) = {Touch(t) : t \in OfUser(tokens, u)}
      BY <1>2, <2>1 DEF CallerTouches, OfUser
    <2>3. f \in Surjection(OfUser(tokens, u), OfUser(tokens', u))
      BY <2>2 DEF Surjection
    <2>4. QED
      BY <2>3, AsManyRows DEF FewRows
  <1>3. CASE ~CreateToken(h) /\ ~CallerTouches(h)
    <2>1. tokens' \subseteq tokens
      BY <1>3 DEF Step, LoginReads, LoginVerified, CreateSession, Authenticate, ReadHash,
                  Verified, Refuses, CreateTokenRefused, ChangePassword, Logout,
                  ListTokens, RevokeToken, CallerReads, tables, Unexpired
    <2>2. OfUser(tokens', u) \subseteq OfUser(tokens, u)
      BY <2>1 DEF OfUser
    <2>3. QED
      BY <2>2, FewerRows DEF FewRows
  <1>4. QED
    BY <1>1, <1>2, <1>3

\* Neither table ever exceeds its limit for a user, whatever clock readings
\* the overlapping transactions use.
THEOREM LimitsKept == Spec => []CredentialsBounded
  <1>1. Init => FewRows
    <2>1. Few({}, MaxSessions) /\ Few({}, MaxTokens)
      BY FS_EmptySet, LimitAssumption DEF Few
    <2>2. QED
      BY <2>1 DEF Init, FewRows, OfUser
  <1>2. ASSUME IInv, FewRows, [Next]_vars
        PROVE  FewRows'
    <2>1. CASE UNCHANGED vars \/ Tick
      BY <1>2, <2>1 DEF FewRows, vars, Tick, tables, OfUser
    <2>2. ASSUME NEW h \in Handlers, Step(h)
          PROVE  FewRows'
      BY <1>2, <2>2, StepKeepsSessionsFew, StepKeepsTokensFew DEF FewRows, IInv, OfUser
    <2>3. QED
      BY <1>2, <2>1, <2>2, Steps
  <1>3. FewRows => CredentialsBounded
    BY DEF FewRows, Few, CredentialsBounded
  <1>4. QED
    BY <1>1, <1>2, <1>3, InvInitially, NextKeepsInv, PTL DEF Spec

=============================================================================
