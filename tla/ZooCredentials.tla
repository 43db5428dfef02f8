--------------------------- MODULE ZooCredentials ---------------------------
(***************************************************************************)
(* The credential page, zoo-code.js, and the table behind it: the list the *)
(* page shows, refreshed, added to and taken from by requests that overlap *)
(* and whose answers arrive in any order or not at all.                    *)
(*                                                                         *)
(* The page has one thread; an action is what runs between two awaits, or  *)
(* what the server does with a request.  The page is past bootstrap().     *)
(* The server sends every created credential with its key, so the page's   *)
(* precautions against an answer without one are not reached.  `held' and  *)
(* `doubt' are explained where they change.                               *)
(***************************************************************************)
EXTENDS Naturals, Sequences, FiniteSets, SequencesExt, Selection

CONSTANTS Credentials, None     \* ids of api_tokens; never reused

\* An id is a 64-bit rowid.
ASSUME CredentialsAssumption == IsFiniteSet(Credentials)

VARIABLES
    table, used,    \* the user's rows in api_tokens; ids given out so far
    credentials,    \* state.credentials
    refresh,        \* refreshCredentialList(): [place, rows, passed]
    create,         \* createCredential(): [place, id]
    revoke,         \* requestRevoke() for each credential
    key,            \* whose key the one-time card shows
    confirming,     \* displayed buttons that read "Confirm revoke"
    off,            \* displayed buttons that are disabled
    held,           \* revocations whose own button is still displayed
    expired,        \* 401: the page has asked for the login page
    doubt           \* history: the page may be wrong

rows == <<table, used>>
buttons == <<confirming, off, held>>
zcVars == <<rows, credentials, refresh, create, revoke, key, buttons, expired, doubt>>

NoRefresh == [place |-> "idle", rows |-> {}, passed |-> FALSE]
NoCreate == [place |-> "idle", id |-> None]
RevokingIds == {c \in Credentials : revoke[c] # "idle"}

ZcInit ==
    /\ table \in SUBSET Credentials /\ used = table
    /\ credentials = SetToSeq(table)
    /\ refresh = NoRefresh /\ create = NoCreate
    /\ revoke = [c \in Credentials |-> "idle"]
    /\ key = None
    /\ confirming = {} /\ off = {} /\ held = {}
    /\ expired = FALSE /\ doubt = FALSE

\* renderCredentials() replaces every button.
Render ==
    /\ off' = RevokingIds \cap ToSet(credentials')
    /\ confirming' = {} /\ held' = {}

\* A list on its way is older than the change whose answer has now come.
Passes(isOlder) ==
    refresh' = [refresh EXCEPT !.passed =
                    @ \/ (refresh.place = "answered" /\ isOlder)]

-----------------------------------------------------------------------------
(* refreshCredentialList().                                                *)

RefreshStarts ==
    /\ ~expired /\ refresh.place = "idle"
    /\ refresh' = [NoRefresh EXCEPT !.place = "asked"]
    /\ UNCHANGED <<rows, credentials, create, revoke, key, buttons, expired, doubt>>

\* list_api_tokens() reads the table.
RefreshServed ==
    /\ refresh.place = "asked"
    /\ refresh' = [place |-> "answered", rows |-> table, passed |-> FALSE]
    /\ UNCHANGED <<rows, credentials, create, revoke, key, buttons, expired, doubt>>

\* applyCredentialPayload().  A list that agrees with the table ends all
\* doubt; one that undoes a change the page knew of raises it.
RefreshApplies ==
    /\ refresh.place = "answered"
    /\ credentials' = SetToSeq(refresh.rows)
    /\ Render
    /\ refresh' = NoRefresh
    /\ doubt' = (refresh.rows # table /\ (doubt \/ refresh.passed))
    /\ UNCHANGED <<rows, create, revoke, key, expired>>

\* A timeout or an error; or 401, and the login page is asked for.
RefreshFails ==
    /\ refresh.place # "idle"
    /\ refresh' = NoRefresh
    /\ expired' \in IF refresh.place = "asked" THEN {expired, TRUE} ELSE {expired}
    /\ UNCHANGED <<rows, credentials, create, revoke, key, buttons, doubt>>

-----------------------------------------------------------------------------
(* createCredential().                                                     *)

CreateStarts ==
    /\ ~expired /\ create.place = "idle" /\ key = None
    /\ create' = [NoCreate EXCEPT !.place = "asked"]
    /\ UNCHANGED <<rows, credentials, refresh, revoke, key, buttons, expired, doubt>>

\* create_api_token() inserts a row.
CreateServed ==
    /\ create.place = "asked"
    /\ \E c \in Credentials \ used :
          /\ table' = table \cup {c} /\ used' = used \cup {c}
          /\ create' = [place |-> "made", id |-> c]
    /\ UNCHANGED <<credentials, refresh, revoke, key, buttons, expired, doubt>>

\* The list without a credential.
Others(c) ==
    Picked(credentials, {i \in DOMAIN credentials : credentials[i] # c})

\* slip: the new credential is put before a list that may have it already.
PutBefore(c) == <<c>> \o credentials
\* The list with the new credential first, and once.
WithNew(c) == <<c>> \o Others(c)

\* The answer has come.  The row may already be gone again: the page could
\* have listed and revoked it before this answer.
CreateShows ==
    /\ create.place = "made"
    /\ credentials' = WithNew(create.id)
    /\ Render
    /\ key' = create.id
    /\ create' = NoCreate
    /\ Passes(create.id \notin refresh.rows)
    /\ doubt' = (doubt \/ create.id \notin table)
    /\ UNCHANGED <<rows, revoke, expired>>

\* The server answers 401: a wrong password, or no session any more, which
\* loadSession() finds out.
CreateUnauthorized ==
    /\ create.place = "asked"
    /\ create' = [create EXCEPT !.place = "checking"]
    /\ UNCHANGED <<rows, credentials, refresh, revoke, key, buttons, expired, doubt>>

\* A refusal, a timeout or an error, maybe after the row was inserted; or the
\* session is gone.
CreateFails ==
    /\ create.place # "idle"
    /\ create' = NoCreate
    /\ expired' \in IF create.place = "checking" THEN {expired, TRUE} ELSE {expired}
    /\ doubt' = (doubt \/ create.place = "made")
    /\ UNCHANGED <<rows, credentials, refresh, revoke, key, buttons>>

\* dismissToken.
Dismiss ==
    /\ ~expired /\ key # None
    /\ key' = None
    /\ UNCHANGED <<rows, credentials, refresh, create, revoke, buttons, expired, doubt>>

-----------------------------------------------------------------------------
(* requestRevoke().                                                        *)

Clickable(c) == ~expired /\ c \in ToSet(credentials) \ off /\ revoke[c] = "idle"

RevokeAsks(c) ==
    /\ Clickable(c) /\ c \notin confirming
    /\ confirming' = confirming \cup {c}
    /\ UNCHANGED <<rows, credentials, refresh, create, revoke, key, off, held,
                   expired, doubt>>

\* The six seconds of a displayed confirmation are over.
ConfirmLapses(c) ==
    /\ c \in confirming
    /\ confirming' = confirming \ {c}
    /\ UNCHANGED <<rows, credentials, refresh, create, revoke, key, off, held,
                   expired, doubt>>

RevokeStarts(c) ==
    /\ Clickable(c) /\ c \in confirming
    /\ revoke' = [revoke EXCEPT ![c] = "asked"]
    /\ off' = off \cup {c} /\ held' = held \cup {c}
    /\ UNCHANGED <<rows, credentials, refresh, create, key, confirming, expired, doubt>>

\* revoke_api_token() deletes the row; without one it answers 404.
RevokeServed(c) ==
    /\ revoke[c] = "asked"
    /\ c \in table
    /\ table' = table \ {c}
    /\ revoke' = [revoke EXCEPT ![c] = "deleted"]
    /\ UNCHANGED <<used, credentials, refresh, create, key, buttons, expired, doubt>>

RevokeShows(c) ==
    /\ revoke[c] = "deleted"
    /\ credentials' = Others(c)
    /\ Render
    /\ revoke' = [revoke EXCEPT ![c] = "idle"]
    /\ Passes(c \in refresh.rows)
    /\ UNCHANGED <<rows, create, key, expired, doubt>>

\* slip: the button stays as it is.
LeaveButton(c) == UNCHANGED buttons
\* The button that was clicked can be used again.  If the list was rendered
\* meanwhile it is not on the page any more.
EnableButton(c) ==
    IF c \in held
    THEN off' = off \ {c} /\ confirming' = confirming \ {c} /\ held' = held \ {c}
    ELSE UNCHANGED buttons

\* 404, a timeout or an error, maybe after the row was deleted.  A button
\* rendered during the revocation stays disabled.
RevokeFails(c) ==
    /\ revoke[c] # "idle"
    /\ revoke' = [revoke EXCEPT ![c] = "idle"]
    /\ EnableButton(c)
    /\ doubt' = (doubt \/ revoke[c] = "deleted" \/ c \notin held)
    /\ UNCHANGED <<rows, credentials, refresh, create, key, expired>>

\* 401: the login page is asked for, and the button stays as it is.
RevokeUnauthorized(c) ==
    /\ revoke[c] = "asked"
    /\ revoke' = [revoke EXCEPT ![c] = "idle"]
    /\ expired' = TRUE
    /\ UNCHANGED <<rows, credentials, refresh, create, key, buttons, doubt>>

-----------------------------------------------------------------------------
\* Another browser of the user, the end of a credential's life, or a request
\* of this page that it has given up and the server serves nevertheless.
Elsewhere ==
    /\ \/ \E c \in Credentials \ used :
            table' = table \cup {c} /\ used' = used \cup {c}
       \/ \E c \in table : table' = table \ {c} /\ UNCHANGED used
    /\ doubt' = TRUE
    /\ UNCHANGED <<credentials, refresh, create, revoke, key, buttons, expired>>

\* The login page replaces this one.
Left == expired /\ UNCHANGED zcVars

ZcNext ==
    \/ RefreshStarts \/ RefreshServed \/ RefreshApplies \/ RefreshFails
    \/ CreateStarts \/ CreateServed \/ CreateShows \/ CreateUnauthorized
    \/ CreateFails \/ Dismiss
    \/ \E c \in Credentials :
          \/ RevokeAsks(c) \/ ConfirmLapses(c) \/ RevokeStarts(c)
          \/ RevokeServed(c) \/ RevokeShows(c) \/ RevokeFails(c)
          \/ RevokeUnauthorized(c)
    \/ Elsewhere
    \/ Left

ZcSpec == ZcInit /\ [][ZcNext]_zcVars

-----------------------------------------------------------------------------
(* Properties.                                                             *)

\* Every variable has its type.
ZcTypeOK ==
    /\ table \subseteq used /\ used \subseteq Credentials
    /\ credentials \in Seq(Credentials)
    /\ refresh \in [place : {"idle", "asked", "answered"},
                    rows : SUBSET Credentials, passed : BOOLEAN]
    /\ create \in [place : {"idle", "asked", "made", "checking"},
                   id : Credentials \cup {None}]
    /\ revoke \in [Credentials -> {"idle", "asked", "deleted"}]
    /\ key \in Credentials \cup {None}
    /\ {confirming, off, held} \subseteq SUBSET Credentials
    /\ expired \in BOOLEAN

\* No change of this page waits for its answer.
Settled == create.place # "made" /\ RevokingIds = {}

\* However requests overlap, once the page's changes are answered it lists
\* each row of the table once, and every row can be revoked: unless a list
\* overtook an answer, an answer was lost, a revoked credential's creation was
\* answered late, the list was rendered under a revocation that failed, or
\* others changed the table; and the next list that is up to date repairs it.
ListIsCurrent ==
    Settled /\ ~expired /\ ~doubt =>
        /\ ToSet(credentials) = table
        /\ Len(credentials) = Len(SetToSeq(table))
        /\ off = {}

=============================================================================
