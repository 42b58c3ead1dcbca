---------------------------- MODULE SpotifyTokens ----------------------------
(***************************************************************************)
(* The tokens of one user at Spotify: the refresh token in the vault, the  *)
(* access token in Redis, and the requests that read, renew and store      *)
(* them, the return of a login and a disconnection among them.  Spotify    *)
(* may answer a refresh with a new refresh token, and refuses the old one  *)
(* from then on.                                                           *)
(***************************************************************************)
EXTENDS Naturals

CONSTANTS
  Access,       \* requests under way at once
  NoToken,
  MaxTokens   \* bound: refresh tokens of a behaviour

ASSUME TokenAssumption == NoToken \notin Nat /\ MaxTokens \in Nat

VARIABLES
  vault,   \* the secret refresh_token of the user
  row,     \* its row, named by the first token it held
  cache,   \* is an access token in Redis?
  access,  \* the requests
  alive,   \* the refresh tokens that Spotify accepts
  issued,  \* how many refresh tokens it gave
  lost     \* history: tokens whose successor never reached the database

spotifyVars == <<vault, row, cache, access, alive, issued, lost>>

Token == 1 .. MaxTokens
PCs == {"free", "cache", "vault", "refreshing", "exchanging", "storing", "committing",
        "caching", "sending", "forgetting"}
Done == [pc |-> "free", refresh |-> NoToken, row |-> NoToken, retried |-> FALSE, login |-> FALSE]

State == [pc : PCs, refresh : Token \cup {NoToken}, row : Token \cup {NoToken},
          retried : BOOLEAN, login : BOOLEAN]

SpotifyTypeOK ==
  /\ {vault, row} \subseteq Token \cup {NoToken} /\ cache \in BOOLEAN
  /\ alive \subseteq Token /\ lost \subseteq Token /\ issued \in 0 .. MaxTokens
  /\ access \in [Access -> State]

SpotifyInit ==
  /\ vault = NoToken /\ row = NoToken /\ cache = FALSE
  /\ access = [c \in Access |-> Done]
  /\ alive = {} /\ lost = {} /\ issued = 0

\* A request ends, with an answer or with an error, or goes on.
Ends(c) == access' = [access EXCEPT ![c] = Done]
Goes(c, pc) == access' = [access EXCEPT ![c] = [@ EXCEPT !.pc = pc]]

\* POST /control or GET /status; the return of a login; POST /disconnect.
BeginControl(c) ==
  /\ access[c].pc = "free" /\ Goes(c, "cache")
  /\ UNCHANGED <<vault, row, cache, alive, issued, lost>>
BeginLogin(c) ==
  /\ access[c].pc = "free"
  /\ access' = [access EXCEPT ![c] = [Done EXCEPT !.pc = "exchanging", !.login = TRUE]]
  /\ UNCHANGED <<vault, row, cache, alive, issued, lost>>

\* _access_token: the cache, or else the vault.
ReadCache(c) ==
  /\ access[c].pc = "cache"
  /\ Goes(c, IF cache THEN "sending" ELSE "vault")
  /\ UNCHANGED <<vault, row, cache, alive, issued, lost>>
ReadVault(c) ==
  /\ access[c].pc = "vault"
  /\ IF vault # NoToken
     THEN access' = [access EXCEPT ![c] = [@ EXCEPT !.pc = "refreshing", !.refresh = vault]]
     ELSE Ends(c)
  /\ UNCHANGED <<vault, row, cache, alive, issued, lost>>

\* Spotify issues an access token, and a refresh token with it or not.
Issue(c, rotates) ==
  LET n == issued + 1 IN
  /\ rotates => issued < MaxTokens
  /\ issued' = IF rotates THEN n ELSE issued
  /\ alive' = IF rotates THEN (alive \ {access[c].refresh}) \cup {n} ELSE alive
  /\ access' = [access EXCEPT ![c] =
       [@ EXCEPT !.pc = IF rotates THEN "storing" ELSE "caching",
                 !.refresh = IF rotates THEN n ELSE NoToken]]

\* exchange_code gives a first refresh token; refresh_token fails with an old one; Spotify
\* may be out of reach.
Exchange(c) ==
  /\ access[c].pc = "exchanging"
  /\ Issue(c, TRUE) \/ (Ends(c) /\ UNCHANGED <<alive, issued>>)
  /\ UNCHANGED <<vault, row, cache, lost>>
Refresh(c) ==
  /\ access[c].pc = "refreshing"
  /\ \/ access[c].refresh \in alive /\ \E rotates \in BOOLEAN : Issue(c, rotates)
     \/ Ends(c) /\ UNCHANGED <<alive, issued>>
  /\ UNCHANGED <<vault, row, cache, lost>>

\* The answer of a refresh is lost after Spotify has turned the token.
LoseAnswer(c) ==
  /\ access[c].pc = "refreshing" /\ access[c].refresh \in alive /\ issued < MaxTokens
  /\ issued' = issued + 1
  /\ alive' = (alive \ {access[c].refresh}) \cup {issued + 1}
  /\ lost' = lost \cup {access[c].refresh}
  /\ Ends(c) /\ UNCHANGED <<vault, row, cache>>

\* The process dies, or the database does not answer, before a token is stored.
CutStore(c) ==
  /\ access[c].pc \in {"storing", "committing"}
  /\ lost' = lost \cup ({vault} \ (alive \cup {NoToken}))
  /\ Ends(c) /\ UNCHANGED <<vault, row, cache, alive, issued>>

\* Mutant: only a first refresh token is stored.
MutSelectSecret(c) ==
  /\ access[c].pc = "storing"
  /\ access' = [access EXCEPT ![c] =
       [@ EXCEPT !.pc = IF row = NoToken THEN "committing" ELSE "caching", !.row = row]]
  /\ UNCHANGED <<vault, row, cache, alive, issued, lost>>

\* upsert selects the row of the secret, then inserts one or updates the one it found: a row
\* that appeared, disappeared or was replaced in between fails the commit and the request.
SelectSecret(c) ==
  /\ access[c].pc = "storing"
  /\ access' = [access EXCEPT ![c] = [@ EXCEPT !.pc = "committing", !.row = row]]
  /\ UNCHANGED <<vault, row, cache, alive, issued, lost>>
CommitSecret(c) ==
  /\ access[c].pc = "committing"
  /\ IF access[c].row = row
     THEN /\ vault' = access[c].refresh
          /\ row' = IF row = NoToken THEN access[c].refresh ELSE row
          /\ Goes(c, "caching")
     ELSE Ends(c) /\ UNCHANGED <<vault, row>>
  /\ UNCHANGED <<cache, alive, issued, lost>>

CacheAccess(c) ==
  /\ access[c].pc = "caching"
  /\ cache' = TRUE
  /\ IF access[c].login THEN Ends(c) ELSE Goes(c, "sending")
  /\ UNCHANGED <<vault, row, alive, issued, lost>>

\* _request: Spotify takes the access token, or refuses it; one refused for the first time
\* is forgotten, and another one sent.
SendRequest(c) ==
  /\ access[c].pc = "sending"
  /\ \/ Ends(c) /\ UNCHANGED cache
     \/ /\ ~access[c].retried /\ cache' = FALSE
        /\ access' = [access EXCEPT ![c] = [Done EXCEPT !.pc = "cache", !.retried = TRUE]]
  /\ UNCHANGED <<vault, row, alive, issued, lost>>

\* disconnect: the secret, then the cache.
Disconnect(c) ==
  /\ access[c].pc = "free"
  /\ vault' = NoToken /\ row' = NoToken /\ Goes(c, "forgetting")
  /\ UNCHANGED <<cache, alive, issued, lost>>
ForgetAccess(c) ==
  /\ access[c].pc = "forgetting"
  /\ cache' = FALSE /\ Ends(c)
  /\ UNCHANGED <<vault, row, alive, issued, lost>>

\* The TTL of the cache.
CacheExpires ==
  /\ cache /\ cache' = FALSE
  /\ UNCHANGED <<vault, row, access, alive, issued, lost>>

SpotifyNext ==
  \/ \E c \in Access :
       \/ BeginControl(c) \/ BeginLogin(c) \/ ReadCache(c) \/ ReadVault(c)
       \/ Exchange(c) \/ Refresh(c) \/ LoseAnswer(c) \/ SelectSecret(c) \/ CommitSecret(c)
       \/ CutStore(c) \/ CacheAccess(c) \/ SendRequest(c) \/ Disconnect(c) \/ ForgetAccess(c)
  \/ CacheExpires

SpotifySpec == SpotifyInit /\ [][SpotifyNext]_spotifyVars

-----------------------------------------------------------------------------

\* The requests that hold a refresh token on its way to the row the vault has now.
Storing(c) ==
  access[c].pc = "storing" \/ (access[c].pc = "committing" /\ access[c].row = row)

\* The token in the vault is one that Spotify accepts (the comment of _access_token: a
\* rotated one is stored, or the user ends disconnected), unless a request is about to
\* replace it in its row, or its successor was lost with a process or an answer:
\* refreshes, logins and disconnections that cross, and commits that fail,
\* never leave a dead token that nobody replaces.
VaultIsAlive ==
  vault # NoToken /\ vault \notin alive \cup lost => \E c \in Access : Storing(c)

=============================================================================
