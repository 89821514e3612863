---------------------------- MODULE OAuthServer ----------------------------
(***************************************************************************)
(* The OAuth 2.1 authorization server that guards the MCP endpoint, and    *)
(* the four PostgreSQL tables it keeps: accounts, clients, authorization   *)
(* codes and sessions.                                                     *)
(*                                                                         *)
(* A user consents by posting a Tensorlake API key to /oauth/authorize,    *)
(* the answer redirects to the client with an authorization code.  The     *)
(* client exchanges the code at /oauth/token for a pair of an access token *)
(* and a refresh token, and later the refresh token for a new pair.        *)
(*                                                                         *)
(* A request is served by a handler (a goroutine of any instance), which   *)
(* runs one SQL statement after another with no transaction around them.   *)
(* A statement is one step: PostgreSQL evaluates the WHERE clause of a     *)
(* DELETE or an UPDATE again after it waited for a row lock.  Between two  *)
(* statements other handlers run, and the handler can fail.                *)
(*                                                                         *)
(* Requests that are refused before their first statement change nothing   *)
(* and are left out, and so are the GET of /oauth/authorize, the metadata  *)
(* documents and the scope, which contains `mcp' in every accepted request.*)
(***************************************************************************)
EXTENDS Clients, Naturals

CONSTANTS
    Handler,         \* requests that are served at a time
    Key,             \* Tensorlake API keys
    RedirectURI,     \* well-formed redirect URIs
    Verifier,        \* PKCE verifiers
    Resource,        \* the `resource' parameters that can occur
    NoResource,      \* the empty one of them
    None,            \* a handler's form or row when it has none
    CodeTTL, AccessTTL, RefreshTTL,     \* life times
    MaxDraws,        \* bound: how often secrets are drawn
    MaxTime          \* bound: how far the clock runs

ASSUME OAuthAssumption ==
    /\ NoResource \in Resource
    /\ CodeTTL \in Nat \ {0} /\ AccessTTL \in Nat /\ RefreshTTL \in Nat
    /\ MaxDraws \in Nat /\ MaxTime \in Nat

VARIABLES
    now,       \* the clock of the database and of the instances
    drawn,     \* how often secrets were drawn
    accounts,  \* table tensorlake_accounts
    clients,   \* table oauth_clients
    codes,     \* table oauth_authorization_codes
    sessions,  \* table oauth_sessions
    pc,        \* the next step of a handler
    form,      \* the parameters of the request a handler serves
    row,       \* the code row that a handler's DELETE returned
    fresh,     \* the number of the secrets a handler is about to answer with
    known,     \* history: the secrets that left the service in an answer
    grants,    \* history: the consents, one for each code
    pairs      \* history: the pairs of tokens that were ever stored

tables  == <<accounts, clients, codes, sessions>>
handler == <<pc, form, row, fresh>>
history == <<known, grants, pairs>>
vars    == <<now, drawn, accounts, clients, codes, sessions, pc, form, row,
             fresh, known, grants, pairs>>

-----------------------------------------------------------------------------
(* Secrets and hashes.  randomOpaque draws at least 24 random bytes: no two *)
(* draws agree.  SHA-256 is taken to be injective.                         *)
Draw == 1 .. MaxDraws

randomOpaque(prefix, n) == <<prefix, n>>
tokenHash(secret)       == <<"sha256", secret>>
pkceS256(verifier)      == <<"S256", verifier>>

\* Mutant: the tenant id is a part of the key that other keys share.
TenantIDOfPrefix(apiKey) == <<"sha256", CHOOSE k \in Key : TRUE>>

tenantIDForAPIKey(apiKey) == <<"sha256", apiKey>>

CodeOf(n)    == randomOpaque("code", n)
AccessOf(n)  == randomOpaque("access", n)
RefreshOf(n) == randomOpaque("refresh", n)

CodeSecret    == {CodeOf(n) : n \in Draw}
AccessToken   == {AccessOf(n) : n \in Draw}
RefreshToken  == {RefreshOf(n) : n \in Draw}
SessionID     == {randomOpaque("session", n) : n \in Draw}
Hashed(S)     == {tokenHash(s) : s \in S}
TenantID      == {tenantIDForAPIKey(k) : k \in Key}
CodeChallenge == {pkceS256(v) : v \in Verifier}

(* The rows of the tables.                                                 *)
Account == [tenant_id : TenantID, tensorlake_api_key : Key]

RegisteredClient == [client_id : Client \ MetadataClient,
                     redirect_uris : SUBSET RedirectURI]

Code == [code_hash : Hashed(CodeSecret), tenant_id : TenantID,
         client_id : Client, redirect_uri : RedirectURI, resource : Resource,
         code_challenge : CodeChallenge, expires_at : Nat]

Session == [session_id : SessionID, tenant_id : TenantID, client_id : Client,
            access_token_hash : Hashed(AccessToken),
            refresh_token_hash : Hashed(RefreshToken),
            access_expires_at : Nat, refresh_expires_at : Nat]

(* The requests.                                                           *)
AuthorizeForm == [client_id : Client, redirect_uri : RedirectURI,
                  code_challenge : CodeChallenge, resource : Resource,
                  tensorlake_api_key : Key]
ExchangeForm  == [client_id : Client, redirect_uri : RedirectURI,
                  code_verifier : Verifier, resource : Resource,
                  code : CodeSecret]
RefreshForm   == [client_id : Client, refresh_token : RefreshToken]

(* What the history remembers of a consent and of a pair of tokens: `spent' *)
(* is the code or the refresh token that was given for the pair, and the    *)
(* redirect URI and the challenge are those of the exchange of the code.   *)
Grant == [code : CodeSecret, tensorlake_api_key : Key, client_id : Client,
          redirect_uri : RedirectURI, code_challenge : CodeChallenge]
Pair  == [access : AccessToken, refresh : RefreshToken, grant : CodeSecret,
          spent : CodeSecret \cup RefreshToken, client_id : Client,
          redirect_uri : RedirectURI, code_challenge : CodeChallenge]

AuthorizeStep == {"check_key", "upsert", "insert_code", "redirect"}
ExchangeStep  == {"consume", "insert_session"}
RefreshStep   == {"rotate"}

TypeOK ==
    /\ now \in Nat
    /\ drawn \in Nat
    /\ accounts \subseteq Account
    /\ clients \subseteq RegisteredClient
    /\ codes \subseteq Code
    /\ sessions \subseteq Session
    /\ pc \in [Handler -> AuthorizeStep \cup ExchangeStep \cup RefreshStep
                                        \cup {"idle", "respond"}]
    /\ form \in [Handler -> AuthorizeForm \cup ExchangeForm \cup RefreshForm
                                          \cup {None}]
    /\ row \in [Handler -> Code \cup {None}]
    /\ fresh \in [Handler -> {0} \cup Draw]
    /\ known \subseteq CodeSecret \cup AccessToken \cup RefreshToken
    /\ grants \subseteq Grant
    /\ pairs \subseteq Pair

-----------------------------------------------------------------------------
\* Handler h goes on with step label.
Goto(h, label) == pc' = [pc EXCEPT ![h] = label]

\* Handler h has answered, or is gone.
Ended(h) ==
    /\ Goto(h, "idle")
    /\ form' = [form EXCEPT ![h] = None]
    /\ row' = [row EXCEPT ![h] = None]
    /\ fresh' = [fresh EXCEPT ![h] = 0]

\* Handler h draws the n-th secrets.
Drawn(h, n) ==
    /\ n = drawn + 1
    /\ n \in Draw
    /\ drawn' = n
    /\ fresh' = [fresh EXCEPT ![h] = n]

Init ==
    /\ now = 0
    /\ drawn = 0
    /\ accounts = {}
    /\ clients = {}
    /\ codes = {}
    /\ sessions = {}
    /\ pc = [h \in Handler |-> "idle"]
    /\ form = [h \in Handler |-> None]
    /\ row = [h \in Handler |-> None]
    /\ fresh = [h \in Handler |-> 0]
    /\ known = {}
    /\ grants = {}
    /\ pairs = {}

(* loadOAuthClient: the redirect URIs of client c.  The metadata document  *)
(* is fetched anew each time and says whatever it says at that moment.     *)
ClientHas(c, uris) ==
    \/ c \in MetadataClient /\ uris \in SUBSET RedirectURI \ {{}}
    \/ [client_id |-> c, redirect_uris |-> uris] \in clients

(* OAuthRegister: the new client id is random.                             *)
Register(c, uris) ==
    /\ c \notin MetadataClient
    /\ \A r \in clients : r.client_id # c
    /\ uris # {}
    /\ clients' = clients \cup {[client_id |-> c, redirect_uris |-> uris]}
    /\ UNCHANGED <<now, drawn, accounts, codes, sessions, handler, history>>

(* POST /oauth/authorize: validateAuthorizationRequest accepts form f.     *)
Authorize(h, f) ==
    /\ pc[h] = "idle"
    /\ \E uris \in SUBSET RedirectURI :
           ClientHas(f.client_id, uris) /\ f.redirect_uri \in uris
    /\ Goto(h, "check_key")
    /\ form' = [form EXCEPT ![h] = f]
    /\ UNCHANGED <<now, drawn, tables, row, fresh, history>>

(* validateTensorlakeAPIKey: Tensorlake accepts the key.  If not, see Fail. *)
CheckKey(h) ==
    /\ pc[h] = "check_key"
    /\ Goto(h, "upsert")
    /\ UNCHANGED <<now, drawn, tables, form, row, fresh, history>>

(* upsertAccount: the account's row is inserted, or its key overwritten.   *)
UpsertAccount(h) ==
    LET key == form[h].tensorlake_api_key
        tenant == tenantIDForAPIKey(key)
    IN  /\ pc[h] = "upsert"
        /\ accounts' = {a \in accounts : a.tenant_id # tenant}
                         \cup {[tenant_id |-> tenant, tensorlake_api_key |-> key]}
        /\ Goto(h, "insert_code")
        /\ UNCHANGED <<now, drawn, clients, codes, sessions, form, row, fresh, history>>

(* completeAuthorization, second part: a code is drawn and stored.         *)
InsertCode(h) ==
    LET f == form[h] IN
    /\ pc[h] = "insert_code"
    /\ \E n \in Draw :
        /\ Drawn(h, n)
        /\ codes' = codes \cup
             {[code_hash |-> tokenHash(CodeOf(n)),
               tenant_id |-> tenantIDForAPIKey(f.tensorlake_api_key),
               client_id |-> f.client_id, redirect_uri |-> f.redirect_uri,
               resource |-> f.resource, code_challenge |-> f.code_challenge,
               expires_at |-> now + CodeTTL]}
        /\ grants' = grants \cup
             {[code |-> CodeOf(n), tensorlake_api_key |-> f.tensorlake_api_key,
               client_id |-> f.client_id, redirect_uri |-> f.redirect_uri,
               code_challenge |-> f.code_challenge]}
    /\ Goto(h, "redirect")
    /\ UNCHANGED <<now, accounts, clients, sessions, form, row, known, pairs>>

(* completeAuthorization, last part: the code goes to the client.          *)
Redirect(h) ==
    /\ pc[h] = "redirect"
    /\ known' = known \cup {CodeOf(fresh[h])}
    /\ Ended(h)
    /\ UNCHANGED <<now, drawn, tables, grants, pairs>>

(* POST /oauth/token, authenticateTokenClient: the client id exists.       *)
(* Secrets are too long to guess: a request carries one that was answered. *)
TokenRequest(h, f, label) ==
    /\ pc[h] = "idle"
    /\ \E uris \in SUBSET RedirectURI : ClientHas(f.client_id, uris)
    /\ Goto(h, label)
    /\ form' = [form EXCEPT ![h] = f]
    /\ UNCHANGED <<now, drawn, tables, row, fresh, history>>

Exchange(h, f) == f.code \in known /\ TokenRequest(h, f, "consume")

Refresh(h, f) == f.refresh_token \in known /\ TokenRequest(h, f, "rotate")

(* Mutant: PKCE is not checked.                                            *)
RedeemableWithoutPKCE(r, f) ==
    /\ r.code_hash = tokenHash(f.code)
    /\ r.client_id = f.client_id
    /\ r.redirect_uri = f.redirect_uri
    /\ now < r.expires_at
    /\ f.resource = NoResource \/ r.resource \in {NoResource, f.resource}

(* Mutant: a code has no expiry.                                           *)
RedeemableForEver(r, f) ==
    /\ r.code_hash = tokenHash(f.code)
    /\ r.client_id = f.client_id
    /\ r.redirect_uri = f.redirect_uri
    /\ r.code_challenge = pkceS256(f.code_verifier)
    /\ f.resource = NoResource \/ r.resource \in {NoResource, f.resource}

(* The WHERE clause of the DELETE of exchangeAuthorizationCode.  The code   *)
(* compares the row with the request once more after the DELETE, which can *)
(* then find no difference.                                                *)
Redeemable(r, f) ==
    /\ r.code_hash = tokenHash(f.code)
    /\ r.client_id = f.client_id
    /\ r.redirect_uri = f.redirect_uri
    /\ r.code_challenge = pkceS256(f.code_verifier)
    /\ now < r.expires_at
    /\ f.resource = NoResource \/ r.resource \in {NoResource, f.resource}

(* Mutant: SELECT, the row is left for a DELETE after the tokens are made. *)
ConsumeCodeBySelect(h) ==
    LET hits == {r \in codes : Redeemable(r, form[h])} IN
    /\ pc[h] = "consume"
    /\ \/ \E r \in hits :
            /\ Goto(h, "insert_session")
            /\ row' = [row EXCEPT ![h] = r]
            /\ UNCHANGED <<form, fresh>>
       \/ hits = {} /\ Ended(h)
    /\ UNCHANGED <<now, drawn, tables, history>>

(* exchangeAuthorizationCode, first part: DELETE ... RETURNING.            *)
ConsumeCode(h) ==
    LET hits == {r \in codes : Redeemable(r, form[h])} IN
    /\ pc[h] = "consume"
    /\ codes' = codes \ hits
    /\ \/ \E r \in hits :
            /\ Goto(h, "insert_session")
            /\ row' = [row EXCEPT ![h] = r]
            /\ UNCHANGED <<form, fresh>>
       \/ hits = {} /\ Ended(h)
    /\ UNCHANGED <<now, drawn, accounts, clients, sessions, history>>

\* The n-th pair of tokens, bought with the code of handler h.
ExchangedPair(h, n) ==
    [access |-> AccessOf(n), refresh |-> RefreshOf(n),
     grant |-> form[h].code, spent |-> form[h].code,
     client_id |-> form[h].client_id, redirect_uri |-> form[h].redirect_uri,
     code_challenge |-> pkceS256(form[h].code_verifier)]

(* Mutant: the tokens are stored, not their hashes.                        *)
InsertSessionUnhashed(h) ==
    /\ pc[h] = "insert_session"
    /\ \E n \in Draw :
        /\ Drawn(h, n)
        /\ sessions' = sessions \cup
             {[session_id |-> randomOpaque("session", n),
               tenant_id |-> row[h].tenant_id, client_id |-> form[h].client_id,
               access_token_hash |-> AccessOf(n),
               refresh_token_hash |-> RefreshOf(n),
               access_expires_at |-> now + AccessTTL,
               refresh_expires_at |-> now + RefreshTTL]}
        /\ pairs' = pairs \cup {ExchangedPair(h, n)}
    /\ Goto(h, "respond")
    /\ UNCHANGED <<now, accounts, clients, codes, form, row, known, grants>>

(* Mutant: a client has one session for each account.                      *)
ReplaceSession(h) ==
    /\ pc[h] = "insert_session"
    /\ \E n \in Draw :
        /\ Drawn(h, n)
        /\ sessions' = {s \in sessions : s.tenant_id # row[h].tenant_id
                                            \/ s.client_id # form[h].client_id} \cup
             {[session_id |-> randomOpaque("session", n),
               tenant_id |-> row[h].tenant_id, client_id |-> form[h].client_id,
               access_token_hash |-> tokenHash(AccessOf(n)),
               refresh_token_hash |-> tokenHash(RefreshOf(n)),
               access_expires_at |-> now + AccessTTL,
               refresh_expires_at |-> now + RefreshTTL]}
        /\ pairs' = pairs \cup {ExchangedPair(h, n)}
    /\ Goto(h, "respond")
    /\ UNCHANGED <<now, accounts, clients, codes, form, row, known, grants>>

(* createOAuthSession: a pair of tokens is drawn and stored.               *)
InsertSession(h) ==
    /\ pc[h] = "insert_session"
    /\ \E n \in Draw :
        /\ Drawn(h, n)
        /\ sessions' = sessions \cup
             {[session_id |-> randomOpaque("session", n),
               tenant_id |-> row[h].tenant_id, client_id |-> form[h].client_id,
               access_token_hash |-> tokenHash(AccessOf(n)),
               refresh_token_hash |-> tokenHash(RefreshOf(n)),
               access_expires_at |-> now + AccessTTL,
               refresh_expires_at |-> now + RefreshTTL]}
        /\ pairs' = pairs \cup {ExchangedPair(h, n)}
    /\ Goto(h, "respond")
    /\ UNCHANGED <<now, accounts, clients, codes, form, row, known, grants>>

(* Mutant: a refresh token is good for any client.                         *)
RotatableByAnyClient(s, f) ==
    /\ s.refresh_token_hash = tokenHash(f.refresh_token)
    /\ now < s.refresh_expires_at

(* The WHERE clause of the UPDATE of rotateRefreshToken.  The code compares *)
(* the client of the row with that of the request once more after the      *)
(* UPDATE, and can then find no difference.                                *)
Rotatable(s, f) ==
    /\ s.refresh_token_hash = tokenHash(f.refresh_token)
    /\ s.client_id = f.client_id
    /\ now < s.refresh_expires_at

(* The n-th pair of tokens, made for the client of request f, which        *)
(* presents the refresh token of pair q.  Such a request names neither a   *)
(* redirect URI nor a verifier: those of the exchange are carried on.      *)
RotatedPair(q, n, f) ==
    [q EXCEPT !.access = AccessOf(n), !.refresh = RefreshOf(n), !.spent = q.refresh,
              !.client_id = f.client_id]

\* Mutant: the access token stays, only its expiry moves.
SessionProlonged(s, n) ==
    [s EXCEPT !.refresh_token_hash = tokenHash(RefreshOf(n)),
              !.access_expires_at = now + AccessTTL,
              !.refresh_expires_at = now + RefreshTTL]

\* The session s after its n-th tokens replaced the ones before.
RotatedSession(s, n) ==
    [s EXCEPT !.access_token_hash = tokenHash(AccessOf(n)),
              !.refresh_token_hash = tokenHash(RefreshOf(n)),
              !.access_expires_at = now + AccessTTL,
              !.refresh_expires_at = now + RefreshTTL]

(* Mutant: the new pair gets a row of its own.                             *)
RotateByInsert(h) ==
    LET f == form[h]
        hits == {s \in sessions : Rotatable(s, f)}
    IN  /\ pc[h] = "rotate"
        /\ \/ /\ hits # {}
              /\ \E n \in Draw :
                  /\ Drawn(h, n)
                  /\ sessions' = sessions \cup {RotatedSession(s, n) : s \in hits}
                  /\ pairs' = pairs \cup {RotatedPair(q, n, f) :
                                q \in {q \in pairs : q.refresh = f.refresh_token}}
              /\ Goto(h, "respond")
              /\ UNCHANGED <<form, row>>
           \/ /\ hits = {}
              /\ Ended(h)
              /\ UNCHANGED <<drawn, sessions, pairs>>
        /\ UNCHANGED <<now, accounts, clients, codes, known, grants>>

(* rotateRefreshToken: a new pair is drawn and takes the place of the old  *)
(* one in the session's row: UPDATE ... RETURNING.                         *)
Rotate(h) ==
    LET f == form[h]
        hits == {s \in sessions : Rotatable(s, f)}
    IN  /\ pc[h] = "rotate"
        /\ \/ /\ hits # {}
              /\ \E n \in Draw :
                  /\ Drawn(h, n)
                  /\ sessions' = (sessions \ hits) \cup {RotatedSession(s, n) : s \in hits}
                  /\ pairs' = pairs \cup {RotatedPair(q, n, f) :
                                q \in {q \in pairs : q.refresh = f.refresh_token}}
              /\ Goto(h, "respond")
              /\ UNCHANGED <<form, row>>
           \/ /\ hits = {}
              /\ Ended(h)
              /\ UNCHANGED <<drawn, sessions, pairs>>
        /\ UNCHANGED <<now, accounts, clients, codes, known, grants>>

(* The answer of /oauth/token.                                             *)
Respond(h) ==
    /\ pc[h] = "respond"
    /\ known' = known \cup {AccessOf(fresh[h]), RefreshOf(fresh[h])}
    /\ Ended(h)
    /\ UNCHANGED <<now, drawn, tables, grants, pairs>>

(* The handler ends early: Tensorlake rejects the key, a statement fails,  *)
(* the answer is lost or the instance is replaced.  What it stored stays.  *)
Fail(h) ==
    /\ pc[h] # "idle"
    /\ Ended(h)
    /\ UNCHANGED <<now, drawn, tables, history>>

Tick ==
    /\ now < MaxTime
    /\ now' = now + 1
    /\ UNCHANGED <<drawn, tables, handler, history>>

Step(h) ==
    \/ \E f \in AuthorizeForm : Authorize(h, f)
    \/ \E f \in ExchangeForm : Exchange(h, f)
    \/ \E f \in RefreshForm : Refresh(h, f)
    \/ CheckKey(h) \/ UpsertAccount(h) \/ InsertCode(h) \/ Redirect(h)
    \/ ConsumeCode(h) \/ InsertSession(h) \/ Rotate(h) \/ Respond(h)
    \/ Fail(h)

Next ==
    \/ Tick
    \/ \E c \in Client, uris \in SUBSET RedirectURI : Register(c, uris)
    \/ \E h \in Handler : Step(h)

Spec == Init /\ [][Next]_vars

-----------------------------------------------------------------------------
(* apiKeyForOAuthAccessToken, what the MCP endpoint looks up: the keys that *)
(* an access token stands for, from the session joined with its account.   *)
apiKeysFor(token) ==
    {a.tensorlake_api_key : a \in
        {a \in accounts : \E s \in sessions :
            /\ s.access_token_hash = tokenHash(token)
            /\ now < s.access_expires_at
            /\ a.tenant_id = s.tenant_id}}

(* A refresh token that the client it was issued to can rotate.            *)
Usable(p) == \E s \in sessions :
    Rotatable(s, [client_id |-> p.client_id, refresh_token |-> p.refresh])

(* Every code and every refresh token buys one pair of tokens at most, even *)
(* when it is presented several times at once, on several instances, or    *)
(* again after an answer that was lost.                                    *)
SpentOnce == \A p, q \in pairs : p.spent = q.spent => p = q

(* A consent is good for one access token and one refresh token at a time: *)
(* once a pair is rotated, neither token of the old pair is worth anything. *)
OneLivePair ==
    \A p, q \in pairs : p.grant = q.grant /\ p # q =>
        /\ apiKeysFor(p.access) = {} \/ apiKeysFor(q.access) = {}
        /\ ~ Usable(p) \/ ~ Usable(q)

(* An access token opens the account of the user who consented to it, and  *)
(* no other, whatever other users do meanwhile.                            *)
TokensBelongToGrant ==
    \A p \in pairs : \E g \in grants :
        /\ g.code = p.grant
        /\ apiKeysFor(p.access) \subseteq {g.tensorlake_api_key}

(* Tokens, those of a rotation too, are made only for requests of the      *)
(* client the user consented to, which answered the PKCE challenge and     *)
(* named the redirect URI of the consent in the exchange, a URI it had     *)
(* registered when the consent was asked for.                              *)
BoundToConsent ==
    \A p \in pairs : \E g \in grants :
        /\ g.code = p.grant
        /\ g.client_id = p.client_id
        /\ g.code_challenge = p.code_challenge
        /\ g.redirect_uri = p.redirect_uri
        /\ \/ g.client_id \in MetadataClient
           \/ \E r \in clients :
                r.client_id = g.client_id /\ g.redirect_uri \in r.redirect_uris

(* A pair that nobody rotated keeps its session: no other request, refused *)
(* or failing half-way, takes a client's session away before it expires.   *)
UnspentPairKeepsSession ==
    \A p \in pairs : (\A q \in pairs : q.spent # p.refresh) =>
        \E s \in sessions : s.refresh_token_hash = tokenHash(p.refresh)

(* The life of a consent, see Consents, as far as it can be seen from the   *)
(* tables and the handlers.  A pair is named by its access token.          *)
Stage(code) ==
    CASE \A g \in grants : g.code # code -> "none"
      [] \E p \in pairs : p.grant = code -> "issued"
      [] \E r \in codes : r.code_hash = tokenHash(code) /\ now < r.expires_at -> "open"
      [] \E h \in Handler :
           pc[h] = "insert_session" /\ row[h].code_hash = tokenHash(code) -> "redeemed"
      [] OTHER -> "lapsed"

GrantAccount(code) ==
    IF \E g \in grants : g.code = code
    THEN (CHOOSE g \in grants : g.code = code).tensorlake_api_key ELSE None

PairsOf(code) == {p \in pairs : p.grant = code}

Lives == INSTANCE Consents WITH
    Consent <- CodeSecret, Account <- Key, Pair <- AccessToken, Nobody <- None,
    stage <- [code \in CodeSecret |-> Stage(code)],
    account <- [code \in CodeSecret |-> GrantAccount(code)],
    past <- [code \in CodeSecret |-> {p.access : p \in PairsOf(code)}],
    access <- [code \in CodeSecret |->
                 UNION {{p.access} \X apiKeysFor(p.access) : p \in PairsOf(code)}],
    refresh <- [code \in CodeSecret |->
                 {p.access : p \in {q \in PairsOf(code) : Usable(q)}}]

(* Every consent lives the life of Consents, whatever requests for it and   *)
(* for others are served meanwhile, fail or are repeated.                  *)
ConsentsLive == Lives!Spec

(* A token that is worth nothing, being rotated or expired, never comes    *)
(* back to life.                                                           *)
DeadStaysDead ==
    [][\A p \in pairs :
          /\ apiKeysFor(p.access) = {} => apiKeysFor(p.access)' = {}
          /\ ~ Usable(p) => ~ Usable(p)']_vars
=============================================================================
