------------------------- MODULE OAuthServerProofs -------------------------
(***************************************************************************)
(* Proofs about OAuthServer for every number of handlers, users, clients,  *)
(* draws and ticks.                                                        *)
(***************************************************************************)
EXTENDS OAuthServer, TLAPS

(* What a handler holds at each of its steps.                              *)
HandlerInv ==
    \A h \in Handler :
        /\ pc[h] \in AuthorizeStep => form[h] \in AuthorizeForm
        /\ pc[h] \in ExchangeStep => form[h] \in ExchangeForm
        /\ pc[h] \in RefreshStep => form[h] \in RefreshForm
        /\ pc[h] = "insert_session" => row[h] \in Code
        /\ pc[h] \in {"redirect", "respond"} => fresh[h] \in Draw

TypeInv == TypeOK /\ HandlerInv

(* Secrets that are still to be drawn occur nowhere.                       *)
NewDraws ==
    \A n \in Draw : n > drawn =>
        /\ \A g \in grants : g.code # CodeOf(n)
        /\ \A p \in pairs :
            p.access # AccessOf(n) /\ p.refresh # RefreshOf(n) /\ p.spent # RefreshOf(n)

HasRegistered(c, uri) ==
    \/ c \in MetadataClient
    \/ \E r \in clients : r.client_id = c /\ uri \in r.redirect_uris

HasAccount(key) == \E a \in accounts : a.tenant_id = tenantIDForAPIKey(key)

(* A consent is given for a redirect URI that its client has registered,   *)
(* by a user whose account is stored before the code is.                   *)
GrantsInv ==
    /\ \A g, o \in grants : g.code = o.code => g = o
    /\ \A g \in grants : HasRegistered(g.client_id, g.redirect_uri)
    /\ \A g \in grants : HasAccount(g.tensorlake_api_key)
    /\ \A a \in accounts : a.tenant_id = tenantIDForAPIKey(a.tensorlake_api_key)
    /\ \A h \in Handler :
        /\ pc[h] \in AuthorizeStep => HasRegistered(form[h].client_id, form[h].redirect_uri)
        /\ pc[h] = "insert_code" => HasAccount(form[h].tensorlake_api_key)

\* Code row r stands for consent g.
StandsFor(r, g) ==
    /\ r.code_hash = tokenHash(g.code)
    /\ r.tenant_id = tenantIDForAPIKey(g.tensorlake_api_key)
    /\ r.client_id = g.client_id
    /\ r.redirect_uri = g.redirect_uri
    /\ r.code_challenge = g.code_challenge

Redeems(h) == pc[h] = "insert_session"

(* A code is in its table, or one handler redeems it, or a pair was bought *)
(* with it, and never two of these.                                        *)
CodesInv ==
    /\ \A r \in codes : \E g \in grants : StandsFor(r, g)
    /\ \A r, t \in codes : r.code_hash = t.code_hash => r = t
    /\ \A r \in codes, p \in pairs : r.code_hash # tokenHash(p.grant)
    /\ \A h \in Handler : Redeems(h) =>
        /\ \E g \in grants : StandsFor(row[h], g)
        /\ row[h].code_hash = tokenHash(form[h].code)
        /\ row[h].client_id = form[h].client_id
        /\ row[h].redirect_uri = form[h].redirect_uri
        /\ row[h].code_challenge = pkceS256(form[h].code_verifier)
        /\ \A r \in codes : r.code_hash # row[h].code_hash
        /\ \A p \in pairs : p.grant # form[h].code
        /\ \A i \in Handler \ {h} : Redeems(i) => row[i].code_hash # row[h].code_hash

(* A pair is the only one with its tokens, it was bought with the code of  *)
(* its consent or with a refresh token, and keeps the terms of the consent. *)
PairsInv ==
    /\ \A p, q \in pairs : p.access = q.access \/ p.refresh = q.refresh => p = q
    /\ \A p \in pairs : p.spent = p.grant \/ p.spent \in RefreshToken
    /\ \A p \in pairs : \E g \in grants :
        /\ g.code = p.grant
        /\ g.client_id = p.client_id
        /\ g.code_challenge = p.code_challenge
        /\ g.redirect_uri = p.redirect_uri

\* Session s has the tokens of pair p.
Holds(s, p) ==
    /\ s.access_token_hash = tokenHash(p.access)
    /\ s.refresh_token_hash = tokenHash(p.refresh)

(* A session holds the tokens of one pair that is not spent, and there is  *)
(* one session for a consent at most.                                      *)
SessionsInv ==
    /\ \A s \in sessions : \E p \in pairs : Holds(s, p) /\ s.client_id = p.client_id
    /\ \A s, t \in sessions, p, q \in pairs :
        Holds(s, p) /\ Holds(t, q) /\ p.grant = q.grant => s = t
    /\ \A s \in sessions, p \in pairs, g \in grants :
        Holds(s, p) /\ g.code = p.grant => s.tenant_id = tenantIDForAPIKey(g.tensorlake_api_key)
    /\ \A s \in sessions, p \in pairs : s.refresh_token_hash # tokenHash(p.spent)

Inv ==
    /\ TypeInv
    /\ NewDraws
    /\ GrantsInv
    /\ CodesInv
    /\ PairsInv
    /\ SessionsInv
    /\ SpentOnce
    /\ UnspentPairKeepsSession

-----------------------------------------------------------------------------
(* Secrets and hashes of different draws differ.                           *)
LEMMA SecretsDiffer ==
    /\ \A m, n : CodeOf(m) = CodeOf(n) => m = n
    /\ \A m, n : AccessOf(m) = AccessOf(n) => m = n
    /\ \A m, n : RefreshOf(m) = RefreshOf(n) => m = n
    /\ \A m, n : CodeOf(m) # RefreshOf(n)
    /\ \A s, t : tokenHash(s) = tokenHash(t) => s = t
    /\ \A k, l : tenantIDForAPIKey(k) = tenantIDForAPIKey(l) => k = l
  BY DEF CodeOf, AccessOf, RefreshOf, randomOpaque, tokenHash, tenantIDForAPIKey

LEMMA SecretsType ==
    ASSUME NEW n \in Draw
    PROVE  /\ CodeOf(n) \in CodeSecret /\ AccessOf(n) \in AccessToken
           /\ RefreshOf(n) \in RefreshToken
           /\ randomOpaque("session", n) \in SessionID
           /\ tokenHash(CodeOf(n)) \in Hashed(CodeSecret)
           /\ tokenHash(AccessOf(n)) \in Hashed(AccessToken)
           /\ tokenHash(RefreshOf(n)) \in Hashed(RefreshToken)
  BY DEF CodeSecret, AccessToken, RefreshToken, SessionID, Hashed

LEMMA TenantType == ASSUME NEW k \in Key
                    PROVE  tenantIDForAPIKey(k) \in TenantID
  BY DEF TenantID

\* Typing of the handlers' variables by one of the steps that end a request.
LEMMA EndedType ==
    ASSUME TypeInv, NEW h \in Handler, Ended(h)
    PROVE  /\ pc' \in [Handler -> AuthorizeStep \cup ExchangeStep \cup RefreshStep
                                              \cup {"idle", "respond"}]
           /\ form' \in [Handler -> AuthorizeForm \cup ExchangeForm \cup RefreshForm
                                              \cup {None}]
           /\ row' \in [Handler -> Code \cup {None}]
           /\ fresh' \in [Handler -> {0} \cup Draw]
           /\ HandlerInv'
  BY DEF TypeInv, TypeOK, HandlerInv, Ended, Goto, AuthorizeStep, ExchangeStep, RefreshStep

(* What the three steps that draw secrets store.                           *)
NewCode(h, n) ==
    [code_hash |-> tokenHash(CodeOf(n)),
     tenant_id |-> tenantIDForAPIKey(form[h].tensorlake_api_key),
     client_id |-> form[h].client_id, redirect_uri |-> form[h].redirect_uri,
     resource |-> form[h].resource, code_challenge |-> form[h].code_challenge,
     expires_at |-> now + CodeTTL]

NewGrant(h, n) ==
    [code |-> CodeOf(n), tensorlake_api_key |-> form[h].tensorlake_api_key,
     client_id |-> form[h].client_id, redirect_uri |-> form[h].redirect_uri,
     code_challenge |-> form[h].code_challenge]

NewSession(h, n) ==
    [session_id |-> randomOpaque("session", n),
     tenant_id |-> row[h].tenant_id, client_id |-> form[h].client_id,
     access_token_hash |-> tokenHash(AccessOf(n)),
     refresh_token_hash |-> tokenHash(RefreshOf(n)),
     access_expires_at |-> now + AccessTTL,
     refresh_expires_at |-> now + RefreshTTL]

LEMMA InsertCodeStores ==
    ASSUME TypeInv, NEW h \in Handler, InsertCode(h)
    PROVE  \E n \in Draw :
              /\ Drawn(h, n)
              /\ codes' = codes \cup {NewCode(h, n)}
              /\ grants' = grants \cup {NewGrant(h, n)}
              /\ NewCode(h, n) \in Code
              /\ NewGrant(h, n) \in Grant
<1>1. PICK n \in Draw :
          /\ Drawn(h, n)
          /\ codes' = codes \cup {NewCode(h, n)}
          /\ grants' = grants \cup {NewGrant(h, n)}
  BY DEF InsertCode, NewCode, NewGrant
<1>2. form[h] \in AuthorizeForm
  BY DEF InsertCode, TypeInv, HandlerInv, AuthorizeStep
<1>3. now + CodeTTL \in Nat
  BY OAuthAssumption DEF TypeInv, TypeOK
<1>4. tenantIDForAPIKey(form[h].tensorlake_api_key) \in TenantID
  BY <1>2, TenantType DEF AuthorizeForm
<1>5. NewCode(h, n) \in Code
  BY <1>2, <1>3, <1>4, SecretsType DEF NewCode, Code, AuthorizeForm
<1>6. NewGrant(h, n) \in Grant
  BY <1>2, SecretsType DEF NewGrant, Grant, AuthorizeForm
<1>7. QED
  BY <1>1, <1>5, <1>6

LEMMA InsertSessionStores ==
    ASSUME TypeInv, NEW h \in Handler, InsertSession(h)
    PROVE  \E n \in Draw :
              /\ Drawn(h, n)
              /\ sessions' = sessions \cup {NewSession(h, n)}
              /\ pairs' = pairs \cup {ExchangedPair(h, n)}
              /\ NewSession(h, n) \in Session
              /\ ExchangedPair(h, n) \in Pair
<1>1. PICK n \in Draw :
          /\ Drawn(h, n)
          /\ sessions' = sessions \cup {NewSession(h, n)}
          /\ pairs' = pairs \cup {ExchangedPair(h, n)}
  BY DEF InsertSession, NewSession
<1>2. form[h] \in ExchangeForm /\ row[h] \in Code
  BY DEF InsertSession, TypeInv, HandlerInv, ExchangeStep
<1>3. now + AccessTTL \in Nat /\ now + RefreshTTL \in Nat
  BY OAuthAssumption DEF TypeInv, TypeOK
<1>4. NewSession(h, n) \in Session
  BY <1>2, <1>3, SecretsType DEF NewSession, Session, ExchangeForm, Code
<1>5. pkceS256(form[h].code_verifier) \in CodeChallenge
  BY <1>2 DEF ExchangeForm, CodeChallenge
<1>6. ExchangedPair(h, n) \in Pair
  BY <1>2, <1>5, SecretsType DEF ExchangedPair, Pair, ExchangeForm
<1>7. QED
  BY <1>1, <1>4, <1>6

LEMMA RotatedType ==
    ASSUME TypeInv, NEW n \in Draw, NEW f
    PROVE  /\ \A s \in sessions : RotatedSession(s, n) \in Session
           /\ f.client_id \in Client => \A q \in pairs : RotatedPair(q, n, f) \in Pair
<1>1. now + AccessTTL \in Nat /\ now + RefreshTTL \in Nat
  BY OAuthAssumption DEF TypeInv, TypeOK
<1>2. ASSUME NEW s \in sessions
      PROVE  RotatedSession(s, n) \in Session
  BY <1>1, SecretsType DEF RotatedSession, Session, TypeInv, TypeOK
<1>3. ASSUME NEW q \in pairs, f.client_id \in Client
      PROVE  RotatedPair(q, n, f) \in Pair
  <2>1. q \in Pair
    BY DEF TypeInv, TypeOK
  <2>2. AccessOf(n) \in AccessToken /\ RefreshOf(n) \in RefreshToken
    BY SecretsType
  <2>3. q.refresh \in CodeSecret \cup RefreshToken
    BY <2>1 DEF Pair
  <2>4. QED
    BY <1>3, <2>1, <2>2, <2>3 DEF RotatedPair, Pair
<1>4. QED
  BY <1>2, <1>3

LEMMA TypeInit == Init => TypeInv
  BY OAuthAssumption
  DEF Init, TypeInv, TypeOK, HandlerInv, AuthorizeStep, ExchangeStep, RefreshStep

LEMMA TypeStep == TypeInv /\ [Next]_vars => TypeInv'
<1> SUFFICES ASSUME TypeInv, [Next]_vars PROVE TypeInv'
  OBVIOUS
<1> USE DEF TypeInv, TypeOK, HandlerInv, AuthorizeStep, ExchangeStep, RefreshStep
<1>1. CASE Tick
  BY <1>1 DEF Tick, tables, handler, history
<1>2. ASSUME NEW c \in Client, NEW uris \in SUBSET RedirectURI, Register(c, uris)
      PROVE  TypeInv'
  <2>1. [client_id |-> c, redirect_uris |-> uris] \in RegisteredClient
    BY <1>2 DEF Register, RegisteredClient
  <2>2. clients' \subseteq RegisteredClient
    BY <2>1, <1>2 DEF Register
  <2>3. QED
    BY <2>2, <1>2 DEF Register, handler, history
<1>3. ASSUME NEW h \in Handler, NEW f \in AuthorizeForm, Authorize(h, f)
      PROVE  TypeInv'
  BY <1>3 DEF Authorize, Goto, tables, history
<1>4. ASSUME NEW h \in Handler, NEW f \in ExchangeForm, Exchange(h, f)
      PROVE  TypeInv'
  BY <1>4 DEF Exchange, TokenRequest, Goto, tables, history
<1>5. ASSUME NEW h \in Handler, NEW f \in RefreshForm, Refresh(h, f)
      PROVE  TypeInv'
  BY <1>5 DEF Refresh, TokenRequest, Goto, tables, history
<1>6. ASSUME NEW h \in Handler, CheckKey(h)
      PROVE  TypeInv'
  BY <1>6 DEF CheckKey, Goto, tables, history
<1>7. ASSUME NEW h \in Handler, UpsertAccount(h)
      PROVE  TypeInv'
  <2> DEFINE key == form[h].tensorlake_api_key
             account == [tenant_id |-> tenantIDForAPIKey(key), tensorlake_api_key |-> key]
  <2>1. key \in Key
    BY <1>7 DEF UpsertAccount, AuthorizeForm
  <2>2. account \in Account
    BY <2>1, TenantType DEF Account
  <2>3. accounts' \subseteq accounts \cup {account}
    BY <1>7 DEF UpsertAccount
  <2>4. accounts' \subseteq Account
    BY <2>2, <2>3
  <2>5. QED
    BY <1>7, <2>4 DEF UpsertAccount, Goto, history
<1>8. ASSUME NEW h \in Handler, InsertCode(h)
      PROVE  TypeInv'
  <2>1. PICK n \in Draw :
            /\ Drawn(h, n)
            /\ codes' = codes \cup {NewCode(h, n)}
            /\ grants' = grants \cup {NewGrant(h, n)}
            /\ NewCode(h, n) \in Code
            /\ NewGrant(h, n) \in Grant
    BY <1>8, InsertCodeStores
  <2>2. codes' \subseteq Code /\ grants' \subseteq Grant
    BY <2>1
  <2>3. QED
    BY <1>8, <2>1, <2>2 DEF InsertCode, Drawn, Goto, Draw
<1>9. ASSUME NEW h \in Handler, Redirect(h)
      PROVE  TypeInv'
  <2>1. known' \subseteq CodeSecret \cup AccessToken \cup RefreshToken
    BY <1>9, SecretsType DEF Redirect
  <2>2. QED
    BY <1>9, <2>1, EndedType DEF Redirect, tables
<1>10. ASSUME NEW h \in Handler, ConsumeCode(h)
       PROVE  TypeInv'
  <2>1. codes' \subseteq Code
    BY <1>10 DEF ConsumeCode
  <2>2. CASE Ended(h)
    BY <1>10, <2>1, <2>2, EndedType DEF ConsumeCode, history
  <2>3. ASSUME NEW r \in codes,
               Goto(h, "insert_session"), row' = [row EXCEPT ![h] = r], UNCHANGED <<form, fresh>>
        PROVE  TypeInv'
    BY <1>10, <2>1, <2>3 DEF ConsumeCode, Goto, history
  <2>4. QED
    BY <1>10, <2>2, <2>3 DEF ConsumeCode
<1>11. ASSUME NEW h \in Handler, InsertSession(h)
       PROVE  TypeInv'
  <2>1. PICK n \in Draw :
            /\ Drawn(h, n)
            /\ sessions' = sessions \cup {NewSession(h, n)}
            /\ pairs' = pairs \cup {ExchangedPair(h, n)}
            /\ NewSession(h, n) \in Session
            /\ ExchangedPair(h, n) \in Pair
    BY <1>11, InsertSessionStores
  <2>2. sessions' \subseteq Session /\ pairs' \subseteq Pair
    BY <2>1
  <2>3. QED
    BY <1>11, <2>1, <2>2 DEF InsertSession, Drawn, Goto, Draw
<1>12. ASSUME NEW h \in Handler, Rotate(h)
       PROVE  TypeInv'
  <2>1. CASE Ended(h) /\ UNCHANGED <<drawn, sessions, pairs>>
    BY <1>12, <2>1, EndedType DEF Rotate
  <2>2. ASSUME NEW n \in Draw,
               Drawn(h, n), Goto(h, "respond"), UNCHANGED <<form, row>>,
               sessions' \subseteq sessions \cup {RotatedSession(s, n) : s \in sessions},
               pairs' \subseteq pairs \cup {RotatedPair(q, n, form[h]) : q \in pairs},
               NEW s \in sessions, Rotatable(s, form[h])
        PROVE  TypeInv'
    <3>0. form[h].client_id \in Client
      BY <2>2 DEF Rotatable, TypeInv, TypeOK, Session
    <3>1. sessions' \subseteq Session /\ pairs' \subseteq Pair
      BY <2>2, <3>0, RotatedType
    <3>2. QED
      BY <1>12, <2>2, <3>1 DEF Rotate, Drawn, Goto, Draw
  <2>3. QED
    BY <1>12, <2>1, <2>2 DEF Rotate
<1>13. ASSUME NEW h \in Handler, Respond(h)
       PROVE  TypeInv'
  <2>1. known' \subseteq CodeSecret \cup AccessToken \cup RefreshToken
    BY <1>13, SecretsType DEF Respond
  <2>2. QED
    BY <1>13, <2>1, EndedType DEF Respond, tables
<1>14. ASSUME NEW h \in Handler, Fail(h)
       PROVE  TypeInv'
  BY <1>14, EndedType DEF Fail, tables, history
<1>15. CASE UNCHANGED vars
  BY <1>15 DEF vars
<1>16. QED
  BY <1>1, <1>2, <1>3, <1>4, <1>5, <1>6, <1>7, <1>8, <1>9, <1>10, <1>11, <1>12,
     <1>13, <1>14, <1>15 DEF Next, Step

-----------------------------------------------------------------------------
(* A step that stores no code, no session and no secret, and after which    *)
(* no handler redeems a code that it did not redeem before.                *)
Quiet ==
    /\ UNCHANGED <<drawn, codes, sessions, grants, pairs>>
    /\ \A h \in Handler :
          Redeems(h)' => Redeems(h) /\ form'[h] = form[h] /\ row'[h] = row[h]

LEMMA QuietStep ==
    ASSUME TypeInv, NEW h \in Handler,
           \/ \E f \in AuthorizeForm : Authorize(h, f)
           \/ \E f \in ExchangeForm : Exchange(h, f)
           \/ \E f \in RefreshForm : Refresh(h, f)
           \/ CheckKey(h) \/ UpsertAccount(h) \/ Redirect(h) \/ Respond(h) \/ Fail(h)
    PROVE  Quiet
  BY DEF TypeInv, TypeOK, Quiet, Redeems, Authorize, Exchange, Refresh, TokenRequest,
         CheckKey, UpsertAccount, Redirect, Respond, Fail, Ended, Goto,
         tables, history

LEMMA QuietOthers ==
    ASSUME Tick \/ (\E c \in Client, uris \in SUBSET RedirectURI : Register(c, uris))
             \/ UNCHANGED vars
    PROVE  Quiet
  BY DEF Quiet, Redeems, Tick, Register, tables, handler, history, vars

LEMMA QuietKeeps ==
    ASSUME Inv, Quiet
    PROVE  NewDraws' /\ CodesInv' /\ PairsInv' /\ SessionsInv' /\ SpentOnce'
             /\ UnspentPairKeepsSession'
<1> USE DEF Inv, Quiet
<1>1. NewDraws'
  BY DEF NewDraws
<1>2. CodesInv'
  BY DEF CodesInv
<1>3. PairsInv' /\ SessionsInv' /\ SpentOnce' /\ UnspentPairKeepsSession'
  BY DEF PairsInv, SessionsInv, SpentOnce, UnspentPairKeepsSession
<1>4. QED
  BY <1>1, <1>2, <1>3

(* The step that stores a code.                                            *)
LEMMA InsertCodeKeeps ==
    ASSUME Inv, NEW h \in Handler, InsertCode(h)
    PROVE  NewDraws' /\ CodesInv' /\ PairsInv' /\ SessionsInv' /\ SpentOnce'
             /\ UnspentPairKeepsSession'
<1> USE SecretsDiffer DEF Inv
<1>1. PICK n \in Draw :
          /\ Drawn(h, n)
          /\ codes' = codes \cup {NewCode(h, n)}
          /\ grants' = grants \cup {NewGrant(h, n)}
          /\ NewCode(h, n) \in Code
          /\ NewGrant(h, n) \in Grant
  BY InsertCodeStores
<1>2. /\ n > drawn /\ drawn' = n /\ drawn \in Nat /\ Draw \subseteq Nat
      /\ UNCHANGED <<sessions, pairs, form, row>>
      /\ \A i \in Handler : Redeems(i)' => Redeems(i)
  BY <1>1 DEF InsertCode, Drawn, Draw, Goto, Redeems, TypeInv, TypeOK
<1>3. StandsFor(NewCode(h, n), NewGrant(h, n))
  BY DEF StandsFor, NewCode, NewGrant
<1>4. /\ \A g \in grants : g.code # CodeOf(n)
      /\ \A r \in codes : r.code_hash # NewCode(h, n).code_hash
      /\ \A i \in Handler : Redeems(i) => row[i].code_hash # NewCode(h, n).code_hash
      /\ \A p \in pairs : p.grant # CodeOf(n)
  BY <1>2 DEF NewDraws, NewCode, CodesInv, PairsInv, StandsFor
<1>5. NewDraws'
  <2>1. \A m \in Draw : m > drawn' => m > drawn /\ CodeOf(m) # CodeOf(n)
    BY <1>2
  <2>2. NewGrant(h, n).code = CodeOf(n)
    BY DEF NewGrant
  <2>3. QED
    BY <1>1, <1>2, <2>1, <2>2 DEF NewDraws
<1>6. CodesInv'
  <2>1. \A r \in codes' : \E g \in grants' : StandsFor(r, g)
    BY <1>1, <1>3 DEF CodesInv
  <2>2. \A r, t \in codes' : r.code_hash = t.code_hash => r = t
    BY <1>1, <1>4 DEF CodesInv
  <2>3. \A r \in codes', p \in pairs' : r.code_hash # tokenHash(p.grant)
    BY <1>1, <1>2, <1>4 DEF CodesInv, NewCode
  <2>4. QED
    BY <1>1, <1>2, <1>4, <2>1, <2>2, <2>3 DEF CodesInv
<1>7. PairsInv'
  BY <1>1, <1>2 DEF PairsInv
<1>8. SessionsInv'
  BY <1>1, <1>2, <1>4 DEF SessionsInv, Holds, NewGrant
<1>9. QED
  BY <1>2, <1>5, <1>6, <1>7, <1>8 DEF SpentOnce, UnspentPairKeepsSession

(* The step that takes a code out of its table.                            *)
LEMMA ConsumeCodeKeeps ==
    ASSUME Inv, NEW h \in Handler, ConsumeCode(h)
    PROVE  NewDraws' /\ CodesInv' /\ PairsInv' /\ SessionsInv' /\ SpentOnce'
             /\ UnspentPairKeepsSession'
<1> USE DEF Inv
<1>1. /\ UNCHANGED <<drawn, sessions, grants, pairs>>
      /\ codes' \subseteq codes
  BY DEF ConsumeCode, history
<1>2. NewDraws' /\ PairsInv' /\ SessionsInv' /\ SpentOnce' /\ UnspentPairKeepsSession'
  BY <1>1 DEF NewDraws, PairsInv, SessionsInv, SpentOnce, UnspentPairKeepsSession
<1>3. CASE Ended(h)
  <2>1. \A i \in Handler : Redeems(i)' => Redeems(i) /\ form'[i] = form[i] /\ row'[i] = row[i]
    BY <1>3 DEF Ended, Goto, Redeems, TypeInv, TypeOK
  <2>2. CodesInv'
    BY <1>1, <2>1 DEF CodesInv
  <2>3. QED
    BY <1>2, <2>2
<1>4. ASSUME NEW r \in codes, Redeemable(r, form[h]),
             Goto(h, "insert_session"), row' = [row EXCEPT ![h] = r], UNCHANGED form
      PROVE  CodesInv'
  <2>1. codes' = codes \ {t \in codes : Redeemable(t, form[h])}
    BY DEF ConsumeCode
  <2>2. /\ row'[h] = r /\ UNCHANGED form
        /\ \A i \in Handler \ {h} : row'[i] = row[i] /\ (Redeems(i)' <=> Redeems(i))
    BY <1>4 DEF Goto, Redeems, TypeInv, TypeOK
  <2>3. \A t \in codes' : t.code_hash # r.code_hash
    BY <1>4, <2>1 DEF CodesInv
  <2>4. \E g \in grants : StandsFor(r, g)
    BY DEF CodesInv
  <2>5. \A p \in pairs : p.grant # form[h].code
    BY <1>4 DEF CodesInv, Redeemable
  <2>6. \A i \in Handler : Redeems(i) => row[i].code_hash # r.code_hash
    BY DEF CodesInv
  <2>7. ASSUME NEW i \in Handler, Redeems(i)'
        PROVE  /\ \E g \in grants' : StandsFor(row'[i], g)
               /\ row'[i].code_hash = tokenHash(form'[i].code)
               /\ row'[i].client_id = form'[i].client_id
               /\ row'[i].redirect_uri = form'[i].redirect_uri
               /\ row'[i].code_challenge = pkceS256(form'[i].code_verifier)
               /\ \A t \in codes' : t.code_hash # row'[i].code_hash
               /\ \A p \in pairs' : p.grant # form'[i].code
               /\ \A j \in Handler \ {i} : Redeems(j)' => row'[j].code_hash # row'[i].code_hash
    <3>1. CASE i = h
      BY <1>1, <1>4, <2>2, <2>3, <2>4, <2>5, <2>6, <3>1 DEF Redeemable
    <3>2. CASE i # h
      BY <1>1, <2>2, <2>6, <2>7, <3>2 DEF CodesInv
    <3>3. QED
      BY <3>1, <3>2
  <2>8. QED
    BY <1>1, <2>7 DEF CodesInv
<1>5. QED
  BY <1>2, <1>3, <1>4 DEF ConsumeCode

(* The step that stores the pair which a code bought.                      *)
LEMMA InsertSessionKeeps ==
    ASSUME Inv, NEW h \in Handler, InsertSession(h)
    PROVE  NewDraws' /\ CodesInv' /\ PairsInv' /\ SessionsInv' /\ SpentOnce'
             /\ UnspentPairKeepsSession'
<1> USE SecretsDiffer DEF Inv
<1>1. PICK n \in Draw :
          /\ Drawn(h, n)
          /\ sessions' = sessions \cup {NewSession(h, n)}
          /\ pairs' = pairs \cup {ExchangedPair(h, n)}
          /\ NewSession(h, n) \in Session
          /\ ExchangedPair(h, n) \in Pair
  BY InsertSessionStores
<1> DEFINE s == NewSession(h, n)
           p == ExchangedPair(h, n)
<1>2. /\ n > drawn /\ drawn' = n /\ drawn \in Nat /\ Draw \subseteq Nat
      /\ UNCHANGED <<codes, grants, form, row>>
      /\ Redeems(h)
      /\ \A i \in Handler : Redeems(i)' => Redeems(i) /\ i # h
  BY <1>1 DEF InsertSession, Drawn, Draw, Goto, Redeems, TypeInv, TypeOK
<1>3. /\ s.access_token_hash = tokenHash(AccessOf(n))
      /\ s.refresh_token_hash = tokenHash(RefreshOf(n))
      /\ s.client_id = form[h].client_id /\ s.tenant_id = row[h].tenant_id
      /\ p.access = AccessOf(n) /\ p.refresh = RefreshOf(n)
      /\ p.grant = form[h].code /\ p.spent = form[h].code
      /\ p.client_id = form[h].client_id /\ p.redirect_uri = form[h].redirect_uri
      /\ p.code_challenge = pkceS256(form[h].code_verifier)
      /\ sessions' = sessions \cup {s} /\ pairs' = pairs \cup {p}
  BY <1>1 DEF NewSession, ExchangedPair
<1> HIDE DEF s, p
<1>4. /\ \A q \in pairs : q.access # p.access /\ q.refresh # p.refresh /\ q.grant # p.grant
      /\ \A t \in sessions : /\ t.access_token_hash # s.access_token_hash
                             /\ t.refresh_token_hash # s.refresh_token_hash
  BY <1>2, <1>3 DEF NewDraws, CodesInv, SessionsInv, Holds
<1>5. PICK g \in grants : StandsFor(row[h], g)
  BY <1>2 DEF CodesInv
<1>6. /\ g.code = p.grant /\ g.client_id = p.client_id
      /\ g.code_challenge = p.code_challenge /\ g.redirect_uri = p.redirect_uri
      /\ s.tenant_id = tenantIDForAPIKey(g.tensorlake_api_key)
  BY <1>2, <1>3, <1>5 DEF CodesInv, StandsFor
<1>7. form[h] \in ExchangeForm
  BY <1>2 DEF TypeInv, HandlerInv, Redeems, ExchangeStep
<1>8. p.spent \in CodeSecret
  BY <1>3, <1>7 DEF ExchangeForm
<1>9. NewDraws'
  BY <1>2, <1>3, <1>8 DEF NewDraws, CodeSecret
<1>10. CodesInv'
  BY <1>2, <1>3, <1>4 DEF CodesInv
<1>11. PairsInv'
  BY <1>2, <1>3, <1>4, <1>5, <1>6 DEF PairsInv
<1>12. SpentOnce'
  <2>1. \A q \in pairs : q.spent # p.spent
    BY <1>2, <1>3, <1>4, <1>8 DEF PairsInv, CodeSecret, RefreshToken
  <2>2. QED
    BY <1>3, <2>1 DEF SpentOnce
<1>13. SessionsInv'
  <2>1. Holds(s, p) /\ s.client_id = p.client_id
    BY <1>3 DEF Holds
  <2>2. /\ \A t \in sessions : ~ Holds(t, p)
        /\ \A q \in pairs : ~ Holds(s, q)
    BY <1>3, <1>4 DEF Holds
  <2>3. \A t \in sessions', q \in pairs' : t.refresh_token_hash # tokenHash(q.spent)
    <3>1. \A t \in sessions : t.refresh_token_hash # tokenHash(p.spent)
      BY <1>8 DEF TypeInv, TypeOK, Session, Hashed, RefreshToken, CodeSecret
    <3>2. s.refresh_token_hash # tokenHash(p.spent)
      BY <1>3, <1>8 DEF CodeSecret
    <3>3. \A q \in pairs : s.refresh_token_hash # tokenHash(q.spent)
      BY <1>2, <1>3 DEF NewDraws
    <3>4. QED
      BY <1>3, <3>1, <3>2, <3>3 DEF SessionsInv
  <2>4. \A t \in sessions', q \in pairs', o \in grants' :
           Holds(t, q) /\ o.code = q.grant => t.tenant_id = tenantIDForAPIKey(o.tensorlake_api_key)
    BY <1>3, <1>2, <1>5, <1>6, <2>2 DEF SessionsInv, GrantsInv
  <2>5. \A t \in sessions' : \E q \in pairs' : Holds(t, q) /\ t.client_id = q.client_id
    BY <1>3, <2>1 DEF SessionsInv
  <2>6. \A t, u \in sessions', q, r \in pairs' :
           Holds(t, q) /\ Holds(u, r) /\ q.grant = r.grant => t = u
    BY <1>3, <1>4, <2>2 DEF SessionsInv
  <2>7. QED
    BY <2>3, <2>4, <2>5, <2>6 DEF SessionsInv
<1>14. UnspentPairKeepsSession'
  <2>1. \E t \in sessions' : t.refresh_token_hash = tokenHash(p.refresh)
    BY <1>3
  <2>2. QED
    BY <1>3, <2>1 DEF UnspentPairKeepsSession
<1>15. QED
  BY <1>9, <1>10, <1>11, <1>12, <1>13, <1>14

(* The step that rotates a refresh token.                                  *)
LEMMA RotateKeeps ==
    ASSUME Inv, NEW h \in Handler, Rotate(h)
    PROVE  NewDraws' /\ CodesInv' /\ PairsInv' /\ SessionsInv' /\ SpentOnce'
             /\ UnspentPairKeepsSession'
<1> USE SecretsDiffer DEF Inv
<1>1. /\ UNCHANGED <<codes, grants>>
      /\ \A i \in Handler : Redeems(i)' => Redeems(i) /\ form'[i] = form[i] /\ row'[i] = row[i]
  BY DEF Rotate, Ended, Goto, Redeems, TypeInv, TypeOK
<1>2. CASE UNCHANGED <<drawn, sessions, pairs>>
  BY <1>1, <1>2, QuietKeeps DEF Quiet
<1> DEFINE hits == {s \in sessions : Rotatable(s, form[h])}
           old  == {q \in pairs : q.refresh = form[h].refresh_token}
<1>3. ASSUME NEW n \in Draw, Drawn(h, n), NEW s \in hits,
             sessions' = (sessions \ hits) \cup {RotatedSession(t, n) : t \in hits},
             pairs' = pairs \cup {RotatedPair(q, n, form[h]) : q \in old}
      PROVE  NewDraws' /\ CodesInv' /\ PairsInv' /\ SessionsInv' /\ SpentOnce'
               /\ UnspentPairKeepsSession'
  <2>1. /\ n > drawn /\ drawn' = n /\ drawn \in Nat /\ Draw \subseteq Nat
    BY <1>3 DEF Drawn, Draw, TypeInv, TypeOK
  <2>2. PICK q \in pairs : Holds(s, q) /\ s.client_id = q.client_id
    BY DEF SessionsInv
  <2>3. old = {q}
    BY <2>2 DEF Rotatable, Holds, PairsInv
  <2>4. \A t \in hits : t = s
    <3>1. SUFFICES ASSUME NEW t \in hits PROVE t = s
      OBVIOUS
    <3>2. PICK r \in pairs : Holds(t, r)
      BY DEF SessionsInv
    <3>3. r = q
      BY <2>2, <3>2 DEF Rotatable, Holds, PairsInv
    <3>4. QED
      BY <2>2, <3>2, <3>3 DEF SessionsInv
  <2> DEFINE t == RotatedSession(s, n)
             p == RotatedPair(q, n, form[h])
  <2>5. sessions' = (sessions \ {s}) \cup {t} /\ pairs' = pairs \cup {p}
    BY <1>3, <2>3, <2>4
  <2>6. /\ t.access_token_hash = tokenHash(AccessOf(n))
        /\ t.refresh_token_hash = tokenHash(RefreshOf(n))
        /\ t.client_id = s.client_id /\ t.tenant_id = s.tenant_id
        /\ p.access = AccessOf(n) /\ p.refresh = RefreshOf(n)
        /\ p.grant = q.grant /\ p.spent = q.refresh
        /\ p.client_id = form[h].client_id /\ p.redirect_uri = q.redirect_uri
        /\ p.code_challenge = q.code_challenge
        /\ s \in sessions
    BY DEF RotatedSession, RotatedPair, TypeInv, TypeOK, Session, Pair
  <2>a. p.client_id = q.client_id
    BY <2>2, <2>6 DEF Rotatable
  <2> HIDE DEF hits, old, t, p
  <2>7. /\ \A r \in pairs : /\ r.access # p.access /\ r.refresh # p.refresh
                            /\ r.spent # p.refresh
        /\ \A u \in sessions : /\ u.access_token_hash # t.access_token_hash
                               /\ u.refresh_token_hash # t.refresh_token_hash
    BY <2>1, <2>6 DEF NewDraws, SessionsInv, Holds
  <2>8. NewDraws'
    BY <1>1, <2>1, <2>5, <2>6 DEF NewDraws
  <2>9. CodesInv'
    BY <1>1, <2>5, <2>6 DEF CodesInv
  <2>10. PairsInv'
    <3>1. PICK g \in grants : /\ g.code = q.grant /\ g.client_id = q.client_id
                              /\ g.redirect_uri = q.redirect_uri
                              /\ g.code_challenge = q.code_challenge
      BY <2>2 DEF PairsInv
    <3>2. g \in grants' /\ g.code = p.grant /\ g.client_id = p.client_id
          /\ g.redirect_uri = p.redirect_uri /\ g.code_challenge = p.code_challenge
      BY <1>1, <2>a, <2>6, <3>1
    <3>3. QED
      BY <1>1, <2>5, <2>6, <2>7, <3>2 DEF PairsInv, TypeInv, TypeOK, Pair
  <2>11. \A r \in pairs : r.spent # p.spent
    BY <2>2, <2>6 DEF SessionsInv, Holds
  <2>12. SpentOnce'
    BY <2>5, <2>11 DEF SpentOnce
  <2>13. SessionsInv'
    <3>1. Holds(t, p) /\ t.client_id = p.client_id
      BY <2>2, <2>a, <2>6 DEF Holds
    <3>2. /\ \A u \in sessions : ~ Holds(u, p)
          /\ \A r \in pairs : ~ Holds(t, r)
      BY <2>6, <2>7 DEF Holds
    <3>3. \A u \in sessions \ {s}, r \in pairs : Holds(u, r) => r.grant # p.grant
      BY <2>2, <2>6 DEF SessionsInv
    <3>4. \A u \in sessions', r \in pairs' : u.refresh_token_hash # tokenHash(r.spent)
      <4>1. \A u \in sessions \ {s} : u.refresh_token_hash # tokenHash(p.spent)
        <5>1. SUFFICES ASSUME NEW u \in sessions,
                              u.refresh_token_hash = tokenHash(q.refresh)
                       PROVE  u = s
          BY <2>6
        <5>2. PICK r \in pairs : Holds(u, r)
          BY DEF SessionsInv
        <5>3. r = q
          BY <5>1, <5>2 DEF Holds, PairsInv
        <5>4. QED
          BY <2>2, <2>6, <5>2, <5>3 DEF SessionsInv
      <4>2. \A r \in pairs' : t.refresh_token_hash # tokenHash(r.spent)
        BY <2>2, <2>5, <2>6, <2>7
      <4>3. QED
        BY <2>5, <4>1, <4>2 DEF SessionsInv
    <3>5. \A u \in sessions', r \in pairs', o \in grants' :
             Holds(u, r) /\ o.code = r.grant
               => u.tenant_id = tenantIDForAPIKey(o.tensorlake_api_key)
      BY <1>1, <2>2, <2>5, <2>6, <3>2 DEF SessionsInv
    <3>6. \A u \in sessions' : \E r \in pairs' : Holds(u, r) /\ u.client_id = r.client_id
      BY <2>5, <3>1 DEF SessionsInv
    <3>7. \A u, v \in sessions', r, o \in pairs' :
             Holds(u, r) /\ Holds(v, o) /\ r.grant = o.grant => u = v
      BY <2>5, <3>2, <3>3 DEF SessionsInv
    <3>8. QED
      BY <3>4, <3>5, <3>6, <3>7 DEF SessionsInv
  <2>14. UnspentPairKeepsSession'
    <3>1. ASSUME NEW r \in pairs, \A o \in pairs' : o.spent # r.refresh
          PROVE  \E u \in sessions' : u.refresh_token_hash = tokenHash(r.refresh)
      <4>1. PICK u \in sessions : u.refresh_token_hash = tokenHash(r.refresh)
        BY <2>5, <3>1 DEF UnspentPairKeepsSession
      <4>2. u # s
        BY <2>2, <2>5, <2>6, <3>1, <4>1 DEF Holds
      <4>3. QED
        BY <2>5, <4>1, <4>2
    <3>2. \E u \in sessions' : u.refresh_token_hash = tokenHash(p.refresh)
      BY <2>5, <2>6
    <3>3. QED
      BY <2>5, <3>1, <3>2 DEF UnspentPairKeepsSession
  <2>15. QED
    BY <2>8, <2>9, <2>10, <2>12, <2>13, <2>14
<1>4. QED
  BY <1>2, <1>3 DEF Rotate

LEMMA GrantsStep == Inv /\ [Next]_vars => GrantsInv'
<1> SUFFICES ASSUME Inv, [Next]_vars PROVE GrantsInv'
  OBVIOUS
<1> USE DEF Inv, TypeInv, TypeOK, AuthorizeStep
<1>1. ASSUME UNCHANGED <<accounts, clients, grants>>,
             \A h \in Handler :
                /\ pc'[h] \in AuthorizeStep => pc[h] \in AuthorizeStep /\ form'[h] = form[h]
                /\ pc'[h] = "insert_code" => pc[h] = "insert_code"
      PROVE  GrantsInv'
  BY <1>1 DEF GrantsInv, HasRegistered, HasAccount
<1>2. CASE Tick \/ UNCHANGED vars
  BY <1>1, <1>2 DEF Tick, tables, handler, history, vars
<1>3. ASSUME NEW c \in Client, NEW uris \in SUBSET RedirectURI, Register(c, uris)
      PROVE  GrantsInv'
  <2>1. clients \subseteq clients' /\ UNCHANGED <<accounts, grants, pc, form>>
    BY <1>3 DEF Register, handler, history
  <2>2. QED
    BY <2>1 DEF GrantsInv, HasRegistered, HasAccount
<1>4. ASSUME NEW h \in Handler, NEW f \in AuthorizeForm, Authorize(h, f)
      PROVE  GrantsInv'
  <2>1. HasRegistered(f.client_id, f.redirect_uri)
    <3>1. PICK uris \in SUBSET RedirectURI :
              ClientHas(f.client_id, uris) /\ f.redirect_uri \in uris
      BY <1>4 DEF Authorize
    <3>2. QED
      BY <3>1 DEF ClientHas, HasRegistered
  <2>2. /\ UNCHANGED <<accounts, clients, grants>>
        /\ pc'[h] = "check_key" /\ form'[h] = f
        /\ \A i \in Handler \ {h} : pc'[i] = pc[i] /\ form'[i] = form[i]
    BY <1>4 DEF Authorize, Goto, tables, history
  <2>3. QED
    BY <2>1, <2>2 DEF GrantsInv, HasRegistered, HasAccount
<1>5. ASSUME NEW h \in Handler,
             \/ \E f \in ExchangeForm : Exchange(h, f)
             \/ \E f \in RefreshForm : Refresh(h, f)
             \/ CheckKey(h) \/ Redirect(h) \/ ConsumeCode(h) \/ InsertSession(h)
             \/ Rotate(h) \/ Respond(h) \/ Fail(h)
      PROVE  GrantsInv'
  <2>1. UNCHANGED <<accounts, clients, grants>>
    BY <1>5 DEF Exchange, Refresh, TokenRequest, CheckKey, Redirect, ConsumeCode,
                InsertSession, Rotate, Respond, Fail, tables, history
  <2>2. \A i \in Handler :
           /\ pc'[i] \in AuthorizeStep => pc[i] \in AuthorizeStep /\ form'[i] = form[i]
           /\ pc'[i] = "insert_code" => pc[i] = "insert_code"
    BY <1>5 DEF Exchange, Refresh, TokenRequest, CheckKey, Redirect, ConsumeCode,
                InsertSession, Rotate, Respond, Fail, Ended, Goto
  <2>3. QED
    BY <1>1, <2>1, <2>2
<1>6. ASSUME NEW h \in Handler, UpsertAccount(h)
      PROVE  GrantsInv'
  <2> DEFINE key == form[h].tensorlake_api_key
             account == [tenant_id |-> tenantIDForAPIKey(key), tensorlake_api_key |-> key]
  <2>1. /\ accounts' = {a \in accounts : a.tenant_id # tenantIDForAPIKey(key)} \cup {account}
        /\ UNCHANGED <<clients, grants, form>>
        /\ pc[h] = "upsert" /\ pc'[h] = "insert_code"
        /\ \A i \in Handler \ {h} : pc'[i] = pc[i]
    BY <1>6 DEF UpsertAccount, Goto, history
  <2>2. account \in accounts' /\ account.tenant_id = tenantIDForAPIKey(key)
    BY <2>1
  <2>3. \A k : (\E a \in accounts : a.tenant_id = tenantIDForAPIKey(k)) \/ k = key
                => \E a \in accounts' : a.tenant_id = tenantIDForAPIKey(k)
    BY <2>1, <2>2
  <2>4. \A a \in accounts' : a.tenant_id = tenantIDForAPIKey(a.tensorlake_api_key)
    BY <2>1 DEF GrantsInv
  <2>5. QED
    BY <2>1, <2>3, <2>4 DEF GrantsInv, HasRegistered, HasAccount
<1>7. ASSUME NEW h \in Handler, InsertCode(h)
      PROVE  GrantsInv'
  <2>1. PICK n \in Draw : Drawn(h, n) /\ grants' = grants \cup {NewGrant(h, n)}
    BY <1>7, InsertCodeStores
  <2>2. /\ UNCHANGED <<accounts, clients, form>>
        /\ pc[h] = "insert_code" /\ pc'[h] = "redirect"
        /\ \A i \in Handler \ {h} : pc'[i] = pc[i]
    BY <1>7 DEF InsertCode, Goto
  <2>3. \A g \in grants : g.code # CodeOf(n)
    BY <2>1 DEF NewDraws, Drawn
  <2>4. /\ HasRegistered(NewGrant(h, n).client_id, NewGrant(h, n).redirect_uri)
        /\ HasAccount(NewGrant(h, n).tensorlake_api_key)
        /\ NewGrant(h, n).code = CodeOf(n)
    BY <2>2 DEF NewGrant, GrantsInv
  <2>5. QED
    BY <2>1, <2>2, <2>3, <2>4 DEF GrantsInv, HasRegistered, HasAccount
<1>8. QED
  BY <1>2, <1>3, <1>4, <1>5, <1>6, <1>7 DEF Next, Step

-----------------------------------------------------------------------------
LEMMA InvInit == Init => Inv
<1> SUFFICES ASSUME Init PROVE Inv
  OBVIOUS
<1>1. TypeInv
  BY TypeInit
<1>2. QED
  BY <1>1 DEF Init, Inv, NewDraws, GrantsInv, CodesInv, Redeems, PairsInv, SessionsInv,
              SpentOnce, UnspentPairKeepsSession, AuthorizeStep

LEMMA InvStep == Inv /\ [Next]_vars => Inv'
<1> SUFFICES ASSUME Inv, [Next]_vars PROVE Inv'
  OBVIOUS
<1>1. TypeInv' /\ GrantsInv'
  BY TypeStep, GrantsStep DEF Inv
<1> DEFINE Rest == NewDraws /\ CodesInv /\ PairsInv /\ SessionsInv /\ SpentOnce
                     /\ UnspentPairKeepsSession
<1>2. ASSUME Quiet PROVE Rest'
  BY <1>2, QuietKeeps
<1>3. ASSUME NEW h \in Handler, Step(h)
      PROVE  Rest'
  <2>1. CASE InsertCode(h) \/ ConsumeCode(h) \/ InsertSession(h) \/ Rotate(h)
    BY <2>1, InsertCodeKeeps, ConsumeCodeKeeps, InsertSessionKeeps, RotateKeeps
  <2>2. CASE ~ (InsertCode(h) \/ ConsumeCode(h) \/ InsertSession(h) \/ Rotate(h))
    BY <1>2, <1>3, <2>2, QuietStep DEF Step, Inv
  <2>3. QED
    BY <2>1, <2>2
<1>4. Rest'
  BY <1>2, <1>3, QuietOthers DEF Next
<1>5. QED
  BY <1>1, <1>4 DEF Inv

LEMMA Invariance == Spec => []Inv
  BY InvInit, InvStep, PTL DEF Spec

(* Every reachable state is well typed: the tables, the handlers and the   *)
(* secrets that left the service.                                          *)
THEOREM TypeCorrect == Spec => []TypeOK
<1>1. Inv => TypeOK
  BY DEF Inv, TypeInv
<1>2. QED
  BY <1>1, Invariance, PTL

(* exchangeAuthorizationCode and rotateRefreshToken: a code or a refresh   *)
(* token buys one pair, however many handlers are given it.                *)
THEOREM SpendsOnce == Spec => []SpentOnce
<1>1. Inv => SpentOnce
  BY DEF Inv
<1>2. QED
  BY <1>1, Invariance, PTL

(* The session of a pair that was not rotated stays, whatever other        *)
(* handlers do or leave half done.                                         *)
THEOREM SessionsKept == Spec => []UnspentPairKeepsSession
<1>1. Inv => UnspentPairKeepsSession
  BY DEF Inv
<1>2. QED
  BY <1>1, Invariance, PTL

(* A session that has one token of a pair has both.                        *)
LEMMA SessionOfPair ==
    Inv => \A s \in sessions, p \in pairs :
              s.access_token_hash = tokenHash(p.access)
                \/ s.refresh_token_hash = tokenHash(p.refresh) => Holds(s, p)
<1> SUFFICES ASSUME Inv, NEW s \in sessions, NEW p \in pairs,
                    \/ s.access_token_hash = tokenHash(p.access)
                    \/ s.refresh_token_hash = tokenHash(p.refresh)
             PROVE  Holds(s, p)
  OBVIOUS
<1>1. PICK q \in pairs : Holds(s, q)
  BY DEF Inv, SessionsInv
<1>2. q = p
  BY <1>1, SecretsDiffer DEF Inv, PairsInv, Holds
<1>3. QED
  BY <1>1, <1>2

(* What the tokens of a pair are good for, in terms of its session.        *)
Opens(p)  == \E s \in sessions : Holds(s, p) /\ now < s.access_expires_at
Rotates(p) == \E s \in sessions : Holds(s, p) /\ now < s.refresh_expires_at

AccessOfPairs ==
    \A p \in pairs, g \in grants : g.code = p.grant =>
        apiKeysFor(p.access) = IF Opens(p) THEN {g.tensorlake_api_key} ELSE {}

UseOfPairs == \A p \in pairs : Usable(p) <=> Rotates(p)

LEMMA AccessOfPair == Inv => AccessOfPairs
<1> SUFFICES ASSUME Inv, NEW p \in pairs, NEW g \in grants, g.code = p.grant
             PROVE  apiKeysFor(p.access) = IF Opens(p) THEN {g.tensorlake_api_key} ELSE {}
  BY DEF AccessOfPairs
<1>1. \A s \in sessions : s.access_token_hash = tokenHash(p.access) <=> Holds(s, p)
  BY SessionOfPair DEF Holds
<1>2. \A s \in sessions : Holds(s, p) => s.tenant_id = tenantIDForAPIKey(g.tensorlake_api_key)
  BY DEF Inv, SessionsInv
<1>3. /\ \A a \in accounts : a.tenant_id = tenantIDForAPIKey(g.tensorlake_api_key)
                               => a.tensorlake_api_key = g.tensorlake_api_key
      /\ \E a \in accounts : a.tenant_id = tenantIDForAPIKey(g.tensorlake_api_key)
  BY SecretsDiffer DEF Inv, GrantsInv, HasAccount
<1>4. CASE Opens(p)
  BY <1>1, <1>2, <1>3, <1>4 DEF apiKeysFor, Opens
<1>5. CASE ~ Opens(p)
  BY <1>1, <1>5 DEF apiKeysFor, Opens
<1>6. QED
  BY <1>4, <1>5

LEMMA UseOfPair == Inv => UseOfPairs
<1> SUFFICES ASSUME Inv, NEW p \in pairs PROVE Usable(p) <=> Rotates(p)
  BY DEF UseOfPairs
<1>1. \A s \in sessions : s.refresh_token_hash = tokenHash(p.refresh) <=> Holds(s, p)
  BY SessionOfPair DEF Holds
<1>2. ASSUME NEW s \in sessions, Holds(s, p) PROVE s.client_id = p.client_id
  <2>1. PICK q \in pairs : Holds(s, q) /\ s.client_id = q.client_id
    BY DEF Inv, SessionsInv
  <2>2. q = p
    BY <1>2, <2>1, SecretsDiffer DEF Inv, PairsInv, Holds
  <2>3. QED
    BY <2>1, <2>2
<1>3. QED
  BY <1>1, <1>2 DEF Usable, Rotatable, Rotates

LEMMA GrantOfPair == Inv => \A p \in pairs : \E g \in grants : g.code = p.grant
  BY DEF Inv, PairsInv

(* A consent is good for the tokens of one pair at a time.                 *)
THEOREM OnePairAtATime == Spec => []OneLivePair
<1>1. ASSUME Inv PROVE OneLivePair
  <2> SUFFICES ASSUME NEW p \in pairs, NEW q \in pairs, p.grant = q.grant, p # q
               PROVE  /\ apiKeysFor(p.access) = {} \/ apiKeysFor(q.access) = {}
                      /\ ~ Usable(p) \/ ~ Usable(q)
    BY DEF OneLivePair
  <2>1. ASSUME NEW s \in sessions, NEW t \in sessions, Holds(s, p), Holds(t, q)
        PROVE  FALSE
    <3>1. s = t
      BY <1>1, <2>1 DEF Inv, SessionsInv
    <3>2. QED
      BY <1>1, <2>1, <3>1, SecretsDiffer DEF Inv, PairsInv, Holds
  <2>2. PICK g \in grants : g.code = p.grant
    BY <1>1, GrantOfPair
  <2>3. ~ Opens(p) \/ ~ Opens(q)
    BY <2>1 DEF Opens
  <2>4. ~ Rotates(p) \/ ~ Rotates(q)
    BY <2>1 DEF Rotates
  <2>5. QED
    BY <1>1, <2>2, <2>3, <2>4, AccessOfPair, UseOfPair DEF AccessOfPairs, UseOfPairs
<1>2. QED
  BY <1>1, Invariance, PTL

(* apiKeyForOAuthAccessToken answers the key of the user who consented.    *)
THEOREM RightAccount == Spec => []TokensBelongToGrant
<1>1. ASSUME Inv PROVE TokensBelongToGrant
  <2> SUFFICES ASSUME NEW p \in pairs
               PROVE  \E g \in grants :
                         /\ g.code = p.grant
                         /\ apiKeysFor(p.access) \subseteq {g.tensorlake_api_key}
    BY DEF TokensBelongToGrant
  <2>1. PICK g \in grants : g.code = p.grant
    BY <1>1, GrantOfPair
  <2>2. apiKeysFor(p.access) \subseteq {g.tensorlake_api_key}
    BY <1>1, <2>1, AccessOfPair DEF AccessOfPairs
  <2>3. QED
    BY <2>1, <2>2
<1>2. QED
  BY <1>1, Invariance, PTL

(* Tokens are made for requests of the client that the consent names, for  *)
(* its redirect URI and PKCE challenge: a pair that is rotated goes to the *)
(* same client because the UPDATE looks for the row of the one that asks.  *)
THEOREM TermsOfConsent == Spec => []BoundToConsent
<1>1. ASSUME Inv PROVE BoundToConsent
  <2> SUFFICES ASSUME NEW p \in pairs
               PROVE  \E g \in grants :
                         /\ g.code = p.grant
                         /\ g.client_id = p.client_id
                         /\ g.code_challenge = p.code_challenge
                         /\ g.redirect_uri = p.redirect_uri
                         /\ \/ g.client_id \in MetadataClient
                            \/ \E r \in clients :
                                 r.client_id = g.client_id /\ g.redirect_uri \in r.redirect_uris
    BY DEF BoundToConsent
  <2>1. PICK g \in grants :
            /\ g.code = p.grant
            /\ g.client_id = p.client_id
            /\ g.code_challenge = p.code_challenge
            /\ g.redirect_uri = p.redirect_uri
    BY <1>1 DEF Inv, PairsInv
  <2>2. HasRegistered(g.client_id, g.redirect_uri)
    BY <1>1 DEF Inv, GrantsInv
  <2>3. QED
    BY <2>1, <2>2 DEF HasRegistered
<1>2. QED
  BY <1>1, Invariance, PTL

(* What a step does to the tokens: the clock does not run back, consents    *)
(* and pairs are only added, one pair at a time and together with the      *)
(* session that holds it, and no pair gets a session back.                 *)
LEMMA TokensStep ==
    Inv /\ [Next]_vars =>
        /\ now \in Nat /\ now' \in Nat /\ now <= now'
        /\ grants \subseteq grants' /\ pairs \subseteq pairs'
        /\ \A s \in sessions', p \in pairs : Holds(s, p) => s \in sessions
<1> SUFFICES ASSUME Inv, [Next]_vars
             PROVE  /\ now \in Nat /\ now' \in Nat /\ now <= now'
                    /\ grants \subseteq grants' /\ pairs \subseteq pairs'
                    /\ \A s \in sessions', p \in pairs : Holds(s, p) => s \in sessions
  OBVIOUS
<1>1. now \in Nat
  BY DEF Inv, TypeInv, TypeOK
<1> DEFINE Goal == /\ now' \in Nat /\ now <= now'
                   /\ grants \subseteq grants' /\ pairs \subseteq pairs'
                   /\ \A s \in sessions', p \in pairs : Holds(s, p) => s \in sessions
<1>2. CASE Tick
  BY <1>1, <1>2 DEF Tick, tables, history
<1>3. ASSUME Quiet, UNCHANGED now PROVE Goal
  BY <1>1, <1>3 DEF Quiet
<1>4. ASSUME UNCHANGED vars \/ \E c \in Client, uris \in SUBSET RedirectURI : Register(c, uris)
      PROVE  Goal
  BY <1>3, <1>4, QuietOthers DEF Register, vars
<1>5. ASSUME NEW h \in Handler, Step(h)
      PROVE  Goal
  <2>1. UNCHANGED now
    BY <1>5 DEF Step, Authorize, Exchange, Refresh, TokenRequest, CheckKey, UpsertAccount,
                InsertCode, Redirect, ConsumeCode, InsertSession, Rotate, Respond, Fail
  <2>2. CASE InsertCode(h) \/ ConsumeCode(h)
    BY <1>1, <2>1, <2>2 DEF InsertCode, ConsumeCode, history
  <2>3. CASE InsertSession(h)
    <3>1. PICK n \in Draw :
              /\ Drawn(h, n)
              /\ sessions' = sessions \cup {NewSession(h, n)}
              /\ pairs' = pairs \cup {ExchangedPair(h, n)}
      BY <2>3, InsertSessionStores DEF Inv
    <3>2. \A p \in pairs : ~ Holds(NewSession(h, n), p)
      BY <3>1, SecretsDiffer DEF Inv, TypeInv, TypeOK, NewDraws, Drawn, Holds, NewSession
    <3>3. QED
      BY <1>1, <2>1, <2>3, <3>1, <3>2 DEF InsertSession
  <2>4. CASE Rotate(h)
    <3>1. CASE UNCHANGED <<sessions, pairs>>
      BY <1>1, <2>1, <2>4, <3>1 DEF Rotate
    <3>2. ASSUME NEW n \in Draw, Drawn(h, n), pairs \subseteq pairs',
                 sessions' \subseteq sessions \cup {RotatedSession(s, n) : s \in sessions}
          PROVE  Goal
      <4>1. \A s \in sessions, p \in pairs : ~ Holds(RotatedSession(s, n), p)
        <5>1. \A s \in sessions : RotatedSession(s, n).access_token_hash = tokenHash(AccessOf(n))
          BY DEF RotatedSession, Inv, TypeInv, TypeOK, Session
        <5>2. \A p \in pairs : p.access # AccessOf(n)
          BY <3>2 DEF Inv, TypeInv, TypeOK, NewDraws, Drawn
        <5>3. QED
          BY <5>1, <5>2, SecretsDiffer DEF Holds
      <4>2. QED
        BY <1>1, <2>1, <2>4, <3>2, <4>1 DEF Rotate
    <3>3. QED
      BY <2>4, <3>1, <3>2 DEF Rotate
  <2>5. CASE ~ (InsertCode(h) \/ ConsumeCode(h) \/ InsertSession(h) \/ Rotate(h))
    BY <1>3, <1>5, <2>1, <2>5, QuietStep DEF Step, Inv
  <2>6. QED
    BY <2>2, <2>3, <2>4, <2>5
<1>6. QED
  BY <1>1, <1>2, <1>4, <1>5 DEF Next

(* A pair without a session stays without one, and time only runs on.      *)
LEMMA DeadStep ==
    ASSUME Inv, Inv', [Next]_vars
    PROVE  \A p \in pairs :
              /\ apiKeysFor(p.access) = {} => apiKeysFor(p.access)' = {}
              /\ ~ Usable(p) => ~ Usable(p)'
<1> SUFFICES ASSUME NEW p \in pairs
             PROVE  /\ apiKeysFor(p.access) = {} => apiKeysFor(p.access)' = {}
                    /\ ~ Usable(p) => ~ Usable(p)'
  OBVIOUS
<1>1. p \in pairs'
  BY TokensStep
<1>2. PICK g \in grants : g.code = p.grant
  BY GrantOfPair
<1>3. g \in grants'
  BY TokensStep
<1>4. (Opens(p)' => Opens(p)) /\ (Rotates(p)' => Rotates(p))
  <2>1. sessions \subseteq Session /\ sessions' \subseteq Session
    BY DEF Inv, TypeInv, TypeOK
  <2>2. QED
    BY <2>1, TokensStep DEF Opens, Rotates, Session
<1>5. AccessOfPairs /\ UseOfPairs /\ AccessOfPairs' /\ UseOfPairs'
  BY AccessOfPair, UseOfPair, PTL
<1>6. QED
  BY <1>1, <1>2, <1>3, <1>4, <1>5 DEF AccessOfPairs, UseOfPairs

(* What rotation and expiry took from a pair never comes back.             *)
THEOREM DeadForGood == Spec => DeadStaysDead
  BY DeadStep, Invariance, PTL DEF Spec, DeadStaysDead

-----------------------------------------------------------------------------
(* The tables implement the life of a consent, step by step.  First the    *)
(* stages of consent c, of which at most one holds.                        *)
Given(c)     == \E g \in grants : g.code = c
Issued(c)    == \E p \in pairs : p.grant = c
IsOpen(c)    == \E r \in codes : r.code_hash = tokenHash(c) /\ now < r.expires_at
Redeeming(c) == \E h \in Handler : Redeems(h) /\ row[h].code_hash = tokenHash(c)

Stages ==
    \A c \in CodeSecret :
        /\ ~ Given(c) => Stage(c) = "none" /\ ~ Issued(c)
        /\ Issued(c) => Stage(c) = "issued" /\ ~ IsOpen(c)
        /\ IsOpen(c) => Stage(c) = "open" /\ Given(c)
        /\ Redeeming(c) => Stage(c) = "redeemed" /\ Given(c) /\ ~ Issued(c) /\ ~ IsOpen(c)
        /\ Given(c) /\ ~ Issued(c) /\ ~ IsOpen(c) /\ ~ Redeeming(c) => Stage(c) = "lapsed"

LEMMA StagesDiffer == Inv => Stages
<1> SUFFICES ASSUME Inv, NEW c \in CodeSecret
             PROVE  /\ ~ Given(c) => Stage(c) = "none" /\ ~ Issued(c)
                    /\ Issued(c) => Stage(c) = "issued" /\ ~ IsOpen(c)
                    /\ IsOpen(c) => Stage(c) = "open" /\ Given(c)
                    /\ Redeeming(c) => /\ Stage(c) = "redeemed" /\ Given(c)
                                       /\ ~ Issued(c) /\ ~ IsOpen(c)
                    /\ Given(c) /\ ~ Issued(c) /\ ~ IsOpen(c) /\ ~ Redeeming(c)
                         => Stage(c) = "lapsed"
  BY DEF Stages
<1>1. Issued(c) => Given(c) /\ ~ IsOpen(c)
  BY DEF Issued, Given, IsOpen, Inv, PairsInv, CodesInv
<1>2. IsOpen(c) => Given(c)
  BY SecretsDiffer DEF Given, IsOpen, Inv, CodesInv, StandsFor
<1>3. Redeeming(c) => Given(c) /\ ~ Issued(c) /\ ~ IsOpen(c)
  <2> SUFFICES ASSUME NEW h \in Handler, Redeems(h), row[h].code_hash = tokenHash(c)
               PROVE  Given(c) /\ ~ Issued(c) /\ ~ IsOpen(c)
    BY DEF Redeeming
  <2>1. PICK g \in grants : StandsFor(row[h], g)
    BY DEF Inv, CodesInv
  <2>2. tokenHash(g.code) = tokenHash(c) /\ tokenHash(form[h].code) = tokenHash(c)
    BY <2>1 DEF StandsFor, Inv, CodesInv
  <2>3. QED
    BY <2>2, SecretsDiffer DEF Given, Issued, IsOpen, Inv, CodesInv
<1>4. Stage(c) = CASE ~ Given(c) -> "none"
                   [] Issued(c) -> "issued"
                   [] IsOpen(c) -> "open"
                   [] Redeeming(c) -> "redeemed"
                   [] OTHER -> "lapsed"
  BY DEF Stage, Given, Issued, IsOpen, Redeeming, Redeems
<1>5. QED
  BY <1>1, <1>2, <1>3, <1>4

(* The account of a consent and what its tokens are good for.              *)
AccountOfGrants == \A g \in grants : GrantAccount(g.code) = g.tensorlake_api_key

LEMMA AccountOf == Inv => AccountOfGrants
<1> SUFFICES ASSUME Inv, NEW g \in grants PROVE GrantAccount(g.code) = g.tensorlake_api_key
  BY DEF AccountOfGrants
<1> DEFINE o == CHOOSE o \in grants : o.code = g.code
<1>1. o \in grants /\ o.code = g.code
  OBVIOUS
<1>2. o = g
  BY <1>1 DEF Inv, GrantsInv
<1>3. GrantAccount(g.code) = o.tensorlake_api_key
  BY DEF GrantAccount
<1>4. QED
  BY <1>2, <1>3

\* A pair that was bought just now, with a code that was redeemed or a refresh token.
Bought(p) ==
    /\ p \in Pair \ pairs
    /\ pairs' = pairs \cup {p}
    /\ \E s \in sessions' : Holds(s, p)
    /\ Redeeming(p.grant) \/ \E q \in pairs : q.grant = p.grant /\ Rotates(q)

(* What a step does to the stages of all consents.                         *)
StagesMove ==
    /\ grants' # grants => \E g \in Grant : grants' = grants \cup {g} /\ IsOpen(g.code)'
    /\ \A c \in CodeSecret :
        /\ Given(c) /\ IsOpen(c)' => IsOpen(c)
        /\ Redeeming(c)' => Redeeming(c) \/ IsOpen(c)
    /\ pairs' # pairs => \E p \in Pair : Bought(p)

LEMMA QuietMoves ==
    ASSUME Inv, Quiet, now <= now', now \in Nat, now' \in Nat
    PROVE  StagesMove
<1>1. \A c : IsOpen(c)' => IsOpen(c)
  BY DEF Quiet, IsOpen, Inv, TypeInv, TypeOK, Code
<1>2. \A c : Redeeming(c)' => Redeeming(c)
  BY DEF Quiet, Redeeming
<1>3. QED
  BY <1>1, <1>2 DEF StagesMove, Quiet

LEMMA InsertCodeMoves ==
    ASSUME Inv, NEW h \in Handler, InsertCode(h)
    PROVE  StagesMove
<1>1. PICK n \in Draw :
          /\ Drawn(h, n)
          /\ codes' = codes \cup {NewCode(h, n)}
          /\ grants' = grants \cup {NewGrant(h, n)}
          /\ NewGrant(h, n) \in Grant
  BY InsertCodeStores DEF Inv
<1>2. UNCHANGED <<now, pairs, row>> /\ \A i \in Handler : Redeems(i)' => Redeems(i)
  BY DEF InsertCode, Goto, Redeems, Inv, TypeInv, TypeOK
<1>3. /\ NewCode(h, n).code_hash = tokenHash(CodeOf(n))
      /\ NewCode(h, n).expires_at > now
      /\ NewGrant(h, n).code = CodeOf(n)
  BY OAuthAssumption DEF NewCode, NewGrant, Inv, TypeInv, TypeOK
<1>4. \E r \in codes' : r.code_hash = tokenHash(NewGrant(h, n).code) /\ now' < r.expires_at
  BY <1>1, <1>2, <1>3 DEF Inv, TypeInv, TypeOK, NewCode
<1>5. \A g \in grants : g.code # CodeOf(n)
  BY <1>1 DEF Inv, NewDraws, Drawn, TypeInv, TypeOK
<1>6. \A c \in CodeSecret : Given(c) /\ IsOpen(c)' => IsOpen(c)
  BY <1>1, <1>2, <1>3, <1>5, SecretsDiffer DEF Given, IsOpen
<1>7. \A c \in CodeSecret : Redeeming(c)' => Redeeming(c)
  BY <1>2 DEF Redeeming
<1>8. PICK g \in Grant : g = NewGrant(h, n)
  BY <1>1
<1>9. IsOpen(g.code)'
  BY <1>4, <1>8 DEF IsOpen
<1>10. QED
  BY <1>1, <1>2, <1>6, <1>7, <1>8, <1>9 DEF StagesMove

LEMMA ConsumeCodeMoves ==
    ASSUME Inv, NEW h \in Handler, ConsumeCode(h)
    PROVE  StagesMove
<1>1. UNCHANGED <<now, grants, pairs>> /\ codes' \subseteq codes
  BY DEF ConsumeCode, history
<1>2. \A c \in CodeSecret : IsOpen(c)' => IsOpen(c)
  BY <1>1 DEF IsOpen
<1>3. \A i \in Handler : Redeems(i)' =>
          \/ Redeems(i) /\ row'[i] = row[i]
          \/ row'[i] \in codes /\ now < row'[i].expires_at
  BY DEF ConsumeCode, Ended, Goto, Redeems, Redeemable, Inv, TypeInv, TypeOK
<1>4. \A c \in CodeSecret : Redeeming(c)' => Redeeming(c) \/ IsOpen(c)
  BY <1>3 DEF Redeeming, IsOpen
<1>5. QED
  BY <1>1, <1>2, <1>4 DEF StagesMove

LEMMA InsertSessionMoves ==
    ASSUME Inv, NEW h \in Handler, InsertSession(h)
    PROVE  StagesMove
<1>1. PICK n \in Draw :
          /\ Drawn(h, n)
          /\ sessions' = sessions \cup {NewSession(h, n)}
          /\ pairs' = pairs \cup {ExchangedPair(h, n)}
          /\ ExchangedPair(h, n) \in Pair
  BY InsertSessionStores DEF Inv
<1>2. /\ UNCHANGED <<now, grants, codes, row>> /\ Redeems(h)
      /\ \A i \in Handler : Redeems(i)' => Redeems(i)
  BY DEF InsertSession, Goto, Redeems, Inv, TypeInv, TypeOK
<1>3. Holds(NewSession(h, n), ExchangedPair(h, n))
  BY DEF Holds, NewSession, ExchangedPair
<1>4. ExchangedPair(h, n) \notin pairs /\ ExchangedPair(h, n).grant = form[h].code
  BY <1>2 DEF ExchangedPair, Inv, CodesInv
<1>5. Redeeming(ExchangedPair(h, n).grant)
  BY <1>2, <1>4 DEF Redeeming, Inv, CodesInv
<1>6. Bought(ExchangedPair(h, n))
  BY <1>1, <1>3, <1>4, <1>5 DEF Bought
<1>7. \A c \in CodeSecret : (IsOpen(c)' => IsOpen(c)) /\ (Redeeming(c)' => Redeeming(c))
  BY <1>2 DEF IsOpen, Redeeming
<1>8. QED
  BY <1>1, <1>2, <1>6, <1>7 DEF StagesMove

LEMMA RotateMoves ==
    ASSUME Inv, NEW h \in Handler, Rotate(h)
    PROVE  StagesMove
<1>1. /\ UNCHANGED <<now, grants, codes>>
      /\ \A i \in Handler : Redeems(i)' => Redeems(i) /\ row'[i] = row[i]
  BY DEF Rotate, Ended, Goto, Redeems, Inv, TypeInv, TypeOK
<1>2. \A c \in CodeSecret : (IsOpen(c)' => IsOpen(c)) /\ (Redeeming(c)' => Redeeming(c))
  BY <1>1 DEF IsOpen, Redeeming
<1> DEFINE hits == {s \in sessions : Rotatable(s, form[h])}
           old  == {q \in pairs : q.refresh = form[h].refresh_token}
<1>3. ASSUME NEW n \in Draw, Drawn(h, n), NEW s \in hits,
             sessions' = (sessions \ hits) \cup {RotatedSession(t, n) : t \in hits},
             pairs' = pairs \cup {RotatedPair(q, n, form[h]) : q \in old}
      PROVE  \E p \in Pair : Bought(p)
  <2>1. PICK q \in pairs : Holds(s, q)
    BY DEF Inv, SessionsInv
  <2>2. old = {q}
    BY <2>1, SecretsDiffer DEF Rotatable, Holds, Inv, PairsInv
  <2>3. /\ RotatedSession(s, n).access_token_hash = tokenHash(AccessOf(n))
        /\ RotatedSession(s, n).refresh_token_hash = tokenHash(RefreshOf(n))
        /\ RotatedPair(q, n, form[h]).access = AccessOf(n) /\ RotatedPair(q, n, form[h]).refresh = RefreshOf(n)
        /\ RotatedPair(q, n, form[h]).grant = q.grant
    BY DEF RotatedSession, RotatedPair, Inv, TypeInv, TypeOK, Session, Pair
  <2>4. Holds(RotatedSession(s, n), RotatedPair(q, n, form[h]))
    BY <2>3 DEF Holds
  <2>5. RotatedPair(q, n, form[h]) \in Pair \ pairs
    <3>1. form[h].client_id \in Client
      BY DEF Rotatable, Inv, TypeInv, TypeOK, Session
    <3>2. QED
      BY <1>3, <2>3, <3>1, RotatedType DEF Inv, NewDraws, Drawn, TypeInv, TypeOK
  <2>6. Rotates(q)
    BY <2>1 DEF Rotates, Rotatable
  <2>7. Bought(RotatedPair(q, n, form[h]))
    BY <1>3, <2>2, <2>3, <2>4, <2>5, <2>6 DEF Bought
  <2>8. QED
    BY <2>5, <2>7
<1>4. pairs' # pairs => \E p \in Pair : Bought(p)
  BY <1>3 DEF Rotate
<1>5. QED
  BY <1>1, <1>2, <1>4 DEF StagesMove

LEMMA StagesStep == Inv /\ [Next]_vars => StagesMove
<1> SUFFICES ASSUME Inv, [Next]_vars PROVE StagesMove
  OBVIOUS
<1>1. CASE Quiet
  BY <1>1, QuietMoves, TokensStep
<1>2. ASSUME NEW h \in Handler, Step(h)
      PROVE  StagesMove
  <2>1. CASE InsertCode(h) \/ ConsumeCode(h) \/ InsertSession(h) \/ Rotate(h)
    BY <2>1, InsertCodeMoves, ConsumeCodeMoves, InsertSessionMoves, RotateMoves
  <2>2. CASE ~ (InsertCode(h) \/ ConsumeCode(h) \/ InsertSession(h) \/ Rotate(h))
    BY <1>1, <1>2, <2>2, QuietStep DEF Step, Inv
  <2>3. QED
    BY <2>1, <2>2
<1>3. QED
  BY <1>1, <1>2, QuietOthers DEF Next

(* What Consents calls past, access and refresh.                           *)
Past(c)   == {p.access : p \in PairsOf(c)}
Access(c) == UNION {{p.access} \X apiKeysFor(p.access) : p \in PairsOf(c)}
Good(c)   == {p.access : p \in {q \in PairsOf(c) : Usable(q)}}

(* Whose consent it is never changes.                                      *)
LEMMA AccountStays ==
    ASSUME Inv, Inv', [Next]_vars, NEW c \in CodeSecret, Given(c)
    PROVE  /\ Given(c)' /\ GrantAccount(c)' = GrantAccount(c)
           /\ \E g \in grants : g.code = c /\ GrantAccount(c) = g.tensorlake_api_key
<1>1. PICK g \in grants : g.code = c
  BY DEF Given
<1>2. g \in grants'
  BY TokensStep
<1>3. AccountOfGrants /\ AccountOfGrants'
  BY AccountOf, PTL
<1>4. GrantAccount(c) = g.tensorlake_api_key /\ GrantAccount(c)' = g.tensorlake_api_key
  BY <1>1, <1>2, <1>3 DEF AccountOfGrants
<1>5. QED
  BY <1>1, <1>2, <1>4 DEF Given

(* The tokens of a consent that no pair was bought for lose, and gain not. *)
LEMMA TokensFade ==
    ASSUME Inv, Inv', [Next]_vars, NEW c \in CodeSecret, PairsOf(c)' = PairsOf(c)
    PROVE  /\ Past(c)' = Past(c)
           /\ Access(c)' \subseteq Access(c)
           /\ Good(c)' \subseteq Good(c)
<1>1. ASSUME NEW p \in PairsOf(c)
      PROVE  /\ apiKeysFor(p.access)' \subseteq apiKeysFor(p.access)
             /\ Usable(p)' => Usable(p)
  <2>1. p \in pairs /\ p \in pairs'
    BY <1>1, TokensStep DEF PairsOf
  <2>2. PICK g \in grants : g.code = p.grant
    BY <2>1, GrantOfPair
  <2>3. g \in grants'
    BY TokensStep
  <2>4. (Opens(p)' => Opens(p)) /\ (Rotates(p)' => Rotates(p))
    <3>1. sessions \subseteq Session /\ sessions' \subseteq Session
      BY DEF Inv, TypeInv, TypeOK
    <3>2. QED
      BY <2>1, <3>1, TokensStep DEF Opens, Rotates, Session
  <2>5. AccessOfPairs /\ UseOfPairs /\ AccessOfPairs' /\ UseOfPairs'
    BY AccessOfPair, UseOfPair, PTL
  <2>6. QED
    BY <2>1, <2>2, <2>3, <2>4, <2>5 DEF AccessOfPairs, UseOfPairs
<1>2. Past(c)' = Past(c)
  BY DEF Past
<1>3. Access(c)' \subseteq Access(c)
  BY <1>1 DEF Access
<1>4. Good(c)' \subseteq Good(c)
  BY <1>1 DEF Good
<1>5. QED
  BY <1>2, <1>3, <1>4

(* A pair that is bought is all that its consent is good for.              *)
LEMMA NewPairOnly ==
    ASSUME Inv, Inv', [Next]_vars, NEW p \in Pair, Bought(p)
    PROVE  /\ p.access \in AccessToken \ Past(p.grant)
           /\ Past(p.grant)' = Past(p.grant) \cup {p.access}
           /\ Access(p.grant)' \subseteq {<<p.access, GrantAccount(p.grant)>>}
           /\ Good(p.grant)' \subseteq {p.access}
<1> DEFINE c == p.grant
<1>1. p \in pairs' /\ p \notin pairs /\ pairs' = pairs \cup {p}
  BY DEF Bought
<1>2. p.access \in AccessToken
  BY DEF Pair
<1>3. \A q \in pairs : q.access # p.access
  BY <1>1 DEF Inv, PairsInv
<1>4. PairsOf(c)' = PairsOf(c) \cup {p}
  BY <1>1 DEF PairsOf
<1>5. Past(c)' = Past(c) \cup {p.access} /\ p.access \notin Past(c)
  BY <1>3, <1>4 DEF Past, PairsOf
<1>6. ASSUME NEW q \in PairsOf(c)', q # p
      PROVE  ~ Opens(q)' /\ ~ Rotates(q)'
  <2>1. PICK s \in sessions' : Holds(s, p)
    BY DEF Bought
  <2>2. ASSUME NEW t \in sessions', Holds(t, q) PROVE FALSE
    <3>1. s = t
      BY <1>1, <1>6, <2>1, <2>2 DEF Inv, SessionsInv, PairsOf
    <3>2. QED
      BY <1>1, <1>6, <2>1, <2>2, <3>1, SecretsDiffer DEF Inv, PairsInv, Holds, PairsOf
  <2>3. QED
    BY <2>2 DEF Opens, Rotates
<1>7. PICK g \in grants' : g.code = c
  BY <1>1 DEF Inv, PairsInv
<1>8. \A q \in PairsOf(c)' :
         /\ apiKeysFor(q.access)' \subseteq (IF q = p THEN {g.tensorlake_api_key} ELSE {})
         /\ Usable(q)' => q = p
  <2>1. AccessOfPairs' /\ UseOfPairs'
    BY AccessOfPair, UseOfPair, PTL
  <2>2. QED
    BY <1>6, <1>7, <2>1 DEF AccessOfPairs, UseOfPairs, PairsOf
<1>9. Given(c)
  <2>1. CASE Redeeming(c)
    BY <2>1, StagesDiffer DEF Stages, Pair
  <2>2. CASE \E q \in pairs : q.grant = c
    BY <2>2, GrantOfPair DEF Given
  <2>3. QED
    BY <2>1, <2>2 DEF Bought
<1>10. GrantAccount(c) = g.tensorlake_api_key
  <2>1. PICK o \in grants : o.code = c /\ GrantAccount(c) = o.tensorlake_api_key
    BY <1>9, AccountStays DEF Pair
  <2>2. o \in grants'
    BY TokensStep
  <2>3. QED
    BY <1>7, <2>1, <2>2 DEF Inv, GrantsInv
<1>11. Access(c)' \subseteq {<<p.access, GrantAccount(c)>>}
  BY <1>8, <1>10 DEF Access
<1>12. Good(c)' \subseteq {p.access}
  BY <1>8 DEF Good
<1>13. QED
  BY <1>2, <1>5, <1>11, <1>12

LEMMA LivesInit == Init => Lives!Init
<1> SUFFICES ASSUME Init, NEW c \in CodeSecret
             PROVE  /\ Stage(c) = "none" /\ GrantAccount(c) = None
                    /\ Past(c) = {} /\ Access(c) = {} /\ Good(c) = {}
  BY DEF Lives!Init, Past, Access, Good
<1>1. grants = {} /\ pairs = {}
  BY DEF Init
<1>2. Stage(c) = "none"
  BY <1>1, StagesDiffer, InvInit DEF Stages, Given
<1>3. GrantAccount(c) = None
  BY <1>1 DEF GrantAccount
<1>4. Past(c) = {} /\ Access(c) = {} /\ Good(c) = {}
  BY <1>1 DEF Past, Access, Good, PairsOf
<1>5. QED
  BY <1>2, <1>3, <1>4

(* One step of the life of consent c.                                      *)
LEMMA LivesStep == Inv /\ Inv' /\ [Next]_vars => Lives!Next
<1> SUFFICES ASSUME Inv, Inv', [Next]_vars, NEW c \in CodeSecret
             PROVE  \/ Lives!Expire(c) \/ Lives!Give(c) \/ Lives!Redeem(c)
                    \/ Lives!Issue(c) \/ Lives!Rotate(c) \/ Lives!Lapse(c)
  BY DEF Lives!Next
<1> USE DEF Lives!Expire, Lives!KeepsStage, Lives!KeepsTokens, Lives!Moves
<1>1. Stages /\ Stages' /\ StagesMove
  BY StagesDiffer, StagesStep, PTL
<1>2. PairsOf(c)' = PairsOf(c) \/ \E p \in Pair : Bought(p) /\ p.grant = c
  BY <1>1 DEF StagesMove, Bought, PairsOf
<1>3. Given(c) => Given(c)' /\ GrantAccount(c)' = GrantAccount(c)
  BY AccountStays
<1>4. Issued(c) => Issued(c)'
  BY TokensStep DEF Issued
<1>5. ~ Issued(c) => Past(c) = {} /\ Access(c) = {} /\ Good(c) = {}
  BY DEF Issued, PairsOf, Past, Access, Good
<1>6. ~ Issued(c)' => Past(c)' = {} /\ Access(c)' = {} /\ Good(c)' = {}
  BY DEF Issued, PairsOf, Past, Access, Good
<1>7. CASE ~ Given(c)
  <2>1. CASE ~ Given(c)'
    <3>1. /\ Stage(c) = "none" /\ Stage(c)' = "none" /\ ~ Issued(c) /\ ~ Issued(c)'
          /\ GrantAccount(c) = None /\ GrantAccount(c)' = None
      BY <1>1, <1>7, <2>1 DEF Stages, Given, GrantAccount
    <3>2. Lives!Expire(c)
      BY <1>5, <1>6, <3>1 DEF Past, Access, Good
    <3>3. QED
      BY <3>2
  <2>2. CASE Given(c)'
    <3>1. PICK g \in Grant : grants' = grants \cup {g} /\ IsOpen(g.code)'
      BY <1>1, <1>7, <2>2 DEF StagesMove, Given
    <3>2. g.code = c /\ g \in grants'
      BY <1>7, <2>2, <3>1 DEF Given
    <3>3. Stage(c) = "none" /\ Stage(c)' = "open" /\ ~ Issued(c) /\ ~ Issued(c)'
      BY <1>1, <1>7, <3>1, <3>2 DEF Stages
    <3>4. GrantAccount(c)' \in Key
      <4>1. AccountOfGrants'
        BY AccountOf, PTL
      <4>2. QED
        BY <3>1, <3>2, <4>1 DEF AccountOfGrants, Grant
    <3>5. Lives!Give(c)
      BY <1>5, <1>6, <3>3, <3>4 DEF Lives!Give, Past, Access, Good
    <3>6. QED
      BY <3>5
  <2>3. QED
    BY <2>1, <2>2
<1>8. ASSUME Given(c), NEW p \in Pair, Bought(p), p.grant = c
      PROVE  Lives!Issue(c) \/ Lives!Rotate(c)
  <2>1. Lives!NewPair(c)
    BY <1>3, <1>8, NewPairOnly DEF Lives!NewPair, Past, Access, Good
  <2>2. Issued(c)'
    BY <1>8 DEF Bought, Issued
  <2>3. Stage(c)' = "issued"
    BY <1>1, <2>2 DEF Stages
  <2>4. CASE Redeeming(c)
    BY <1>1, <2>1, <2>3, <2>4 DEF Stages, Lives!Issue
  <2>5. ASSUME NEW q \in pairs, q.grant = c, Rotates(q) PROVE Lives!Rotate(c)
    <3>1. Stage(c) = "issued"
      BY <1>1, <2>5 DEF Stages, Issued
    <3>2. Usable(q)
      BY <2>5, UseOfPair DEF UseOfPairs
    <3>3. Good(c) # {}
      BY <2>5, <3>2 DEF Good, PairsOf
    <3>4. QED
      BY <2>1, <2>3, <3>1, <3>3 DEF Lives!Rotate, Good
  <2>6. QED
    BY <1>8, <2>4, <2>5 DEF Bought
<1>9. CASE Given(c) /\ PairsOf(c)' = PairsOf(c)
  <2>1. Issued(c)' <=> Issued(c)
    BY <1>9 DEF Issued, PairsOf
  <2>2. CASE Issued(c)
    <3>1. Stage(c) = "issued" /\ Stage(c)' = "issued"
      BY <1>1, <2>1, <2>2 DEF Stages
    <3>2. Lives!Expire(c)
      BY <1>3, <1>9, <3>1, TokensFade DEF Past, Access, Good
    <3>3. QED
      BY <3>2
  <2>3. CASE ~ Issued(c)
    <3>1. \/ Stage(c) = "open" /\ Stage(c)' \in {"open", "redeemed", "lapsed"}
          \/ Stage(c) = "redeemed" /\ Stage(c)' \in {"redeemed", "lapsed"}
          \/ Stage(c) = "lapsed" /\ Stage(c)' = "lapsed"
      BY <1>1, <1>3, <1>9, <2>1, <2>3 DEF Stages, StagesMove
    <3>2. /\ Past(c)' = Past(c) /\ Access(c)' = Access(c) /\ Good(c)' = Good(c)
      BY <1>5, <1>6, <2>1, <2>3
    <3>3. \/ Lives!Expire(c) \/ Lives!Redeem(c) \/ Lives!Lapse(c)
      BY <1>3, <1>9, <3>1, <3>2 DEF Lives!Redeem, Lives!Lapse, Past, Access, Good
    <3>4. QED
      BY <3>3
  <2>4. QED
    BY <2>2, <2>3
<1>10. QED
  BY <1>2, <1>7, <1>8, <1>9

(* The consents live as Consents says: refinement.                         *)
THEOREM LivesOfConsents == Spec => ConsentsLive
  BY LivesInit, LivesStep, Invariance, PTL DEF Spec, ConsentsLive, Lives!Spec
=============================================================================
