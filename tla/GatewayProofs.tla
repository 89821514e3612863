---------------------------- MODULE GatewayProofs ----------------------------
(***************************************************************************)
(* Proofs about Gateway for every number of requests, instances, handlers, *)
(* keys and server objects.  What OAuthServerProofs proves of the tables   *)
(* carries over: the requests at the endpoint do not change the tables,    *)
(* and the steps of the OAuth server do not touch the requests.            *)
(***************************************************************************)
EXTENDS Gateway, OAuthServerProofs

GatewayType ==
    /\ tenantServers \in [Instance -> SUBSET Server]
    /\ created \in 0 .. MaxServers
    /\ stage \in [Request -> {"none", "lookup", "dispatch", "serve"}]
    /\ at \in [Request -> Instance \cup {None}]
    /\ credential \in [Request -> Credential \cup {None}]
    /\ apiKey \in [Request -> Key \cup {None}]
    /\ server \in [Request -> Server \cup {NoServer}]
    /\ deadOnArrival \in [Request -> BOOLEAN]

\* A pair of tokens with access token t is stored or was.
Issues(t) == \E p \in pairs : p.access = t

(* An access token leaves the service only after its session is stored.    *)
KnownInv ==
    /\ \A t \in AccessToken \cap known : Issues(t)
    /\ \A h \in Handler : pc[h] = "respond" => Issues(AccessOf(fresh[h]))

\* An instance has one object for a key.
ServersInv ==
    \A i \in Instance : \A s, t \in tenantServers[i] : s.apiKey = t.apiKey => s = t

\* Key k is the one of the user who consented to token t.
Consented(t, k) ==
    \E p \in pairs, g \in grants :
        p.access = t /\ g.code = p.grant /\ k = g.tensorlake_api_key

(* What a request holds at each of its stages.                             *)
Waiting(m) == stage[m] = "none" => ~ deadOnArrival[m]

LookingUp(m) ==
    stage[m] = "lookup" =>
        /\ at[m] \in Instance
        /\ credential[m] \in AccessToken \cap known
        /\ deadOnArrival[m] => apiKeysFor(credential[m]) = {}

Resolved(m) ==
    stage[m] \in {"dispatch", "serve"} =>
        /\ at[m] \in Instance
        /\ apiKey[m] \in Key
        /\ ~ deadOnArrival[m]
        /\ credential[m] = apiKey[m] \/ Consented(credential[m], apiKey[m])

Serving(m) ==
    stage[m] = "serve" =>
        /\ server[m] \in tenantServers[at[m]]
        /\ server[m].apiKey = apiKey[m]

RequestInv(m) == Waiting(m) /\ LookingUp(m) /\ Resolved(m) /\ Serving(m)

GatewayInv ==
    /\ Inv
    /\ GatewayType
    /\ KnownInv
    /\ ServersInv
    /\ \A m \in Request : RequestInv(m)

-----------------------------------------------------------------------------
LEMMA GatewayInvInit == GatewayInit => GatewayInv
<1> SUFFICES ASSUME GatewayInit PROVE GatewayInv
  OBVIOUS
<1>1. Inv
  BY InvInit DEF GatewayInit
<1>2. GatewayType
  BY GatewayAssumption DEF GatewayInit, GatewayType
<1>3. KnownInv
  BY DEF GatewayInit, Init, KnownInv
<1>4. ServersInv
  BY DEF GatewayInit, ServersInv
<1>5. ASSUME NEW m \in Request PROVE RequestInv(m)
  BY DEF GatewayInit, RequestInv, Waiting, LookingUp, Resolved, Serving
<1>6. QED
  BY <1>1, <1>2, <1>3, <1>4, <1>5 DEF GatewayInv

(* The steps of the OAuth server.                                          *)
LEMMA KnownStep ==
    ASSUME Inv, KnownInv, [Next]_vars
    PROVE  KnownInv'
<1>1. pairs \subseteq pairs'
  BY TokensStep
<1>2. /\ \A t : Issues(t) => Issues(t)'
      /\ pc \in [Handler -> AuthorizeStep \cup ExchangeStep \cup RefreshStep
                                               \cup {"idle", "respond"}]
      /\ fresh \in [Handler -> {0} \cup Draw]
  BY <1>1 DEF Issues, Inv, TypeInv, TypeOK
<1>3. ASSUME UNCHANGED known,
             \A h \in Handler : pc'[h] = "respond" => pc[h] = "respond" /\ fresh'[h] = fresh[h]
      PROVE  KnownInv'
  BY <1>2, <1>3 DEF KnownInv
<1>4. ASSUME NEW h \in Handler, NEW n \in Draw, Drawn(h, n), Goto(h, "respond"),
             UNCHANGED known, \E p \in pairs' : p.access = AccessOf(n)
      PROVE  KnownInv'
  <2>1. \A i \in Handler \ {h} : pc'[i] = pc[i] /\ fresh'[i] = fresh[i]
    BY <1>2, <1>4 DEF Goto, Drawn
  <2>2. fresh'[h] = n
    BY <1>2, <1>4 DEF Drawn
  <2>3. \A i \in Handler : pc'[i] = "respond" => \E p \in pairs' : p.access = AccessOf(fresh'[i])
    BY <1>2, <1>4, <2>1, <2>2 DEF KnownInv, Issues
  <2>4. QED
    BY <1>2, <1>4, <2>3 DEF KnownInv, Issues
<1>5. ASSUME NEW h \in Handler, Ended(h),
             \A t \in AccessToken : t \in known' => t \in known \/ Issues(t)
      PROVE  KnownInv'
  <2>1. \A i \in Handler : pc'[i] = "respond" => pc[i] = "respond" /\ fresh'[i] = fresh[i]
    BY <1>2, <1>5 DEF Ended, Goto
  <2>2. QED
    BY <1>2, <1>5, <2>1 DEF KnownInv
<1>6. CASE Tick \/ UNCHANGED vars \/ \E c \in Client, uris \in SUBSET RedirectURI : Register(c, uris)
  BY <1>3, <1>6 DEF Tick, vars, Register, handler, history
<1>7. ASSUME NEW h \in Handler,
             \/ \E f \in AuthorizeForm : Authorize(h, f)
             \/ \E f \in ExchangeForm : Exchange(h, f)
             \/ \E f \in RefreshForm : Refresh(h, f)
             \/ CheckKey(h) \/ UpsertAccount(h) \/ InsertCode(h)
      PROVE  KnownInv'
  BY <1>2, <1>3, <1>7 DEF Authorize, Exchange, Refresh, TokenRequest, CheckKey,
     UpsertAccount, InsertCode, Drawn, Goto, history
<1>8. ASSUME NEW h \in Handler, Redirect(h)
      PROVE  KnownInv'
  <2>1. CodeOf(fresh[h]) \notin AccessToken
    BY DEF AccessToken, AccessOf, CodeOf, randomOpaque
  <2>2. QED
    BY <1>5, <1>8, <2>1 DEF Redirect
<1>9. ASSUME NEW h \in Handler, Respond(h)
      PROVE  KnownInv'
  <2>1. RefreshOf(fresh[h]) \notin AccessToken
    BY DEF AccessToken, AccessOf, RefreshOf, randomOpaque
  <2>2. Issues(AccessOf(fresh[h]))
    BY <1>9 DEF Respond, KnownInv
  <2>3. QED
    BY <1>5, <1>9, <2>1, <2>2 DEF Respond
<1>10. ASSUME NEW h \in Handler, Fail(h)
       PROVE  KnownInv'
  BY <1>5, <1>10 DEF Fail, history
<1>11. ASSUME NEW h \in Handler, ConsumeCode(h)
       PROVE  KnownInv'
  <2>1. CASE Ended(h)
    BY <1>5, <1>11, <2>1 DEF ConsumeCode, history
  <2>2. CASE Goto(h, "insert_session") /\ UNCHANGED fresh
    BY <1>2, <1>3, <1>11, <2>2 DEF ConsumeCode, Goto, history
  <2>3. QED
    BY <1>11, <2>1, <2>2 DEF ConsumeCode
<1>12. ASSUME NEW h \in Handler, InsertSession(h)
       PROVE  KnownInv'
  <2>1. PICK n \in Draw : Drawn(h, n) /\ pairs' = pairs \cup {ExchangedPair(h, n)}
    BY <1>12, InsertSessionStores DEF Inv
  <2>2. ExchangedPair(h, n).access = AccessOf(n)
    BY DEF ExchangedPair
  <2>3. QED
    BY <1>4, <1>12, <2>1, <2>2 DEF InsertSession
<1>13. ASSUME NEW h \in Handler, Rotate(h)
       PROVE  KnownInv'
  <2> DEFINE hits == {s \in sessions : Rotatable(s, form[h])}
             old  == {q \in pairs : q.refresh = form[h].refresh_token}
  <2>1. CASE Ended(h)
    BY <1>5, <1>13, <2>1 DEF Rotate
  <2>2. ASSUME NEW n \in Draw, Drawn(h, n), NEW s \in hits, Goto(h, "respond"),
               pairs' = pairs \cup {RotatedPair(q, n, form[h]) : q \in old}
        PROVE  KnownInv'
    <3>1. PICK q \in pairs : Holds(s, q)
      BY DEF Inv, SessionsInv
    <3>2. q \in old
      BY <3>1, SecretsDiffer DEF Rotatable, Holds
    <3>3. RotatedPair(q, n, form[h]).access = AccessOf(n)
      BY DEF RotatedPair, Inv, TypeInv, TypeOK, Pair
    <3>4. QED
      BY <1>4, <1>13, <2>2, <3>2, <3>3 DEF Rotate
  <2>3. QED
    BY <1>13, <2>1, <2>2 DEF Rotate
<1>14. QED
  BY <1>6, <1>7, <1>8, <1>9, <1>10, <1>11, <1>12, <1>13 DEF Next, Step

\* No step forgets a secret that was answered.
LEMMA KnownStays == [Next]_vars => known \subseteq known'
<1> SUFFICES ASSUME [Next]_vars PROVE known \subseteq known'
  OBVIOUS
<1>1. CASE Tick \/ UNCHANGED vars \/ \E c \in Client, uris \in SUBSET RedirectURI : Register(c, uris)
  BY <1>1 DEF Tick, vars, Register, history
<1>2. ASSUME NEW h \in Handler, Step(h)
      PROVE  known \subseteq known'
  BY <1>2 DEF Step, Authorize, Exchange, Refresh, TokenRequest, CheckKey, UpsertAccount,
     InsertCode, Redirect, ConsumeCode, InsertSession, Rotate, Respond, Fail, history
<1>3. QED
  BY <1>1, <1>2 DEF Next

LEMMA OAuthKeeps ==
    ASSUME GatewayInv, [Next]_vars, UNCHANGED gatewayVars
    PROVE  GatewayInv'
<1>1. Inv' /\ KnownInv'
  BY InvStep, KnownStep DEF GatewayInv
<1>2. GatewayType' /\ ServersInv'
  BY DEF GatewayInv, GatewayType, ServersInv, gatewayVars, requests
<1>3. ASSUME NEW m \in Request
      PROVE  RequestInv(m)'
  <2>1. UNCHANGED <<stage[m], at[m], credential[m], apiKey[m], server[m], deadOnArrival[m],
                    tenantServers>>
    BY DEF gatewayVars, requests
  <2>2. RequestInv(m)
    BY DEF GatewayInv
  <2>3. ASSUME Consented(credential[m], apiKey[m])
        PROVE  Consented(credential[m], apiKey[m])'
    BY <2>1, <2>3, TokensStep DEF Consented, GatewayInv
  <2>4. ASSUME credential[m] \in AccessToken \cap known, apiKeysFor(credential[m]) = {}
        PROVE  apiKeysFor(credential[m])' = {}
    <3>1. PICK p \in pairs : p.access = credential[m]
      BY <2>4 DEF GatewayInv, KnownInv, Issues
    <3>2. apiKeysFor(p.access) = {}
      BY <2>4, <3>1
    <3>3. apiKeysFor(p.access)' = {}
      BY <1>1, <3>2, DeadStep DEF GatewayInv
    <3>4. QED
      BY <2>1, <3>1, <3>3 DEF apiKeysFor
  <2>5. QED
    BY <2>1, <2>2, <2>3, <2>4, KnownStays DEF RequestInv, Waiting, LookingUp, Resolved, Serving
<1>4. QED
  BY <1>1, <1>2, <1>3 DEF GatewayInv

-----------------------------------------------------------------------------
(* The steps of the endpoint.  The tables do not change.                   *)
LEMMA TablesStay ==
    ASSUME GatewayInv, UNCHANGED vars
    PROVE  /\ Inv' /\ KnownInv'
           /\ UNCHANGED <<known, pairs, grants>>
           /\ \A c : apiKeysFor(c)' = apiKeysFor(c)
<1>1. Inv'
  BY InvStep DEF GatewayInv
<1>2. KnownInv'
  BY KnownStep DEF GatewayInv
<1>3. QED
  BY <1>1, <1>2 DEF vars, apiKeysFor

\* Nothing about request m changes.
Untouched(m) == UNCHANGED <<stage[m], at[m], credential[m], apiKey[m], server[m], deadOnArrival[m]>>

(* A request that is not touched keeps what it holds while the instance it *)
(* is at loses no server object.                                           *)
LEMMA UntouchedKeeps ==
    ASSUME GatewayInv, UNCHANGED vars, NEW m \in Request, Untouched(m),
           stage[m] = "serve" => tenantServers[at[m]] \subseteq tenantServers'[at[m]]
    PROVE  RequestInv(m)'
<1>1. RequestInv(m)
  BY DEF GatewayInv
<1>2. /\ UNCHANGED <<known, pairs, grants>>
      /\ apiKeysFor(credential[m])' = apiKeysFor(credential[m])
  <2>1. UNCHANGED <<known, pairs, grants, accounts, sessions, now>>
    BY DEF vars
  <2>2. QED
    BY <2>1 DEF apiKeysFor, Untouched
<1>3. Waiting(m)' /\ LookingUp(m)'
  BY <1>1, <1>2 DEF RequestInv, Waiting, LookingUp, Untouched
<1>4. Resolved(m)'
  BY <1>1, <1>2 DEF RequestInv, Resolved, Consented, Untouched
<1>5. Serving(m)'
  BY <1>1 DEF RequestInv, Serving, Untouched
<1>6. QED
  BY <1>3, <1>4, <1>5 DEF RequestInv

LEMMA ReceiveKeeps ==
    ASSUME GatewayInv, NEW m \in Request, NEW i \in Instance, NEW c \in Credential,
           Receive(m, i, c)
    PROVE  GatewayInv'
<1>1. UNCHANGED vars /\ UNCHANGED <<tenantServers, created, server>>
  BY DEF Receive
<1>2. Inv' /\ KnownInv'
  BY <1>1, TablesStay
<1>3. GatewayType' /\ ServersInv'
  BY <1>1 DEF Receive, GatewayInv, GatewayType, ServersInv
<1>4. ASSUME NEW n \in Request, n # m
      PROVE  RequestInv(n)'
  <2>1. Untouched(n)
    BY <1>4 DEF Receive, Untouched, GatewayInv, GatewayType
  <2>2. QED
    BY <1>1, <2>1, UntouchedKeeps
<1>5. RequestInv(m)'
  <2>1. stage[m] = "none" /\ at'[m] = i /\ credential'[m] = c
    BY DEF Receive, GatewayInv, GatewayType
  <2>2. ~ deadOnArrival[m]
    BY <2>1 DEF GatewayInv, RequestInv, Waiting
  <2>3. CASE /\ c \in Key
             /\ stage' = [stage EXCEPT ![m] = "dispatch"]
             /\ apiKey' = [apiKey EXCEPT ![m] = c]
             /\ UNCHANGED deadOnArrival
    <3>1. stage'[m] = "dispatch" /\ apiKey'[m] = c /\ ~ deadOnArrival'[m]
      BY <2>2, <2>3 DEF GatewayInv, GatewayType
    <3>2. QED
      BY <2>1, <2>3, <3>1 DEF RequestInv, Waiting, LookingUp, Resolved, Serving
  <2>4. CASE /\ c \in AccessToken \cap known
             /\ stage' = [stage EXCEPT ![m] = "lookup"]
             /\ deadOnArrival' = [deadOnArrival EXCEPT ![m] = apiKeysFor(c) = {}]
    <3>1. stage'[m] = "lookup" /\ (deadOnArrival'[m] => apiKeysFor(c) = {})
      BY <2>4 DEF GatewayInv, GatewayType
    <3>2. UNCHANGED <<known, accounts, sessions, now>>
      BY <1>1 DEF vars
    <3>3. deadOnArrival'[m] => apiKeysFor(credential[m])' = {}
      BY <2>1, <3>1, <3>2 DEF apiKeysFor
    <3>4. QED
      BY <2>1, <2>4, <3>1, <3>2, <3>3 DEF RequestInv, Waiting, LookingUp, Resolved, Serving
  <2>5. QED
    BY <2>3, <2>4 DEF Receive
<1>6. QED
  BY <1>2, <1>3, <1>4, <1>5 DEF GatewayInv

LEMMA LookUpKeeps ==
    ASSUME GatewayInv, NEW m \in Request, LookUp(m)
    PROVE  GatewayInv'
<1>1. UNCHANGED vars /\ UNCHANGED <<tenantServers, created, at, credential, server, deadOnArrival>>
  BY DEF LookUp
<1>2. Inv' /\ KnownInv'
  BY <1>1, TablesStay
<1>3. PICK k \in apiKeysFor(credential[m]) : apiKey' = [apiKey EXCEPT ![m] = k]
  BY DEF LookUp
<1>4. /\ at[m] \in Instance
      /\ credential[m] \in AccessToken \cap known
      /\ ~ deadOnArrival[m]
  BY <1>3 DEF LookUp, GatewayInv, RequestInv, LookingUp, GatewayType
<1>5. PICK p \in pairs, g \in grants : p.access = credential[m] /\ g.code = p.grant
  BY <1>4, GrantOfPair DEF GatewayInv, KnownInv, Issues
<1>6. apiKeysFor(p.access) \subseteq {g.tensorlake_api_key}
  BY <1>5, AccessOfPair DEF AccessOfPairs, GatewayInv
<1>7. k = g.tensorlake_api_key /\ k \in Key
  BY <1>3, <1>5, <1>6 DEF GatewayInv, Inv, TypeInv, TypeOK, Grant
<1>8. GatewayType' /\ ServersInv'
  BY <1>1, <1>3, <1>7 DEF LookUp, GatewayInv, GatewayType, ServersInv
<1>9. ASSUME NEW n \in Request, n # m
      PROVE  RequestInv(n)'
  <2>1. Untouched(n)
    BY <1>1, <1>3, <1>9 DEF LookUp, Untouched, GatewayInv, GatewayType
  <2>2. QED
    BY <1>1, <2>1, UntouchedKeeps
<1>10. RequestInv(m)'
  <2>1. stage'[m] = "dispatch" /\ apiKey'[m] = k
    BY <1>3 DEF LookUp, GatewayInv, GatewayType
  <2>2. UNCHANGED <<pairs, grants>>
    BY <1>1 DEF vars
  <2>3. Consented(credential[m], apiKey[m])'
    BY <1>1, <1>5, <1>7, <2>1, <2>2 DEF Consented
  <2>4. QED
    BY <1>1, <1>4, <1>7, <2>1, <2>3 DEF RequestInv, Waiting, LookingUp, Resolved, Serving
<1>11. QED
  BY <1>2, <1>8, <1>9, <1>10 DEF GatewayInv

LEMMA DispatchKeeps ==
    ASSUME GatewayInv, NEW m \in Request, Dispatch(m)
    PROVE  GatewayInv'
<1> DEFINE mine == {s \in tenantServers[at[m]] : s.apiKey = apiKey[m]}
<1>1. UNCHANGED vars /\ UNCHANGED <<at, credential, apiKey, deadOnArrival>>
  BY DEF Dispatch
<1>2. Inv' /\ KnownInv'
  BY <1>1, TablesStay
<1>3. Resolved(m) /\ stage[m] = "dispatch" /\ at[m] \in Instance
  BY DEF Dispatch, GatewayInv, RequestInv, Resolved
<1>4. PICK s \in Server :
          /\ server' = [server EXCEPT ![m] = s]
          /\ \/ s \in mine /\ UNCHANGED <<tenantServers, created>>
             \/ mine = {} /\ s.apiKey = apiKey[m] /\ NewServer(at[m], s)
  BY DEF Dispatch
<1>5. /\ \A i \in Instance \ {at[m]} : tenantServers'[i] = tenantServers[i]
      /\ tenantServers' \in [Instance -> SUBSET Server] /\ created' \in 0 .. MaxServers
      /\ \/ s \in mine /\ tenantServers'[at[m]] = tenantServers[at[m]]
         \/ /\ mine = {} /\ s.apiKey = apiKey[m]
            /\ tenantServers'[at[m]] = tenantServers[at[m]] \cup {s}
  <2>1. CASE s \in mine /\ UNCHANGED <<tenantServers, created>>
    BY <1>3, <2>1 DEF GatewayInv, GatewayType
  <2>2. CASE mine = {} /\ s.apiKey = apiKey[m] /\ NewServer(at[m], s)
    <3>1. tenantServers' = [tenantServers EXCEPT
              ![at[m]] = {t \in tenantServers[at[m]] : t.apiKey # s.apiKey} \cup {s}]
      BY <2>2 DEF NewServer
    <3>2. tenantServers \in [Instance -> SUBSET Server]
      BY DEF GatewayInv, GatewayType
    <3>3. {t \in tenantServers[at[m]] : t.apiKey # s.apiKey} = tenantServers[at[m]]
      BY <2>2
    <3>4. created' \in 0 .. MaxServers
      BY <2>2, GatewayAssumption DEF NewServer, GatewayInv, GatewayType
    <3>5. QED
      BY <1>3, <2>2, <3>1, <3>2, <3>3, <3>4
  <2>3. QED
    BY <1>4, <2>1, <2>2
<1>6. GatewayType'
  BY <1>1, <1>4, <1>5 DEF Dispatch, GatewayInv, GatewayType
<1>7. ServersInv'
  BY <1>3, <1>5 DEF GatewayInv, ServersInv
<1>8. ASSUME NEW n \in Request, n # m
      PROVE  RequestInv(n)'
  <2>1. Untouched(n)
    BY <1>1, <1>4, <1>8 DEF Dispatch, Untouched, GatewayInv, GatewayType
  <2>2. stage[n] = "serve" => at[n] \in Instance
    BY DEF GatewayInv, RequestInv, Resolved
  <2>3. stage[n] = "serve" => tenantServers[at[n]] \subseteq tenantServers'[at[n]]
    BY <1>5, <2>2
  <2>4. QED
    BY <1>1, <2>1, <2>3, UntouchedKeeps
<1>9. RequestInv(m)'
  <2>1. stage'[m] = "serve" /\ server'[m] = s
    BY <1>4 DEF Dispatch, GatewayInv, GatewayType
  <2>2. Resolved(m)'
    <3>1. UNCHANGED <<pairs, grants>>
      BY <1>1 DEF vars
    <3>2. QED
      BY <1>1, <1>3, <3>1 DEF Resolved, Consented
  <2>3. Serving(m)'
    BY <1>1, <1>5, <2>1 DEF Serving
  <2>4. QED
    BY <2>1, <2>2, <2>3 DEF RequestInv, Waiting, LookingUp
<1>10. QED
  BY <1>2, <1>6, <1>7, <1>8, <1>9 DEF GatewayInv

(* Requests that are over, the rest untouched.                             *)
LEMMA OverKeeps ==
    ASSUME GatewayInv, NEW S \in SUBSET Request, Over(S), UNCHANGED <<vars, created>>,
           tenantServers' \in [Instance -> SUBSET Server],
           \A i \in Instance : tenantServers'[i] = {} \/ tenantServers'[i] = tenantServers[i],
           \A m \in Request \ S : at[m] \in Instance => tenantServers'[at[m]] = tenantServers[at[m]]
    PROVE  GatewayInv'
<1>1. Inv' /\ KnownInv'
  BY TablesStay
<1>2. GatewayType'
  BY DEF Over, GatewayInv, GatewayType
<1>3. ServersInv'
  BY DEF GatewayInv, ServersInv
<1>4. ASSUME NEW m \in S PROVE RequestInv(m)'
  <2>1. stage'[m] = "none" /\ deadOnArrival'[m] = FALSE
    BY DEF Over
  <2>2. QED
    BY <2>1 DEF RequestInv, Waiting, LookingUp, Resolved, Serving
<1>5. ASSUME NEW m \in Request \ S PROVE RequestInv(m)'
  <2>1. Untouched(m)
    BY DEF Over, Untouched
  <2>2. stage[m] = "serve" => at[m] \in Instance
    BY DEF GatewayInv, RequestInv, Resolved
  <2>3. QED
    BY <2>1, <2>2, UntouchedKeeps
<1>6. QED
  BY <1>1, <1>2, <1>3, <1>4, <1>5 DEF GatewayInv

LEMMA GatewayInvStep == GatewayInv /\ [GatewayNext]_allVars => GatewayInv'
<1> SUFFICES ASSUME GatewayInv, [GatewayNext]_allVars PROVE GatewayInv'
  OBVIOUS
<1>1. CASE [Next]_vars /\ UNCHANGED gatewayVars
  BY <1>1, OAuthKeeps
<1>2. ASSUME NEW m \in Request, Challenge(m) \/ End(m)
      PROVE  GatewayInv'
  <2>1. Over({m}) /\ UNCHANGED <<vars, tenantServers, created>>
    BY <1>2 DEF Challenge, End
  <2>2. QED
    BY <2>1, OverKeeps DEF GatewayInv, GatewayType
<1>3. ASSUME NEW i \in Instance, Replace(i)
      PROVE  GatewayInv'
  <2>1. /\ Over({m \in Request : at[m] = i}) /\ UNCHANGED <<vars, created>>
        /\ tenantServers' = [tenantServers EXCEPT ![i] = {}]
    BY <1>3 DEF Replace
  <2>2. QED
    BY <2>1, OverKeeps DEF GatewayInv, GatewayType
<1>4. QED
  BY <1>1, <1>2, <1>3, ReceiveKeeps, LookUpKeeps, DispatchKeeps
  DEF GatewayNext, GatewayStep, allVars

LEMMA GatewayInvariance == GatewaySpec => []GatewayInv
  BY GatewayInvInit, GatewayInvStep, PTL DEF GatewaySpec

-----------------------------------------------------------------------------
(* The tables, the server objects and the requests are well typed, and a   *)
(* request that is served has a key and an object.                         *)
THEOREM GatewayTypeCorrect == GatewaySpec => []GatewayTypeOK
<1>1. GatewayInv => GatewayTypeOK
  BY GatewayAssumption DEF GatewayInv, GatewayTypeOK, GatewayType, Inv, TypeInv, RequestInv,
     Resolved, Serving
<1>2. QED
  BY <1>1, GatewayInvariance, PTL

(* serverForAPIKey: all requests of one account on one instance share the  *)
(* object that tenantServers has for its key.                              *)
THEOREM OneObjectForAKey == GatewaySpec => []OneServerPerKey
<1>1. GatewayInv => OneServerPerKey
  BY DEF GatewayInv, OneServerPerKey, Served, ServersInv, RequestInv, Resolved, Serving
<1>2. QED
  BY <1>1, GatewayInvariance, PTL

(* A request is served under the key it presented or under the key of the  *)
(* user who consented to its token.                                        *)
THEOREM AccountsKeptApart == GatewaySpec => []ServesConsentingAccount
<1>1. GatewayInv => ServesConsentingAccount
  BY DEF GatewayInv, ServesConsentingAccount, Served, RequestInv, Resolved, Serving, Consented
<1>2. QED
  BY <1>1, GatewayInvariance, PTL

(* resolveTensorlakeAPIKey: no request is served with a token that was     *)
(* rotated or had expired when the request came.                           *)
THEOREM NothingForDeadTokens == GatewaySpec => []DeadTokenIsRefused
<1>1. GatewayInv => DeadTokenIsRefused
  BY DEF GatewayInv, DeadTokenIsRefused, Served, RequestInv, Resolved
<1>2. QED
  BY <1>1, GatewayInvariance, PTL
=============================================================================
