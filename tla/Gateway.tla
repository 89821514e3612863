------------------------------- MODULE Gateway -------------------------------
(***************************************************************************)
(* The MCP endpoint over the tables of the OAuth server: how a request's   *)
(* credential becomes a Tensorlake API key, and the key one of the server  *)
(* objects that an instance keeps, one for each key, with the caches and   *)
(* the mutexes of PrimarySandbox and the table of BashBackground in it.    *)
(*                                                                         *)
(* A request is received, its access token is looked up with one SELECT,   *)
(* and it is dispatched; meanwhile tokens are bought and rotated and       *)
(* expire, and other requests are dispatched on the same instance.         *)
(*                                                                         *)
(* A request without a Bearer credential is challenged at once, it changes *)
(* nothing and is left out.  So is a token that was never issued.          *)
(***************************************************************************)
EXTENDS OAuthServer, FiniteSets

CONSTANTS
    Request,        \* MCP requests that are served at a time
    Instance,       \* processes of the service
    NoServer,       \* the server of a request that has none
    MaxServers      \* bound: how many server objects are created

VARIABLES
    tenantServers,  \* the server objects of an instance
    created,        \* how many server objects were created
    stage,          \* the next step of a request
    at,             \* the instance that serves a request
    credential,     \* its Bearer credential
    apiKey,         \* what resolveTensorlakeAPIKey answered
    server,         \* what serverForAPIKey answered
    deadOnArrival   \* history: its credential was a token worth nothing when it came

requests    == <<stage, at, credential, apiKey, server, deadOnArrival>>
gatewayVars == <<tenantServers, created, requests>>
allVars     == <<vars, gatewayVars>>

\* A raw key is a credential as well ("backward compatibility").
Credential == Key \cup AccessToken
Server     == [apiKey : Key, id : 1 .. MaxServers]

ASSUME GatewayAssumption == MaxServers \in Nat /\ NoServer \notin Server

-----------------------------------------------------------------------------
GatewayInit ==
    /\ Init
    /\ tenantServers = [i \in Instance |-> {}]
    /\ created = 0
    /\ stage = [m \in Request |-> "none"]
    /\ at = [m \in Request |-> None]
    /\ credential = [m \in Request |-> None]
    /\ apiKey = [m \in Request |-> None]
    /\ server = [m \in Request |-> NoServer]
    /\ deadOnArrival = [m \in Request |-> FALSE]

\* The requests of S are over, whatever they were answered.
Over(S) ==
    LET but(f, value) == [m \in Request |-> IF m \in S THEN value ELSE f[m]]
    IN  /\ stage' = but(stage, "none")
        /\ at' = but(at, None)
        /\ credential' = but(credential, None)
        /\ apiKey' = but(apiKey, None)
        /\ server' = but(server, NoServer)
        /\ deadOnArrival' = but(deadOnArrival, FALSE)

(* serveMCP, apiKeyFromRequest: request m comes to instance i.  A value     *)
(* without the prefix of access tokens is the key itself.                  *)
Receive(m, i, c) ==
    /\ stage[m] = "none"
    /\ at' = [at EXCEPT ![m] = i]
    /\ credential' = [credential EXCEPT ![m] = c]
    /\ \/ /\ c \in Key
          /\ stage' = [stage EXCEPT ![m] = "dispatch"]
          /\ apiKey' = [apiKey EXCEPT ![m] = c]
          /\ UNCHANGED deadOnArrival
       \/ /\ c \in AccessToken \cap known
          /\ stage' = [stage EXCEPT ![m] = "lookup"]
          /\ deadOnArrival' = [deadOnArrival EXCEPT ![m] = apiKeysFor(c) = {}]
          /\ UNCHANGED apiKey
    /\ UNCHANGED <<vars, tenantServers, created, server>>

\* Mutant: the expiry of the access token is not looked at.
LookUpExpired(m) ==
    LET sessionsOf == {s \in sessions : s.access_token_hash = tokenHash(credential[m])}
    IN  /\ stage[m] = "lookup"
        /\ \E a \in accounts : /\ \E s \in sessionsOf : a.tenant_id = s.tenant_id
                               /\ apiKey' = [apiKey EXCEPT ![m] = a.tensorlake_api_key]
        /\ stage' = [stage EXCEPT ![m] = "dispatch"]
        /\ UNCHANGED <<vars, tenantServers, created, at, credential, server, deadOnArrival>>

\* Mutant: a token without a session is not told from one with.
LookUpUnchecked(m) ==
    /\ stage[m] = "lookup"
    /\ IF apiKeysFor(credential[m]) = {} THEN apiKey' = apiKey
       ELSE \E k \in apiKeysFor(credential[m]) : apiKey' = [apiKey EXCEPT ![m] = k]
    /\ stage' = [stage EXCEPT ![m] = "dispatch"]
    /\ UNCHANGED <<vars, tenantServers, created, at, credential, server, deadOnArrival>>

(* resolveTensorlakeAPIKey for an access token.                            *)
LookUp(m) ==
    /\ stage[m] = "lookup"
    /\ \E k \in apiKeysFor(credential[m]) : apiKey' = [apiKey EXCEPT ![m] = k]
    /\ stage' = [stage EXCEPT ![m] = "dispatch"]
    /\ UNCHANGED <<vars, tenantServers, created, at, credential, server, deadOnArrival>>

(* The token is worth nothing, the request is answered with a challenge.   *)
Challenge(m) ==
    /\ stage[m] = "lookup"
    /\ apiKeysFor(credential[m]) = {}
    /\ Over({m})
    /\ UNCHANGED <<vars, tenantServers, created>>

\* newMCPServer: a new server object for key k on instance i.
NewServer(i, s) ==
    /\ created < MaxServers
    /\ created' = created + 1
    /\ s.id = created'
    /\ tenantServers' = [tenantServers EXCEPT ![i] = {t \in @ : t.apiKey # s.apiKey} \cup {s}]

\* Mutant: the object of any key will do.
DispatchToAny(m) ==
    LET mine == tenantServers[at[m]] IN
    /\ stage[m] = "dispatch"
    /\ \E s \in Server :
        /\ server' = [server EXCEPT ![m] = s]
        /\ \/ s \in mine /\ UNCHANGED <<tenantServers, created>>
           \/ mine = {} /\ s.apiKey = apiKey[m] /\ NewServer(at[m], s)
    /\ stage' = [stage EXCEPT ![m] = "serve"]
    /\ UNCHANGED <<vars, at, credential, apiKey, deadOnArrival>>

\* Mutant: tenantMu is released before the new object is created.
DispatchUnlocked(m) ==
    LET mine == {s \in tenantServers[at[m]] : s.apiKey = apiKey[m]} IN
    \/ /\ stage[m] = "dispatch"
       /\ \/ /\ \E s \in mine : server' = [server EXCEPT ![m] = s]
             /\ stage' = [stage EXCEPT ![m] = "serve"]
          \/ mine = {} /\ stage' = [stage EXCEPT ![m] = "create"] /\ UNCHANGED server
       /\ UNCHANGED <<vars, tenantServers, created, at, credential, apiKey, deadOnArrival>>
    \/ /\ stage[m] = "create"
       /\ \E s \in Server : /\ s.apiKey = apiKey[m]
                            /\ NewServer(at[m], s)
                            /\ server' = [server EXCEPT ![m] = s]
       /\ stage' = [stage EXCEPT ![m] = "serve"]
       /\ UNCHANGED <<vars, at, credential, apiKey, deadOnArrival>>

(* serverForAPIKey: one critical section of tenantMu, creation included.   *)
Dispatch(m) ==
    LET mine == {s \in tenantServers[at[m]] : s.apiKey = apiKey[m]} IN
    /\ stage[m] = "dispatch"
    /\ \E s \in Server :
        /\ server' = [server EXCEPT ![m] = s]
        /\ \/ s \in mine /\ UNCHANGED <<tenantServers, created>>
           \/ mine = {} /\ s.apiKey = apiKey[m] /\ NewServer(at[m], s)
    /\ stage' = [stage EXCEPT ![m] = "serve"]
    /\ UNCHANGED <<vars, at, credential, apiKey, deadOnArrival>>

(* The request is answered, its SELECT failed, or its client is gone.      *)
End(m) ==
    /\ stage[m] # "none"
    /\ Over({m})
    /\ UNCHANGED <<vars, tenantServers, created>>

(* Instance i is replaced: its server objects and its requests are gone.   *)
Replace(i) ==
    /\ tenantServers[i] # {}
    /\ tenantServers' = [tenantServers EXCEPT ![i] = {}]
    /\ Over({m \in Request : at[m] = i})
    /\ UNCHANGED <<vars, created>>

GatewayStep(m) ==
    \/ \E i \in Instance, c \in Credential : Receive(m, i, c)
    \/ LookUp(m) \/ Challenge(m) \/ Dispatch(m) \/ End(m)

GatewayNext ==
    \/ Next /\ UNCHANGED gatewayVars
    \/ \E m \in Request : GatewayStep(m)
    \/ \E i \in Instance : Replace(i)

GatewaySpec == GatewayInit /\ [][GatewayNext]_allVars

-----------------------------------------------------------------------------
GatewayTypeOK ==
    /\ TypeOK
    /\ tenantServers \in [Instance -> SUBSET Server]
    /\ created \in 0 .. MaxServers
    /\ stage \in [Request -> {"none", "lookup", "dispatch", "serve"}]
    /\ at \in [Request -> Instance \cup {None}]
    /\ credential \in [Request -> Credential \cup {None}]
    /\ apiKey \in [Request -> Key \cup {None}]
    /\ server \in [Request -> Server \cup {NoServer}]
    /\ \A m \in Request : /\ stage[m] \in {"dispatch", "serve"} => apiKey[m] \in Key
                          /\ stage[m] = "serve" => server[m] # NoServer
    /\ deadOnArrival \in [Request -> BOOLEAN]

Served == {m \in Request : stage[m] = "serve"}

(* Requests of one account on one instance share one server object, however *)
(* many of them are the first: the caches, mutexes and background commands *)
(* of an account exist once.                                               *)
OneServerPerKey ==
    \A m, n \in Served :
        at[m] = at[n] /\ apiKey[m] = apiKey[n] => server[m] = server[n]

(* A request is served by an object that works with the key it presented,   *)
(* or with the key of the user who consented to the token it presented;    *)
(* accounts never meet in one object.                                      *)
ServesConsentingAccount ==
    \A m \in Served :
        \/ credential[m] = server[m].apiKey
        \/ \E p \in pairs, g \in grants :
              /\ p.access = credential[m]
              /\ g.code = p.grant
              /\ server[m].apiKey = g.tensorlake_api_key

(* A token that was rotated or had expired before its request came opens   *)
(* nothing, whatever is rotated while the request waits for its lookup.    *)
DeadTokenIsRefused == \A m \in Served : ~ deadOnArrival[m]
=============================================================================
