--------------------------- MODULE ClientAssertion ---------------------------
(***************************************************************************)
(* How /oauth/token authenticates a client (authenticateTokenClient): by    *)
(* its client id alone, or by a signed assertion (private_key_jwt) besides. *)
(*                                                                         *)
(* Both look the client up, which for a client with a metadata document is *)
(* a fetch of that document.  An assertion is then held against the clock, *)
(* and after one more fetch against the published keys.  Time passes and    *)
(* keys are replaced between these steps, and a fetch can fail.            *)
(*                                                                         *)
(* RSA is taken to be ideal: a signature verifies with the key of its      *)
(* signer only.  Times are in seconds in the code; Lifetime and Skew stand *)
(* for its 600 and 30.                                                     *)
(***************************************************************************)
EXTENDS Clients, Integers, Sequences, FiniteSets

CONSTANTS
    Request,         \* requests to /oauth/token
    KeyID,
    Signer,          \* private keys
    Here,            \* the audiences that mean this service: its origin and token endpoint
    Elsewhere,       \* any other audience
    Nothing,         \* an omitted parameter, key id or algorithm
    Malformed,       \* an assertion that has no three parts, or does not decode
    Forms,           \* what requests can present
    KeySets,         \* the key sets that can be published
    Lifetime, Skew,
    MaxClock         \* bound: how far the clock runs

(* Header and claims of an assertion: `aud' is the set of its audiences,    *)
(* `nbf' is 0 when it is missing.                                          *)
Assertion == [alg : {"RS256", "other"}, kid : KeyID \cup {Nothing},
              iss : Client, sub : Client, aud : SUBSET (Here \cup {Elsewhere}),
              exp : Int, nbf : Int, signer : Signer]

Form == [client_id : Client \cup {Nothing},
         client_assertion : Assertion \cup {Nothing, Malformed},
         client_assertion_type : {"jwt-bearer", "other", Nothing}]

\* A key of a published set; `usable': it decodes to an RSA key.
JWK == [kid : KeyID, alg : {"RS256", "other", Nothing}, usable : BOOLEAN, key : Signer]

ASSUME ClientAssertionAssumption ==
    /\ Nothing \notin Client \cup {"RS256", "other"}
    /\ Forms \subseteq Form
    /\ KeySets \subseteq Seq(JWK)
    /\ Lifetime \in Nat /\ Skew \in Nat /\ MaxClock \in Nat

VARIABLES
    clock,
    keySet,          \* the key set published at the moment
    step,            \* the next step of a request
    posted,          \* what it presents
    answer,          \* the client id it was authenticated as, or Nothing
    began, ended,    \* history: when it began, and when it was answered
    offered,         \* history: the key sets published since it began
    failed           \* history: the requests of which a fetch failed

progress == <<step, answer, ended>>

assertionVars ==
    <<clock, keySet, step, posted, answer, began, ended, offered, failed>>

-----------------------------------------------------------------------------
Asserts(f) == f.client_assertion # Nothing \/ f.client_assertion_type # Nothing

\* Mutant: the subject is not compared.
ClientIDByIssuer(f) ==
    LET a == f.client_assertion IN
    IF ~ Asserts(f) THEN f.client_id
    ELSE IF \/ a \in {Nothing, Malformed} \/ f.client_assertion_type # "jwt-bearer"
            \/ a.alg # "RS256" \/ a.kid = Nothing
            \/ f.client_id \notin {Nothing, a.iss}
    THEN Nothing ELSE a.iss

(* The client id that a form stands for, before anything is fetched, or    *)
(* Nothing when the request is refused at once: authenticateTokenClient,   *)
(* and verifyChatGPTClientAssertion up to the comparison of the identities. *)
ClientID(f) ==
    LET a == f.client_assertion IN
    IF ~ Asserts(f) THEN f.client_id
    ELSE IF \/ a \in {Nothing, Malformed} \/ f.client_assertion_type # "jwt-bearer"
            \/ a.alg # "RS256" \/ a.kid = Nothing
            \/ f.client_id \notin {Nothing, a.iss} \/ a.sub # a.iss
    THEN Nothing ELSE a.iss

\* Mutant: an assertion may expire as late as it likes.
ClaimsHoldForEver(a, t) ==
    /\ a.exp > t
    /\ a.nbf = 0 \/ a.nbf <= t + Skew
    /\ a.aud \cap Here # {}

\* Mutant: the beginning is compared without leeway.
ClaimsHoldStrictly(a, t) ==
    /\ a.exp > t /\ a.exp <= t + Lifetime
    /\ a.nbf = 0 \/ a.nbf <= t
    /\ a.aud \cap Here # {}

(* The claims of assertion a at time t: expiry, beginning and audience.    *)
ClaimsHold(a, t) ==
    /\ a.exp > t /\ a.exp <= t + Lifetime
    /\ a.nbf = 0 \/ a.nbf <= t + Skew
    /\ a.aud \cap Here # {}

(* The places in key set ks that may hold the key of assertion a.          *)
Candidates(ks, a) == {i \in DOMAIN ks : ks[i].kid = a.kid /\ ks[i].alg \in {"RS256", Nothing}}

\* Mutant: a key of this id is taken, the algorithm it is for does not matter.
VerifiesWithAnyAlg(ks, a) ==
    \E i \in DOMAIN ks :
        /\ ks[i].kid = a.kid
        /\ \A j \in DOMAIN ks : ks[j].kid = a.kid => i <= j
        /\ ks[i].usable /\ ks[i].key = a.signer

(* The first of them counts: when it is no RSA key, or not the signer's,   *)
(* the assertion is refused, and later keys are not tried.                 *)
Verifies(ks, a) ==
    \E i \in Candidates(ks, a) :
        /\ \A j \in Candidates(ks, a) : i <= j
        /\ ks[i].usable /\ ks[i].key = a.signer

-----------------------------------------------------------------------------
AssertionInit ==
    /\ clock = 0
    /\ keySet \in KeySets
    /\ step = [r \in Request |-> "new"]
    /\ posted \in [Request -> Forms]
    /\ answer = [r \in Request |-> Nothing]
    /\ began = [r \in Request |-> 0]
    /\ ended = [r \in Request |-> 0]
    /\ offered = [r \in Request |-> {}]
    /\ failed = {}

GoOn(r, label) == step' = [step EXCEPT ![r] = label] /\ UNCHANGED <<answer, ended>>

\* Request r is answered: authenticated as client c, or refused.
Answer(r, c) ==
    /\ step' = [step EXCEPT ![r] = "over"]
    /\ answer' = [answer EXCEPT ![r] = c]
    /\ ended' = [ended EXCEPT ![r] = clock]

Present(r) ==
    /\ step[r] = "new"
    /\ began' = [began EXCEPT ![r] = clock]
    /\ offered' = [offered EXCEPT ![r] = {keySet}]
    /\ \/ ClientID(posted[r]) = Nothing /\ Answer(r, Nothing)
       \/ ClientID(posted[r]) # Nothing /\ GoOn(r, "client")
    /\ UNCHANGED <<clock, keySet, posted, failed>>

(* loadChatGPTCIMDClient or loadRegisteredOAuthClient: the client exists.  *)
(* An assertion is for clients with a metadata document only.              *)
LoadClient(r) ==
    LET c == ClientID(posted[r]) IN
    /\ step[r] = "client"
    /\ \/ ~ Asserts(posted[r]) /\ Answer(r, c)
       \/ Asserts(posted[r]) /\ c \in MetadataClient /\ GoOn(r, "claims")
       \/ Asserts(posted[r]) /\ c \notin MetadataClient /\ Answer(r, Nothing)
    /\ UNCHANGED <<clock, keySet, posted, began, offered, failed>>

CheckClaims(r) ==
    /\ step[r] = "claims"
    /\ \/ ClaimsHold(posted[r].client_assertion, clock) /\ GoOn(r, "keys")
       \/ ~ ClaimsHold(posted[r].client_assertion, clock) /\ Answer(r, Nothing)
    /\ UNCHANGED <<clock, keySet, posted, began, offered, failed>>

\* Mutant: the key id is answered for the client id.
VerifySignatureOfKey(r) ==
    LET a == posted[r].client_assertion IN
    /\ step[r] = "keys"
    /\ Answer(r, IF Verifies(keySet, a) THEN a.kid ELSE Nothing)
    /\ UNCHANGED <<clock, keySet, posted, began, offered, failed>>

(* fetchChatGPTJWKS, and the verification of the signature.                *)
VerifySignature(r) ==
    LET a == posted[r].client_assertion IN
    /\ step[r] = "keys"
    /\ \/ Verifies(keySet, a) /\ Answer(r, a.iss)
       \/ ~ Verifies(keySet, a) /\ Answer(r, Nothing)
    /\ UNCHANGED <<clock, keySet, posted, began, offered, failed>>

(* The fetch of the metadata document or of the keys fails, the document is *)
(* not acceptable, or the client is not registered.                        *)
FetchFails(r) ==
    /\ step[r] \in {"client", "keys"}
    /\ Answer(r, Nothing)
    /\ failed' = failed \cup {r}
    /\ UNCHANGED <<clock, keySet, posted, began, offered>>

PassTime ==
    /\ clock < MaxClock
    /\ clock' = clock + 1
    /\ UNCHANGED <<keySet, posted, progress, began, offered, failed>>

\* The client publishes other keys.
ReplaceKeys ==
    /\ keySet' \in KeySets
    /\ offered' = [r \in Request |->
                     IF step[r] \in {"new", "over"} THEN offered[r] ELSE offered[r] \cup {keySet'}]
    /\ UNCHANGED <<clock, posted, progress, began, failed>>

AssertionNext ==
    \/ PassTime \/ ReplaceKeys
    \/ \E r \in Request : Present(r) \/ LoadClient(r) \/ CheckClaims(r)
                            \/ VerifySignature(r) \/ FetchFails(r)

AssertionSpec == AssertionInit /\ [][AssertionNext]_assertionVars

-----------------------------------------------------------------------------
AssertionTypeOK ==
    /\ clock \in Nat
    /\ keySet \in KeySets
    /\ step \in [Request -> {"new", "client", "claims", "keys", "over"}]
    /\ posted \in [Request -> Forms]
    /\ answer \in [Request -> Client \cup {Nothing}]
    /\ began \in [Request -> Nat]
    /\ ended \in [Request -> Nat]
    /\ offered \in [Request -> SUBSET KeySets]
    /\ failed \subseteq Request

\* The requests whose assertion was accepted.
Asserted == {r \in Request : answer[r] # Nothing /\ Asserts(posted[r])}

(* An accepted assertion names one client throughout, a client with a      *)
(* metadata document, it is meant for this service, it had not expired     *)
(* when its request began, and the signer's key was published for RS256    *)
(* under the assertion's key id at some moment of the request.             *)
AcceptedIsGenuine ==
    \A r \in Asserted :
        LET a == posted[r].client_assertion IN
        /\ answer[r] = a.iss /\ a.iss = a.sub
        /\ posted[r].client_id \in {Nothing, a.iss}
        /\ a.iss \in MetadataClient
        /\ a.aud \cap Here # {}
        /\ began[r] < a.exp
        /\ \E ks \in offered[r] : \E i \in DOMAIN ks :
              ks[i].kid = a.kid /\ ks[i].key = a.signer /\ ks[i].alg # "other"

(* An assertion can be repeated, the service does not remember it, but not  *)
(* for long: a request that begins Lifetime after the end of an accepted   *)
(* one is not accepted with the same assertion.                            *)
RepeatedWithinLifetime ==
    \A r, s \in Asserted :
        posted[r].client_assertion = posted[s].client_assertion => began[s] < ended[r] + Lifetime

(* An assertion is not refused that is right from the beginning of its     *)
(* request to the end, signed with the only key of its id that every set   *)
(* published meanwhile has for RS256, unless a fetch failed.               *)
GenuineIsAccepted ==
    \A r \in Request \ failed :
        LET f == posted[r]
            a == f.client_assertion
        IN  (/\ step[r] = "over"
             /\ f.client_assertion_type = "jwt-bearer" /\ a \notin {Nothing, Malformed}
             /\ a.alg = "RS256" /\ a.kid # Nothing
             /\ a.iss \in MetadataClient /\ a.sub = a.iss /\ f.client_id \in {Nothing, a.iss}
             /\ a.aud \cap Here # {}
             /\ ended[r] < a.exp /\ a.exp <= began[r] + Lifetime /\ a.nbf <= began[r] + Skew
             /\ \A ks \in offered[r] : \E i \in DOMAIN ks :
                   /\ ks[i] \in [kid : {a.kid}, alg : {"RS256", Nothing}, usable : {TRUE},
                                 key : {a.signer}]
                   /\ \A j \in DOMAIN ks \ {i} : ks[j].kid # a.kid \/ ks[j].alg = "other")
            => answer[r] = a.iss
=============================================================================
