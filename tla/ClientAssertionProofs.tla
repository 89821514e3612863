----------------------- MODULE ClientAssertionProofs -----------------------
(***************************************************************************)
(* The invariants of ClientAssertion, for any requests, assertions, key    *)
(* sets and life times.                                                    *)
(*                                                                         *)
(* Time passes and keys are replaced between the steps of a request, so    *)
(* that what a step has found no longer holds when the request is          *)
(* answered.  What stays true is that it held at some moment since the     *)
(* request began: Inv keeps that moment and that key set.                  *)
(***************************************************************************)
EXTENDS ClientAssertion, TLAPS

Assn(r) == posted[r].client_assertion

\* The claims of request r held, or did not hold, at a moment between from and to.
HeldOnce(r, from, to)   == \E t \in from .. to : ClaimsHold(Assn(r), t)
FailedOnce(r, from, to) == \E t \in from .. to : ~ ClaimsHold(Assn(r), t)

\* How far a request is, and what that says of its form.
ProgressInv(r) ==
    /\ step[r] # "new" => began[r] <= clock
    /\ step[r] \in {"client", "claims", "keys"} =>
          keySet \in offered[r] /\ ClientID(posted[r]) # Nothing
    /\ step[r] # "over" => answer[r] = Nothing
    /\ step[r] \in {"claims", "keys"} => Asserts(posted[r]) /\ ClientID(posted[r]) \in MetadataClient
    /\ step[r] = "keys" => HeldOnce(r, began[r], clock)

\* Why a request was accepted.
AcceptedInv(r) ==
    answer[r] # Nothing =>
        /\ answer[r] = ClientID(posted[r])
        /\ Asserts(posted[r]) =>
              /\ ClientID(posted[r]) \in MetadataClient
              /\ HeldOnce(r, began[r], ended[r])
              /\ \E ks \in offered[r] : Verifies(ks, Assn(r))

\* Why a request was refused.
RefusedInv(r) ==
    step[r] = "over" /\ answer[r] = Nothing /\ r \notin failed =>
        \/ ClientID(posted[r]) = Nothing
        \/ Asserts(posted[r]) /\ ClientID(posted[r]) \notin MetadataClient
        \/ FailedOnce(r, began[r], ended[r])
        \/ \E ks \in offered[r] : ~ Verifies(ks, Assn(r))

RequestInv(r) == ProgressInv(r) /\ AcceptedInv(r) /\ RefusedInv(r)

Inv == AssertionTypeOK /\ \A r \in Request : RequestInv(r)

-----------------------------------------------------------------------------
(* What a form stands for is a client, and an accepted form that presents  *)
(* an assertion presents one that names that client throughout.            *)
LEMMA ClientIDs ==
    ASSUME NEW f \in Forms
    PROVE  /\ ClientID(f) \in Client \cup {Nothing}
           /\ Asserts(f) /\ ClientID(f) # Nothing =>
                 /\ f.client_assertion \in Assertion
                 /\ ClientID(f) = f.client_assertion.iss
                 /\ f.client_assertion.sub = f.client_assertion.iss
                 /\ f.client_id \in {Nothing, f.client_assertion.iss}
<1>1. f \in Form
  BY ClientAssertionAssumption
<1>2. f.client_assertion \in Assertion \cup {Nothing, Malformed} /\ f.client_id \in Client \cup {Nothing}
  BY <1>1 DEF Form
<1>3. \A a \in Assertion : a.iss \in Client
  BY DEF Assertion
<1>4. QED
  BY <1>2, <1>3 DEF ClientID

LEMMA InitInv == AssertionInit => Inv
<1> SUFFICES ASSUME AssertionInit PROVE Inv
  OBVIOUS
<1> USE DEF AssertionInit
<1>1. AssertionTypeOK
  BY DEF AssertionTypeOK
<1>2. \A r \in Request : RequestInv(r)
  BY DEF RequestInv, ProgressInv, AcceptedInv, RefusedInv
<1>3. QED
  BY <1>1, <1>2 DEF Inv

(* What a step of another request, of the clock or of the keys leaves of   *)
(* request r.                                                              *)
Unmoved(r) ==
    /\ step'[r] = step[r] /\ answer'[r] = answer[r] /\ posted' = posted
    /\ began'[r] = began[r] /\ ended'[r] = ended[r]
    /\ r \in failed' <=> r \in failed
    /\ clock' \in Nat /\ clock <= clock'
    /\ offered[r] \subseteq offered'[r]
    /\ step[r] \in {"client", "claims", "keys"} /\ keySet \in offered[r] => keySet' \in offered'[r]

LEMMA UnmovedKeeps ==
    ASSUME AssertionTypeOK, NEW r \in Request, RequestInv(r), Unmoved(r)
    PROVE  RequestInv(r)'
<1> USE DEF RequestInv, Unmoved
<1>1. HeldOnce(r, began[r], clock) => HeldOnce(r, began[r], clock)'
  BY DEF HeldOnce, Assn, AssertionTypeOK
<1>2. ProgressInv(r)'
  BY <1>1 DEF ProgressInv, AssertionTypeOK
<1>3. AcceptedInv(r)'
  BY DEF AcceptedInv, HeldOnce, Assn
<1>4. RefusedInv(r)'
  BY DEF RefusedInv, FailedOnce, Assn
<1>5. QED
  BY <1>2, <1>3, <1>4

(* A step of request c alone.                                              *)
LEMMA ApartKeeps ==
    ASSUME Inv, NEW c \in Request, UNCHANGED <<clock, keySet, posted>>, AssertionTypeOK', RequestInv(c)',
           \A r \in Request \ {c} :
              /\ step'[r] = step[r] /\ answer'[r] = answer[r]
              /\ began'[r] = began[r] /\ ended'[r] = ended[r] /\ offered'[r] = offered[r]
              /\ r \in failed' <=> r \in failed
    PROVE  Inv'
<1>1. \A r \in Request \ {c} : Unmoved(r)
  BY DEF Unmoved, Inv, AssertionTypeOK
<1>2. \A r \in Request \ {c} : RequestInv(r)'
  BY <1>1, UnmovedKeeps DEF Inv
<1>3. QED
  BY <1>2 DEF Inv

LEMMA PresentInv == ASSUME Inv, NEW r \in Request, Present(r) PROVE Inv'
<1> USE DEF Present, GoOn, Answer
<1>1. AssertionTypeOK'
  BY DEF Inv, AssertionTypeOK
<1>2. RequestInv(r)'
  BY DEF Inv, AssertionTypeOK, RequestInv, ProgressInv, AcceptedInv, RefusedInv
<1>3. QED
  BY <1>1, <1>2, ApartKeeps DEF Inv, AssertionTypeOK

LEMMA LoadClientInv == ASSUME Inv, NEW r \in Request, LoadClient(r) PROVE Inv'
<1> USE DEF LoadClient, GoOn, Answer
<1>1. posted[r] \in Forms /\ ClientID(posted[r]) \in Client
  BY ClientIDs DEF Inv, AssertionTypeOK, RequestInv, ProgressInv
<1>2. AssertionTypeOK'
  BY <1>1 DEF Inv, AssertionTypeOK
<1>3. RequestInv(r)'
  BY <1>1 DEF Inv, AssertionTypeOK, RequestInv, ProgressInv, AcceptedInv, RefusedInv
<1>4. QED
  BY <1>2, <1>3, ApartKeeps DEF Inv, AssertionTypeOK

LEMMA CheckClaimsInv == ASSUME Inv, NEW r \in Request, CheckClaims(r) PROVE Inv'
<1> USE DEF CheckClaims, GoOn, Answer
<1>1. AssertionTypeOK'
  BY DEF Inv, AssertionTypeOK
<1>2. clock \in Nat /\ began[r] <= clock /\ answer[r] = Nothing
  BY DEF Inv, AssertionTypeOK, RequestInv, ProgressInv
<1>3. CASE ClaimsHold(Assn(r), clock) /\ GoOn(r, "keys")
  <2>1. HeldOnce(r, began[r], clock)'
    BY <1>2, <1>3 DEF HeldOnce, Assn
  <2>2. RequestInv(r)'
    BY <1>2, <1>3, <2>1 DEF Inv, AssertionTypeOK, RequestInv, ProgressInv, AcceptedInv, RefusedInv
  <2>3. QED
    BY <1>1, <2>2, ApartKeeps DEF Inv, AssertionTypeOK
<1>4. CASE ~ ClaimsHold(Assn(r), clock) /\ Answer(r, Nothing)
  <2>1. ended'[r] = clock /\ step'[r] = "over" /\ answer'[r] = Nothing
    BY <1>4 DEF Inv, AssertionTypeOK
  <2>2. FailedOnce(r, began[r], ended[r])'
    BY <1>2, <1>4, <2>1 DEF FailedOnce, Assn
  <2>3. RequestInv(r)'
    BY <1>2, <2>1, <2>2 DEF RequestInv, ProgressInv, AcceptedInv, RefusedInv
  <2>4. QED
    BY <1>1, <2>3, ApartKeeps DEF Inv, AssertionTypeOK
<1>5. QED
  BY <1>3, <1>4 DEF Assn

LEMMA VerifySignatureInv == ASSUME Inv, NEW r \in Request, VerifySignature(r) PROVE Inv'
<1> USE DEF VerifySignature, Answer
<1>1. /\ posted[r] \in Forms /\ Asserts(posted[r]) /\ ClientID(posted[r]) \in MetadataClient
      /\ ClientID(posted[r]) # Nothing
      /\ began[r] <= clock /\ keySet \in offered[r] /\ HeldOnce(r, began[r], clock)
  BY DEF Inv, AssertionTypeOK, RequestInv, ProgressInv
<1>2. Assn(r).iss = ClientID(posted[r]) /\ ClientID(posted[r]) \in Client
  BY <1>1, ClientIDs DEF Assn
<1>3. AssertionTypeOK'
  BY <1>2 DEF Inv, AssertionTypeOK, Assn
<1>4. /\ step'[r] = "over" /\ ended'[r] = clock
      /\ UNCHANGED <<clock, keySet, posted, began, offered, failed>>
      /\ answer'[r] = IF Verifies(keySet, Assn(r)) THEN ClientID(posted[r]) ELSE Nothing
  BY <1>2 DEF Inv, AssertionTypeOK, Assn
<1>5. ProgressInv(r)'
  BY <1>1, <1>4 DEF ProgressInv
<1>6. AcceptedInv(r)'
  BY <1>1, <1>4 DEF AcceptedInv, HeldOnce, Assn
<1>7. RefusedInv(r)'
  BY <1>1, <1>4 DEF RefusedInv, Assn
<1>8. QED
  BY <1>3, <1>5, <1>6, <1>7, ApartKeeps DEF Inv, AssertionTypeOK, RequestInv

LEMMA FetchFailsInv == ASSUME Inv, NEW r \in Request, FetchFails(r) PROVE Inv'
<1> USE DEF FetchFails, Answer
<1>1. AssertionTypeOK'
  BY DEF Inv, AssertionTypeOK
<1>2. RequestInv(r)'
  BY DEF Inv, AssertionTypeOK, RequestInv, ProgressInv, AcceptedInv, RefusedInv
<1>3. QED
  BY <1>1, <1>2, ApartKeeps DEF Inv, AssertionTypeOK

(* The clock and the keys do not touch what was true of a request before.  *)
LEMMA SurroundingsInv == ASSUME Inv, PassTime \/ ReplaceKeys PROVE Inv'
<1> USE DEF PassTime, ReplaceKeys, progress
<1>1. AssertionTypeOK'
  <2>1. CASE PassTime
    BY <2>1 DEF Inv, AssertionTypeOK
  <2>2. CASE ReplaceKeys
    BY <2>2 DEF Inv, AssertionTypeOK
  <2>3. QED
    BY <2>1, <2>2
<1>2. ASSUME NEW r \in Request PROVE Unmoved(r)
  BY DEF Unmoved, Inv, AssertionTypeOK
<1>3. QED
  BY <1>1, <1>2, UnmovedKeeps DEF Inv

LEMMA StepInv == Inv /\ [AssertionNext]_assertionVars => Inv'
<1> SUFFICES ASSUME Inv, [AssertionNext]_assertionVars PROVE Inv'
  OBVIOUS
<1>1. CASE UNCHANGED assertionVars
  BY <1>1 DEF assertionVars, Inv, AssertionTypeOK, RequestInv, ProgressInv, AcceptedInv,
              RefusedInv, HeldOnce,
     FailedOnce, Assn
<1>2. CASE AssertionNext
  BY <1>2, PresentInv, LoadClientInv, CheckClaimsInv, VerifySignatureInv, FetchFailsInv,
     SurroundingsInv DEF AssertionNext
<1>3. QED
  BY <1>1, <1>2

(* Inv is an invariant of ClientAssertion.                                 *)
LEMMA Invariance == AssertionSpec => []Inv
  BY InitInv, StepInv, PTL DEF AssertionSpec

-----------------------------------------------------------------------------
(* The variables of ClientAssertion have their types.                      *)
THEOREM TypeCorrect == AssertionSpec => []AssertionTypeOK
<1>1. Inv => AssertionTypeOK
  BY DEF Inv
<1>2. QED
  BY <1>1, Invariance, PTL

(* Accepted assertions are genuine, however long the fetches take and      *)
(* whatever keys are published meanwhile.                                  *)
THEOREM OnlyGenuineAccepted == AssertionSpec => []AcceptedIsGenuine
<1>1. ASSUME Inv, NEW r \in Asserted
      PROVE LET a == posted[r].client_assertion IN
        /\ answer[r] = a.iss /\ a.iss = a.sub
        /\ posted[r].client_id \in {Nothing, a.iss}
        /\ a.iss \in MetadataClient
        /\ a.aud \cap Here # {}
        /\ began[r] < a.exp
        /\ \E ks \in offered[r] : \E i \in DOMAIN ks :
              ks[i].kid = a.kid /\ ks[i].key = a.signer /\ ks[i].alg # "other"
  <2> DEFINE a == posted[r].client_assertion
  <2>1. /\ r \in Request /\ answer[r] # Nothing /\ Asserts(posted[r])
        /\ answer[r] = ClientID(posted[r]) /\ ClientID(posted[r]) \in MetadataClient
        /\ HeldOnce(r, began[r], ended[r]) /\ \E ks \in offered[r] : Verifies(ks, a)
    BY <1>1 DEF Asserted, Inv, RequestInv, AcceptedInv, Assn
  <2>2. /\ a \in Assertion /\ ClientID(posted[r]) = a.iss /\ a.sub = a.iss
        /\ posted[r].client_id \in {Nothing, a.iss}
    BY <1>1, <2>1, ClientIDs DEF Inv, AssertionTypeOK
  <2>3. a.aud \cap Here # {} /\ began[r] < a.exp
    <3>1. PICK t \in began[r] .. ended[r] : ClaimsHold(a, t)
      BY <2>1 DEF HeldOnce, Assn
    <3>2. a.exp \in Int /\ began[r] \in Nat /\ ended[r] \in Nat
      BY <1>1, <2>1, <2>2 DEF Assertion, Inv, AssertionTypeOK
    <3>3. QED
      BY <3>1, <3>2 DEF ClaimsHold
  <2>4. \E ks \in offered[r] : \E i \in DOMAIN ks :
           ks[i].kid = a.kid /\ ks[i].key = a.signer /\ ks[i].alg # "other"
    <3>1. PICK ks \in offered[r] : Verifies(ks, a)
      BY <2>1
    <3>2. PICK i \in Candidates(ks, a) : ks[i].key = a.signer
      BY <3>1 DEF Verifies
    <3>3. Nothing # "other"
      BY ClientAssertionAssumption
    <3>4. i \in DOMAIN ks /\ ks[i].kid = a.kid /\ ks[i].alg # "other"
      BY <3>2, <3>3 DEF Candidates
    <3>5. QED
      BY <3>1, <3>2, <3>4
  <2>5. QED
    BY <2>1, <2>2, <2>3, <2>4
<1>2. Inv => AcceptedIsGenuine
  BY <1>1 DEF AcceptedIsGenuine
<1>3. QED
  BY <1>2, Invariance, PTL

(* An assertion that was accepted is worth nothing Lifetime later: all     *)
(* requests that it opens find it unexpired, and with an expiry that is no *)
(* further away than Lifetime.                                             *)
THEOREM ReplayWindow == AssertionSpec => []RepeatedWithinLifetime
<1>1. ASSUME Inv, NEW r \in Asserted, NEW s \in Asserted,
             posted[r].client_assertion = posted[s].client_assertion
      PROVE  began[s] < ended[r] + Lifetime
  <2> DEFINE a == posted[r].client_assertion
  <2>1. ASSUME NEW q \in Asserted
        PROVE  /\ q \in Request /\ began[q] \in Nat /\ ended[q] \in Nat
               /\ Asserts(posted[q]) /\ ClientID(posted[q]) # Nothing /\ posted[q] \in Forms
               /\ HeldOnce(q, began[q], ended[q])
    BY <1>1, <2>1 DEF Asserted, Inv, AssertionTypeOK, RequestInv, AcceptedInv
  <2>2. a.exp \in Int
    BY <2>1, ClientIDs DEF Assertion
  <2>3. PICK t \in began[r] .. ended[r] : ClaimsHold(a, t)
    BY <2>1 DEF HeldOnce, Assn
  <2>4. PICK u \in began[s] .. ended[s] : ClaimsHold(a, u)
    BY <1>1, <2>1 DEF HeldOnce, Assn
  <2>5. a.exp <= t + Lifetime /\ a.exp > u
    BY <2>3, <2>4 DEF ClaimsHold
  <2> HIDE DEF a
  <2>6. Lifetime \in Nat
    BY ClientAssertionAssumption
  <2>7. QED
    BY <2>1, <2>2, <2>3, <2>4, <2>5, <2>6
<1>2. Inv => RepeatedWithinLifetime
  BY <1>1 DEF RepeatedWithinLifetime
<1>3. QED
  BY <1>2, Invariance, PTL

(* The key that is the only candidate of a set is the one that counts.     *)
LEMMA OnlyCandidate ==
    ASSUME NEW a, NEW ks \in KeySets, NEW i \in DOMAIN ks,
           ks[i].kid = a.kid, ks[i].alg \in {"RS256", Nothing}, ks[i].usable, ks[i].key = a.signer,
           \A j \in DOMAIN ks \ {i} : ks[j].kid # a.kid \/ ks[j].alg = "other"
    PROVE  Verifies(ks, a)
<1>1. ks \in Seq(JWK)
  BY ClientAssertionAssumption
<1>2. i \in Int /\ Nothing # "other"
  BY <1>1, ClientAssertionAssumption
<1>3. i \in Candidates(ks, a)
  BY DEF Candidates
<1>4. QED
  BY <1>2, <1>3 DEF Verifies, Candidates

(* A right assertion is accepted unless a fetch failed: no step of the     *)
(* request can find anything wrong with it.                                *)
THEOREM GenuineNotRefused == AssertionSpec => []GenuineIsAccepted
<1>1. ASSUME Inv, NEW r \in Request \ failed,
             step[r] = "over",
             posted[r].client_assertion_type = "jwt-bearer",
             Assn(r) \notin {Nothing, Malformed},
             Assn(r).alg = "RS256", Assn(r).kid # Nothing,
             Assn(r).iss \in MetadataClient, Assn(r).sub = Assn(r).iss,
             posted[r].client_id \in {Nothing, Assn(r).iss},
             Assn(r).aud \cap Here # {},
             ended[r] < Assn(r).exp, Assn(r).exp <= began[r] + Lifetime,
             Assn(r).nbf <= began[r] + Skew,
             \A ks \in offered[r] : \E i \in DOMAIN ks :
                   /\ ks[i] \in [kid : {Assn(r).kid}, alg : {"RS256", Nothing}, usable : {TRUE},
                                 key : {Assn(r).signer}]
                   /\ \A j \in DOMAIN ks \ {i} : ks[j].kid # Assn(r).kid \/ ks[j].alg = "other"
      PROVE  answer[r] = Assn(r).iss
  <2> DEFINE a == Assn(r)
  <2>1. /\ posted[r] \in Form /\ began[r] \in Nat /\ ended[r] \in Nat
        /\ offered[r] \subseteq KeySets /\ Lifetime \in Nat /\ Skew \in Nat
    BY <1>1, ClientAssertionAssumption DEF Inv, AssertionTypeOK
  <2>2. a \in Assertion
    BY <1>1, <2>1 DEF Form, Assn
  <2>3. Asserts(posted[r])
    BY <1>1 DEF Asserts, Assn
  <2>4. ClientID(posted[r]) = a.iss
    BY <1>1, <2>3 DEF ClientID, Assn
  <2>5. a.iss # Nothing
    BY <2>2, ClientAssertionAssumption DEF Assertion
  <2>6. ~ FailedOnce(r, began[r], ended[r])
    <3> SUFFICES ASSUME NEW t \in began[r] .. ended[r] PROVE ClaimsHold(a, t)
      BY DEF FailedOnce
    <3>1. a.exp \in Int /\ a.nbf \in Int
      BY <2>2 DEF Assertion
    <3>2. a.exp > t /\ a.exp <= t + Lifetime /\ a.nbf <= t + Skew
      BY <1>1, <2>1, <3>1
    <3>3. QED
      BY <1>1, <3>2 DEF ClaimsHold
  <2>7. \A ks \in offered[r] : Verifies(ks, a)
    <3> SUFFICES ASSUME NEW ks \in offered[r] PROVE Verifies(ks, a)
      OBVIOUS
    <3>1. PICK i \in DOMAIN ks :
             /\ ks[i] \in [kid : {a.kid}, alg : {"RS256", Nothing}, usable : {TRUE}, key : {a.signer}]
             /\ \A j \in DOMAIN ks \ {i} : ks[j].kid # a.kid \/ ks[j].alg = "other"
      BY <1>1
    <3>2. ks[i].kid = a.kid /\ ks[i].alg \in {"RS256", Nothing} /\ ks[i].usable /\ ks[i].key = a.signer
      BY <3>1
    <3> HIDE DEF a
    <3>3. QED
      BY <2>1, <3>1, <3>2, OnlyCandidate
  <2>8. answer[r] # Nothing
    BY <1>1, <2>3, <2>4, <2>5, <2>6, <2>7 DEF Inv, RequestInv, RefusedInv
  <2>9. QED
    BY <1>1, <2>4, <2>8 DEF Inv, RequestInv, AcceptedInv
<1>2. Inv => GenuineIsAccepted
  BY <1>1 DEF GenuineIsAccepted, Assn
<1>3. QED
  BY <1>2, Invariance, PTL
=============================================================================
