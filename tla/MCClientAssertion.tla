-------------------------- MODULE MCClientAssertion --------------------------
(* ClientAssertion and OAuthServer side by side for TLC: the first step of  *)
(* a request for tokens in detail, and what follows it.  They share no     *)
(* variable, so a behaviour exercises one of them, and the other one stays *)
(* at an initial state.                                                    *)
EXTENDS ClientAssertion, OAuthServer, TLC

CONSTANTS kid1, kid2, s1, s2, origin, registered, metadata

VARIABLE part

Good == [alg |-> "RS256", kid |-> kid1, iss |-> metadata, sub |-> metadata,
         aud |-> {origin}, exp |-> 2, nbf |-> 0, signer |-> s1]

(* A good assertion, and those that differ from it in one thing.           *)
Assertions ==
    {[Good EXCEPT !.exp = e] : e \in {0, 2, 3, 9}} \cup {[Good EXCEPT !.nbf = n] : n \in {1, 3}}
        \cup {[Good EXCEPT !.alg = "other"], [Good EXCEPT !.kid = kid2],
              [Good EXCEPT !.sub = registered],
              [Good EXCEPT !.iss = registered, !.sub = registered],
              [Good EXCEPT !.aud = {Elsewhere}], [Good EXCEPT !.signer = s2]}

MCForms ==
    {[client_id |-> Nothing, client_assertion |-> a, client_assertion_type |-> "jwt-bearer"] :
        a \in Assertions \cup {Malformed, Nothing}}
    \cup {[client_id |-> c, client_assertion |-> a, client_assertion_type |-> t] :
        c \in {registered, metadata}, a \in {Good, Nothing}, t \in {"jwt-bearer", Nothing}}

Published(kid, alg, usable, key) == [kid |-> kid, alg |-> alg, usable |-> usable, key |-> key]

(* A key of its own for the signer, one after a key that is skipped, and a  *)
(* set where a key that cannot be used stands in front.                    *)
MCKeySets == {<<Published(kid1, "RS256", TRUE, s1)>>,
              <<Published(kid1, "other", TRUE, s2), Published(kid1, Nothing, TRUE, s1)>>,
              <<Published(kid1, "other", TRUE, s1), Published(kid1, "RS256", FALSE, s1),
                Published(kid2, "RS256", TRUE, s2)>>}

(* The requests present the same, which is the case that relates them; with *)
(* the tables, an initial state of ClientAssertion is chosen once.         *)
MCInit ==
    /\ part \in {"tables", "assertion"}
    /\ AssertionInit
    /\ \A r, q \in Request : posted[r] = posted[q]
    /\ Init
    /\ part = "tables" => /\ keySet = <<Published(kid1, "RS256", TRUE, s1)>>
                          /\ \A r \in Request : posted[r].client_assertion = Malformed

MCNext ==
    \/ part = "tables" /\ Next /\ UNCHANGED <<part, assertionVars>>
    \/ part = "assertion" /\ AssertionNext /\ UNCHANGED <<part, vars>>

MCSpec == MCInit /\ [][MCNext]_<<part, vars, assertionVars>>

Symmetry == Permutations(Request) \cup Permutations(Verifier) \cup Permutations(RedirectURI)
                \cup Permutations(Resource \ {NoResource})
=============================================================================
