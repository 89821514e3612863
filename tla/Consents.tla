------------------------------ MODULE Consents ------------------------------
(***************************************************************************)
(* The life of the consents to use an account, as the users who give them  *)
(* understand it.                                                          *)
(*                                                                         *)
(* The client redeems a consent once, and if nothing fails it gets one     *)
(* pair of tokens for it: an access token that opens the account, and a    *)
(* refresh token, good for one more pair.  A new pair takes everything     *)
(* from the one before.  What has expired or failed stays so, and no step  *)
(* leads to another account.                                               *)
(***************************************************************************)
CONSTANTS
    Consent,
    Account,   \* what a consent can open
    Pair,      \* the pairs of tokens
    Nobody     \* the account of a consent that was not given

VARIABLES
    stage,     \* "none", "open", "redeemed", "issued" or "lapsed"
    account,   \* whose account a consent is about
    past,      \* the pairs that were issued for it
    access,    \* <<pair, account>>: what its access tokens open at the moment
    refresh    \* its pairs whose refresh token is good at the moment

vars == <<stage, account, past, access, refresh>>

Init ==
    \A c \in Consent :
        /\ stage[c] = "none" /\ account[c] = Nobody
        /\ past[c] = {} /\ access[c] = {} /\ refresh[c] = {}

\* Consent c goes from one stage to another.
Moves(c, from, to) == stage[c] = from /\ stage'[c] = to

KeepsStage(c)  == stage'[c] = stage[c]
KeepsTokens(c) == past'[c] = past[c] /\ access'[c] = access[c] /\ refresh'[c] = refresh[c]

Give(c) == Moves(c, "none", "open") /\ account'[c] \in Account /\ KeepsTokens(c)

Redeem(c) == Moves(c, "open", "redeemed") /\ account'[c] = account[c] /\ KeepsTokens(c)

\* A new pair is all that consent c is good for.
NewPair(c) ==
    \E p \in Pair \ past[c] :
        /\ account'[c] = account[c]
        /\ past'[c] = past[c] \cup {p}
        /\ access'[c] \subseteq {<<p, account[c]>>}
        /\ refresh'[c] \subseteq {p}

Issue(c) == Moves(c, "redeemed", "issued") /\ NewPair(c)

Rotate(c) == refresh[c] # {} /\ KeepsStage(c) /\ NewPair(c)

\* The code was not redeemed in time, or redeeming it failed half-way.
Lapse(c) ==
    /\ Moves(c, "open", "lapsed") \/ Moves(c, "redeemed", "lapsed")
    /\ account'[c] = account[c]
    /\ KeepsTokens(c)

\* Tokens expire, or nothing happens to consent c.
Expire(c) ==
    /\ KeepsStage(c)
    /\ account'[c] = account[c]
    /\ past'[c] = past[c]
    /\ access'[c] \subseteq access[c]
    /\ refresh'[c] \subseteq refresh[c]

\* Time passes for all consents at once.
Next ==
    \A c \in Consent :
        Expire(c) \/ Give(c) \/ Redeem(c) \/ Issue(c) \/ Rotate(c) \/ Lapse(c)

Spec == Init /\ [][Next]_vars
=============================================================================
