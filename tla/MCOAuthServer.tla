--------------------------- MODULE MCOAuthServer ---------------------------
(* Instances of OAuthServer for TLC.                                       *)
EXTENDS OAuthServer, TLC

Symmetry == Permutations(Handler) \cup Permutations(Key)
                \cup Permutations(Verifier) \cup Permutations(RedirectURI)
                \cup Permutations(Resource \ {NoResource})
=============================================================================
