----------------------------- MODULE MCGateway -----------------------------
(* Instances of Gateway for TLC.                                           *)
EXTENDS Gateway, TLC

Symmetry == Permutations(Handler) \cup Permutations(Key)
                \cup Permutations(Request) \cup Permutations(Instance)
                \cup Permutations(RedirectURI) \cup Permutations(Verifier)
=============================================================================
