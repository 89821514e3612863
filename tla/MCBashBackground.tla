-------------------------- MODULE MCBashBackground --------------------------
(* Instances of BashBackground for TLC.                                    *)
EXTENDS BashBackground, TLC

Symmetry == Permutations(Instance) \cup Permutations(Job) \cup Permutations(Query)
=============================================================================
