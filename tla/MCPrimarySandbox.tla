-------------------------- MODULE MCPrimarySandbox --------------------------
(* Instances of PrimarySandbox for TLC.  Every sandbox has its own user,   *)
(* hence its own home directory; directories are named by their sandbox.   *)
EXTENDS PrimarySandbox, TLC

MCPath == {<<"home of", s>> : s \in Sandbox}

MCHome == [s \in Sandbox |-> <<"home of", s>>]

(* Two slots on one instance, a third on another.                          *)
CONSTANTS c1, c2, c3, i1, i2

MCHost == [c \in Call |-> IF c = c3 THEN i2 ELSE i1]

Symmetry == Permutations({c1, c2}) \cup Permutations(Sandbox)

(* A tool for each use of the caches: the home directory, the pinned id and *)
(* the selection.                                                          *)
MixedTools == {"grep", "file_read", "set_sandbox"}

(* The tools that resolve the primary sandbox before they ask for its home *)
(* directory, and those that never ask.                                    *)
PinningTools == {"bash", "bash_background", "file_read_pdf", "file_edit",
                 "file_write", "upload", "parse"}
=============================================================================
