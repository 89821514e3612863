------------------------------ MODULE FileStore ------------------------------
(***************************************************************************)
(* What the tools that change files promise about the files of a sandbox.  *)
(*                                                                         *)
(* A call changes one file, once, at some moment between its beginning and *)
(* its end, or it changes nothing.  What it writes is what its request     *)
(* makes of a content that its source file had at some moment since the    *)
(* call began: of two calls that follow each other, the second builds on   *)
(* the first.  Calls that overlap may overwrite each other: the service    *)
(* promises nothing more, it has no lock and no version to compare.        *)
(***************************************************************************)
CONSTANTS
    Call,            \* calls of tools
    Source(_),       \* the file that a request is about
    Target(_),       \* the file that it changes
    Outcomes(_, _)   \* what a request may make of a content of its source

VARIABLES
    files,    \* the files of the sandbox
    request,  \* the requests of the calls
    phase,    \* how far a call is
    seen      \* what the source of a call contained since the call began

vars == <<files, request, phase, seen>>

Init ==
    /\ phase = [c \in Call |-> "new"]
    /\ seen = [c \in Call |-> {}]

\* Call c begins.
Begin(c) ==
    /\ phase[c] = "new"
    /\ phase' = [phase EXCEPT ![c] = "running"]
    /\ seen' = [seen EXCEPT ![c] = {files[Source(request[c])]}]
    /\ UNCHANGED <<files, request>>

\* The effect of call c, which may be the last that happens in it.
Change(c) ==
    /\ phase[c] = "running"
    /\ \E p \in {"changed", "over"} : phase' = [phase EXCEPT ![c] = p]
    /\ \E old \in seen[c] : \E new \in Outcomes(request[c], old) :
        /\ files' = [files EXCEPT ![Target(request[c])] = new]
        /\ seen' = [d \in Call |->
             IF phase[d] \in {"running", "changed"} /\ Source(request[d]) = Target(request[c])
             THEN seen[d] \cup {new} ELSE seen[d]]
    /\ UNCHANGED request

\* Call c is answered, with success or with an error.
End(c) ==
    /\ phase[c] \in {"running", "changed"}
    /\ phase' = [phase EXCEPT ![c] = "over"]
    /\ UNCHANGED <<files, request, seen>>

Next == \E c \in Call : Begin(c) \/ Change(c) \/ End(c)

Spec == Init /\ [][Next]_vars
=============================================================================
