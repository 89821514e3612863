-------------------------- MODULE RunCommandProofs --------------------------
(* The type invariant and the safety invariants of RunCommand, for any     *)
(* number of lost answers.                                                 *)
EXTENDS RunCommand, FiniteSetTheorems, TLAPS

-----------------------------------------------------------------------------
(* The inductive invariant.                                                *)

(* The handler knows a process from the answer to its start on.            *)
PidInv ==
    /\ pc \in {"ensure", "start", "backoff"} => pid = 0
    /\ pc \in {"poll", "wait", "stdout", "stderr", "exit"} => pid # 0

(* Each start but the one that was answered has lost its answer.           *)
StartsCounted == Len(procs) <= lost + (IF pid = 0 THEN 0 ELSE 1)

(* Once the poll saw the process end, it stays ended.                      *)
EndSeen == pc \in {"stdout", "stderr", "exit"} => procs[pid].status # "running"

(* A result without an error comes from a process that has ended.          *)
ResultInv ==
    pc = "done" /\ ~ result.err =>
        /\ pid # 0
        /\ procs[pid].status # "running"
        /\ procs[pid].status = "exited" => result.exit_code = procs[pid].code

(* The known process is not left running unless a call failed.             *)
KnownEnds == pc = "done" /\ ~ failed /\ pid # 0 => procs[pid].status # "running"

Inv == TypeOK /\ PidInv /\ StartsCounted /\ EndSeen /\ ResultInv /\ KnownEnds

-----------------------------------------------------------------------------
LEMMA InvInit == Init => Inv
<1> SUFFICES ASSUME Init PROVE Inv
  OBVIOUS
<1> USE RunCommandAssumption
<1>1. <<>> \in Seq(Process) /\ Len(<<>>) = 0
  OBVIOUS
<1>2. procs \in Seq(Process) /\ pid \in 0 .. Len(procs)
  BY <1>1 DEF Init
<1>3. result \in Result
  BY DEF Init, Result, NoResult
<1>4. lost \in 0 .. MaxLost
  BY DEF Init
<1>5. TypeOK
  BY <1>2, <1>3, <1>4 DEF Init, TypeOK
<1>6. QED
  BY <1>1, <1>5 DEF Init, Inv, PidInv, StartsCounted, EndSeen, ResultInv, KnownEnds

(* What a launch and the change of one process do to the list of processes.*)
LEMMA LaunchedProcs ==
    ASSUME procs \in Seq(Process), Launched
    PROVE  /\ procs' \in Seq(Process)
           /\ Len(procs') = Len(procs) + 1
           /\ Len(procs) \in Nat
           /\ Len(procs') \in 1 .. Len(procs')
           /\ procs'[Len(procs')].status = "running"
<1>1. [status |-> "running", code |-> 0] \in Process
  BY DEF Process
<1>2. QED
  BY <1>1 DEF Launched

LEMMA ChangedProcs ==
    ASSUME procs \in Seq(Process), NEW p \in 1 .. Len(procs), NEW q \in Process,
           procs' = [procs EXCEPT ![p] = q]
    PROVE  /\ procs' \in Seq(Process)
           /\ Len(procs') = Len(procs)
           /\ procs'[p] = q
           /\ \A n \in 1 .. Len(procs) : n # p => procs'[n] = procs[n]
  OBVIOUS

LEMMA InvStep == Inv /\ [Next]_vars => Inv'
<1> SUFFICES ASSUME Inv, [Next]_vars PROVE Inv'
  OBVIOUS
<1> USE RunCommandAssumption
<1> USE DEF Inv, TypeOK, PidInv, StartsCounted, EndSeen, ResultInv, KnownEnds
<1>0. Len(procs) \in Nat /\ lost \in Nat
  OBVIOUS
<1>1. CASE Ensure
  BY <1>1, <1>0 DEF Ensure
<1>2. CASE EnsureFails
  BY <1>2, <1>0 DEF EnsureFails, ReturnError, Result
<1>3. CASE StartAccepted
  BY <1>3, <1>0, LaunchedProcs DEF StartAccepted
<1>4. CASE StartAnswerLost
  BY <1>4, <1>0, LaunchedProcs DEF StartAnswerLost
<1>5. CASE StartRefused
  BY <1>5, <1>0 DEF StartRefused
<1>6. CASE BackoffOver
  BY <1>6, <1>0 DEF BackoffOver
<1>7. CASE BackoffExpired
  BY <1>7, <1>0 DEF BackoffExpired, ReturnError, Result
<1>8. CASE PollRunning
  BY <1>8, <1>0 DEF PollRunning
<1>9. CASE PollFinished
  BY <1>9, <1>0 DEF PollFinished
<1>10. CASE WaitOver
  BY <1>10, <1>0 DEF WaitOver
<1>11. CASE WaitExpired
  <2>1. /\ pc = "wait" /\ pc' = "done"
        /\ pid \in 1 .. Len(procs)
        /\ procs' = [procs EXCEPT ![pid] = Killed(procs[pid])]
        /\ result' = [err |-> TRUE, exit_code |-> -1]
        /\ UNCHANGED <<expired, pid, lost, failed>>
    BY <1>11, <1>0 DEF WaitExpired, ReturnError
  <2>2. procs[pid] \in Process
    BY <2>1
  <2>3. Killed(procs[pid]) \in Process /\ Killed(procs[pid]).status # "running"
    BY <2>2 DEF Killed, Process
  <2>4. /\ procs' \in Seq(Process) /\ Len(procs') = Len(procs)
        /\ procs'[pid].status # "running"
    BY <2>1, <2>3, ChangedProcs
  <2>5. QED
    BY <2>1, <2>4, <1>0 DEF Result
<1>12. CASE KillFails
  BY <1>12, <1>0 DEF KillFails, ReturnError, Result
<1>13. CASE Collect
  BY <1>13, <1>0 DEF Collect
<1>14. CASE ReportExit
  <2>1. procs[pid] \in Process
    BY <1>14, <1>0 DEF ReportExit
  <2>2. result' \in Result
    BY <1>14, <2>1 DEF ReportExit, Result, Process
  <2>3. QED
    BY <1>14, <1>0, <2>2 DEF ReportExit
<1>15. CASE CallFails
  BY <1>15, <1>0 DEF CallFails, ReturnError, Result
<1>16. ASSUME NEW p \in DOMAIN procs, NEW status \in {"exited", "signaled"},
              NEW code \in {0, 1}, ProcessEnds(p, status, code)
       PROVE  Inv'
  <2>1. /\ p \in 1 .. Len(procs)
        /\ procs[p].status = "running"
        /\ [status |-> status, code |-> code] \in Process
        /\ procs' = [procs EXCEPT ![p] = [status |-> status, code |-> code]]
        /\ UNCHANGED <<pc, expired, pid, result, lost, failed>>
    BY <1>16 DEF ProcessEnds, Process
  <2>2. /\ procs' \in Seq(Process) /\ Len(procs') = Len(procs)
        /\ procs'[p].status # "running"
        /\ \A n \in 1 .. Len(procs) : n # p => procs'[n] = procs[n]
    BY <2>1, ChangedProcs
  <2>3. pid # 0 => pid \in 1 .. Len(procs)
    BY <1>0
  <2>4. QED
    BY <2>1, <2>2, <2>3, <1>0
<1>17. CASE Expire
  BY <1>17, <1>0 DEF Expire
<1>18. CASE UNCHANGED vars
  BY <1>18, <1>0 DEF vars
<1>19. QED
  BY <1>1, <1>2, <1>3, <1>4, <1>5, <1>6, <1>7, <1>8, <1>9, <1>10, <1>11, <1>12,
     <1>13, <1>14, <1>15, <1>16, <1>17, <1>18
  DEF Next, HandlerStep

LEMMA InvCorrect == Spec => []Inv
  BY InvInit, InvStep, PTL DEF Spec

-----------------------------------------------------------------------------
(* Every variable keeps its type: the PID is that of a started process.    *)
THEOREM TypeCorrect == Spec => []TypeOK
<1>1. Inv => TypeOK
  BY DEF Inv
<1>2. QED
  BY <1>1, InvCorrect, PTL

(* A command that is reported without an error has ended, and its exit     *)
(* code is its own if it has one.                                          *)
THEOREM SuccessesAreFinal == Spec => []SuccessIsFinal
<1>1. Inv => SuccessIsFinal
  BY DEF Inv, ResultInv, SuccessIsFinal
<1>2. QED
  BY <1>1, InvCorrect, PTL

(* A command is started a second time only when an answer was lost.        *)
THEOREM StartedOnce == Spec => []StartedOnceUnlessLost
<1>1. Inv => StartedOnceUnlessLost
  <2> SUFFICES ASSUME Inv PROVE StartedOnceUnlessLost
    OBVIOUS
  <2>1. Len(procs) \in Nat /\ lost \in Nat
    BY RunCommandAssumption DEF Inv, TypeOK
  <2>2. QED
    BY <2>1 DEF Inv, StartsCounted, StartedOnceUnlessLost
<1>2. QED
  BY <1>1, InvCorrect, PTL

(* At the end no more processes run on than answers were lost, and one     *)
(* more after a failed call: of the started ones, all but one have lost    *)
(* their answers, and that one has ended unless a call failed.             *)
THEOREM OrphansAreAccountedFor == Spec => []OrphansHaveACause
<1>1. Inv => OrphansHaveACause
  <2> SUFFICES ASSUME Inv, pc = "done"
               PROVE  Cardinality(RunningOn) <= lost + (IF failed THEN 1 ELSE 0)
    BY DEF OrphansHaveACause
  <2>1. /\ Len(procs) \in Nat /\ lost \in Nat
        /\ pid \in 0 .. Len(procs)
        /\ Len(procs) <= lost + (IF pid = 0 THEN 0 ELSE 1)
    BY RunCommandAssumption DEF Inv, TypeOK, StartsCounted
  <2>2. /\ RunningOn \subseteq 1 .. Len(procs)
        /\ ~ failed /\ pid # 0 => pid \notin RunningOn
    BY DEF Inv, TypeOK, KnownEnds, RunningOn
  <2>3. /\ IsFiniteSet(1 .. Len(procs))
        /\ Cardinality(1 .. Len(procs)) = Len(procs)
    <3>1. 1 \in Int /\ Len(procs) \in Int
      BY <2>1
    <3>2. /\ IsFiniteSet(1 .. Len(procs))
          /\ Cardinality(1 .. Len(procs))
               = IF 1 > Len(procs) THEN 0 ELSE Len(procs) - 1 + 1
      BY <3>1, FS_Interval, Zenon
    <3>3. QED
      BY <2>1, <3>2
  <2>4. CASE failed \/ pid = 0
    <3>1. Cardinality(RunningOn) <= Len(procs)
      BY <2>2, <2>3, FS_Subset
    <3>2. Cardinality(RunningOn) \in Nat
      BY <2>2, <2>3, FS_Subset, FS_CardinalityType
    <3>3. QED
      BY <2>1, <2>4, <3>1, <3>2 DEF Inv, TypeOK
  <2>5. CASE ~ failed /\ pid # 0
    <3>1. pid \in 1 .. Len(procs)
      BY <2>1, <2>5
    <3>2. /\ IsFiniteSet((1 .. Len(procs)) \ {pid})
          /\ Cardinality((1 .. Len(procs)) \ {pid}) = Len(procs) - 1
      BY <2>3, <3>1, FS_RemoveElement
    <3>3. RunningOn \subseteq (1 .. Len(procs)) \ {pid}
      BY <2>2, <2>5
    <3>4. Cardinality(RunningOn) <= Cardinality((1 .. Len(procs)) \ {pid})
      BY <3>2, <3>3, FS_Subset
    <3>5. Cardinality(RunningOn) \in Nat
      BY <3>2, <3>3, FS_Subset, FS_CardinalityType
    <3>6. QED
      BY <2>1, <2>5, <3>2, <3>4, <3>5
  <2>6. QED
    BY <2>4, <2>5
<1>2. QED
  BY <1>1, InvCorrect, PTL
=============================================================================
