----------------------------- MODULE RunCommand -----------------------------
(***************************************************************************)
(* One shell command in a sandbox: runCommand of the tool server against   *)
(* the process API of Tensorlake, and the answer that the bash tool makes  *)
(* of it.                                                                  *)
(*                                                                         *)
(* The API is remote.  A call can fail before it reaches Tensorlake, and   *)
(* it can take effect and its answer be lost.  All calls but the last one, *)
(* which kills the process, carry a context with the command's deadline: a *)
(* call that the deadline cuts off has failed as well.  The process runs   *)
(* on its own meanwhile.                                                   *)
(***************************************************************************)
EXTENDS Integers, Sequences, FiniteSets

CONSTANT MaxLost      \* bound: how many answers of StartProcess are lost

ASSUME RunCommandAssumption == MaxLost \in Nat

VARIABLES
    pc,        \* the next step of runCommand
    expired,   \* ctx.Done() is closed: the deadline passed, or the caller left
    procs,     \* Tensorlake: the processes that were started, in order
    pid,       \* proc.PID, an index of procs, 0 before there is one
    result,    \* what runCommand returns and bash answers
    lost,      \* history: how many answers of StartProcess were lost
    failed     \* history: a call failed after the process was started

vars == <<pc, expired, procs, pid, result, lost, failed>>

Process == [status : {"running", "exited", "signaled"}, code : {0, 1}]

\* err is the error of runCommand, which Bash answers as timed_out.
Result == [err : BOOLEAN, exit_code : {-1, 0, 1}]

NoResult == [err |-> FALSE, exit_code |-> -1]

TypeOK ==
    /\ pc \in {"ensure", "start", "backoff", "poll", "wait", "stdout", "stderr",
               "exit", "done"}
    /\ expired \in BOOLEAN
    /\ procs \in Seq(Process)
    /\ pid \in 0 .. Len(procs)
    /\ result \in Result
    /\ lost \in 0 .. MaxLost
    /\ failed \in BOOLEAN

Init ==
    /\ pc = "ensure"
    /\ expired = FALSE
    /\ procs = <<>>
    /\ pid = 0
    /\ result = NoResult
    /\ lost = 0
    /\ failed = FALSE

-----------------------------------------------------------------------------
(* ensureSandbox found a sandbox, and the context gets its deadline.  With *)
(* a negative timeout_sec it is done from the start.                       *)
Ensure ==
    /\ pc = "ensure"
    /\ expired' \in BOOLEAN
    /\ pc' = "start"
    /\ UNCHANGED <<procs, pid, result, lost, failed>>

(* runCommand returns an error.                                            *)
ReturnError ==
    /\ pc' = "done"
    /\ result' = [err |-> TRUE, exit_code |-> -1]

EnsureFails ==
    /\ pc = "ensure"
    /\ ReturnError
    /\ UNCHANGED <<expired, procs, pid, lost, failed>>

Launched == procs' = Append(procs, [status |-> "running", code |-> 0])

\* Mutant: the PID is taken to count from one more.
StartAcceptedOffByOne ==
    /\ pc = "start"
    /\ ~ expired
    /\ Launched
    /\ pid' = Len(procs') + 1
    /\ pc' = "poll"
    /\ UNCHANGED <<expired, result, lost, failed>>

(* StartProcess: a process is started, and its PID answered.               *)
StartAccepted ==
    /\ pc = "start"
    /\ ~ expired
    /\ Launched
    /\ pid' = Len(procs')
    /\ pc' = "poll"
    /\ UNCHANGED <<expired, result, lost, failed>>

(* StartProcess: a process is started, and the answer does not arrive.     *)
StartAnswerLost ==
    /\ pc = "start"
    /\ ~ expired
    /\ lost < MaxLost
    /\ Launched
    /\ lost' = lost + 1
    /\ pc' = "backoff"
    /\ UNCHANGED <<expired, pid, result, failed>>

(* StartProcess fails: the sandbox is not awake, or the call never gets to *)
(* Tensorlake, as happens with a context that is done.                     *)
StartRefused ==
    /\ pc = "start"
    /\ pc' = "backoff"
    /\ UNCHANGED <<expired, procs, pid, result, lost, failed>>

\* Mutant: the loop sleeps and does not look at the context.
BackoffIgnoresDeadline ==
    /\ pc = "backoff"
    /\ pc' = "start"
    /\ UNCHANGED <<expired, procs, pid, result, lost, failed>>

(* The select after a failed start: half a second passes, or the deadline. *)
BackoffOver ==
    /\ pc = "backoff"
    /\ ~ expired
    /\ pc' = "start"
    /\ UNCHANGED <<expired, procs, pid, result, lost, failed>>

BackoffExpired ==
    /\ pc = "backoff"
    /\ expired
    /\ ReturnError
    /\ UNCHANGED <<expired, procs, pid, lost, failed>>

(* GetProcess: the status of the process.                                  *)
PollRunning ==
    /\ pc = "poll"
    /\ ~ expired
    /\ procs[pid].status = "running"
    /\ pc' = "wait"
    /\ UNCHANGED <<expired, procs, pid, result, lost, failed>>

\* Mutant: any answer of GetProcess ends the loop.
PollAnswered ==
    /\ pc = "poll"
    /\ ~ expired
    /\ pc' = "stdout"
    /\ UNCHANGED <<expired, procs, pid, result, lost, failed>>

PollFinished ==
    /\ pc = "poll"
    /\ ~ expired
    /\ procs[pid].status # "running"
    /\ pc' = "stdout"
    /\ UNCHANGED <<expired, procs, pid, result, lost, failed>>

(* The select after a poll: a quarter of a second passes, or the deadline, *)
(* and then the process is killed.  The result of the kill is ignored.     *)
WaitOver ==
    /\ pc = "wait"
    /\ ~ expired
    /\ pc' = "poll"
    /\ UNCHANGED <<expired, procs, pid, result, lost, failed>>

Killed(p) == IF p.status = "running" THEN [p EXCEPT !.status = "signaled"] ELSE p

\* Mutant: the process is left alone at the deadline.
WaitExpiredNoKill ==
    /\ pc = "wait"
    /\ expired
    /\ ReturnError
    /\ UNCHANGED <<expired, procs, pid, lost, failed>>

WaitExpired ==
    /\ pc = "wait"
    /\ expired
    /\ ReturnError
    /\ procs' = [procs EXCEPT ![pid] = Killed(@)]
    /\ UNCHANGED <<expired, pid, lost, failed>>

KillFails ==
    /\ pc = "wait"
    /\ expired
    /\ ReturnError
    /\ failed' = TRUE
    /\ UNCHANGED <<expired, procs, pid, lost>>

(* GetProcessStdout and GetProcessStderr.                                  *)
Collect ==
    /\ pc \in {"stdout", "stderr"}
    /\ ~ expired
    /\ pc' = IF pc = "stdout" THEN "stderr" ELSE "exit"
    /\ UNCHANGED <<expired, procs, pid, result, lost, failed>>

(* The last GetProcess: the exit code.  A process that a signal ended has  *)
(* none, and the pointer is nil.                                           *)
ReportExit ==
    /\ pc = "exit"
    /\ ~ expired
    /\ pc' = "done"
    /\ result' = [err |-> FALSE,
                  exit_code |-> IF procs[pid].status = "exited"
                                  THEN procs[pid].code ELSE 0]
    /\ UNCHANGED <<expired, procs, pid, lost, failed>>

\* Mutant: a failed status query starts the command anew.
PollFailureRestarts ==
    /\ pc \in {"poll", "stdout", "stderr", "exit"}
    /\ pc' = "start"
    /\ failed' = TRUE
    /\ UNCHANGED <<expired, procs, pid, result, lost>>

(* A call after the start fails, or the deadline cuts it off: runCommand   *)
(* returns the error at once, and leaves the process as it is.             *)
CallFails ==
    /\ pc \in {"poll", "stdout", "stderr", "exit"}
    /\ ReturnError
    /\ failed' = TRUE
    /\ UNCHANGED <<expired, procs, pid, lost>>

(* A process ends by itself, or by a signal.                               *)
ProcessEnds(p, status, code) ==
    /\ procs[p].status = "running"
    /\ procs' = [procs EXCEPT ![p] = [status |-> status, code |-> code]]
    /\ UNCHANGED <<pc, expired, pid, result, lost, failed>>

(* The deadline passes, or the request of the caller is cancelled.         *)
Expire ==
    /\ pc \notin {"ensure", "done"}
    /\ ~ expired
    /\ expired' = TRUE
    /\ UNCHANGED <<pc, procs, pid, result, lost, failed>>

HandlerStep ==
    \/ Ensure
    \/ EnsureFails
    \/ StartAccepted \/ StartAnswerLost \/ StartRefused
    \/ BackoffOver \/ BackoffExpired
    \/ PollRunning \/ PollFinished
    \/ WaitOver \/ WaitExpired \/ KillFails
    \/ Collect \/ ReportExit \/ CallFails

Next ==
    \/ HandlerStep
    \/ \E p \in DOMAIN procs :
          \/ \E code \in {0, 1} : ProcessEnds(p, "exited", code)
          \/ ProcessEnds(p, "signaled", 0)
    \/ Expire

Spec == Init /\ [][Next]_vars

(* The goroutine runs, its remote calls end, in an answer or an error, and *)
(* the timer of the context fires.  The process need not end.              *)
FairSpec == Spec /\ WF_vars(HandlerStep) /\ WF_vars(Expire)

-----------------------------------------------------------------------------
(* A command that is reported without an error has ended: its output is    *)
(* complete, and an exit code other than 0 is reported as it is.           *)
SuccessIsFinal ==
    pc = "done" /\ ~ result.err =>
        /\ procs[pid].status # "running"
        /\ procs[pid].status = "exited" => result.exit_code = procs[pid].code

(* When runCommand has returned, no process of its command runs on in the  *)
(* sandbox but for those it cannot know of, because the answer to their    *)
(* start was lost, and one that it gave up when a later call failed.       *)
RunningOn == {p \in DOMAIN procs : procs[p].status = "running"}

OrphansHaveACause ==
    pc = "done" => Cardinality(RunningOn) <= lost + (IF failed THEN 1 ELSE 0)

(* The command is started once, but for the answers that were lost.        *)
StartedOnceUnlessLost == Len(procs) <= 1 + lost

(* Every command comes to an end: its deadline ends the wait for a sandbox *)
(* that does not wake up and for a process that does not end.              *)
Returns == pc = "start" ~> pc = "done"

(* What the comment in runCommand says, `keep retrying process creation    *)
(* until Tensorlake accepts it': there is no attempt after one that        *)
(* Tensorlake accepted, so the command runs once.                          *)
RetryEndsWithAcceptance == Len(procs) <= 1
=============================================================================
