--------------------------- MODULE BashBackground ---------------------------
(***************************************************************************)
(* Background commands: bash with run_in_background starts a goroutine and *)
(* answers with a process id, and bash_status looks the id up in a map.    *)
(* Map and counter are fields of the server object, so every instance of   *)
(* the service has its own, and a restart empties them.  The MCP endpoint  *)
(* is stateless: each request may reach another instance.                  *)
(*                                                                         *)
(* What a command does in the sandbox is in RunCommand; here it runs until *)
(* its goroutine has a result.                                             *)
(***************************************************************************)
EXTENDS Naturals, FiniteSets

CONSTANTS
    Instance,    \* processes of the service
    Job,         \* background commands that clients start
    Query,       \* calls of bash_status that are served at a time
    NoJob,       \* the job of an id that is not in the map
    MaxRestarts  \* bound: how often instances are replaced

ASSUME BackgroundAssumption == NoJob \notin Job /\ MaxRestarts \in Nat

VARIABLES
    bgCounter,    \* server.bgCounter of each instance
    bgProcesses,  \* server.bgProcesses of each instance, a set of entries
    startedAt,    \* the instance that the request to start a job reaches
    state,        \* the goroutine of a job
    handle,       \* the process id that the client got for its job, 0: none
    pc,           \* the next step of a bash_status call
    server,       \* the instance that serves the call
    about,        \* the job whose process id the caller passed
    found,        \* the local proc of the call
    answers,      \* history: what the calls answered, and about which job
    restarts      \* how often an instance was replaced

query == <<pc, server, about, found>>
vars  == <<bgCounter, bgProcesses, startedAt, state, handle, pc, server, about, found,
           answers, restarts>>

(* bg-1, bg-2, ... are numbers here.  A map is a set of entries.           *)
Entry == [id : Nat, proc : Job]

\* bash_status was asked about job `about', and its answer is about `proc'.
\* It was asked at home: by the process of the service that started the job.
Answer == [about : Job, reply : {"running", "result"}, proc : Job, home : BOOLEAN]
     \cup [about : Job, reply : {"unknown"}, proc : {NoJob}, home : BOOLEAN]

TypeOK ==
    /\ bgCounter \in [Instance -> Nat]
    /\ bgProcesses \in [Instance -> SUBSET Entry]
    /\ startedAt \in [Job -> Instance]
    /\ state \in [Job -> {"none", "running", "done", "gone"}]
    /\ handle \in [Job -> Nat]
    /\ pc \in [Query -> {"idle", "lookup", "select", "delete"}]
    /\ server \in [Query -> Instance]
    /\ about \in [Query -> Job]
    /\ found \in [Query -> Job \cup {NoJob}]
    /\ answers \subseteq Answer
    /\ restarts \in 0 .. MaxRestarts

Init ==
    /\ bgCounter = [i \in Instance |-> 0]
    /\ bgProcesses = [i \in Instance |-> {}]
    /\ startedAt \in [Job -> Instance]
    /\ state = [j \in Job |-> "none"]
    /\ handle = [j \in Job |-> 0]
    /\ pc = [q \in Query |-> "idle"]
    /\ server \in [Query -> Instance]
    /\ about \in [Query -> Job]
    /\ found = [q \in Query |-> NoJob]
    /\ answers = {}
    /\ restarts = 0

-----------------------------------------------------------------------------
(* Mutant: the id is the number of entries, which shrinks with the map.    *)
LaunchBySize(j) ==
    LET i == startedAt[j]
        n == Cardinality(bgProcesses[i]) + 1
    IN
    /\ state[j] = "none"
    /\ state' = [state EXCEPT ![j] = "running"]
    /\ handle' = [handle EXCEPT ![j] = n]
    /\ bgCounter' = [bgCounter EXCEPT ![i] = n]
    /\ bgProcesses' = [bgProcesses EXCEPT ![i] =
                         {e \in @ : e.id # n} \cup {[id |-> n, proc |-> j]}]
    /\ UNCHANGED <<startedAt, query, answers, restarts>>

(* bashBackground: the counter steps, the new entry is put into the map in *)
(* the same critical section of bgMu, and the goroutine starts.            *)
Launch(j) ==
    LET i == startedAt[j]
        n == bgCounter[i] + 1
    IN
    /\ state[j] = "none"
    /\ state' = [state EXCEPT ![j] = "running"]
    /\ handle' = [handle EXCEPT ![j] = n]
    /\ bgCounter' = [bgCounter EXCEPT ![i] = n]
    /\ bgProcesses' = [bgProcesses EXCEPT ![i] =
                         {e \in @ : e.id # n} \cup {[id |-> n, proc |-> j]}]
    /\ UNCHANGED <<startedAt, query, answers, restarts>>

(* The goroutine stores its result and closes done.                        *)
Finish(j) ==
    /\ state[j] = "running"
    /\ state' = [state EXCEPT ![j] = "done"]
    /\ UNCHANGED <<bgCounter, bgProcesses, startedAt, handle, query, answers, restarts>>

(* A client that was given a process id asks for the status.               *)
Ask(q, j, i) ==
    /\ pc[q] = "idle"
    /\ state[j] # "none"
    /\ pc' = [pc EXCEPT ![q] = "lookup"]
    /\ server' = [server EXCEPT ![q] = i]
    /\ about' = [about EXCEPT ![q] = j]
    /\ UNCHANGED <<bgCounter, bgProcesses, startedAt, state, handle, found, answers, restarts>>

AtHome(q) == startedAt[about[q]] = server[q] /\ state[about[q]] # "gone"

Reply(q, reply, j) ==
    /\ pc' = [pc EXCEPT ![q] = "idle"]
    /\ found' = [found EXCEPT ![q] = NoJob]
    /\ answers' = answers \cup
          {[about |-> about[q], reply |-> reply, proc |-> j, home |-> AtHome(q)]}

\* Mutant: the entry is removed when the status is asked, done or not.
DeleteFirst(q) ==
    LET i == server[q]
        hits == {e \in bgProcesses[i] : e.id = handle[about[q]]}
    IN
    /\ pc[q] = "lookup"
    /\ \/ \E e \in hits :
            /\ found' = [found EXCEPT ![q] = e.proc]
            /\ pc' = [pc EXCEPT ![q] = "select"]
            /\ UNCHANGED answers
       \/ hits = {} /\ Reply(q, "unknown", NoJob)
    /\ bgProcesses' = [bgProcesses EXCEPT ![i] = @ \ hits]
    /\ UNCHANGED <<bgCounter, startedAt, state, handle, server, about, restarts>>

(* BashStatus: the id is looked up under bgMu.                             *)
Lookup(q) ==
    LET hits == {e \in bgProcesses[server[q]] : e.id = handle[about[q]]} IN
    /\ pc[q] = "lookup"
    /\ \/ \E e \in hits :
            /\ found' = [found EXCEPT ![q] = e.proc]
            /\ pc' = [pc EXCEPT ![q] = "select"]
            /\ UNCHANGED answers
       \/ hits = {} /\ Reply(q, "unknown", NoJob)
    /\ UNCHANGED <<bgCounter, bgProcesses, startedAt, state, handle, server, about, restarts>>

(* BashStatus, the select: done is closed, or the job is still running.    *)
Select(q) ==
    /\ pc[q] = "select"
    /\ \/ /\ state[found[q]] = "done"
          /\ pc' = [pc EXCEPT ![q] = "delete"]
          /\ UNCHANGED <<found, answers>>
       \/ /\ state[found[q]] = "running"
          /\ Reply(q, "running", found[q])
    /\ UNCHANGED <<bgCounter, bgProcesses, startedAt, state, handle, server, about, restarts>>

\* Mutant: the answer is made from the entry after it was deleted.
DeleteThenLookAgain(q) ==
    LET i == server[q] IN
    /\ pc[q] = "delete"
    /\ bgProcesses' = [bgProcesses EXCEPT ![i] = {e \in @ : e.id # handle[about[q]]}]
    /\ Reply(q, "result", NoJob)
    /\ UNCHANGED <<bgCounter, startedAt, state, handle, server, about, restarts>>

(* BashStatus: the entry is deleted under bgMu, and the result answered.   *)
Delete(q) ==
    LET i == server[q] IN
    /\ pc[q] = "delete"
    /\ bgProcesses' = [bgProcesses EXCEPT ![i] = {e \in @ : e.id # handle[about[q]]}]
    /\ Reply(q, "result", found[q])
    /\ UNCHANGED <<bgCounter, startedAt, state, handle, server, about, restarts>>

(* An instance is replaced: its map, its counter, its goroutines and its   *)
(* calls are gone.  The commands may run on in their sandbox.              *)
Restart(i) ==
    /\ restarts < MaxRestarts
    /\ restarts' = restarts + 1
    /\ bgCounter' = [bgCounter EXCEPT ![i] = 0]
    /\ bgProcesses' = [bgProcesses EXCEPT ![i] = {}]
    /\ state' = [j \in Job |-> IF startedAt[j] = i /\ state[j] # "none"
                                 THEN "gone" ELSE state[j]]
    /\ pc' = [q \in Query |-> IF server[q] = i THEN "idle" ELSE pc[q]]
    /\ found' = [q \in Query |-> IF server[q] = i THEN NoJob ELSE found[q]]
    /\ UNCHANGED <<startedAt, handle, server, about, answers>>

Next ==
    \/ \E j \in Job : Launch(j) \/ Finish(j)
    \/ \E q \in Query, j \in Job, i \in Instance : Ask(q, j, i)
    \/ \E q \in Query : Lookup(q) \/ Select(q) \/ Delete(q)
    \/ \E i \in Instance : Restart(i)

Spec == Init /\ [][Next]_vars

-----------------------------------------------------------------------------
(* The result of a command is not forgotten before it was answered: it is  *)
(* in the map, or a call is about to answer it, or did, or its instance is *)
(* gone.  Two calls that find it at the same time both answer it.          *)
ResultKept ==
    \A j \in Job : state[j] \in {"running", "done"} =>
        \/ \E i \in Instance : [id |-> handle[j], proc |-> j] \in bgProcesses[i]
        \/ \E q \in Query : pc[q] = "delete" /\ found[q] = j
        \/ \E a \in answers : a.reply = "result" /\ a.proc = j

(* A process that is asked for a command it started itself answers with    *)
(* that command, and does not know it only when its output was answered    *)
(* before: its ids are never used twice, and of calls that overlap none    *)
(* takes the entry away from the others too early.                         *)
AnswersOwnCommandAtHome ==
    \A a \in answers : a.home => a.proc \in {a.about, NoJob}

UnknownAtHomeOnlyAfterResult ==
    \A a \in answers : a.home /\ a.reply = "unknown" =>
        \E b \in answers : b.reply = "result" /\ b.proc = a.about

(* What the description of bash_status says of the process_id `returned by *)
(* bash': the output it returns is that of the command that the id was     *)
(* returned for.  (`running' about another command is not held against it  *)
(* here: the client cannot tell.)                                          *)
AnswersOwnCommand == \A a \in answers : a.reply = "result" => a.proc = a.about
=============================================================================
