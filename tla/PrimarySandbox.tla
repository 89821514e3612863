--------------------------- MODULE PrimarySandbox ---------------------------
(***************************************************************************)
(* The primary sandbox of one Tensorlake account, as the tool calls of the *)
(* MCP service see it.  The service runs as several processes (Instance).  *)
(* All of them share the account's row in PostgreSQL, which holds the id   *)
(* of the primary sandbox.  Each keeps one `server' object per account,    *)
(* with two caches, the last sandbox id it saw and the $HOME directory of  *)
(* that sandbox, and a mutex for each.                                     *)
(*                                                                         *)
(* A tool call is a goroutine of one instance.  It is a short sequence of  *)
(* phases (Program), and most phases resolve the primary sandbox anew with *)
(* ensureSandbox.  Every database read, critical section and remote call   *)
(* is a step of its own: other calls and other instances run between them. *)
(*                                                                         *)
(* The critical sections of sandboxMu contain no call that can block, so   *)
(* each is one step and sandboxMu needs no variable.  homeMu is held by    *)
(* sandboxHomeDir across a whole remote command, so it is a variable.      *)
(***************************************************************************)
EXTENDS Naturals, Sequences

CONSTANTS
    Instance,   \* processes of the service
    Call,       \* slots for tool calls: goroutines
    Host,       \* Host[c]: the instance that serves the calls of slot c
    Sandbox,    \* sandboxes that exist in Tensorlake
    Path,       \* absolute directory names
    Home,       \* Home[s]: what `printf '%s' "$HOME"' prints in sandbox s
    Tools,      \* the tools that calls may run
    NoSandbox,  \* the empty sandbox id, or no account row, or a NULL column
    NoPath,     \* the empty string of homeDir
    NoCall      \* holder of a free homeMu

(* The phases of the tools, in the order of the code.                      *)
(*   "ensure"  sandboxID, err := s.ensureSandbox(ctx)                      *)
(*   "home"    home, err := s.sandboxHomeDir(ctx)                          *)
(*   "run"     s.runCommand(...), an error ends the call                   *)
(*   "mkdir"   s.runCommand(ctx, "mkdir -p ..."), an error is ignored      *)
(*   "file"    Read/WriteSandboxFile(ctx, sandboxID, ...)                  *)
(*   "fetch"   the download of an upload, the parse job of a document      *)
(*   "set"     setPrimarySandboxID and the cache update after it           *)
(* A call that names its path skips "home" and looks like another tool: a  *)
(* glob is a bash, an upload a parse that ends early.  The second commands *)
(* of glob and of readPDF depend on the first: skipping them is an early   *)
(* end of the call.                                                        *)
Phase == {"ensure", "home", "run", "mkdir", "file", "fetch", "set"}

Bash           == <<"run">>
bashBackground == <<"ensure", "run">>
FileRead       == <<"ensure", "file">>
readPDF        == <<"ensure", "run", "run">>
FileEdit       == <<"ensure", "file", "file">>
FileWrite      == <<"ensure", "mkdir", "file">>
Grep           == <<"home", "run">>
Glob           == <<"home", "run", "run">>
Upload         == <<"ensure", "fetch", "home", "file">>
Parse          == <<"ensure", "file", "fetch", "home", "mkdir", "file">>
SetSandbox     == <<"set">>

(* list_sandboxes only reads, and bash_status resolves no sandbox: neither *)
(* has a program.                                                          *)
Program ==
    [ bash |-> Bash, bash_background |-> bashBackground,
      file_read |-> FileRead, file_read_pdf |-> readPDF,
      file_edit |-> FileEdit, file_write |-> FileWrite,
      grep |-> Grep, glob |-> Glob, upload |-> Upload, parse |-> Parse,
      set_sandbox |-> SetSandbox ]

ASSUME ConstantsAssumption ==
    /\ Host \in [Call -> Instance]
    /\ Home \in [Sandbox -> Path]
    /\ NoSandbox \notin Sandbox
    /\ NoPath \notin Path
    /\ NoCall \notin Call
    /\ Tools \subseteq DOMAIN Program

VARIABLES
    primary,    \* tensorlake_accounts.primary_sandbox_id of the account
    sandboxID,  \* server.sandboxID of each instance
    homeDir,    \* server.homeDir of each instance
    homeMu,     \* the call that holds server.homeMu of each instance
    pc,         \* where a call is inside its current phase
    todo,       \* the phases a call has left, the current one first
    id,         \* the sandbox id ensureSandbox works on in this phase
    sid,        \* the sandboxID local of the tool, from its "ensure" phase
    path,       \* the directory the tool got from sandboxHomeDir
    seen        \* history: every value of primary since the call began

db     == <<primary>>
caches == <<sandboxID, homeDir, homeMu>>
locals == <<pc, todo, id, sid, path, seen>>
vars   == <<primary, sandboxID, homeDir, homeMu,
            pc, todo, id, sid, path, seen>>

SandboxOrNone == Sandbox \cup {NoSandbox}

TypeOK ==
    /\ primary \in SandboxOrNone
    /\ sandboxID \in [Instance -> SandboxOrNone]
    /\ homeDir \in [Instance -> Path \cup {NoPath}]
    /\ homeMu \in [Instance -> Call \cup {NoCall}]
    /\ pc \in [Call -> {"idle", "next", "load", "store", "clear", "ready"}]
    /\ todo \in [Call -> Seq(Phase)]
    /\ id \in [Call -> SandboxOrNone]
    /\ sid \in [Call -> SandboxOrNone]
    /\ path \in [Call -> Path \cup {NoPath}]
    /\ seen \in [Call -> SUBSET SandboxOrNone]

-----------------------------------------------------------------------------
At(c, label, phases) ==
    /\ pc[c] = label
    /\ todo[c] # <<>>
    /\ Head(todo[c]) \in phases

\* The call leaves its current phase.
PhaseDone(c) ==
    /\ pc' = [pc EXCEPT ![c] = "next"]
    /\ todo' = [todo EXCEPT ![c] = Tail(@)]

\* The calls of C are over: their locals go out of scope.
Ended(C) ==
    LET Cleared(f, none) == [c \in Call |-> IF c \in C THEN none ELSE f[c]]
    IN  /\ pc' = Cleared(pc, "idle")
        /\ todo' = Cleared(todo, <<>>)
        /\ id' = Cleared(id, NoSandbox)
        /\ sid' = Cleared(sid, NoSandbox)
        /\ path' = Cleared(path, NoPath)
        /\ seen' = Cleared(seen, {})

\* The deferred homeMu.Unlock() of sandboxHomeDir, if c is inside it.
Unlocked(c) ==
    [i \in Instance |-> IF homeMu[i] = c THEN NoCall ELSE homeMu[i]]

Init ==
    /\ primary \in SandboxOrNone
    /\ sandboxID = [i \in Instance |-> NoSandbox]
    /\ homeDir = [i \in Instance |-> NoPath]
    /\ homeMu = [i \in Instance |-> NoCall]
    /\ pc = [c \in Call |-> "idle"]
    /\ todo = [c \in Call |-> <<>>]
    /\ id = [c \in Call |-> NoSandbox]
    /\ sid = [c \in Call |-> NoSandbox]
    /\ path = [c \in Call |-> NoPath]
    /\ seen = [c \in Call |-> {}]

(* A tool call reaches an instance.                                        *)
Begin(c, t) ==
    /\ pc[c] = "idle"
    /\ pc' = [pc EXCEPT ![c] = "next"]
    /\ todo' = [todo EXCEPT ![c] = Program[t]]
    /\ seen' = [seen EXCEPT ![c] = {primary}]
    /\ UNCHANGED <<db, caches, id, sid, path>>

(* sandboxHomeDir up to the remote command: take homeMu, and return the    *)
(* cached directory at once when there is one.                             *)
BeginHome(c) ==
    LET i == Host[c] IN
    /\ At(c, "next", {"home"})
    /\ homeMu[i] = NoCall
    /\ \/ /\ homeDir[i] # NoPath
          /\ PhaseDone(c)
          /\ path' = [path EXCEPT ![c] = homeDir[i]]
          /\ UNCHANGED homeMu
       \/ /\ homeDir[i] = NoPath
          /\ homeMu' = [homeMu EXCEPT ![i] = c]
          /\ pc' = [pc EXCEPT ![c] = "load"]
          /\ UNCHANGED <<todo, path>>
    /\ UNCHANGED <<db, sandboxID, homeDir, id, sid, seen>>

(* Mutant: the cached sandbox id saves the database query.                 *)
LoadCached(c) ==
    LET i == Host[c] IN
    /\ \/ At(c, "next", {"ensure", "run", "mkdir"})
       \/ At(c, "load", {"home"})
    /\ {primary, sandboxID[i]} # {NoSandbox}
    /\ id' = [id EXCEPT ![c] = IF sandboxID[i] # NoSandbox THEN sandboxID[i] ELSE primary]
    /\ pc' = [pc EXCEPT ![c] = "store"]
    /\ UNCHANGED <<db, caches, todo, sid, path, seen>>

(* ensureSandbox, first part: loadPrimarySandboxID.  An empty result ends  *)
(* the phase with an error, see Abort.                                     *)
LoadPrimary(c) ==
    /\ \/ At(c, "next", {"ensure", "run", "mkdir"})
       \/ At(c, "load", {"home"})
    /\ primary # NoSandbox
    /\ id' = [id EXCEPT ![c] = primary]
    /\ pc' = [pc EXCEPT ![c] = "store"]
    /\ UNCHANGED <<db, caches, todo, sid, path, seen>>

(* SetSandbox, first part: the sandbox exists, and its id is written to    *)
(* the account's row.                                                      *)
PersistPrimary(c, s) ==
    /\ At(c, "next", {"set"})
    /\ primary' = s
    /\ id' = [id EXCEPT ![c] = s]
    /\ pc' = [pc EXCEPT ![c] = "store"]
    /\ seen' = [d \in Call |-> IF pc[d] = "idle" THEN seen[d]
                                                 ELSE seen[d] \cup {s}]
    /\ UNCHANGED <<caches, todo, sid, path>>

(* Mutant: the ids are compared after the assignment.                      *)
StoreThenCompare(c) ==
    LET i == Host[c] IN
    /\ pc[c] = "store"
    /\ sandboxID' = [sandboxID EXCEPT ![i] = id[c]]
    /\ pc' = [pc EXCEPT ![c] = IF sandboxID'[i] # id[c] THEN "clear" ELSE "ready"]
    /\ UNCHANGED <<db, homeDir, homeMu, todo, id, sid, path, seen>>

(* The critical section of sandboxMu, the same code in ensureSandbox and   *)
(* in SetSandbox.                                                          *)
StoreSandboxID(c) ==
    LET i == Host[c] IN
    /\ pc[c] = "store"
    /\ sandboxID' = [sandboxID EXCEPT ![i] = id[c]]
    /\ pc' = [pc EXCEPT ![c] = IF sandboxID[i] # id[c] THEN "clear" ELSE "ready"]
    /\ UNCHANGED <<db, homeDir, homeMu, todo, id, sid, path, seen>>

(* The cached home directory is dropped after the id changed.  homeMu is   *)
(* not reentrant: a call that holds it waits here for itself.              *)
ClearHomeDir(c) ==
    LET i == Host[c] IN
    /\ pc[c] = "clear"
    /\ homeMu[i] = NoCall
    /\ homeDir' = [homeDir EXCEPT ![i] = NoPath]
    /\ pc' = [pc EXCEPT ![c] = "ready"]
    /\ UNCHANGED <<db, sandboxID, homeMu, todo, id, sid, path, seen>>

(* The tool keeps the sandbox id that ensureSandbox returned.              *)
KeepSandbox(c) ==
    /\ At(c, "ready", {"ensure"})
    /\ PhaseDone(c)
    /\ sid' = [sid EXCEPT ![c] = id[c]]
    /\ UNCHANGED <<db, caches, id, path, seen>>

(* Mutant: the sandbox id is cached in place of the directory.             *)
CacheSandboxAsHome(c) ==
    /\ At(c, "ready", {"home"})
    /\ PhaseDone(c)
    /\ homeDir' = [homeDir EXCEPT ![Host[c]] = id[c]]
    /\ path' = [path EXCEPT ![c] = id[c]]
    /\ homeMu' = Unlocked(c)
    /\ UNCHANGED <<db, sandboxID, id, sid, seen>>

(* sandboxHomeDir, last part: the command ran in sandbox id[c]; its output *)
(* is cached and returned, and homeMu is released.                         *)
CacheHomeDir(c) ==
    /\ At(c, "ready", {"home"})
    /\ PhaseDone(c)
    /\ homeDir' = [homeDir EXCEPT ![Host[c]] = Home[id[c]]]
    /\ path' = [path EXCEPT ![c] = Home[id[c]]]
    /\ homeMu' = Unlocked(c)
    /\ UNCHANGED <<db, sandboxID, id, sid, seen>>

(* runCommand after its ensureSandbox: the process runs in sandbox id[c].  *)
(* A mkdir that fails there looks the same, see MkdirFails.                *)
Execute(c) ==
    /\ At(c, "ready", {"run", "mkdir"})
    /\ PhaseDone(c)
    /\ UNCHANGED <<db, caches, id, sid, path, seen>>

(* A file of sandbox sid[c] is read or written, or something is fetched    *)
(* from elsewhere.                                                         *)
AccessFile(c) ==
    /\ At(c, "next", {"file", "fetch"})
    /\ PhaseDone(c)
    /\ UNCHANGED <<db, caches, id, sid, path, seen>>

(* SetSandbox returns after the caches are up to date.                     *)
SelectionDone(c) ==
    /\ At(c, "ready", {"set"})
    /\ PhaseDone(c)
    /\ UNCHANGED <<db, caches, id, sid, path, seen>>

(* The mkdir of file_write and parse finds no sandbox: its error is dropped *)
(* and the call goes on.                                                   *)
MkdirFails(c) ==
    /\ At(c, "next", {"mkdir"})
    /\ PhaseDone(c)
    /\ UNCHANGED <<db, caches, id, sid, path, seen>>

Return(c) ==
    /\ pc[c] = "next"
    /\ todo[c] = <<>>
    /\ Ended({c})
    /\ UNCHANGED <<db, caches>>

(* Mutant: the unlock of sandboxHomeDir is not deferred.                   *)
AbortLocked(c) ==
    /\ \/ At(c, "next", {"ensure", "run", "file", "fetch", "set"})
       \/ At(c, "load", {"home"})
       \/ At(c, "store", {"set"})
       \/ At(c, "ready", {"home", "run"})
    /\ Ended({c})
    /\ UNCHANGED <<db, caches>>

(* A database or remote call fails, or no primary sandbox is configured:   *)
(* the tool returns the error.  The deferred unlock of sandboxHomeDir runs.*)
(* The UPDATE of SetSandbox may be committed and its answer be lost.  The  *)
(* steps on local state, and a wait for a mutex, cannot fail.              *)
Abort(c) ==
    /\ \/ At(c, "next", {"ensure", "run", "file", "fetch", "set"})
       \/ At(c, "load", {"home"})
       \/ At(c, "store", {"set"})
       \/ At(c, "ready", {"home", "run"})
    /\ Ended({c})
    /\ homeMu' = Unlocked(c)
    /\ UNCHANGED <<db, sandboxID, homeDir>>

(* An instance is replaced: its calls, caches and mutexes are gone.        *)
Restart(i) ==
    /\ sandboxID' = [sandboxID EXCEPT ![i] = NoSandbox]
    /\ homeDir' = [homeDir EXCEPT ![i] = NoPath]
    /\ homeMu' = [homeMu EXCEPT ![i] = NoCall]
    /\ Ended({c \in Call : Host[c] = i})
    /\ UNCHANGED db

Step(c) ==
    \/ BeginHome(c)
    \/ LoadPrimary(c)
    \/ \E s \in Sandbox : PersistPrimary(c, s)
    \/ StoreSandboxID(c)
    \/ ClearHomeDir(c)
    \/ KeepSandbox(c)
    \/ CacheHomeDir(c)
    \/ Execute(c)
    \/ AccessFile(c)
    \/ SelectionDone(c)
    \/ MkdirFails(c)
    \/ Return(c)
    \/ Abort(c)

Next ==
    \/ \E c \in Call, t \in Tools : Begin(c, t)
    \/ \E c \in Call : Step(c)
    \/ \E i \in Instance : Restart(i)

Spec == Init /\ [][Next]_vars

(* A goroutine that can run does run (the Go scheduler), and a database or *)
(* remote call ends, in an answer or in an error of its transport (commands *)
(* have a deadline besides, see RunCommand).  Go's mutex is handed to a    *)
(* goroutine that has waited a millisecond, so a wait for homeMu ends if   *)
(* the mutex is free again and again: strong fairness.  Calls and restarts *)
(* may never happen.                                                       *)
Fairness ==
    \A c \in Call : /\ WF_vars(Step(c))
                    /\ SF_vars(BeginHome(c))
                    /\ SF_vars(ClearHomeDir(c))

FairSpec == Spec /\ Fairness

-----------------------------------------------------------------------------
(* Safety.                                                                 *)

(* The cached home directory belongs to the cached sandbox id, unless a    *)
(* call of the instance has changed the id and is about to drop the        *)
(* directory.  So a directory resolved in the previous sandbox is never    *)
(* left in the cache after a switch, even when its resolution was under    *)
(* way during the switch: sandboxHomeDir holds homeMu from its look into   *)
(* the cache until it fills it.                                            *)
ClearPending(i) == \E c \in Call : Host[c] = i /\ pc[c] = "clear"

HomeCacheCoherent ==
    \A i \in Instance :
        homeDir[i] # NoPath =>
            \/ /\ sandboxID[i] # NoSandbox
               /\ homeDir[i] = Home[sandboxID[i]]
            \/ ClearPending(i)

(* A call acts only on sandboxes that were the primary one at some moment  *)
(* since the call began: a sandbox deselected before that, through any     *)
(* instance, is never used, whatever the caches hold.                      *)
ActsOnSelectedSandbox ==
    \A c \in Call : pc[c] # "idle" => {id[c], sid[c]} \ {NoSandbox} \subseteq seen[c]

(* What the comment of ensureSandbox promises, `sandbox changes are        *)
(* immediately visible across horizontally scaled MCP instances', for the  *)
(* directory a tool takes from sandboxHomeDir: it is the home of a sandbox *)
(* that was the primary one at some moment since the call began.           *)
HomeOfSelectedSandbox ==
    \A c \in Call : path[c] # NoPath =>
        \E s \in seen[c] \cap Sandbox : path[c] = Home[s]

-----------------------------------------------------------------------------
(* Liveness, under FairSpec.                                               *)

(* A call that began is over at some later time: in an answer, an error or *)
(* the end of its instance, but not in an endless wait for homeMu.         *)
EveryCallReturns == \A c \in Call : pc[c] # "idle" ~> pc[c] = "idle"

(* `sandboxHomeDir resolves and caches the sandbox user's $HOME            *)
(* directory': a call inside sandboxHomeDir leaves it.                     *)
InHomeDir(c) == todo[c] # <<>> /\ Head(todo[c]) = "home"

HomeDirResolves == \A c \in Call : InHomeDir(c) ~> ~InHomeDir(c)

=============================================================================
