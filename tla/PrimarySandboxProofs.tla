------------------------ MODULE PrimarySandboxProofs ------------------------
(***************************************************************************)
(* Proofs about PrimarySandbox for every number of instances, calls and    *)
(* sandboxes and every set of tools: type correctness, the coherence of    *)
(* the cached home directory and the freshness of the sandboxes that calls *)
(* act on.                                                                 *)
(***************************************************************************)
EXTENDS PrimarySandbox, TLAPS

Label == {"idle", "next", "load", "store", "clear", "ready"}

(* Where a call can be inside a phase.  A call that is past the database    *)
(* query of a phase knows a sandbox.                                       *)
PhaseInv ==
    \A c \in Call :
        /\ pc[c] = "load" => InHomeDir(c)
        /\ pc[c] \in {"store", "clear", "ready"} =>
                todo[c] # <<>> /\ id[c] # NoSandbox
        /\ pc[c] = "idle" => id[c] = NoSandbox /\ sid[c] = NoSandbox

(* homeMu is held by exactly the calls that are inside sandboxHomeDir      *)
(* after their look into the cache, and the cache stays empty meanwhile.   *)
Resolving(c) == InHomeDir(c) /\ pc[c] \in {"load", "store", "clear", "ready"}

MutexInv ==
    /\ \A c \in Call : Resolving(c) => homeMu[Host[c]] = c
    /\ \A i \in Instance : homeMu[i] # NoCall =>
            /\ Host[homeMu[i]] = i
            /\ Resolving(homeMu[i])

(* The command of sandboxHomeDir runs in the sandbox whose id is cached,   *)
(* unless another call of the instance waits to drop the result.           *)
ResolvesCachedSandbox ==
    \A c \in Call : InHomeDir(c) /\ pc[c] = "ready" =>
        id[c] = sandboxID[Host[c]] \/ ClearPending(Host[c])

SeenInv ==
    /\ \A c \in Call : pc[c] # "idle" => primary \in seen[c]
    /\ ActsOnSelectedSandbox

Inv ==
    /\ TypeOK
    /\ PhaseInv
    /\ MutexInv
    /\ ResolvesCachedSandbox
    /\ HomeCacheCoherent
    /\ SeenInv

-----------------------------------------------------------------------------
LEMMA PhaseMembers ==
    /\ "ensure" \in Phase /\ "home" \in Phase /\ "run" \in Phase
    /\ "mkdir" \in Phase /\ "file" \in Phase
    /\ "fetch" \in Phase /\ "set" \in Phase
  BY DEF Phase

LEMMA ProgramType == \A t \in Tools : Program[t] \in Seq(Phase)
<1>1. Program["bash"] \in Seq(Phase)
  BY PhaseMembers DEF Program, Bash
<1>2. Program["bash_background"] \in Seq(Phase)
  BY PhaseMembers DEF Program, bashBackground
<1>3. Program["file_read"] \in Seq(Phase)
  BY PhaseMembers DEF Program, FileRead
<1>4. Program["file_read_pdf"] \in Seq(Phase)
  BY PhaseMembers DEF Program, readPDF
<1>5. Program["file_edit"] \in Seq(Phase)
  BY PhaseMembers DEF Program, FileEdit
<1>6. Program["file_write"] \in Seq(Phase)
  BY PhaseMembers DEF Program, FileWrite
<1>7. Program["grep"] \in Seq(Phase)
  BY PhaseMembers DEF Program, Grep
<1>8. Program["glob"] \in Seq(Phase)
  BY PhaseMembers DEF Program, Glob
<1>9. Program["upload"] \in Seq(Phase)
  BY PhaseMembers DEF Program, Upload
<1>10. Program["parse"] \in Seq(Phase)
  BY PhaseMembers DEF Program, Parse
<1>11. Program["set_sandbox"] \in Seq(Phase)
  BY PhaseMembers DEF Program, SetSandbox
<1>12. DOMAIN Program = {"bash", "bash_background", "file_read", "file_read_pdf",
                          "file_edit", "file_write", "grep", "glob", "upload",
                          "parse", "set_sandbox"}
  BY DEF Program
<1>13. QED
  BY ConstantsAssumption, <1>1, <1>2, <1>3, <1>4, <1>5, <1>6, <1>7, <1>8, <1>9,
     <1>10, <1>11, <1>12

LEMMA TailType == ASSUME NEW s \in Seq(Phase), s # <<>>
                  PROVE  Tail(s) \in Seq(Phase)
  OBVIOUS

(* The initial states.                                                     *)
LEMMA InvInit == Init => Inv
  BY ConstantsAssumption
  DEF Init, Inv, TypeOK, PhaseInv, MutexInv, Resolving, InHomeDir,
      ResolvesCachedSandbox, HomeCacheCoherent, ClearPending, SeenInv,
      ActsOnSelectedSandbox, SandboxOrNone

(* Type correctness: one step for each action.                             *)
LEMMA TypeStep == Inv /\ [Next]_vars => TypeOK'
<1> SUFFICES ASSUME Inv, [Next]_vars PROVE TypeOK'
  OBVIOUS
<1> USE ConstantsAssumption DEF Inv, TypeOK, SandboxOrNone
<1>1. ASSUME NEW c \in Call, NEW t \in Tools, Begin(c, t)
      PROVE  TypeOK'
  BY <1>1, ProgramType DEF Begin, db, caches
<1>2. ASSUME NEW c \in Call, BeginHome(c)
      PROVE  TypeOK'
  <2>1. Host[c] \in Instance
    OBVIOUS
  <2>2. CASE homeDir[Host[c]] # NoPath
    <3>1. Tail(todo[c]) \in Seq(Phase)
      BY <1>2, TailType DEF BeginHome, At
    <3>2. /\ PhaseDone(c)
          /\ path' = [path EXCEPT ![c] = homeDir[Host[c]]]
          /\ UNCHANGED <<primary, sandboxID, homeDir, homeMu, id, sid, seen>>
      BY <1>2, <2>2 DEF BeginHome, db
    <3>3. pc' \in [Call -> Label] /\ todo' \in [Call -> Seq(Phase)]
      BY <3>1, <3>2 DEF PhaseDone, Label
    <3>4. path' \in [Call -> Path \cup {NoPath}]
      BY <2>1, <3>2
    <3>5. QED
      BY <3>2, <3>3, <3>4 DEF Label
  <2>3. CASE homeDir[Host[c]] = NoPath
    BY <1>2, <2>1, <2>3 DEF BeginHome, db
  <2>4. QED
    BY <2>2, <2>3
<1>3. ASSUME NEW c \in Call, LoadPrimary(c)
      PROVE  TypeOK'
  BY <1>3 DEF LoadPrimary, db, caches
<1>4. ASSUME NEW c \in Call, NEW s \in Sandbox, PersistPrimary(c, s)
      PROVE  TypeOK'
  BY <1>4 DEF PersistPrimary, caches
<1>5. ASSUME NEW c \in Call, StoreSandboxID(c)
      PROVE  TypeOK'
  BY <1>5 DEF StoreSandboxID, db
<1>6. ASSUME NEW c \in Call, ClearHomeDir(c)
      PROVE  TypeOK'
  BY <1>6 DEF ClearHomeDir, db
<1>7. ASSUME NEW c \in Call, KeepSandbox(c)
      PROVE  TypeOK'
  BY <1>7, TailType DEF KeepSandbox, At, PhaseDone, db, caches
<1>8. ASSUME NEW c \in Call, CacheHomeDir(c)
      PROVE  TypeOK'
  BY <1>8, TailType DEF CacheHomeDir, At, PhaseDone, Unlocked, PhaseInv, db
<1>9. ASSUME NEW c \in Call, Execute(c)
      PROVE  TypeOK'
  BY <1>9, TailType DEF Execute, At, PhaseDone, db, caches
<1>10. ASSUME NEW c \in Call, AccessFile(c)
      PROVE  TypeOK'
  BY <1>10, TailType DEF AccessFile, At, PhaseDone, db, caches
<1>11. ASSUME NEW c \in Call, SelectionDone(c)
      PROVE  TypeOK'
  BY <1>11, TailType DEF SelectionDone, At, PhaseDone, db, caches
<1>12. ASSUME NEW c \in Call, MkdirFails(c)
      PROVE  TypeOK'
  BY <1>12, TailType DEF MkdirFails, At, PhaseDone, db, caches
<1>13. ASSUME NEW c \in Call, Return(c)
      PROVE  TypeOK'
  BY <1>13 DEF Return, Ended, db, caches
<1>14. ASSUME NEW c \in Call, Abort(c)
      PROVE  TypeOK'
  BY <1>14 DEF Abort, Ended, Unlocked, db
<1>15. ASSUME NEW i \in Instance, Restart(i)
      PROVE  TypeOK'
  BY <1>15 DEF Restart, Ended, db
<1>16. CASE UNCHANGED vars
  BY <1>16 DEF vars
<1>17. QED
  BY <1>1, <1>2, <1>3, <1>4, <1>5, <1>6, <1>7, <1>8, <1>9, <1>10, <1>11, <1>12,
     <1>13, <1>14, <1>15, <1>16
  DEF Next, Step

LEMMA PhaseStep == Inv /\ [Next]_vars => PhaseInv'
<1> SUFFICES ASSUME Inv, [Next]_vars, TypeOK' PROVE PhaseInv'
  BY TypeStep
<1> USE ConstantsAssumption DEF Inv, TypeOK, SandboxOrNone, db, caches, PhaseInv, InHomeDir
<1>1. ASSUME NEW c \in Call, NEW t \in Tools, Begin(c, t)
      PROVE  PhaseInv'
  BY <1>1 DEF Begin
<1>2. ASSUME NEW c \in Call, BeginHome(c)
      PROVE  PhaseInv'
  BY <1>2 DEF BeginHome, At, PhaseDone
<1>3. ASSUME NEW c \in Call, LoadPrimary(c)
      PROVE  PhaseInv'
  BY <1>3 DEF LoadPrimary, At
<1>4. ASSUME NEW c \in Call, NEW s \in Sandbox, PersistPrimary(c, s)
      PROVE  PhaseInv'
  BY <1>4 DEF PersistPrimary, At
<1>5. ASSUME NEW c \in Call, StoreSandboxID(c)
      PROVE  PhaseInv'
  BY <1>5 DEF StoreSandboxID
<1>6. ASSUME NEW c \in Call, ClearHomeDir(c)
      PROVE  PhaseInv'
  BY <1>6 DEF ClearHomeDir
<1>7. ASSUME NEW c \in Call, KeepSandbox(c)
      PROVE  PhaseInv'
  BY <1>7 DEF KeepSandbox, At, PhaseDone
<1>8. ASSUME NEW c \in Call, CacheHomeDir(c)
      PROVE  PhaseInv'
  BY <1>8 DEF CacheHomeDir, At, PhaseDone, Unlocked
<1>9. ASSUME NEW c \in Call, Execute(c)
      PROVE  PhaseInv'
  BY <1>9 DEF Execute, At, PhaseDone
<1>10. ASSUME NEW c \in Call, AccessFile(c)
      PROVE  PhaseInv'
  BY <1>10 DEF AccessFile, At, PhaseDone
<1>11. ASSUME NEW c \in Call, SelectionDone(c)
      PROVE  PhaseInv'
  BY <1>11 DEF SelectionDone, At, PhaseDone
<1>12. ASSUME NEW c \in Call, MkdirFails(c)
      PROVE  PhaseInv'
  BY <1>12 DEF MkdirFails, At, PhaseDone
<1>13. ASSUME NEW c \in Call, Return(c)
      PROVE  PhaseInv'
  BY <1>13 DEF Return, Ended
<1>14. ASSUME NEW c \in Call, Abort(c)
      PROVE  PhaseInv'
  BY <1>14 DEF Abort, At, Ended, Unlocked
<1>15. ASSUME NEW i \in Instance, Restart(i)
      PROVE  PhaseInv'
  BY <1>15 DEF Restart, Ended
<1>16. CASE UNCHANGED vars
  BY <1>16 DEF vars
<1>17. QED
  BY <1>1, <1>2, <1>3, <1>4, <1>5, <1>6, <1>7, <1>8, <1>9, <1>10, <1>11, <1>12,
     <1>13, <1>14, <1>15, <1>16
  DEF Next, Step

LEMMA MutexStep == Inv /\ [Next]_vars => MutexInv'
<1> SUFFICES ASSUME Inv, [Next]_vars, TypeOK' PROVE MutexInv'
  BY TypeStep
<1> USE ConstantsAssumption DEF Inv, TypeOK, SandboxOrNone, db, caches, PhaseInv, MutexInv, Resolving, InHomeDir
<1>1. ASSUME NEW c \in Call, NEW t \in Tools, Begin(c, t)
      PROVE  MutexInv'
  BY <1>1 DEF Begin
<1>2. ASSUME NEW c \in Call, BeginHome(c)
      PROVE  MutexInv'
  <2>1. CASE homeDir[Host[c]] # NoPath
    <3>1. /\ pc[c] = "next"
          /\ pc' = [pc EXCEPT ![c] = "next"]
          /\ todo' = [todo EXCEPT ![c] = Tail(@)]
          /\ homeMu' = homeMu
      BY <1>2, <2>1 DEF BeginHome, At, PhaseDone
    <3>2. QED
      BY <3>1
  <2>2. CASE homeDir[Host[c]] = NoPath
    <3>1. /\ pc[c] = "next"
          /\ InHomeDir(c)
          /\ homeMu[Host[c]] = NoCall
          /\ pc' = [pc EXCEPT ![c] = "load"]
          /\ todo' = todo
          /\ homeMu' = [homeMu EXCEPT ![Host[c]] = c]
      BY <1>2, <2>2 DEF BeginHome, At
    <3>2. QED
      BY <3>1
  <2>3. QED
    BY <2>1, <2>2
<1>3. ASSUME NEW c \in Call, LoadPrimary(c)
      PROVE  MutexInv'
  BY <1>3 DEF LoadPrimary, At
<1>4. ASSUME NEW c \in Call, NEW s \in Sandbox, PersistPrimary(c, s)
      PROVE  MutexInv'
  BY <1>4 DEF PersistPrimary, At
<1>5. ASSUME NEW c \in Call, StoreSandboxID(c)
      PROVE  MutexInv'
  BY <1>5 DEF StoreSandboxID
<1>6. ASSUME NEW c \in Call, ClearHomeDir(c)
      PROVE  MutexInv'
  BY <1>6 DEF ClearHomeDir
<1>7. ASSUME NEW c \in Call, KeepSandbox(c)
      PROVE  MutexInv'
  BY <1>7 DEF KeepSandbox, At, PhaseDone
<1>8. ASSUME NEW c \in Call, CacheHomeDir(c)
      PROVE  MutexInv'
  BY <1>8 DEF CacheHomeDir, At, PhaseDone, Unlocked
<1>9. ASSUME NEW c \in Call, Execute(c)
      PROVE  MutexInv'
  BY <1>9 DEF Execute, At, PhaseDone
<1>10. ASSUME NEW c \in Call, AccessFile(c)
      PROVE  MutexInv'
  BY <1>10 DEF AccessFile, At, PhaseDone
<1>11. ASSUME NEW c \in Call, SelectionDone(c)
      PROVE  MutexInv'
  BY <1>11 DEF SelectionDone, At, PhaseDone
<1>12. ASSUME NEW c \in Call, MkdirFails(c)
      PROVE  MutexInv'
  BY <1>12 DEF MkdirFails, At, PhaseDone
<1>13. ASSUME NEW c \in Call, Return(c)
      PROVE  MutexInv'
  BY <1>13 DEF Return, Ended
<1>14. ASSUME NEW c \in Call, Abort(c)
      PROVE  MutexInv'
  BY <1>14 DEF Abort, At, Ended, Unlocked
<1>15. ASSUME NEW i \in Instance, Restart(i)
      PROVE  MutexInv'
  BY <1>15 DEF Restart, Ended
<1>16. CASE UNCHANGED vars
  BY <1>16 DEF vars
<1>17. QED
  BY <1>1, <1>2, <1>3, <1>4, <1>5, <1>6, <1>7, <1>8, <1>9, <1>10, <1>11, <1>12,
     <1>13, <1>14, <1>15, <1>16
  DEF Next, Step

LEMMA ResolvesStep == Inv /\ [Next]_vars => ResolvesCachedSandbox'
<1> SUFFICES ASSUME Inv, [Next]_vars, TypeOK' PROVE ResolvesCachedSandbox'
  BY TypeStep
<1> USE ConstantsAssumption DEF Inv, TypeOK, SandboxOrNone, db, caches, PhaseInv, MutexInv, Resolving, ResolvesCachedSandbox, InHomeDir, ClearPending
<1>1. ASSUME NEW c \in Call, NEW t \in Tools, Begin(c, t)
      PROVE  ResolvesCachedSandbox'
  BY <1>1 DEF Begin
<1>2. ASSUME NEW c \in Call, BeginHome(c)
      PROVE  ResolvesCachedSandbox'
  <2>1. CASE homeDir[Host[c]] # NoPath
    <3>1. /\ pc[c] = "next"
          /\ pc' = [pc EXCEPT ![c] = "next"]
          /\ todo' = [todo EXCEPT ![c] = Tail(@)]
          /\ UNCHANGED <<id, sandboxID>>
      BY <1>2, <2>1 DEF BeginHome, At, PhaseDone
    <3>2. QED
      BY <3>1
  <2>2. CASE homeDir[Host[c]] = NoPath
    <3>1. /\ pc[c] = "next"
          /\ pc' = [pc EXCEPT ![c] = "load"]
          /\ UNCHANGED <<todo, id, sandboxID>>
      BY <1>2, <2>2 DEF BeginHome, At
    <3>2. \A i \in Instance : ClearPending(i)' <=> ClearPending(i)
      BY <3>1
    <3>3. QED
      BY <3>1, <3>2
  <2>3. QED
    BY <2>1, <2>2
<1>3. ASSUME NEW c \in Call, LoadPrimary(c)
      PROVE  ResolvesCachedSandbox'
  BY <1>3 DEF LoadPrimary, At
<1>4. ASSUME NEW c \in Call, NEW s \in Sandbox, PersistPrimary(c, s)
      PROVE  ResolvesCachedSandbox'
  BY <1>4 DEF PersistPrimary, At
<1>5. ASSUME NEW c \in Call, StoreSandboxID(c)
      PROVE  ResolvesCachedSandbox'
  BY <1>5 DEF StoreSandboxID
<1>6. ASSUME NEW c \in Call, ClearHomeDir(c)
      PROVE  ResolvesCachedSandbox'
  BY <1>6 DEF ClearHomeDir
<1>7. ASSUME NEW c \in Call, KeepSandbox(c)
      PROVE  ResolvesCachedSandbox'
  BY <1>7 DEF KeepSandbox, At, PhaseDone
<1>8. ASSUME NEW c \in Call, CacheHomeDir(c)
      PROVE  ResolvesCachedSandbox'
  BY <1>8 DEF CacheHomeDir, At, PhaseDone, Unlocked
<1>9. ASSUME NEW c \in Call, Execute(c)
      PROVE  ResolvesCachedSandbox'
  BY <1>9 DEF Execute, At, PhaseDone
<1>10. ASSUME NEW c \in Call, AccessFile(c)
      PROVE  ResolvesCachedSandbox'
  BY <1>10 DEF AccessFile, At, PhaseDone
<1>11. ASSUME NEW c \in Call, SelectionDone(c)
      PROVE  ResolvesCachedSandbox'
  BY <1>11 DEF SelectionDone, At, PhaseDone
<1>12. ASSUME NEW c \in Call, MkdirFails(c)
      PROVE  ResolvesCachedSandbox'
  BY <1>12 DEF MkdirFails, At, PhaseDone
<1>13. ASSUME NEW c \in Call, Return(c)
      PROVE  ResolvesCachedSandbox'
  BY <1>13 DEF Return, Ended
<1>14. ASSUME NEW c \in Call, Abort(c)
      PROVE  ResolvesCachedSandbox'
  BY <1>14 DEF Abort, At, Ended, Unlocked
<1>15. ASSUME NEW i \in Instance, Restart(i)
      PROVE  ResolvesCachedSandbox'
  BY <1>15 DEF Restart, Ended
<1>16. CASE UNCHANGED vars
  BY <1>16 DEF vars
<1>17. QED
  BY <1>1, <1>2, <1>3, <1>4, <1>5, <1>6, <1>7, <1>8, <1>9, <1>10, <1>11, <1>12,
     <1>13, <1>14, <1>15, <1>16
  DEF Next, Step

LEMMA HomeCacheStep == Inv /\ [Next]_vars => HomeCacheCoherent'
<1> SUFFICES ASSUME Inv, [Next]_vars, TypeOK' PROVE HomeCacheCoherent'
  BY TypeStep
<1> USE ConstantsAssumption DEF Inv, TypeOK, SandboxOrNone, db, caches, PhaseInv, MutexInv, Resolving, ResolvesCachedSandbox, HomeCacheCoherent, InHomeDir, ClearPending
<1>1. ASSUME NEW c \in Call, NEW t \in Tools, Begin(c, t)
      PROVE  HomeCacheCoherent'
  BY <1>1 DEF Begin
<1>2. ASSUME NEW c \in Call, BeginHome(c)
      PROVE  HomeCacheCoherent'
  BY <1>2 DEF BeginHome, At, PhaseDone
<1>3. ASSUME NEW c \in Call, LoadPrimary(c)
      PROVE  HomeCacheCoherent'
  BY <1>3 DEF LoadPrimary, At
<1>4. ASSUME NEW c \in Call, NEW s \in Sandbox, PersistPrimary(c, s)
      PROVE  HomeCacheCoherent'
  BY <1>4 DEF PersistPrimary, At
<1>5. ASSUME NEW c \in Call, StoreSandboxID(c)
      PROVE  HomeCacheCoherent'
  BY <1>5 DEF StoreSandboxID
<1>6. ASSUME NEW c \in Call, ClearHomeDir(c)
      PROVE  HomeCacheCoherent'
  BY <1>6 DEF ClearHomeDir
<1>7. ASSUME NEW c \in Call, KeepSandbox(c)
      PROVE  HomeCacheCoherent'
  BY <1>7 DEF KeepSandbox, At, PhaseDone
<1>8. ASSUME NEW c \in Call, CacheHomeDir(c)
      PROVE  HomeCacheCoherent'
  <2> SUFFICES ASSUME NEW i \in Instance, homeDir'[i] # NoPath
               PROVE  \/ /\ sandboxID'[i] # NoSandbox
                         /\ homeDir'[i] = Home[sandboxID'[i]]
                      \/ ClearPending(i)'
    OBVIOUS
  <2>1. ClearPending(i) => ClearPending(i)'
    BY <1>8 DEF CacheHomeDir, At, PhaseDone
  <2>2. CASE i = Host[c]
    <3>1. homeDir'[i] = Home[id[c]] /\ sandboxID'[i] = sandboxID[i]
      BY <1>8, <2>2 DEF CacheHomeDir
    <3>2. id[c] # NoSandbox /\ (id[c] = sandboxID[i] \/ ClearPending(i))
      BY <1>8, <2>2 DEF CacheHomeDir, At
    <3>3. QED
      BY <2>1, <3>1, <3>2
  <2>3. CASE i # Host[c]
    BY <1>8, <2>1, <2>3 DEF CacheHomeDir
  <2>4. QED
    BY <2>2, <2>3
<1>9. ASSUME NEW c \in Call, Execute(c)
      PROVE  HomeCacheCoherent'
  BY <1>9 DEF Execute, At, PhaseDone
<1>10. ASSUME NEW c \in Call, AccessFile(c)
      PROVE  HomeCacheCoherent'
  BY <1>10 DEF AccessFile, At, PhaseDone
<1>11. ASSUME NEW c \in Call, SelectionDone(c)
      PROVE  HomeCacheCoherent'
  BY <1>11 DEF SelectionDone, At, PhaseDone
<1>12. ASSUME NEW c \in Call, MkdirFails(c)
      PROVE  HomeCacheCoherent'
  BY <1>12 DEF MkdirFails, At, PhaseDone
<1>13. ASSUME NEW c \in Call, Return(c)
      PROVE  HomeCacheCoherent'
  BY <1>13 DEF Return, Ended
<1>14. ASSUME NEW c \in Call, Abort(c)
      PROVE  HomeCacheCoherent'
  BY <1>14 DEF Abort, At, Ended, Unlocked
<1>15. ASSUME NEW i \in Instance, Restart(i)
      PROVE  HomeCacheCoherent'
  BY <1>15 DEF Restart, Ended
<1>16. CASE UNCHANGED vars
  BY <1>16 DEF vars
<1>17. QED
  BY <1>1, <1>2, <1>3, <1>4, <1>5, <1>6, <1>7, <1>8, <1>9, <1>10, <1>11, <1>12,
     <1>13, <1>14, <1>15, <1>16
  DEF Next, Step

LEMMA SeenStep == Inv /\ [Next]_vars => SeenInv'
<1> SUFFICES ASSUME Inv, [Next]_vars, TypeOK' PROVE SeenInv'
  BY TypeStep
<1> USE ConstantsAssumption DEF Inv, TypeOK, SandboxOrNone, db, caches, PhaseInv, SeenInv, ActsOnSelectedSandbox, InHomeDir
<1>1. ASSUME NEW c \in Call, NEW t \in Tools, Begin(c, t)
      PROVE  SeenInv'
  BY <1>1 DEF Begin
<1>2. ASSUME NEW c \in Call, BeginHome(c)
      PROVE  SeenInv'
  BY <1>2 DEF BeginHome, At, PhaseDone
<1>3. ASSUME NEW c \in Call, LoadPrimary(c)
      PROVE  SeenInv'
  BY <1>3 DEF LoadPrimary, At
<1>4. ASSUME NEW c \in Call, NEW s \in Sandbox, PersistPrimary(c, s)
      PROVE  SeenInv'
  BY <1>4 DEF PersistPrimary, At
<1>5. ASSUME NEW c \in Call, StoreSandboxID(c)
      PROVE  SeenInv'
  BY <1>5 DEF StoreSandboxID
<1>6. ASSUME NEW c \in Call, ClearHomeDir(c)
      PROVE  SeenInv'
  BY <1>6 DEF ClearHomeDir
<1>7. ASSUME NEW c \in Call, KeepSandbox(c)
      PROVE  SeenInv'
  BY <1>7 DEF KeepSandbox, At, PhaseDone
<1>8. ASSUME NEW c \in Call, CacheHomeDir(c)
      PROVE  SeenInv'
  BY <1>8 DEF CacheHomeDir, At, PhaseDone, Unlocked
<1>9. ASSUME NEW c \in Call, Execute(c)
      PROVE  SeenInv'
  BY <1>9 DEF Execute, At, PhaseDone
<1>10. ASSUME NEW c \in Call, AccessFile(c)
      PROVE  SeenInv'
  BY <1>10 DEF AccessFile, At, PhaseDone
<1>11. ASSUME NEW c \in Call, SelectionDone(c)
      PROVE  SeenInv'
  BY <1>11 DEF SelectionDone, At, PhaseDone
<1>12. ASSUME NEW c \in Call, MkdirFails(c)
      PROVE  SeenInv'
  BY <1>12 DEF MkdirFails, At, PhaseDone
<1>13. ASSUME NEW c \in Call, Return(c)
      PROVE  SeenInv'
  BY <1>13 DEF Return, Ended
<1>14. ASSUME NEW c \in Call, Abort(c)
      PROVE  SeenInv'
  BY <1>14 DEF Abort, At, Ended, Unlocked
<1>15. ASSUME NEW i \in Instance, Restart(i)
      PROVE  SeenInv'
  BY <1>15 DEF Restart, Ended
<1>16. CASE UNCHANGED vars
  BY <1>16 DEF vars
<1>17. QED
  BY <1>1, <1>2, <1>3, <1>4, <1>5, <1>6, <1>7, <1>8, <1>9, <1>10, <1>11, <1>12,
     <1>13, <1>14, <1>15, <1>16
  DEF Next, Step

-----------------------------------------------------------------------------
LEMMA InvStep == Inv /\ [Next]_vars => Inv'
  BY TypeStep, PhaseStep, MutexStep, ResolvesStep, HomeCacheStep, SeenStep DEF Inv

LEMMA InvCorrect == Spec => []Inv
<1>1. Init => Inv
  BY InvInit
<1>2. Inv /\ [Next]_vars => Inv'
  BY InvStep
<1>3. QED
  BY <1>1, <1>2, PTL DEF Spec

(* Every variable keeps its type: in particular, the home directory is     *)
(* asked for, and cached, only for a sandbox that exists.                  *)
THEOREM TypeCorrect == Spec => []TypeOK
<1>1. Inv => TypeOK
  BY DEF Inv
<1>2. QED
  BY <1>1, InvCorrect, PTL

(* The home directory in the cache of an instance is the one of the cached *)
(* sandbox id, or a call is about to drop it: sandboxHomeDir fills the     *)
(* cache under homeMu, and ensureSandbox and SetSandbox clear it under     *)
(* homeMu whenever they change the id.                                     *)
THEOREM HomeCacheIsCoherent == Spec => []HomeCacheCoherent
<1>1. Inv => HomeCacheCoherent
  BY DEF Inv
<1>2. QED
  BY <1>1, InvCorrect, PTL

(* A call acts only on sandboxes that were the primary one at some moment  *)
(* since the call began: ensureSandbox takes the id from the database in   *)
(* every phase that needs one.                                             *)
THEOREM CallsActOnSelectedSandbox == Spec => []ActsOnSelectedSandbox
<1>1. Inv => ActsOnSelectedSandbox
  BY DEF Inv, SeenInv
<1>2. QED
  BY <1>1, InvCorrect, PTL

(* A mutual exclusion that makes the others true: two calls of an instance *)
(* are never both past the look into the cache of sandboxHomeDir.          *)
THEOREM OneResolver ==
    Spec => [](\A c, d \in Call :
                  Resolving(c) /\ Resolving(d) /\ Host[c] = Host[d] => c = d)
<1>1. Inv => \A c, d \in Call :
                Resolving(c) /\ Resolving(d) /\ Host[c] = Host[d] => c = d
  BY DEF Inv, MutexInv
<1>2. QED
  BY <1>1, InvCorrect, PTL
=============================================================================
