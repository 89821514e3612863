------------------------ MODULE BashBackgroundProofs ------------------------
(***************************************************************************)
(* The invariants of BashBackground, for any number of instances, commands, *)
(* status calls and restarts.                                              *)
(*                                                                         *)
(* None of the properties is inductive: they hold because an id of a live  *)
(* command is never given to another one at the same instance, because an  *)
(* entry leaves the map only with the answer that carries its result, and  *)
(* because a restart ends the calls of its instance together with the map. *)
(* Inv says this of every state.                                           *)
(***************************************************************************)
EXTENDS BashBackground, TLAPS

\* The goroutine of job j exists, or its result is in the memory of its instance.
Live(j) == state[j] \in {"running", "done"}

\* Every entry is of a live job of that instance, under the id its client got.
EntriesInv ==
    \A i \in Instance : \A e \in bgProcesses[i] :
        Live(e.proc) /\ startedAt[e.proc] = i /\ e.id = handle[e.proc]

\* The ids of live jobs were drawn from the counter as it stands, one for each.
HandlesInv ==
    /\ \A j \in Job : Live(j) => handle[j] <= bgCounter[startedAt[j]]
    /\ \A j, k \in Job :
          Live(j) /\ Live(k) /\ startedAt[j] = startedAt[k] /\ handle[j] = handle[k] => j = k

Answered(j) == \E a \in answers : a.reply = "result" /\ a.proc = j

\* A live job is in the map of its instance until its result is answered.
KeptInv ==
    \A j \in Job : Live(j) =>
        [id |-> handle[j], proc |-> j] \in bgProcesses[startedAt[j]] \/ Answered(j)

\* A call has found a live job of its instance that has the id it asks for.
QueriesInv ==
    \A q \in Query :
        /\ pc[q] # "idle" => state[about[q]] # "none"
        /\ pc[q] \in {"select", "delete"} =>
              /\ found[q] \in Job
              /\ Live(found[q])
              /\ startedAt[found[q]] = server[q]
              /\ handle[found[q]] = handle[about[q]]

Inv ==
    /\ TypeOK
    /\ EntriesInv
    /\ HandlesInv
    /\ KeptInv
    /\ QueriesInv
    /\ AnswersOwnCommandAtHome
    /\ UnknownAtHomeOnlyAfterResult

(* Initially no command was started and no call is served.                 *)
LEMMA InitInv == Init => Inv
<1> SUFFICES ASSUME Init PROVE Inv
  OBVIOUS
<1> USE DEF Init
<1>1. TypeOK
  BY BackgroundAssumption DEF TypeOK
<1>2. \A j \in Job : ~ Live(j)
  BY DEF Live
<1>3. QED
  BY <1>1, <1>2 DEF Inv, EntriesInv, HandlesInv, KeptInv, QueriesInv,
       AnswersOwnCommandAtHome, UnknownAtHomeOnlyAfterResult

(* The new id is greater than the id of every live job of the instance, so *)
(* that the new entry replaces none.                                       *)
LEMMA LaunchInv == ASSUME Inv, NEW j \in Job, Launch(j) PROVE Inv'
<1> DEFINE i == startedAt[j]
           n == bgCounter[i] + 1
           entry == [id |-> n, proc |-> j]
<1>1. i \in Instance /\ n \in Nat /\ n > bgCounter[i] /\ entry \in Entry
  BY DEF Inv, TypeOK, Entry
<1>2. /\ state[j] = "none"
      /\ state' = [state EXCEPT ![j] = "running"]
      /\ handle' = [handle EXCEPT ![j] = n]
      /\ bgCounter' = [bgCounter EXCEPT ![i] = n]
      /\ bgProcesses' = [bgProcesses EXCEPT ![i] = {e \in @ : e.id # n} \cup {entry}]
      /\ UNCHANGED <<startedAt, pc, server, about, found, answers, restarts>>
  BY DEF Launch, query
<1> HIDE DEF i, n, entry
<1>3. TypeOK'
  BY <1>1, <1>2 DEF Inv, TypeOK
<1>4. Live(j)' /\ ~ Live(j)
  BY <1>2, <1>3 DEF Live, Inv, TypeOK
<1>5. /\ startedAt' = startedAt
      /\ \A k \in Job \ {j} : (Live(k)' <=> Live(k)) /\ handle'[k] = handle[k]
  BY <1>2, <1>3 DEF Live, Inv, TypeOK
<1>6. handle'[j] = n /\ bgCounter'[i] = n
  BY <1>1, <1>2 DEF Inv, TypeOK
<1>7. \A k \in Job : Live(k) /\ startedAt[k] = i => handle[k] < n
  BY <1>1 DEF Inv, TypeOK, HandlesInv
<1>8. \A k \in Instance : bgProcesses'[k] =
        IF k = i THEN {e \in bgProcesses[k] : e.id # n} \cup {entry} ELSE bgProcesses[k]
  BY <1>1, <1>2 DEF Inv, TypeOK
<1>9. EntriesInv'
  <2> SUFFICES ASSUME NEW k \in Instance, NEW e \in bgProcesses'[k]
               PROVE Live(e.proc)' /\ startedAt'[e.proc] = k /\ e.id = handle'[e.proc]
    BY DEF EntriesInv
  <2>1. CASE e = entry /\ k = i
    BY <1>4, <1>5, <1>6, <2>1 DEF entry, i
  <2>2. CASE e \in bgProcesses[k]
    <3>1. Live(e.proc) /\ startedAt[e.proc] = k /\ e.id = handle[e.proc] /\ e.proc \in Job
      BY <2>2 DEF Inv, EntriesInv, TypeOK, Entry
    <3>2. e.proc # j
      BY <1>4, <3>1
    <3>3. QED
      BY <1>5, <3>1, <3>2
  <2>3. QED
    BY <1>8, <2>1, <2>2
<1>10. HandlesInv'
  <2>1. \A k \in Job : Live(k)' => handle'[k] <= bgCounter'[startedAt'[k]]
    <3> SUFFICES ASSUME NEW k \in Job, Live(k)'
                 PROVE handle'[k] <= bgCounter'[startedAt[k]]
      BY <1>5
    <3>1. CASE k = j
      BY <1>1, <1>6, <3>1 DEF i
    <3>2. CASE k # j
      <4>1. Live(k) /\ handle'[k] = handle[k] /\ handle[k] <= bgCounter[startedAt[k]]
        BY <1>5, <3>2 DEF Inv, HandlesInv
      <4>2. CASE startedAt[k] = i
        BY <1>1, <1>6, <1>7, <4>1, <4>2 DEF Inv, TypeOK
      <4>3. CASE startedAt[k] # i
        BY <1>2, <4>1, <4>3 DEF Inv, TypeOK
      <4>4. QED
        BY <4>2, <4>3
    <3>3. QED
      BY <3>1, <3>2
  <2>2. \A k \in Job : Live(k)' /\ startedAt[k] = i /\ k # j => handle'[k] # n
    BY <1>1, <1>5, <1>7 DEF Inv, TypeOK
  <2>3. \A k, m \in Job : Live(k)' /\ Live(m)' /\ startedAt'[k] = startedAt'[m]
                             /\ handle'[k] = handle'[m] => k = m
    BY <1>5, <1>6, <2>2 DEF Inv, HandlesInv, i
  <2>4. QED
    BY <2>1, <2>3 DEF HandlesInv
<1>11. KeptInv'
  <2> SUFFICES ASSUME NEW k \in Job, Live(k)'
               PROVE \/ [id |-> handle'[k], proc |-> k] \in bgProcesses'[startedAt[k]]
                     \/ Answered(k)'
    BY <1>5 DEF KeptInv
  <2>1. CASE k = j
    BY <1>1, <1>6, <1>8, <2>1 DEF entry, i
  <2>2. CASE k # j
    <3>1. /\ Live(k) /\ handle'[k] = handle[k] /\ (Answered(k)' <=> Answered(k))
          /\ startedAt[k] \in Instance
      BY <1>2, <1>5, <2>2 DEF Inv, TypeOK, Answered
    <3>2. [id |-> handle[k], proc |-> k] \in bgProcesses[startedAt[k]] \/ Answered(k)
      BY <3>1 DEF Inv, KeptInv
    <3>3. startedAt[k] = i => handle[k] # n
      BY <1>1, <1>7, <3>1 DEF Inv, TypeOK
    <3>4. QED
      BY <1>8, <3>1, <3>2, <3>3
  <2>3. QED
    BY <2>1, <2>2
<1>12. QueriesInv'
  <2> SUFFICES ASSUME NEW q \in Query
               PROVE /\ pc[q] # "idle" => state'[about[q]] # "none"
                     /\ pc[q] \in {"select", "delete"} =>
                           /\ found[q] \in Job
                           /\ Live(found[q])'
                           /\ startedAt[found[q]] = server[q]
                           /\ handle'[found[q]] = handle'[about[q]]
    BY <1>2 DEF QueriesInv, Live
  <2>1. pc[q] # "idle" => about[q] # j /\ about[q] \in Job
    BY <1>2 DEF Inv, QueriesInv, TypeOK
  <2>2. pc[q] # "idle" => state'[about[q]] # "none"
    BY <1>2, <2>1 DEF Inv, QueriesInv, TypeOK
  <2>3. ASSUME pc[q] \in {"select", "delete"}
        PROVE /\ found[q] \in Job
              /\ Live(found[q])'
              /\ startedAt[found[q]] = server[q]
              /\ handle'[found[q]] = handle'[about[q]]
    <3>1. /\ found[q] \in Job
          /\ Live(found[q])
          /\ startedAt[found[q]] = server[q]
          /\ handle[found[q]] = handle[about[q]]
      BY <2>3 DEF Inv, QueriesInv
    <3>2. found[q] # j
      BY <1>4, <3>1
    <3>3. Live(found[q])'
      BY <1>2, <3>1, <3>2 DEF Live, Inv, TypeOK
    <3>4. QED
      BY <1>2, <2>1, <2>3, <3>1, <3>2, <3>3 DEF Inv, TypeOK
  <2>4. QED
    BY <2>2, <2>3
<1>13. AnswersOwnCommandAtHome' /\ UnknownAtHomeOnlyAfterResult'
  BY <1>2 DEF Inv, AnswersOwnCommandAtHome, UnknownAtHomeOnlyAfterResult
<1>14. QED
  BY <1>3, <1>9, <1>10, <1>11, <1>12, <1>13 DEF Inv

(* A job stays live when it is done.                                       *)
LEMMA FinishInv == ASSUME Inv, NEW j \in Job, Finish(j) PROVE Inv'
<1>1. /\ state[j] = "running"
      /\ state' = [state EXCEPT ![j] = "done"]
      /\ UNCHANGED <<bgCounter, bgProcesses, startedAt, handle, pc, server, about, found,
                     answers, restarts>>
  BY DEF Finish, query
<1>2. TypeOK'
  BY <1>1 DEF Inv, TypeOK
<1>3. \A k \in Job : (Live(k)' <=> Live(k)) /\ (state'[k] = "none" <=> state[k] = "none")
  BY <1>1 DEF Inv, TypeOK, Live
<1>4. EntriesInv'
  <2> SUFFICES ASSUME NEW i \in Instance, NEW e \in bgProcesses[i]
               PROVE Live(e.proc)' /\ startedAt[e.proc] = i /\ e.id = handle[e.proc]
    BY <1>1 DEF EntriesInv, Live
  <2>1. e.proc \in Job
    BY DEF Inv, TypeOK, Entry
  <2>2. QED
    BY <1>3, <2>1 DEF Inv, EntriesInv
<1>5. HandlesInv'
  BY <1>1, <1>3 DEF Inv, HandlesInv
<1>6. \A k \in Job : Answered(k)' <=> Answered(k)
  BY <1>1 DEF Answered
<1>7. KeptInv'
  BY <1>1, <1>3, <1>6 DEF Inv, KeptInv
<1>8. \A q \in Query : found[q] \in Job => (Live(found[q])' <=> Live(found[q]))
  BY <1>1 DEF Inv, TypeOK, Live
<1>9. QueriesInv'
  BY <1>1, <1>3, <1>8 DEF Inv, QueriesInv, TypeOK
<1>10. AnswersOwnCommandAtHome' /\ UnknownAtHomeOnlyAfterResult'
  BY <1>1 DEF Inv, AnswersOwnCommandAtHome, UnknownAtHomeOnlyAfterResult
<1>11. QED
  BY <1>2, <1>4, <1>5, <1>7, <1>9, <1>10 DEF Inv

(* A call that begins has found nothing yet.                               *)
LEMMA AskInv == ASSUME Inv, NEW q \in Query, NEW j \in Job, NEW i \in Instance, Ask(q, j, i)
                PROVE Inv'
<1>1. TypeOK'
  BY DEF Ask, Inv, TypeOK
<1>2. EntriesInv' /\ HandlesInv' /\ KeptInv'
  BY DEF Ask, Inv, EntriesInv, HandlesInv, KeptInv, Answered, Live
<1>3. QueriesInv'
  BY DEF Ask, Inv, TypeOK, QueriesInv, Live
<1>4. AnswersOwnCommandAtHome' /\ UnknownAtHomeOnlyAfterResult'
  BY DEF Ask, Inv, AnswersOwnCommandAtHome, UnknownAtHomeOnlyAfterResult
<1>5. QED
  BY <1>1, <1>2, <1>3, <1>4 DEF Inv

(* What a call finds at home is the entry of the job it is about: that job *)
(* is live, and no other live job has its id.  When it finds nothing there,*)
(* the result was answered.                                                *)
LEMMA LookupInv == ASSUME Inv, NEW q \in Query, Lookup(q) PROVE Inv'
<1> DEFINE i == server[q]
           hits == {e \in bgProcesses[i] : e.id = handle[about[q]]}
<1>1. /\ pc[q] = "lookup"
      /\ UNCHANGED <<bgCounter, bgProcesses, startedAt, state, handle, server, about, restarts>>
      /\ i \in Instance /\ about[q] \in Job
  BY DEF Lookup, Inv, TypeOK
<1>2. \A j \in Job : Live(j)' <=> Live(j)
  BY <1>1 DEF Live
<1>3. EntriesInv' /\ HandlesInv'
  BY <1>1 DEF Inv, EntriesInv, HandlesInv, Live
<1>4. CASE \E e \in hits : /\ found' = [found EXCEPT ![q] = e.proc]
                           /\ pc' = [pc EXCEPT ![q] = "select"]
                           /\ UNCHANGED answers
  <2>1. PICK e \in hits : /\ found' = [found EXCEPT ![q] = e.proc]
                          /\ pc' = [pc EXCEPT ![q] = "select"]
                          /\ UNCHANGED answers
    BY <1>4
  <2>2. /\ e.proc \in Job /\ Live(e.proc) /\ startedAt[e.proc] = i
        /\ handle[e.proc] = handle[about[q]]
    BY <1>1 DEF Inv, TypeOK, Entry, EntriesInv
  <2>3. TypeOK'
    BY <1>1, <2>1, <2>2 DEF Inv, TypeOK
  <2>4. KeptInv'
    BY <1>1, <2>1 DEF Inv, KeptInv, Live, Answered
  <2>5. QueriesInv'
    BY <1>1, <2>1, <2>2 DEF Inv, QueriesInv, TypeOK, Live
  <2>6. AnswersOwnCommandAtHome' /\ UnknownAtHomeOnlyAfterResult'
    BY <2>1 DEF Inv, AnswersOwnCommandAtHome, UnknownAtHomeOnlyAfterResult
  <2>7. QED
    BY <1>3, <2>3, <2>4, <2>5, <2>6 DEF Inv
<1>5. CASE hits = {} /\ Reply(q, "unknown", NoJob)
  <2> DEFINE a == [about |-> about[q], reply |-> "unknown", proc |-> NoJob, home |-> AtHome(q)]
  <2>1. /\ pc' = [pc EXCEPT ![q] = "idle"]
        /\ found' = [found EXCEPT ![q] = NoJob]
        /\ answers' = answers \cup {a}
        /\ hits = {}
    BY <1>5 DEF Reply
  <2>2. AtHome(q) \in BOOLEAN
    BY DEF AtHome
  <2>3. a \in Answer
    BY <1>1, <2>2 DEF Answer
  <2>4. /\ a.about = about[q] /\ a.reply = "unknown" /\ a.proc = NoJob
        /\ a.home = AtHome(q)
    OBVIOUS
  <2> HIDE DEF a
  <2>5. TypeOK'
    BY <1>1, <2>1, <2>3 DEF Inv, TypeOK
  <2>6. KeptInv'
    BY <1>1, <2>1 DEF Inv, KeptInv, Live, Answered
  <2>7. QueriesInv'
    BY <1>1, <2>1 DEF Inv, QueriesInv, TypeOK, Live
  <2>8. AnswersOwnCommandAtHome'
    BY <2>1, <2>4 DEF Inv, AnswersOwnCommandAtHome
  <2>9. ASSUME AtHome(q) PROVE Answered(about[q])
    <3>1. Live(about[q]) /\ startedAt[about[q]] = i
      BY <1>1, <2>9 DEF AtHome, Live, Inv, QueriesInv, TypeOK
    <3>2. [id |-> handle[about[q]], proc |-> about[q]] \notin bgProcesses[i]
      BY <2>1
    <3>3. QED
      BY <1>1, <3>1, <3>2 DEF Inv, KeptInv
  <2>10. UnknownAtHomeOnlyAfterResult'
    BY <2>1, <2>4, <2>9 DEF Inv, UnknownAtHomeOnlyAfterResult, Answered
  <2>11. QED
    BY <1>3, <2>5, <2>6, <2>7, <2>8, <2>10 DEF Inv
<1>6. QED
  BY <1>4, <1>5 DEF Lookup

(* At home, the job that a call has found is the one it is about.          *)
LEMMA FoundAtHome == ASSUME Inv, NEW q \in Query, pc[q] \in {"select", "delete"}, AtHome(q)
                     PROVE found[q] = about[q]
<1>1. /\ found[q] \in Job /\ Live(found[q]) /\ startedAt[found[q]] = server[q]
      /\ handle[found[q]] = handle[about[q]]
  BY DEF Inv, QueriesInv
<1>2. about[q] \in Job /\ Live(about[q]) /\ startedAt[about[q]] = server[q]
  BY DEF Inv, QueriesInv, TypeOK, AtHome, Live
<1>3. QED
  BY <1>1, <1>2 DEF Inv, HandlesInv

(* Answering what was found keeps what is said of answers.                 *)
LEMMA ReplyKeeps ==
    ASSUME Inv, NEW q \in Query, pc[q] \in {"select", "delete"},
           NEW r \in {"running", "result"}, Reply(q, r, found[q])
    PROVE /\ answers' \subseteq Answer
          /\ answers \subseteq answers'
          /\ r = "result" => \E b \in answers' : b.reply = "result" /\ b.proc = found[q]
          /\ AnswersOwnCommandAtHome'
          /\ UnknownAtHomeOnlyAfterResult'
<1> DEFINE a == [about |-> about[q], reply |-> r, proc |-> found[q], home |-> AtHome(q)]
<1>1. answers' = answers \cup {a}
  BY DEF Reply
<1>2. AtHome(q) \in BOOLEAN
  BY DEF AtHome
<1>3. found[q] \in Job /\ about[q] \in Job
  BY DEF Inv, QueriesInv, TypeOK
<1>4. a \in Answer
  BY <1>2, <1>3 DEF Answer
<1>5. a.about = about[q] /\ a.reply = r /\ a.proc = found[q] /\ a.home = AtHome(q)
  OBVIOUS
<1> HIDE DEF a
<1>6. answers' \subseteq Answer /\ answers \subseteq answers'
  BY <1>1, <1>4 DEF Inv, TypeOK
<1>7. ASSUME r = "result" PROVE \E b \in answers' : b.reply = "result" /\ b.proc = found[q]
  BY <1>1, <1>5, <1>7
<1>8. AnswersOwnCommandAtHome'
  BY <1>1, <1>5, FoundAtHome DEF Inv, AnswersOwnCommandAtHome
<1>9. UnknownAtHomeOnlyAfterResult'
  BY <1>1, <1>5 DEF Inv, UnknownAtHomeOnlyAfterResult
<1>10. QED
  BY <1>6, <1>7, <1>8, <1>9

(* The select leaves the map alone.                                        *)
LEMMA SelectInv == ASSUME Inv, NEW q \in Query, Select(q) PROVE Inv'
<1>1. /\ pc[q] = "select"
      /\ UNCHANGED <<bgCounter, bgProcesses, startedAt, state, handle, server, about, restarts>>
  BY DEF Select
<1>2. EntriesInv' /\ HandlesInv'
  BY <1>1 DEF Inv, EntriesInv, HandlesInv, Live
<1>3. CASE pc' = [pc EXCEPT ![q] = "delete"] /\ UNCHANGED <<found, answers>>
  <2>1. TypeOK'
    BY <1>1, <1>3 DEF Inv, TypeOK
  <2>2. KeptInv'
    BY <1>1, <1>3 DEF Inv, KeptInv, Live, Answered
  <2>3. QueriesInv'
    BY <1>1, <1>3 DEF Inv, QueriesInv, TypeOK, Live
  <2>4. AnswersOwnCommandAtHome' /\ UnknownAtHomeOnlyAfterResult'
    BY <1>3 DEF Inv, AnswersOwnCommandAtHome, UnknownAtHomeOnlyAfterResult
  <2>5. QED
    BY <1>2, <2>1, <2>2, <2>3, <2>4 DEF Inv
<1>4. CASE Reply(q, "running", found[q])
  <2>1. /\ pc' = [pc EXCEPT ![q] = "idle"]
        /\ found' = [found EXCEPT ![q] = NoJob]
    BY <1>4 DEF Reply
  <2>2. /\ answers' \subseteq Answer /\ answers \subseteq answers'
        /\ AnswersOwnCommandAtHome' /\ UnknownAtHomeOnlyAfterResult'
    BY <1>1, <1>4, ReplyKeeps
  <2>3. TypeOK'
    BY <1>1, <2>1, <2>2 DEF Inv, TypeOK
  <2>4. KeptInv'
    BY <1>1, <2>2 DEF Inv, KeptInv, Live, Answered
  <2>5. QueriesInv'
    BY <1>1, <2>1 DEF Inv, QueriesInv, TypeOK, Live
  <2>6. QED
    BY <1>2, <2>2, <2>3, <2>4, <2>5 DEF Inv
<1>5. QED
  BY <1>3, <1>4 DEF Select

(* Only the entry of the answered job leaves the map, since no other live  *)
(* job of the instance has its id.                                         *)
LEMMA DeleteInv == ASSUME Inv, NEW q \in Query, Delete(q) PROVE Inv'
<1> DEFINE i == server[q]
<1>1. /\ pc[q] = "delete"
      /\ bgProcesses' = [bgProcesses EXCEPT ![i] = {e \in @ : e.id # handle[about[q]]}]
      /\ pc' = [pc EXCEPT ![q] = "idle"]
      /\ found' = [found EXCEPT ![q] = NoJob]
      /\ UNCHANGED <<bgCounter, startedAt, state, handle, server, about, restarts>>
  BY DEF Delete, Reply
<1>2. Reply(q, "result", found[q])
  BY DEF Delete
<1>3. /\ answers' \subseteq Answer /\ answers \subseteq answers'
      /\ \E b \in answers' : b.reply = "result" /\ b.proc = found[q]
      /\ AnswersOwnCommandAtHome' /\ UnknownAtHomeOnlyAfterResult'
  BY <1>1, <1>2, ReplyKeeps
<1>4. i \in Instance
  BY DEF Inv, TypeOK
<1>5. \A k \in Instance : bgProcesses'[k] =
        IF k = i THEN {e \in bgProcesses[k] : e.id # handle[about[q]]} ELSE bgProcesses[k]
  BY <1>1, <1>4 DEF Inv, TypeOK
<1>6. TypeOK'
  BY <1>1, <1>3, <1>4 DEF Inv, TypeOK
<1>7. EntriesInv'
  BY <1>1, <1>5 DEF Inv, EntriesInv, Live
<1>8. HandlesInv'
  BY <1>1 DEF Inv, HandlesInv, Live
<1>9. KeptInv'
  <2> SUFFICES ASSUME NEW j \in Job, Live(j)
               PROVE \/ [id |-> handle[j], proc |-> j] \in bgProcesses'[startedAt[j]]
                     \/ \E b \in answers' : b.reply = "result" /\ b.proc = j
    BY <1>1 DEF KeptInv, Live, Answered
  <2>1. CASE j = found[q]
    BY <1>3, <2>1
  <2>2. CASE j # found[q]
    <3>1. [id |-> handle[j], proc |-> j] \in bgProcesses[startedAt[j]] \/ Answered(j)
      BY DEF Inv, KeptInv
    <3>2. /\ found[q] \in Job /\ Live(found[q]) /\ startedAt[found[q]] = i
          /\ handle[found[q]] = handle[about[q]]
      BY <1>1 DEF Inv, QueriesInv
    <3>3. startedAt[j] = i => handle[j] # handle[about[q]]
      BY <2>2, <3>2 DEF Inv, HandlesInv
    <3>4. startedAt[j] \in Instance
      BY DEF Inv, TypeOK
    <3>5. QED
      BY <1>3, <1>5, <3>1, <3>3, <3>4 DEF Answered
  <2>3. QED
    BY <2>1, <2>2
<1>10. QueriesInv'
  BY <1>1 DEF Inv, QueriesInv, TypeOK, Live
<1>11. QED
  BY <1>3, <1>6, <1>7, <1>8, <1>9, <1>10 DEF Inv

(* A restart leaves no live job and no call at its instance.               *)
LEMMA RestartInv == ASSUME Inv, NEW i \in Instance, Restart(i) PROVE Inv'
<1> USE DEF Restart
<1>1. TypeOK'
  BY BackgroundAssumption DEF Inv, TypeOK
<1>2. \A j \in Job : Live(j)' <=> Live(j) /\ startedAt[j] # i
  BY DEF Inv, TypeOK, Live
<1>3. \A k \in Instance : bgProcesses'[k] = IF k = i THEN {} ELSE bgProcesses[k]
  BY DEF Inv, TypeOK
<1>4. UNCHANGED <<startedAt, handle, server, about, answers>>
  OBVIOUS
<1>5. EntriesInv'
  <2> SUFFICES ASSUME NEW k \in Instance, NEW e \in bgProcesses'[k]
               PROVE Live(e.proc)' /\ startedAt[e.proc] = k /\ e.id = handle[e.proc]
    BY <1>4 DEF EntriesInv
  <2>1. k # i /\ e \in bgProcesses[k]
    BY <1>3
  <2>2. Live(e.proc) /\ startedAt[e.proc] = k /\ e.id = handle[e.proc] /\ e.proc \in Job
    BY <2>1 DEF Inv, EntriesInv, TypeOK, Entry
  <2>3. QED
    BY <1>2, <2>1, <2>2
<1>6. HandlesInv'
  <2>1. \A k \in Instance \ {i} : bgCounter'[k] = bgCounter[k]
    BY DEF Inv, TypeOK
  <2>2. startedAt \in [Job -> Instance]
    BY DEF Inv, TypeOK
  <2>3. QED
    BY <1>2, <1>4, <2>1, <2>2 DEF Inv, HandlesInv
<1>7. KeptInv'
  <2>1. \A j \in Job : Answered(j)' <=> Answered(j)
    BY <1>4 DEF Answered
  <2>2. startedAt \in [Job -> Instance]
    BY DEF Inv, TypeOK
  <2>3. ASSUME NEW j \in Job, Live(j)'
        PROVE [id |-> handle[j], proc |-> j] \in bgProcesses'[startedAt[j]] \/ Answered(j)'
    <3>1. Live(j) /\ startedAt[j] \in Instance \ {i}
      BY <1>2, <2>2, <2>3
    <3>2. QED
      BY <1>3, <2>1, <3>1 DEF Inv, KeptInv
  <2>4. QED
    BY <1>4, <2>3 DEF KeptInv
<1>8. QueriesInv'
  <2> SUFFICES ASSUME NEW q \in Query
               PROVE /\ pc'[q] # "idle" => state'[about[q]] # "none"
                     /\ pc'[q] \in {"select", "delete"} =>
                           /\ found'[q] \in Job
                           /\ Live(found[q])'
                           /\ startedAt[found'[q]] = server[q]
                           /\ handle[found'[q]] = handle[about[q]]
    BY <1>4 DEF QueriesInv, Live
  <2>1. pc'[q] # "idle" => pc'[q] = pc[q] /\ found'[q] = found[q] /\ server[q] # i
    BY DEF Inv, TypeOK
  <2>2. about[q] \in Job
    BY DEF Inv, TypeOK
  <2>3. state[about[q]] # "none" => state'[about[q]] # "none"
    BY <2>2
  <2>4. ASSUME pc'[q] \in {"select", "delete"}
        PROVE /\ found'[q] \in Job
              /\ Live(found[q])'
              /\ startedAt[found'[q]] = server[q]
              /\ handle[found'[q]] = handle[about[q]]
    <3>1. /\ found[q] \in Job /\ Live(found[q]) /\ startedAt[found[q]] = server[q]
          /\ handle[found[q]] = handle[about[q]]
          /\ found'[q] = found[q] /\ server[q] # i
      BY <2>1, <2>4 DEF Inv, QueriesInv
    <3>2. state'[found[q]] = state[found[q]]
      BY <3>1 DEF Inv, TypeOK
    <3>3. QED
      BY <3>1, <3>2 DEF Live
  <2>5. QED
    BY <2>1, <2>3, <2>4 DEF Inv, QueriesInv
<1>9. AnswersOwnCommandAtHome' /\ UnknownAtHomeOnlyAfterResult'
  BY <1>4 DEF Inv, AnswersOwnCommandAtHome, UnknownAtHomeOnlyAfterResult
<1>10. QED
  BY <1>1, <1>5, <1>6, <1>7, <1>8, <1>9 DEF Inv

(* Inv is an invariant of BashBackground.                                  *)
LEMMA Invariance == Spec => []Inv
<1>1. Inv /\ [Next]_vars => Inv'
  <2> SUFFICES ASSUME Inv, [Next]_vars PROVE Inv'
    OBVIOUS
  <2>1. CASE UNCHANGED vars
    BY <2>1 DEF vars, Inv, TypeOK, EntriesInv, HandlesInv, KeptInv, QueriesInv, Live, Answered,
         AnswersOwnCommandAtHome, UnknownAtHomeOnlyAfterResult
  <2>2. CASE Next
    BY <2>2, LaunchInv, FinishInv, AskInv, LookupInv, SelectInv, DeleteInv, RestartInv DEF Next
  <2>3. QED
    BY <2>1, <2>2
<1>2. QED
  BY InitInv, <1>1, PTL DEF Spec

-----------------------------------------------------------------------------
(* The variables of BashBackground have their types.                       *)
THEOREM TypeCorrect == Spec => []TypeOK
<1>1. Inv => TypeOK
  BY DEF Inv
<1>2. QED
  BY <1>1, Invariance, PTL

(* The result of a background command is kept until a call answers it, or  *)
(* the instance is replaced: no interleaving of starts and status calls    *)
(* loses it.                                                               *)
THEOREM NoResultLost == Spec => []ResultKept
<1>1. Inv => ResultKept
  BY DEF Inv, KeptInv, TypeOK, Live, Answered, ResultKept
<1>2. QED
  BY <1>1, Invariance, PTL

(* A status call that reaches the process that started its command is      *)
(* answered about that command.                                            *)
THEOREM OwnCommandAtHome == Spec => []AnswersOwnCommandAtHome
<1>1. Inv => AnswersOwnCommandAtHome
  BY DEF Inv
<1>2. QED
  BY <1>1, Invariance, PTL

(* There, a command is unknown only when its result was answered before.   *)
THEOREM KnownAtHome == Spec => []UnknownAtHomeOnlyAfterResult
<1>1. Inv => UnknownAtHomeOnlyAfterResult
  BY DEF Inv
<1>2. QED
  BY <1>1, Invariance, PTL
=============================================================================
