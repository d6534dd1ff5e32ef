--------------------------- MODULE ExitWaitProofs ---------------------------
(***************************************************************************)
(* Proofs for ExitWait, for any number of processes and statuses: a record *)
(* is in one place until it is freed once, a status is neither lost nor    *)
(* collected twice, and an exit completes the wait for it.                 *)
(***************************************************************************)
EXTENDS ExitWait, FiniteSetTheorems, TLAPS

\* The record of c is in the list of some process.
Listed(R, c) == \E q \in Pid : \E e \in R[q] : e.pid = c

\* Pids are given out once, and only processes given out have a history.
PidInv ==
  /\ \A c \in Pid : c >= next_pid =>
       c \notin table /\ exited[c] = NoStatus /\ collected[c] = 0 /\ freed[c] = 0
  /\ \A c \in Pid : parent[c] # None => parent[c] < next_pid
  /\ \A c \in Pid : c \notin table => wait[c] = NoWait

\* Where records are and what they say.
RecordInv ==
  /\ \A q \in Pid : \A e \in records[q] :
       /\ q \in table /\ parent[e.pid] = q /\ e.pid < next_pid /\ e.pid \notin own
       /\ e.status = exited[e.pid] /\ collected[e.pid] = 0
  /\ \A c \in alive : c \in own /\ exited[c] = NoStatus /\ collected[c] = 0
  /\ \A c \in own : collected[c] = 0
  /\ \A c \in Pid : c < next_pid =>
       freed[c] = IF c \in own \/ Listed(records, c) THEN 0 ELSE 1

\* Only the living are on a queue, and not with a result.
LinkInv ==
  \A p \in Pid : wait[p].linked => p \in alive /\ ~wait[p].ready

IInv == TypeOK /\ PidInv /\ RecordInv /\ StatusKept /\ LinkInv /\ WaitIsSound

USE ExitWaitAssumption DEF None

-----------------------------------------------------------------------------
\* What the proofs use of the range of pids.
LEMMA PidRange ==
  /\ 1 \in Pid
  /\ \A n \in Pid : n \in Nat /\ n # 0 /\ n <= MaxPid
  /\ \A n \in 1 .. MaxPid + 1 : n \in Pid <=> n < MaxPid + 1
BY DEF Pid

USE PidRange

\* The empty wait is a wait, not ready and on no queue.
LEMMA NoWaitType == NoWait \in Wait /\ NoWait.ready = FALSE /\ NoWait.linked = FALSE
BY DEF NoWait, Wait

\* The boot process alone satisfies the invariant.
LEMMA ExitInit == Init => IInv
<1> SUFFICES ASSUME Init PROVE IInv
  OBVIOUS
<1>1. TypeOK
  BY NoWaitType DEF Init, TypeOK
<1>2. PidInv
  BY DEF Init, PidInv
<1>3. RecordInv
  BY DEF Init, RecordInv, Listed
<1>4. StatusKept
  BY DEF Init, StatusKept
<1>5. LinkInv /\ WaitIsSound
  BY NoWaitType DEF Init, LinkInv, WaitIsSound
<1> QED BY <1>1, <1>2, <1>3, <1>4, <1>5 DEF IInv

\* A new pid has no history, so its record is nowhere but with it.
LEMMA SpawnStep == ASSUME IInv, NEW p \in Pid, Spawn(p) PROVE IInv'
<1> USE DEF IInv
<1>1. /\ p \in alive /\ p < next_pid /\ next_pid \in Pid
  BY DEF Spawn, Running, TypeOK, PidInv
<1>2. TypeOK'
  <2>1. next_pid' \in 1 .. MaxPid + 1
    BY <1>1 DEF Spawn
  <2>2. parent' \in [Pid -> Pid \cup {None}]
    BY <1>1 DEF Spawn, TypeOK
  <2>3. alive' \subseteq table' /\ table' \subseteq Pid /\ own' \subseteq table'
    BY <1>1 DEF Spawn, TypeOK
  <2> QED BY <2>1, <2>2, <2>3 DEF Spawn, TypeOK
<1>3. PidInv'
  <2>1. ASSUME NEW c \in Pid, c >= next_pid'
        PROVE  c \notin table' /\ exited[c] = NoStatus /\ collected[c] = 0 /\ freed[c] = 0
    BY <1>1, <2>1 DEF Spawn, PidInv
  <2>2. ASSUME NEW c \in Pid, parent'[c] # None
        PROVE  parent'[c] < next_pid'
    <3>1. parent'[c] = IF c = next_pid THEN p ELSE parent[c]
      BY DEF Spawn, TypeOK
    <3>2. parent[c] \in Pid \cup {None} /\ next_pid' = next_pid + 1
      BY DEF Spawn, TypeOK
    <3> QED BY <1>1, <2>2, <3>1, <3>2 DEF PidInv
  <2> QED BY <2>1, <2>2 DEF Spawn, PidInv
<1>4. RecordInv'
  <2>1. ~Listed(records, next_pid)
    BY <1>1 DEF Listed, RecordInv, TypeOK, Record
  <2>2. ASSUME NEW q \in Pid, NEW e \in records[q]
        PROVE  /\ q \in table' /\ parent'[e.pid] = q /\ e.pid < next_pid' /\ e.pid \notin own'
               /\ e.status = exited[e.pid] /\ collected[e.pid] = 0
    <3>1. e.pid \in Pid
      BY DEF TypeOK, Record
    <3>2. /\ q \in table /\ parent[e.pid] = q /\ e.pid < next_pid /\ e.pid \notin own
          /\ e.status = exited[e.pid] /\ collected[e.pid] = 0
      BY DEF RecordInv
    <3>3. e.pid # next_pid /\ e.pid < next_pid + 1
      BY <1>1, <3>1, <3>2
    <3>4. parent'[e.pid] = parent[e.pid]
      BY <3>1, <3>3 DEF Spawn, TypeOK
    <3> QED BY <3>2, <3>3, <3>4 DEF Spawn
  <2>3. \A c \in alive' : c \in own' /\ exited[c] = NoStatus /\ collected[c] = 0
    BY <1>1 DEF Spawn, PidInv, RecordInv
  <2>4. \A c \in own' : collected[c] = 0
    BY <1>1 DEF Spawn, PidInv, RecordInv
  <2>5. \A c \in Pid : c < next_pid' =>
          freed[c] = IF c \in own' \/ Listed(records, c) THEN 0 ELSE 1
    BY <1>1, <2>1 DEF Spawn, PidInv, RecordInv, TypeOK
  <2> QED BY <2>2, <2>3, <2>4, <2>5 DEF Spawn, RecordInv, Listed
<1>5. StatusKept'
  BY <1>1 DEF Spawn, TypeOK, PidInv, StatusKept
<1>6. LinkInv'
  BY DEF Spawn, LinkInv
<1>7. WaitIsSound'
  <2>1. wait'[next_pid] = NoWait
    BY <1>1 DEF Spawn, PidInv
  <2>2. ASSUME NEW c \in alive PROVE c \in Pid /\ c # next_pid /\ parent'[c] = parent[c]
    BY <1>1 DEF Spawn, TypeOK, PidInv
  <2> QED BY <2>1, <2>2, NoWaitType DEF Spawn, WaitIsSound, process_find_child
<1> QED BY <1>2, <1>3, <1>4, <1>5, <1>6, <1>7

\* The record of a child that never ran is freed, once.
LEMMA SpawnFailsStep == ASSUME IInv, NEW p \in Pid, SpawnFails(p) PROVE IInv'
<1> USE DEF IInv
<1>1. next_pid \in Pid /\ next_pid' = next_pid + 1
  BY DEF SpawnFails
<1>2. freed' = [r \in Pid |-> IF r = next_pid THEN freed[r] + 1 ELSE freed[r]]
  BY DEF SpawnFails, Free
<1>3. freed[next_pid] = 0
  BY <1>1 DEF PidInv
<1>4. TypeOK'
  <2>1. next_pid' \in 1 .. MaxPid + 1
    BY <1>1
  <2>2. freed' \in [Pid -> Nat]
    BY <1>2 DEF TypeOK
  <2> QED BY <2>1, <2>2, Zenon DEF SpawnFails, TypeOK
<1>5. PidInv'
  <2>1. ASSUME NEW c \in Pid, c >= next_pid'
        PROVE  c \notin table /\ exited[c] = NoStatus /\ collected[c] = 0 /\ freed'[c] = 0
    BY <1>1, <1>2, <2>1 DEF PidInv
  <2>2. ASSUME NEW c \in Pid, parent[c] # None
        PROVE  parent[c] < next_pid'
    <3>1. parent[c] \in Pid
      BY <2>2 DEF TypeOK
    <3>2. parent[c] < next_pid
      BY <2>2 DEF PidInv
    <3> QED BY <1>1, <3>1, <3>2
  <2> QED BY <2>1, <2>2 DEF SpawnFails, PidInv
<1>6. RecordInv'
  <2>1. ~Listed(records, next_pid) /\ next_pid \notin own
    BY <1>1 DEF Listed, RecordInv, PidInv, TypeOK, Record
  <2>2. ASSUME NEW q \in Pid, NEW e \in records[q] PROVE e.pid < next_pid'
    <3>1. e.pid \in Pid
      BY DEF TypeOK, Record
    <3>2. e.pid < next_pid
      BY DEF RecordInv
    <3> QED BY <1>1, <3>1, <3>2
  <2>3. ASSUME NEW c \in Pid, c < next_pid'
        PROVE  freed'[c] = IF c \in own \/ Listed(records, c) THEN 0 ELSE 1
    <3>1. CASE c = next_pid
      BY <1>2, <1>3, <2>1, <3>1
    <3>2. CASE c # next_pid
      BY <1>1, <1>2, <2>3, <3>2 DEF RecordInv, TypeOK
    <3> QED BY <3>1, <3>2
  <2>4. UNCHANGED <<table, alive, parent, own, records, exited, collected>>
    BY DEF SpawnFails
  <2>5. RecordInv
    OBVIOUS
  <2> QED BY ONLY <2>2, <2>3, <2>4, <2>5 DEF RecordInv, Listed
<1>7. StatusKept' /\ LinkInv' /\ WaitIsSound'
  BY DEF SpawnFails, StatusKept, LinkInv, WaitIsSound, process_find_child
<1> QED BY <1>4, <1>5, <1>6, <1>7

\* exit_record_claim() of a record that is there.
LEMMA ClaimStep ==
  ASSUME IInv, NEW p \in Pid, NEW r \in records[p], exit_record_claim(p, r.pid),
         UNCHANGED <<table, alive, parent, own, next_pid, exited>>,
         wait' \in [Pid -> Wait], \A c \in Pid : c \notin table => wait'[c] = NoWait
  PROVE  /\ TypeOK' /\ PidInv' /\ RecordInv' /\ StatusKept'
         /\ \A q \in Pid \ {p} : records'[q] = records[q]
<1> USE DEF IInv
<1> DEFINE c == r.pid
<1>1. /\ c \in Pid /\ c < next_pid /\ c \notin own /\ parent[c] = p
      /\ r.status = exited[c] /\ collected[c] = 0 /\ freed[c] = 0 /\ p \in table
  BY DEF RecordInv, TypeOK, Record, Listed
<1>2. \A q \in Pid : \A e \in records[q] : e.pid = c => q = p
  BY <1>1 DEF RecordInv
<1> HIDE DEF c
<1>3. records' = [records EXCEPT ![p] = {e \in records[p] : e.pid # c}]
  BY DEF exit_record_claim, c
<1>4. freed' = [q \in Pid |-> IF q = c THEN freed[q] + 1 ELSE freed[q]]
  <2>1. {e.pid : e \in {q \in records[p] : q.pid = c}} = {c}
    BY DEF c
  <2> QED BY <2>1 DEF exit_record_claim, Free, c
<1>5. collected' = [collected EXCEPT ![c] = 1]
  BY <1>1 DEF exit_record_claim, TypeOK, c
<1>6. TypeOK'
  BY <1>1, <1>3, <1>4, <1>5 DEF TypeOK
<1>7. PidInv'
  BY <1>1, <1>4, <1>5 DEF PidInv, TypeOK
<1>8. \A q \in Pid : records'[q] = {e \in records[q] : e.pid # c}
  BY <1>2, <1>3 DEF TypeOK
<1>9. RecordInv'
  <2>1. ASSUME NEW d \in Pid PROVE Listed(records', d) <=> Listed(records, d) /\ d # c
    BY <1>8 DEF Listed
  <2>2. ASSUME NEW d \in Pid, d < next_pid
        PROVE  freed'[d] = IF d \in own \/ Listed(records', d) THEN 0 ELSE 1
    BY <1>1, <1>4, <2>1, <2>2 DEF RecordInv, TypeOK
  <2>3. ASSUME NEW q \in Pid, NEW e \in records'[q]
        PROVE  /\ q \in table /\ parent[e.pid] = q /\ e.pid < next_pid /\ e.pid \notin own
               /\ e.status = exited[e.pid] /\ collected'[e.pid] = 0
    <3>1. e \in records[q] /\ e.pid # c /\ e.pid \in Pid
      BY <1>8 DEF TypeOK, Record
    <3> QED BY <1>1, <1>5, <3>1 DEF RecordInv, TypeOK
  <2>4. \A d \in own : collected'[d] = 0
    BY <1>1, <1>5 DEF RecordInv, TypeOK
  <2>5. \A d \in alive : d \in own /\ exited[d] = NoStatus /\ collected'[d] = 0
    BY <2>4 DEF RecordInv
  <2> QED BY <2>2, <2>3, <2>4, <2>5 DEF RecordInv
<1>10. StatusKept'
  BY <1>1, <1>5, <1>8 DEF StatusKept, TypeOK
<1> QED BY <1>3, <1>6, <1>7, <1>9, <1>10 DEF TypeOK

\* A process that no longer waits disturbs no wait of another.
LEMMA OthersWait ==
  ASSUME IInv, NEW p \in Pid, UNCHANGED <<alive, parent>>, wait'[p] = NoWait,
         \A q \in Pid \ {p} : wait'[q] = wait[q] /\ records'[q] = records[q]
  PROVE  LinkInv' /\ WaitIsSound'
<1>1. \A q \in alive : q \in Pid
  BY DEF IInv, TypeOK
<1> QED BY <1>1, NoWaitType DEF IInv, LinkInv, WaitIsSound, process_find_child

\* A wait that finds the record collects it.
LEMMA SysTryWaitStep ==
  ASSUME IInv, NEW p \in Pid, NEW c \in Pid, SysTryWait(p, c) PROVE IInv'
<1> USE DEF IInv
<1>1. PICK r \in records[p] : r.pid = c
  BY DEF SysTryWait
<1>2. /\ TypeOK' /\ PidInv' /\ RecordInv' /\ StatusKept'
      /\ \A q \in Pid \ {p} : records'[q] = records[q]
  BY <1>1, ClaimStep, SMTT(30) DEF SysTryWait, TypeOK, PidInv
<1>3. LinkInv' /\ WaitIsSound'
  BY <1>2, OthersWait DEF SysTryWait, Running
<1> QED BY <1>2, <1>3

\* A wait for a living child puts the parent on that child's queue.
LEMMA SysWaitStep ==
  ASSUME IInv, NEW p \in Pid, NEW c \in Pid, SysWait(p, c) PROVE IInv'
<1> USE DEF IInv
<1> DEFINE w == [NoWait EXCEPT !.child = c, !.linked = TRUE]
<1>1. w \in Wait /\ w.ready = FALSE /\ w.linked = TRUE /\ w.child = c
  BY Zenon DEF NoWait, Wait
<1> HIDE DEF w
<1>2. wait' = [wait EXCEPT ![p] = w] /\ p \in alive /\ process_find_child(p, c)
  BY DEF SysWait, Running, w
<1>3. TypeOK'
  BY <1>1, <1>2 DEF SysWait, TypeOK
<1>4. PidInv' /\ RecordInv' /\ StatusKept'
  BY <1>2 DEF SysWait, PidInv, RecordInv, StatusKept, TypeOK
<1>5. LinkInv'
  BY <1>1, <1>2, ZenonT(40) DEF SysWait, LinkInv, TypeOK
<1>6. WaitIsSound'
  <2>1. \A q \in alive : q \in Pid /\ wait'[q] = IF q = p THEN w ELSE wait[q]
    BY <1>2 DEF TypeOK
  <2>2. /\ WaitIsSound /\ process_find_child(p, c)
        /\ UNCHANGED <<alive, parent, records>>
    BY DEF SysWait
  <2> QED BY ONLY <1>1, <2>1, <2>2 DEF WaitIsSound, process_find_child
<1> QED BY <1>3, <1>4, <1>5, <1>6

\* A signal ends a wait without a result and leaves one with a result.
LEMMA InterruptStep == ASSUME IInv, NEW p \in Pid, Interrupt(p) PROVE IInv'
<1> USE DEF IInv
<1>1. CASE wait[p].ready
  <2>1. wait' = wait
    BY <1>1 DEF Interrupt, process_interrupt_wait
  <2> QED BY <2>1 DEF Interrupt, TypeOK, PidInv, RecordInv, StatusKept, LinkInv, WaitIsSound,
                      process_find_child
<1>2. CASE ~wait[p].ready
  <2>1. wait' = [wait EXCEPT ![p] = NoWait]
    BY <1>2 DEF Interrupt, process_interrupt_wait
  <2>2. TypeOK'
    BY <2>1, NoWaitType DEF Interrupt, TypeOK
  <2>3. PidInv' /\ RecordInv' /\ StatusKept'
    BY <2>1 DEF Interrupt, PidInv, RecordInv, StatusKept, TypeOK
  <2>4. LinkInv' /\ WaitIsSound'
    BY <2>1, OthersWait DEF Interrupt, TypeOK
  <2> QED BY <2>2, <2>3, <2>4
<1> QED BY <1>1, <1>2, SMTT(30)

\* A resumed parent collects the record of its result, or leaves it.
LEMMA CompleteWaitStep ==
  ASSUME IInv, NEW p \in Pid, process_complete_wait(p) PROVE IInv'
<1> USE DEF IInv
<1>1. wait' = [wait EXCEPT ![p] = NoWait] /\ p \in alive
  BY DEF process_complete_wait
<1>2. PICK r \in records[p] : r.pid = wait[p].result
  BY Zenon DEF process_complete_wait, WaitIsSound
<1>3. wait' \in [Pid -> Wait] /\ \A c \in Pid : c \notin table => wait'[c] = NoWait
  BY <1>1, NoWaitType DEF TypeOK, PidInv
<1>4. CASE exit_record_claim(p, wait[p].result)
  <2>1. /\ TypeOK' /\ PidInv' /\ RecordInv' /\ StatusKept'
        /\ \A q \in Pid \ {p} : records'[q] = records[q]
    BY <1>2, <1>3, <1>4, ClaimStep DEF process_complete_wait
  <2>2. LinkInv' /\ WaitIsSound'
    BY <1>1, <2>1, OthersWait DEF process_complete_wait, TypeOK
  <2> QED BY <2>1, <2>2
<1>5. CASE UNCHANGED <<records, freed, collected>>
  <2>1. TypeOK' /\ PidInv' /\ RecordInv' /\ StatusKept'
    BY <1>3, <1>5 DEF process_complete_wait, TypeOK, PidInv, RecordInv, StatusKept
  <2>2. LinkInv' /\ WaitIsSound'
    BY <1>1, <1>5, OthersWait DEF process_complete_wait, TypeOK
  <2> QED BY <2>1, <2>2, SMTT(30)
<1> QED BY <1>4, <1>5 DEF process_complete_wait

\* A dead process goes with its record and those it has not collected.
LEMMA DestroyStep == ASSUME IInv, NEW p \in Pid, process_destroy(p) PROVE IInv'
<1> USE DEF IInv
<1>1. p \in table /\ p \notin alive
  BY DEF process_destroy
<1>2. \A q \in Pid : records'[q] = IF q = p THEN {} ELSE records[q]
  BY DEF process_destroy, TypeOK
<1>3. \A q \in Pid : wait'[q] = IF q = p THEN NoWait ELSE wait[q]
  BY DEF process_destroy, TypeOK
<1>4. ASSUME NEW c \in Pid, Listed(records, c), c \notin own
      PROVE  Listed(records', c) <=> c \notin {r.pid : r \in records[p]}
  BY <1>2, <1>4 DEF Listed, RecordInv
<1>5. freed' = [c \in Pid |-> IF (c = p /\ c \in own) \/ c \in {r.pid : r \in records[p]}
                              THEN freed[c] + 1 ELSE freed[c]]
  BY DEF process_destroy, Free
<1>6. TypeOK'
  <2>1. records' \in [Pid -> SUBSET Record] /\ wait' \in [Pid -> Wait]
    BY NoWaitType DEF process_destroy, TypeOK
  <2>2. freed' \in [Pid -> Nat]
    BY <1>5 DEF TypeOK
  <2> QED BY <1>1, <2>1, <2>2 DEF process_destroy, TypeOK
<1>7. \A r \in records[p] : r.pid \in Pid /\ r.pid < next_pid
  BY DEF RecordInv, TypeOK, Record
<1>8. PidInv'
  <2>1. ASSUME NEW c \in Pid, c >= next_pid PROVE freed'[c] = 0
    BY <1>1, <1>5, <1>7, <2>1, SMTT(30) DEF PidInv, TypeOK
  <2> QED BY <1>3, <2>1 DEF process_destroy, PidInv
<1>9. RecordInv'
  <2>1. ASSUME NEW c \in Pid, c < next_pid
        PROVE  freed'[c] = IF c \in own' \/ Listed(records', c) THEN 0 ELSE 1
    <3>1. freed[c] = IF c \in own \/ Listed(records, c) THEN 0 ELSE 1
      BY <2>1 DEF RecordInv
    <3>2. c \in own' <=> c \in own /\ c # p
      BY DEF process_destroy
    <3>3. Listed(records', c) => Listed(records, c)
      BY <1>2 DEF Listed
    <3>4. c \in own => ~Listed(records, c)
      BY DEF RecordInv, Listed
    <3>5. c \in {r.pid : r \in records[p]} => Listed(records, c)
      BY DEF Listed
    <3>6. freed'[c] = IF (c = p /\ c \in own) \/ c \in {r.pid : r \in records[p]}
                        THEN freed[c] + 1 ELSE freed[c]
      BY <1>5
    <3>7. CASE c \in own
      BY <3>1, <3>2, <3>3, <3>4, <3>5, <3>6, <3>7
    <3>8. CASE c \notin own /\ Listed(records, c)
      <4>1. Listed(records', c) <=> c \notin {r.pid : r \in records[p]}
        BY <1>4, <3>8
      <4>2. CASE c \in {r.pid : r \in records[p]}
        BY <3>1, <3>2, <3>6, <3>8, <4>1, <4>2
      <4>3. CASE c \notin {r.pid : r \in records[p]}
        BY <3>1, <3>2, <3>6, <3>8, <4>1, <4>3
      <4> QED BY <4>2, <4>3
    <3>9. CASE c \notin own /\ ~Listed(records, c)
      BY <3>1, <3>2, <3>3, <3>5, <3>6, <3>9
    <3> QED BY <3>7, <3>8, <3>9
  <2>2. ASSUME NEW q \in Pid, NEW e \in records'[q]
        PROVE  /\ q \in table' /\ parent[e.pid] = q /\ e.pid < next_pid /\ e.pid \notin own'
               /\ e.status = exited[e.pid] /\ collected[e.pid] = 0
    BY <1>2 DEF process_destroy, RecordInv
  <2>3. \A c \in alive : c \in own' /\ exited[c] = NoStatus /\ collected[c] = 0
    BY <1>1 DEF process_destroy, RecordInv
  <2>4. \A c \in own' : collected[c] = 0
    BY DEF process_destroy, RecordInv
  <2>5. UNCHANGED <<alive, parent, next_pid, exited, collected>>
    BY DEF process_destroy
  <2> QED BY ONLY <2>1, <2>2, <2>3, <2>4, <2>5 DEF RecordInv, Listed
<1>10. StatusKept'
  BY <1>1, <1>2, SMTT(30) DEF process_destroy, StatusKept, TypeOK
<1>11. LinkInv' /\ WaitIsSound'
  <2>1. wait'[p] = NoWait /\ \A q \in Pid \ {p} : wait'[q] = wait[q] /\ records'[q] = records[q]
    BY <1>2, <1>3, SMTT(30)
  <2> QED BY <2>1, OthersWait DEF process_destroy
<1> QED BY <1>6, <1>8, <1>9, <1>10, <1>11

\* What an exit does to the waits of others: it leaves them, interrupts the
\* parent's, or completes the parent's when it is a wait for this child.
LEMMA ExitWaits ==
  ASSUME IInv, NEW p \in Pid, NEW s \in Status, Exit(p, s)
  PROVE  /\ wait' \in [Pid -> Wait] /\ ~wait'[p].linked
         /\ \A w \in Pid \ {p} :
              \/ wait'[w] = wait[w] /\ ~(wait[w].linked /\ wait[w].child = p)
              \/ wait'[w] = NoWait /\ ~(wait[w].linked /\ wait[w].child = p)
              \/ /\ w = parent[p] /\ w \in alive /\ wait[w].linked /\ wait[w].child = p
                 /\ wait'[w].child = p /\ wait'[w].result = p /\ wait'[w].status = s
                 /\ wait'[w].ready /\ ~wait'[w].linked
<1> USE DEF IInv
<1> DEFINE W == [wait EXCEPT ![p] = [@ EXCEPT !.linked = FALSE]]
           K == Woken(W, p, s)
<1>1. W \in [Pid -> Wait] /\ ~W[p].linked /\ \A w \in Pid \ {p} : W[w] = wait[w]
  <2> DEFINE v == [wait[p] EXCEPT !.linked = FALSE]
  <2>1. wait[p] \in Wait /\ W = [wait EXCEPT ![p] = v]
    BY DEF TypeOK
  <2>2. v \in Wait /\ ~v.linked
    BY <2>1, Zenon DEF Wait
  <2> HIDE DEF v, W
  <2> QED BY <2>1, <2>2 DEF TypeOK
<1> HIDE DEF W
<1>2. ASSUME NEW w \in Pid, W[w].linked, W[w].child = p
      PROVE  w # p /\ w = parent[p] /\ w \in alive
  <2>1. w # p /\ wait[w].linked /\ wait[w].child = p
    BY <1>1, <1>2
  <2> QED BY <2>1, NoWaitType, Zenon DEF LinkInv, WaitIsSound, process_find_child
<1>3. /\ K \in [Pid -> Wait]
      /\ \A w \in Pid : IF W[w].linked /\ W[w].child = p
                        THEN /\ K[w].child = p /\ K[w].result = p /\ K[w].status = s
                             /\ K[w].ready /\ ~K[w].linked
                        ELSE K[w] = W[w]
  <2>1. ASSUME NEW w \in Pid
        PROVE  /\ K[w] \in Wait
               /\ IF W[w].linked /\ W[w].child = p
                    THEN /\ K[w].child = p /\ K[w].result = p /\ K[w].status = s
                         /\ K[w].ready /\ ~K[w].linked
                    ELSE K[w] = W[w]
    <3>1. K[w] = IF W[w].linked /\ W[w].child = p
                   THEN [W[w] EXCEPT !.result = p, !.status = s, !.ready = TRUE, !.linked = FALSE]
                   ELSE W[w]
      BY DEF Woken
    <3>2. W[w] \in Wait
      BY <1>1
    <3>3. CASE W[w].linked /\ W[w].child = p
      <4>1. K[w] = [W[w] EXCEPT !.result = p, !.status = s, !.ready = TRUE, !.linked = FALSE]
        BY <3>1, <3>3
      <4> DEFINE v == W[w]
                 u == K[w]
      <4>2. v \in Wait /\ v.child = p /\ v.linked
            /\ u = [v EXCEPT !.result = p, !.status = s, !.ready = TRUE, !.linked = FALSE]
        BY <3>2, <3>3, <4>1
      <4> HIDE DEF K, v, u
      <4>3. u \in Wait /\ u.child = p /\ u.result = p /\ u.status = s /\ u.ready /\ ~u.linked
        BY <4>2, Zenon DEF Wait
      <4> QED BY <3>3, <4>3 DEF u
    <3> QED BY <3>1, <3>2, <3>3
  <2>2. K = [w \in Pid |-> K[w]]
    BY DEF Woken
  <2> QED BY <2>1, <2>2
<1> HIDE DEF K
<1>4. CASE parent[p] \notin alive
  <2>1. wait' = W
    BY <1>4, SMTT(30) DEF Exit, W
  <2> QED BY <1>1, <1>2, <1>4, <2>1
<1>5. CASE parent[p] \in alive
  <2>1. \/ wait' = K
        \/ wait' = process_interrupt_wait(K, parent[p])
    BY <1>5, Zenon DEF Exit, ExitNotice, W, K
  <2>2. parent[p] \in Pid
    BY <1>5 DEF TypeOK
  <2>3. \/ wait' = K
        \/ wait' = [K EXCEPT ![parent[p]] = NoWait] /\ ~K[parent[p]].ready
    BY <2>1, SMTT(30) DEF process_interrupt_wait
  <2>4. CASE wait' = K
    BY <1>1, <1>2, <1>3, <2>4, SMTT(30)
  <2>5. CASE wait' = [K EXCEPT ![parent[p]] = NoWait] /\ ~K[parent[p]].ready
    <3>1. wait' \in [Pid -> Wait] /\ ~wait'[p].linked
      BY <1>1, <1>3, <2>2, <2>5, NoWaitType
    <3>2. \A w \in Pid \ {p} : wait'[w] = IF w = parent[p] THEN NoWait ELSE K[w]
      BY <1>3, <2>2, <2>5
    <3> QED BY <1>1, <1>2, <1>3, <2>2, <2>5, <3>1, <3>2, SMTT(30)
  <2> QED BY <2>3, <2>4, <2>5
<1> QED BY <1>4, <1>5

\* An exit moves the record to a living parent, and nothing else.
LEMMA ExitStep ==
  ASSUME IInv, NEW p \in Pid, NEW s \in Status, Exit(p, s) PROVE IInv'
<1> USE DEF IInv
<1> DEFINE r == [pid |-> p, status |-> s]
           listed == parent[p] \in alive
<1>1. /\ p \in alive /\ p \in own /\ p < next_pid /\ collected[p] = 0 /\ freed[p] = 0
      /\ alive' = alive \ {p} /\ exited' = [exited EXCEPT ![p] = s]
      /\ UNCHANGED <<table, parent, next_pid, freed, collected>>
  BY DEF Exit, RecordInv, PidInv, TypeOK
<1>2. r \in Record /\ r.pid = p /\ r.status = s
  BY DEF Record
<1>3. \A q \in Pid : records'[q] = IF listed /\ q = parent[p] THEN records[q] \cup {r}
                                                       ELSE records[q]
  BY ZenonT(40) DEF Exit, TypeOK
<1>4. own' = IF listed THEN own \ {p} ELSE own
  BY DEF Exit, OwnAfterExit
<1>5. records' \in [Pid -> SUBSET Record]
  BY <1>2 DEF Exit, TypeOK
<1> HIDE DEF r, listed
<1>6. TypeOK'
  <2>1. exited' \in [Pid -> Status \cup {NoStatus}]
    BY <1>1 DEF TypeOK
  <2> QED BY <1>1, <1>4, <1>5, <2>1, ExitWaits DEF TypeOK
<1>7. \A q \in Pid : \A e \in records[q] : e.pid # p /\ e.pid \in Pid
  BY <1>1, SMTT(30) DEF RecordInv, TypeOK, Record
<1>8. PidInv'
  <2>1. \A c \in Pid : c >= next_pid =>
          c \notin table /\ exited'[c] = NoStatus /\ collected[c] = 0 /\ freed[c] = 0
    <3>1. ASSUME NEW c \in Pid, c >= next_pid PROVE exited'[c] = exited[c]
      <4>1. c # p
        BY <1>1, <3>1, ExitWaitAssumption DEF Pid, TypeOK
      <4> QED BY <1>1, <4>1 DEF TypeOK
    <3> QED BY <3>1 DEF PidInv
  <2>2. \A c \in Pid : parent[c] # None => parent[c] < next_pid
    BY DEF PidInv
  <2>3. \A c \in Pid : c \notin table => wait'[c] = NoWait
    BY <1>1, <1>6, ExitWaits DEF PidInv, TypeOK
  <2> QED BY <1>1, <2>1, <2>2, <2>3 DEF PidInv
<1>9. RecordInv'
  <2>1. ASSUME NEW q \in Pid, NEW e \in records'[q]
        PROVE  /\ q \in table /\ parent[e.pid] = q /\ e.pid < next_pid /\ e.pid \notin own'
               /\ e.status = exited'[e.pid] /\ collected[e.pid] = 0
    <3>1. CASE e \in records[q]
      BY <1>1, <1>4, <1>7, <3>1 DEF RecordInv, TypeOK
    <3>2. CASE e = r /\ listed /\ q = parent[p]
      BY <1>1, <1>2, <1>4, <3>2 DEF TypeOK, listed
    <3> QED BY <1>3, <3>1, <3>2, Zenon
  <2>2. ASSUME NEW c \in Pid PROVE Listed(records', c) <=> Listed(records, c) \/ (listed /\ c = p)
    <3>1. listed => parent[p] \in Pid
      BY DEF listed, TypeOK
    <3> QED BY <1>2, <1>3, <3>1, ZenonT(40) DEF Listed
  <2>3. ASSUME NEW c \in Pid, c < next_pid
        PROVE  freed[c] = IF c \in own' \/ Listed(records', c) THEN 0 ELSE 1
    BY <1>1, <1>4, <2>2, <2>3 DEF RecordInv
  <2>4. \A c \in alive' : c \in own' /\ exited'[c] = NoStatus /\ collected[c] = 0
    BY <1>1, <1>4, SMTT(30) DEF RecordInv, TypeOK
  <2>5. \A c \in own' : collected[c] = 0
    BY <1>4, SMTT(30) DEF RecordInv
  <2> QED BY ONLY <1>1, <2>1, <2>3, <2>4, <2>5, ZenonT(40) DEF RecordInv, Listed
<1>10. StatusKept'
  <2>1. ASSUME NEW c \in Pid, exited'[c] # NoStatus, collected[c] = 0, parent[c] \in alive'
        PROVE  [pid |-> c, status |-> exited'[c]] \in records'[parent[c]]
    <3>1. parent[c] \in Pid /\ parent[c] \in alive
      BY <1>1, <2>1 DEF TypeOK
    <3>2. CASE c = p
      BY <1>1, <1>3, <3>1, <3>2, Zenon DEF r, listed, TypeOK
    <3>3. CASE c # p
      BY <1>1, <1>3, <2>1, <3>1, <3>3, Zenon DEF StatusKept, TypeOK
    <3> QED BY <3>2, <3>3
  <2> QED BY <1>1, <2>1 DEF StatusKept
<1>11. LinkInv'
  BY <1>1, ExitWaits, NoWaitType DEF LinkInv
<1>12. WaitIsSound'
  <2>1. ASSUME NEW w \in alive' PROVE w \in Pid \ {p} /\ w \in alive /\ records[w] \subseteq records'[w]
    BY <1>1, <1>3, Zenon DEF TypeOK
  <2>2. ASSUME NEW w \in alive', wait'[w] # NoWait, ~wait'[w].ready
        PROVE  wait'[w].linked /\ wait'[w].child \in alive' /\ parent[wait'[w].child] = w
    <3>1. wait'[w] = wait[w] /\ ~(wait[w].linked /\ wait[w].child = p)
      BY <2>1, <2>2, ExitWaits, SMTT(30)
    <3> QED BY <1>1, <2>1, <2>2, <3>1, Zenon DEF WaitIsSound, process_find_child
  <2>3. ASSUME NEW w \in alive', wait'[w].ready
        PROVE  /\ wait'[w].result = wait'[w].child
               /\ [pid |-> wait'[w].result, status |-> wait'[w].status] \in records'[w]
    <3>1. CASE wait'[w] = wait[w]
      BY <2>1, <2>3, <3>1 DEF WaitIsSound
    <3>2. CASE /\ w = parent[p] /\ w \in alive /\ wait'[w].child = p
               /\ wait'[w].result = p /\ wait'[w].status = s
      <4>1. records'[w] = records[w] \cup {r}
        BY <1>3, <2>1, <3>2, Zenon DEF listed
      <4> QED BY ONLY <3>2, <4>1 DEF r
    <3> QED BY <2>1, <2>3, <3>1, <3>2, ExitWaits, NoWaitType, SMTT(30)
  <2> QED BY <1>1, <2>2, <2>3, Zenon DEF WaitIsSound, process_find_child
<1> QED BY <1>6, <1>8, <1>9, <1>10, <1>11, <1>12

-----------------------------------------------------------------------------
\* Every step, and every step that changes nothing, keeps the invariant.
LEMMA NextStep == IInv /\ [Next]_vars => IInv'
<1> SUFFICES ASSUME IInv, [Next]_vars PROVE IInv'
  BY SMTT(30)
<1>1. CASE UNCHANGED vars
  BY <1>1 DEF IInv, vars, TypeOK, PidInv, RecordInv, Listed, StatusKept, LinkInv,
              WaitIsSound, process_find_child
<1>2. ASSUME NEW p \in Pid,
             \/ Spawn(p) \/ SpawnFails(p) \/ Interrupt(p) \/ process_complete_wait(p)
             \/ process_destroy(p)
             \/ \E c \in Pid : SysTryWait(p, c) \/ SysWait(p, c)
             \/ \E s \in Status : Exit(p, s)
      PROVE  IInv'
  BY <1>2, SpawnStep, SpawnFailsStep, InterruptStep, CompleteWaitStep, DestroyStep,
     SysTryWaitStep, SysWaitStep, ExitStep
<1> QED BY <1>1, <1>2 DEF Next

\* Every reachable state satisfies the invariant.
LEMMA Invariance == Spec => []IInv
BY ExitInit, NextStep, PTL DEF Spec

\* Variables keep their types: pids are never reused and only processes in the
\* list own a record.
THEOREM TypeCorrect == Spec => []TypeOK
<1>1. IInv => TypeOK
  BY DEF IInv
<1> QED BY <1>1, Invariance, PTL

\* A record that is not freed is in one place: with its process, or in the list
\* of its parent.
LEMMA PlacesOfRecord ==
  ASSUME IInv, NEW r \in Pid, r < next_pid
  PROVE  \/ freed[r] = 0 /\ Cardinality(Places(r)) = 1
         \/ freed[r] = 1 /\ Places(r) = {}
<1> USE DEF IInv
<1>1. CASE r \in own
  <2>1. ~Listed(records, r)
    BY <1>1 DEF Listed, RecordInv
  <2>2. Places(r) = {r}
    BY <1>1, <2>1 DEF Places, Listed, TypeOK
  <2> QED BY <1>1, <2>2, FS_Singleton, Zenon DEF RecordInv
<1>2. CASE r \notin own /\ Listed(records, r)
  <2>1. PICK q \in Pid : \E e \in records[q] : e.pid = r
    BY <1>2 DEF Listed
  <2>2. q \in table /\ \A z \in table : (\E e \in records[z] : e.pid = r) => z = q
    BY <2>1 DEF RecordInv, TypeOK
  <2>3. {z \in table : \E e \in records[z] : e.pid = r} = {q}
    BY <2>1, <2>2
  <2>4. Places(r) = {MaxPid + q}
    BY <1>2, <2>3 DEF Places
  <2> QED BY <1>2, <2>4, FS_Singleton, Zenon DEF RecordInv
<1>3. CASE r \notin own /\ ~Listed(records, r)
  <2>1. Places(r) = {}
    BY <1>3 DEF Places, Listed, TypeOK
  <2> QED BY <1>3, <2>1 DEF RecordInv
<1> QED BY <1>1, <1>2, <1>3

\* "Nothing is overwritten" and nothing leaks (exit_record.h): in every run, every
\* exit record is in exactly one place until it is freed, and it is freed once,
\* however exits, interrupted waits and reaping interleave.
THEOREM RecordsAreConserved == Spec => []RecordsConserved
<1>1. ASSUME IInv PROVE RecordsConserved
  <2>1. \A r \in 1 .. next_pid - 1 : r \in Pid /\ r < next_pid
    BY <1>1 DEF IInv, TypeOK
  <2> QED BY <1>1, <2>1, PlacesOfRecord DEF RecordsConserved
<1> QED BY <1>1, Invariance, PTL

\* The status of a child is collected at most once, and until it is, a living
\* parent can collect it with the value process_mark_exited() was given.
THEOREM StatusIsKept == Spec => []StatusKept
<1>1. IInv => StatusKept
  BY DEF IInv
<1> QED BY <1>1, Invariance, PTL

\* A parent asleep in SYS_WAIT is on the queue of a living child, and one that was
\* handed a result still has the record process_complete_wait() will claim.
THEOREM WaitsAreSound == Spec => []WaitIsSound
<1>1. IInv => WaitIsSound
  BY DEF IInv
<1> QED BY <1>1, Invariance, PTL

\* The exit of a child completes the wait of its parent for it, even if SIGCHLD is
\* caught: process_mark_exited() notifies before it signals.
THEOREM ExitCompletes == Spec => ExitCompletesWait
<1> DEFINE Completes ==
      \A p \in alive' : \A c \in alive \ alive' :
        (wait[p].linked /\ wait[p].child = c) => wait'[p].ready /\ wait'[p].result = c
<1>1. ASSUME IInv, Next PROVE Completes
  <2>1. CASE alive \subseteq alive'
    BY <2>1
  <2>2. ASSUME NEW c \in Pid, NEW s \in Status, Exit(c, s) PROVE Completes
    <3>1. alive' = alive \ {c} /\ alive \subseteq Pid
      BY <1>1, <2>2, SMTT(30) DEF Exit, IInv, TypeOK
    <3>2. ASSUME NEW p \in alive', wait[p].linked, wait[p].child = c
          PROVE  wait'[p].ready /\ wait'[p].result = c
      <4>1. p \in Pid \ {c}
        BY <3>1
      <4> QED BY <1>1, <2>2, <3>2, <4>1, ExitWaits
    <3> QED BY <3>1, <3>2
  <2>3. (alive \subseteq alive') \/ \E c \in Pid : \E s \in Status : Exit(c, s)
    BY <1>1, Zenon DEF Next, Spawn, SpawnFails, Interrupt, process_complete_wait, process_destroy,
                SysTryWait, SysWait
  <2> HIDE DEF Completes
  <2> QED BY <2>1, <2>2, <2>3
<1>2. ASSUME IInv, [Next]_vars PROVE [Completes]_vars
  BY <1>1, <1>2
<1> QED BY <1>2, Invariance, PTL DEF Spec, ExitCompletesWait
=============================================================================
