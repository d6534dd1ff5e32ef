------------------------------ MODULE ExitWait ------------------------------
(***************************************************************************)
(* How the exit status of a child reaches its parent: the exit records of  *)
(* kernel/core/exit_record.c and the wait calls of kernel/core/process.c   *)
(* and kernel/core/syscall.c.                                              *)
(*                                                                         *)
(* The record of a process is allocated with it and named by its pid here. *)
(* At the exit it moves into the list of the parent, and a wait frees it.  *)
(* A parent that sleeps in SYS_WAIT is handed the status by the exit, but  *)
(* collects the record only when it is resumed.                            *)
(***************************************************************************)
EXTENDS Integers, FiniteSets

CONSTANTS MaxPid,    \* bound on the number of processes ever created
          Status,    \* exit statuses
          NoStatus   \* the status of a process that has not exited

ASSUME ExitWaitAssumption == MaxPid \in Nat \ {0} /\ NoStatus \notin Status

Pid == 1 .. MaxPid
None == 0

Record == [pid : Pid, status : Status]

\* waiting_for_pid, the result of the wait, and the entry block_wait: a linked
\* entry is on the queue exit_waiters of the child it waits for.
NoWait == [child |-> None, result |-> None, status |-> NoStatus, ready |-> FALSE, linked |-> FALSE]
Wait == [child : Pid \cup {None}, result : Pid \cup {None}, status : Status \cup {NoStatus},
         ready : BOOLEAN, linked : BOOLEAN]

VARIABLES table,      \* the processes in the process list
          alive,      \* those that have not exited
          parent,     \* parent_pid
          own,        \* the processes with an own_exit_record
          records,    \* child_exit_records
          wait,       \* the wait a process is in
          next_pid,
          freed,      \* how often the record of a process was freed
          exited,     \* the status a process exited with
          collected   \* how often that status was returned by a wait

vars == <<table, alive, parent, own, records, wait, next_pid, freed, exited, collected>>

Running(p) == p \in alive /\ wait[p] = NoWait

\* Mutant: a child that has exited but is still in the list is found, too.
process_find_child_Dead(p, c) == c \in table /\ parent[c] = p

process_find_child(p, c) == c \in alive /\ parent[c] = p

Free(R) == [r \in Pid |-> IF r \in R THEN freed[r] + 1 ELSE freed[r]]

-----------------------------------------------------------------------------

\* process_create() and the rest of a spawn.
Spawn(p) ==
  /\ Running(p) /\ next_pid \in Pid
  /\ table' = table \cup {next_pid} /\ alive' = alive \cup {next_pid}
  /\ parent' = [parent EXCEPT ![next_pid] = p]
  /\ own' = own \cup {next_pid}
  /\ next_pid' = next_pid + 1
  /\ UNCHANGED <<records, wait, freed, exited, collected>>

\* The image cannot be loaded or the handles not be set up: process_destroy()
\* of a child that never ran, whose exit nobody records.
SpawnFails(p) ==
  /\ Running(p) /\ next_pid \in Pid
  /\ freed' = Free({next_pid})
  /\ next_pid' = next_pid + 1
  /\ UNCHANGED <<table, alive, parent, own, records, wait, exited, collected>>

\* exit_record_claim() of the record of c, whose status reaches the caller.
exit_record_claim(p, c) ==
  /\ records' = [records EXCEPT ![p] = {r \in @ : r.pid # c}]
  /\ freed' = Free({r.pid : r \in {q \in records[p] : q.pid = c}})
  /\ collected' = [collected EXCEPT ![c] = @ + 1]

\* SYS_TRY_WAIT, and SYS_WAIT for a child that has exited.
SysTryWait(p, c) ==
  /\ Running(p)
  /\ \E r \in records[p] : r.pid = c
  /\ exit_record_claim(p, c)
  /\ UNCHANGED <<table, alive, parent, own, wait, next_pid, exited>>

\* SYS_WAIT for a running child: process_begin_wait().
SysWait(p, c) ==
  /\ Running(p)
  /\ \A r \in records[p] : r.pid # c
  /\ process_find_child(p, c)
  /\ wait' = [wait EXCEPT ![p] = [NoWait EXCEPT !.child = c, !.linked = TRUE]]
  /\ UNCHANGED <<table, alive, parent, own, records, next_pid, freed, exited, collected>>

\* process_wake_child_wait() of every waiter w in the queue of c.
Woken(W, c, s) ==
  [w \in Pid |-> IF W[w].linked /\ W[w].child = c
                 THEN [W[w] EXCEPT !.result = c, !.status = s, !.ready = TRUE, !.linked = FALSE]
                 ELSE W[w]]

process_interrupt_wait(W, p) == IF W[p].ready THEN W ELSE [W EXCEPT ![p] = NoWait]

\* Mutant: SIGCHLD goes to the parent before the exit is recorded.
ExitNotice_SignalFirst(W, p, s, caught) ==
  Woken(IF caught THEN process_interrupt_wait(W, parent[p]) ELSE W, p, s)

\* What the exit of p does to the waits of others: the notice first, then
\* SIGCHLD, which interrupts the parent if it has a handler for it.
ExitNotice(W, p, s, caught) ==
  LET k == Woken(W, p, s)
  IN  IF caught THEN process_interrupt_wait(k, parent[p]) ELSE k

\* Mutant: the exiting process keeps the record it has published.
OwnAfterExit_Kept(p) == own

\* The process to which the record goes no longer owns it.
OwnAfterExit(p) == IF parent[p] \in alive THEN own \ {p} ELSE own

\* process_mark_exited(), by SYS_EXIT or a fatal signal, in whatever call p is.
Exit(p, s) ==
  /\ p \in alive /\ p # 1
  /\ alive' = alive \ {p}
  /\ exited' = [exited EXCEPT ![p] = s]
  /\ own' = OwnAfterExit(p)
  /\ IF parent[p] \in alive
     THEN /\ records' = [records EXCEPT ![parent[p]] = @ \cup {[pid |-> p, status |-> s]}]
          /\ \E caught \in BOOLEAN :
               wait' = ExitNotice([wait EXCEPT ![p] = [@ EXCEPT !.linked = FALSE]], p, s, caught)
     ELSE /\ wait' = [wait EXCEPT ![p] = [@ EXCEPT !.linked = FALSE]]
          /\ UNCHANGED records
  /\ UNCHANGED <<table, parent, next_pid, freed, collected>>

\* Any other signal with a handler ends the wait with EINTR.
Interrupt(p) ==
  /\ p \in alive /\ wait[p] # NoWait
  /\ wait' = process_interrupt_wait(wait, p)
  /\ UNCHANGED <<table, alive, parent, own, records, next_pid, freed, exited, collected>>

\* Mutant: the record is claimed although the status was not delivered.
process_complete_wait_Always(p) ==
  /\ p \in alive /\ wait[p].ready
  /\ wait' = [wait EXCEPT ![p] = NoWait]
  /\ \/ exit_record_claim(p, wait[p].result)
     \/ /\ records' = [records EXCEPT ![p] = {r \in @ : r.pid # wait[p].result}]
        /\ freed' = Free({wait[p].result})
        /\ UNCHANGED collected
  /\ UNCHANGED <<table, alive, parent, own, next_pid, exited>>

\* Mutant: the record is found only when it is the only one.
process_complete_wait_Sole(p) ==
  /\ p \in alive /\ wait[p].ready /\ \A r \in records[p] : r.pid = wait[p].result
  /\ wait' = [wait EXCEPT ![p] = NoWait]
  /\ \/ exit_record_claim(p, wait[p].result)
     \/ UNCHANGED <<records, freed, collected>>
  /\ UNCHANGED <<table, alive, parent, own, next_pid, exited>>

\* The scheduler resumes p.  The status pointer may have become invalid since
\* the wait began, in which case the record stays where it is.
process_complete_wait(p) ==
  /\ p \in alive /\ wait[p].ready
  /\ wait' = [wait EXCEPT ![p] = NoWait]
  /\ \/ exit_record_claim(p, wait[p].result)
     \/ UNCHANGED <<records, freed, collected>>
  /\ UNCHANGED <<table, alive, parent, own, next_pid, exited>>

\* The scheduler, or the out-of-memory killer, destroys a dead process with
\* the record it still owns and the records nobody collected.
process_destroy(p) ==
  /\ p \in table \ alive
  /\ table' = table \ {p}
  /\ own' = own \ {p}
  /\ freed' = Free((own \cap {p}) \cup {r.pid : r \in records[p]})
  /\ records' = [records EXCEPT ![p] = {}]
  /\ wait' = [wait EXCEPT ![p] = NoWait]
  /\ UNCHANGED <<alive, parent, next_pid, exited, collected>>

Init ==
  /\ table = {1} /\ alive = {1}
  /\ parent = [p \in Pid |-> None]
  /\ own = {1}
  /\ records = [p \in Pid |-> {}]
  /\ wait = [p \in Pid |-> NoWait]
  /\ next_pid = 2
  /\ freed = [p \in Pid |-> 0]
  /\ exited = [p \in Pid |-> NoStatus]
  /\ collected = [p \in Pid |-> 0]

Next ==
  \E p \in Pid :
    \/ Spawn(p) \/ SpawnFails(p) \/ Interrupt(p) \/ process_complete_wait(p) \/ process_destroy(p)
    \/ \E c \in Pid : SysTryWait(p, c) \/ SysWait(p, c)
    \/ \E s \in Status : Exit(p, s)

Spec == Init /\ [][Next]_vars

\* The scheduler resumes a process that can go on.
FairSpec == Spec /\ \A p \in Pid : WF_vars(process_complete_wait(p))

-----------------------------------------------------------------------------
(* Properties. *)

\* The types of the variables; only processes in the list own a record.
TypeOK ==
  /\ alive \subseteq table /\ table \subseteq Pid
  /\ parent \in [Pid -> Pid \cup {None}]
  /\ own \subseteq table
  /\ records \in [Pid -> SUBSET Record]
  /\ wait \in [Pid -> Wait]
  /\ next_pid \in 1 .. MaxPid + 1
  /\ exited \in [Pid -> Status \cup {NoStatus}]
  /\ freed \in [Pid -> Nat] /\ collected \in [Pid -> Nat]

\* The places a record is in: its process, or lists of children's records.
Places(r) == {p \in Pid : p = r /\ r \in own}
             \cup {MaxPid + p : p \in {q \in table : \E e \in records[q] : e.pid = r}}

\* "Nothing is overwritten" and nothing leaks (exit_record.h): every record
\* ever created is in exactly one place until it is freed, and is freed once.
RecordsConserved ==
  \A r \in 1 .. next_pid - 1 :
    \/ freed[r] = 0 /\ Cardinality(Places(r)) = 1
    \/ freed[r] = 1 /\ Places(r) = {}

\* A status is collected at most once, and as long as the parent lives it
\* can be: a child that has exited is in the parent's list with the
\* status it exited with, whatever waits were interrupted or failed meanwhile.
StatusKept ==
  \A c \in Pid :
    /\ collected[c] <= 1
    /\ (exited[c] # NoStatus /\ collected[c] = 0 /\ parent[c] \in alive) =>
         [pid |-> c, status |-> exited[c]] \in records[parent[c]]

\* A sleeping parent sleeps on the queue of a child that is alive, and one
\* that was handed a result has the record with that status.
WaitIsSound ==
  \A p \in alive :
    /\ (wait[p] # NoWait /\ ~wait[p].ready) =>
         wait[p].linked /\ process_find_child(p, wait[p].child)
    /\ wait[p].ready =>
         /\ wait[p].result = wait[p].child
         /\ [pid |-> wait[p].result, status |-> wait[p].status] \in records[p]

\* "A parent blocked on exactly this child completes its wait instead of
\* being interrupted by SIGCHLD" (process_mark_exited()).
ExitCompletesWait ==
  [][\A p \in alive' : \A c \in alive \ alive' :
       (wait[p].linked /\ wait[p].child = c) => wait'[p].ready /\ wait'[p].result = c]_vars

\* The exit of the child, or of the parent, ends every wait for it.
WaitEnds ==
  \A p, c \in Pid : (wait[p].child = c /\ c \notin alive) ~> (p \notin alive \/ wait[p].child # c)
=============================================================================
