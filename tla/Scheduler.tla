----------------------------- MODULE Scheduler -----------------------------
(***************************************************************************)
(* The process table and the scheduler: process_create(), the exit path,   *)
(* process_destroy(), process_pick_next() and process_schedule() of        *)
(* kernel/core/process.c, with the interrupts that reach them              *)
(* (arch/x86_64/isr.c), the bootstrap process of syscall.c and the signals *)
(* of signal.c as far as they wake, stop or kill a process.                *)
(*                                                                         *)
(* The kernel runs with interrupts masked, so a system call and the        *)
(* prologue of process_schedule() are one step and each turn of its loop   *)
(* is another.  Interrupts arrive in user mode and in the hlt of the idle  *)
(* loop only.                                                              *)
(*                                                                         *)
(* A process is named by its pid: next_pid only grows.  What a process     *)
(* blocks on is abstracted: "BLOCKED_IO" is any wait on a queue (pipes,    *)
(* sockets, poll; module PipeIO), which process_resume() may find not yet  *)
(* satisfied, and "SLEEPING" any wait that the wake itself completes       *)
(* (sleep, process_begin_kernel_wait).  A signal is caught or fatal.       *)
(***************************************************************************)
EXTENDS Integers, Sequences, Functions

CONSTANTS MaxPid,     \* bound on the number of processes ever created
          Priority,   \* priority levels in use; new processes get NORMAL
          NORMAL,     \* PROCESS_PRIO_NORMAL
          Caught,     \* signals the processes handle
          Fatal       \* signals at their default, fatal action

ASSUME SchedulerAssumption ==
  /\ MaxPid \in Nat \ {0}
  /\ Priority \subseteq Nat /\ NORMAL \in Priority
  /\ Caught \cap Fatal = {}

Pid == 1 .. MaxPid
None == 0                    \* a null pointer, pid 0 and the kernel process
Signal == Caught \cup Fatal

VARIABLES table,      \* the process table
          next_pid,
          cpu,        \* what the CPU is doing
          bootstrap,  \* bootstrap_pid
          owner       \* console_owner_pid

vars == <<table, next_pid, cpu, bootstrap, owner>>

\* ring is the circular list, from process_list on.  job is waiting_for_pid.
Table ==
  [ring : Seq(Pid), alive : SUBSET Pid,
   state : [Pid -> {"RUNNABLE", "SLEEPING", "BLOCKED_IO", "BLOCKED_WAIT"}],
   call : [Pid -> {"none", "io", "wait"}], job : [Pid -> Pid \cup {None}],
   prio : [Pid -> Priority], parent : [Pid -> Pid \cup {None}],
   pending : [Pid -> SUBSET Signal]]

\* mode: user mode; a turn of the loop of process_schedule(); its hlt; the
\* kernel shell.  space is the active address space, None the kernel's.  irq
\* tells a schedule from the timer interrupt, not yet acknowledged.
Cpu == [mode : {"user", "pick", "idle", "shell"}, current : Pid \cup {None},
        prev : Pid \cup {None}, space : Pid \cup {None}, irq : BOOLEAN]

InTable(t, p) == p \in Range(t.ring)

\* process_find_by_pid() finds the living only.
Found(t, p) == p \in t.alive /\ InTable(t, p)

\* Mutant: a blocked process counts as runnable.
process_is_runnable_NoState(t, p) == Found(t, p)

process_is_runnable(t, p) == Found(t, p) /\ t.state[p] = "RUNNABLE"

process_has_runnable_other_than(t, p) ==
  \E q \in Pid \ {p} : process_is_runnable(t, q)

-----------------------------------------------------------------------------
(* The process table. *)

\* Where p is on the list.
Place(ring, p) == IF p = None THEN 0 ELSE CHOOSE i \in DOMAIN ring : ring[i] = p

\* Linking p behind place i, and unlinking whoever is at place i.
Inserted(ring, i, p) == SubSeq(ring, 1, i) \o <<p>> \o SubSeq(ring, i + 1, Len(ring))
Removed(ring, i) == SubSeq(ring, 1, i - 1) \o SubSeq(ring, i + 1, Len(ring))

\* A new process goes behind the running one, or behind the list head.
process_create(t, p, parent) ==
  LET at == IF parent = None THEN 1 ELSE Place(t.ring, parent)
  IN  [t EXCEPT !.ring = IF @ = << >> THEN <<p>> ELSE Inserted(@, at, p),
                !.alive = @ \cup {p},
                !.parent[p] = parent]

\* The object is freed; its fields are reset for the sake of fewer states.
process_destroy(t, p) ==
  [t EXCEPT !.ring = Removed(@, Place(@, p)), !.alive = @ \ {p},
            !.state[p] = "RUNNABLE", !.call[p] = "none", !.job[p] = None,
            !.prio[p] = NORMAL, !.parent[p] = None, !.pending[p] = {}]

Wake(t, W) ==
  [t EXCEPT !.state = [q \in Pid |-> IF q \in W THEN "RUNNABLE" ELSE @[q]]]

\* A parent that got the exit notice of the child it waits for.
WaitReady(t, p) == t.call[p] = "wait" /\ t.state[p] = "RUNNABLE"

\* A wait that is already answered is not interrupted.
Interruptible(t, p) ==
  Found(t, p) /\ ~WaitReady(t, p) /\ (t.state[p] # "RUNNABLE" \/ t.call[p] # "none")

InterruptWaits(t, S) ==
  LET hit == {p \in S : Interruptible(t, p)}
  IN  [t EXCEPT !.state = [p \in Pid |-> IF p \in hit THEN "RUNNABLE" ELSE @[p]],
                !.call = [p \in Pid |-> IF p \in hit THEN "none" ELSE @[p]],
                !.job = [p \in Pid |-> IF p \in hit THEN None ELSE @[p]]]

process_interrupt_wait(t, p) == InterruptWaits(t, {p})

signal_deliverable(t, p) == t.pending[p] # {}

\* Mutant: a signal does not wake its target.
signal_send_NoInterrupt(t, p, sig) ==
  IF Found(t, p) THEN [t EXCEPT !.pending[p] = @ \cup {sig}] ELSE t

signal_send(t, p, sig) ==
  IF Found(t, p)
  THEN process_interrupt_wait([t EXCEPT !.pending[p] = @ \cup {sig}], p)
  ELSE t

\* Closing the handles of p may wake processes W blocked on their other ends;
\* a parent blocked on exactly this child gets its notice.
process_record_exit(t, p, W) ==
  LET waiters == {q \in Pid : /\ Found(t, t.parent[p])
                              /\ t.state[q] = "BLOCKED_WAIT" /\ t.job[q] = p}
  IN  Wake([t EXCEPT !.alive = @ \ {p}, !.state[p] = "RUNNABLE"], W \cup waiters)

\* chld: the signals SIGCHLD raises in the parent, none if it is ignored.
process_mark_exited(t, p, W, chld) ==
  LET d == process_record_exit(t, p, W)
  IN  IF chld = {} THEN d
      ELSE signal_send(d, t.parent[p], CHOOSE sig \in chld : TRUE)

OnQueue(t) == {q \in t.alive : t.state[q] = "BLOCKED_IO"}
Timed(t) == OnQueue(t) \cup {q \in t.alive : t.state[q] = "SLEEPING"}

\* Everything that can follow from the exit of p.
Exits(t, p) ==
  {process_mark_exited(t, p, W, chld) :
     W \in SUBSET (OnQueue(t) \ {p}), chld \in {{}} \cup {{s} : s \in Caught}}

-----------------------------------------------------------------------------
(* process_schedule(). *)

\* Mutant: the scan starts at prev, which then wins every tie.
Behind_PrevFirst(ring, prev, p) == (Place(ring, p) - Place(ring, prev)) % Len(ring)

\* How many processes a scan that starts behind prev, or at the list head,
\* meets before p.  It meets prev last.
Behind(ring, prev, p) == (Place(ring, p) - Place(ring, prev) - 1) % Len(ring)

\* The first runnable process of highest priority in that scan, if there is
\* one; so prev wins on strictly higher priority only.
IsNext(t, prev, p) ==
  /\ process_is_runnable(t, p)
  /\ \A q \in Pid \ {p} : process_is_runnable(t, q) =>
       \/ t.prio[q] < t.prio[p]
       \/ /\ t.prio[q] = t.prio[p]
          /\ Behind(t.ring, prev, p) <= Behind(t.ring, prev, q)
process_pick_next(t, prev) == {p \in Pid : IsNext(t, prev, p)}

\* The prologue: a signal that came while prev ran must not be slept through,
\* and some of the timed waits are over.
process_schedule(t, p, irq) ==
  LET a == IF p \in t.alive /\ signal_deliverable(t, p)
           THEN process_interrupt_wait(t, p) ELSE t
  IN  /\ \E W \in SUBSET Timed(a) : table' = Wake(a, W)
      /\ cpu' = [cpu EXCEPT !.mode = "pick", !.prev = p, !.irq = irq]

Picked(p) == cpu.mode = "pick" /\ IsNext(table, cpu.prev, p)

\* The table once p is current and, if a signal is due, its wait interrupted.
Chosen(p) == IF signal_deliverable(table, p) THEN process_interrupt_wait(table, p) ELSE table

\* process_resume() succeeded: no call of p is left pending.
Resumed(t, p) == [t EXCEPT !.call[p] = "none", !.job[p] = None]

\* prev, if it is dead and not the process to run, is destroyed.
Reaped(t, prev, next) ==
  IF prev # None /\ prev # next /\ prev \notin t.alive THEN process_destroy(t, prev) ELSE t

\* The wake of the picked process was spurious: it blocks again.
PickSpurious(p) ==
  /\ Picked(p)
  /\ \E t \in {Chosen(p)} :
       /\ t.call[p] = "io"
       /\ table' = [t EXCEPT !.state[p] = "BLOCKED_IO"]
  /\ cpu' = [cpu EXCEPT !.current = p, !.space = p]
  /\ UNCHANGED <<next_pid, bootstrap, owner>>

\* The picked process runs, in a handler if a caught signal is due.  Further
\* signals stay pending while the handler runs.
Dispatch(p) ==
  /\ Picked(p)
  /\ \E t \in {Resumed(Chosen(p), p)} :
       \/ ~signal_deliverable(t, p) /\ table' = Reaped(t, cpu.prev, p)
       \/ \E sig \in t.pending[p] \cap Caught :
            table' = Reaped([t EXCEPT !.pending[p] = @ \ {sig}], cpu.prev, p)
  /\ cpu' = [mode |-> "user", current |-> p, prev |-> None, space |-> p, irq |-> FALSE]
  /\ UNCHANGED <<next_pid, bootstrap, owner>>

\* syscall_bootstrap_exited(): with the bootstrap process gone and nothing
\* else runnable the CPU goes back to the kernel shell.
BootstrapExited(t, p) == p = bootstrap /\ ~process_has_runnable_other_than(t, p)

EnterShell ==
  /\ cpu' = [mode |-> "shell", current |-> None, prev |-> None, space |-> None,
             irq |-> FALSE]
  /\ bootstrap' = None

\* Mutant: the address space of the process to be destroyed stays active.
LeaveKilled_NoSwitch(t, p) ==
  /\ table' = IF p # cpu.prev THEN process_destroy(t, p) ELSE t
  /\ cpu' = [cpu EXCEPT !.current = IF p # cpu.prev THEN None ELSE p, !.space = p]

LeaveKilled(t, p) ==
  IF p # cpu.prev
  THEN /\ table' = process_destroy(t, p)
       /\ cpu' = [cpu EXCEPT !.current = None, !.space = None]
  ELSE /\ table' = t
       /\ cpu' = [cpu EXCEPT !.current = p, !.space = p]

\* The picked process is resumed only to die: of a fatal signal, or because
\* the frame of a handler does not fit on its stack.
PickKilled(p) ==
  /\ Picked(p) /\ signal_deliverable(table, p)
  /\ \E t \in Exits(Resumed(Chosen(p), p), p) :
       IF BootstrapExited(t, p)
       THEN table' = Reaped(process_destroy(t, p), cpu.prev, p) /\ EnterShell
       ELSE LeaveKilled(t, p) /\ UNCHANGED bootstrap
  /\ UNCHANGED <<next_pid, owner>>

\* Nothing can run: a dead prev is destroyed and the CPU halts.
PickIdle ==
  /\ cpu.mode = "pick" /\ process_pick_next(table, cpu.prev) = {}
  /\ table' = Reaped(table, cpu.prev, None)
  /\ cpu' = [cpu EXCEPT !.mode = "idle", !.current = None, !.space = None,
                        !.prev = IF @ \in table.alive THEN @ ELSE None]
  /\ UNCHANGED <<next_pid, bootstrap, owner>>

-----------------------------------------------------------------------------
(* System calls and exceptions of the running process. *)

Running(p) == cpu.mode = "user" /\ cpu.current = p

\* A call that leaves the table as t and reschedules.
Call(p, t) == Running(p) /\ process_schedule(t, p, FALSE)

SysOther(p) == Call(p, table) /\ UNCHANGED <<next_pid, bootstrap, owner>>

SysSpawn(p) ==
  /\ next_pid \in Pid
  /\ Call(p, process_create(table, next_pid, p))
  /\ next_pid' = next_pid + 1
  /\ UNCHANGED <<bootstrap, owner>>

process_set_priority(p) ==
  /\ \E prio \in Priority : Call(p, [table EXCEPT !.prio[p] = prio])
  /\ UNCHANGED <<next_pid, bootstrap, owner>>

\* process_begin_sleep(), process_begin_kernel_wait().
SysSleep(p) ==
  /\ Call(p, [table EXCEPT !.state[p] = "SLEEPING"])
  /\ UNCHANGED <<next_pid, bootstrap, owner>>

SysBlock(p) ==
  /\ Call(p, [table EXCEPT !.state[p] = "BLOCKED_IO", !.call[p] = "io"])
  /\ UNCHANGED <<next_pid, bootstrap, owner>>

\* A call that satisfies the waits of others: a write, a close.
SysWake(p) ==
  /\ Running(p)
  /\ \E W \in SUBSET OnQueue(table) \ {{}} : Call(p, Wake(table, W))
  /\ UNCHANGED <<next_pid, bootstrap, owner>>

\* process_begin_wait() on a living child.
SysWait(p) ==
  /\ Running(p)
  /\ \E q \in Pid :
       /\ Found(table, q) /\ table.parent[q] = p
       /\ Call(p, [table EXCEPT !.state[p] = "BLOCKED_WAIT", !.call[p] = "wait",
                                !.job[p] = q])
  /\ UNCHANGED <<next_pid, bootstrap, owner>>

\* signal_kill(): the bootstrap process is spared what would kill it.
signal_kill(p) ==
  /\ Running(p)
  /\ \E q \in Pid, sig \in Signal :
       /\ Found(table, q) /\ ~(q = bootstrap /\ sig \in Fatal)
       /\ Call(p, signal_send(table, q, sig))
  /\ UNCHANGED <<next_pid, bootstrap, owner>>

\* signal_raise_fault(), from an exception in user mode.
UserFault(p) ==
  /\ \E sig \in Signal : Call(p, [table EXCEPT !.pending[p] = @ \cup {sig}])
  /\ UNCHANGED <<next_pid, bootstrap, owner>>

SysExit(p) ==
  /\ Running(p)
  /\ \E t \in Exits(table, p) :
       IF BootstrapExited(t, p)
       THEN table' = process_destroy(t, p) /\ EnterShell
       ELSE process_schedule(t, p, FALSE) /\ UNCHANGED bootstrap
  /\ UNCHANGED <<next_pid, owner>>

\* signal_is_descendant(): up the parents as long as they live.
signal_is_descendant(p, a) ==
  LET up[n \in Nat] ==
        IF n = 0 THEN table.parent[p]
        ELSE IF Found(table, up[n - 1]) THEN table.parent[up[n - 1]] ELSE None
  IN  \E n \in 0 .. MaxPid : up[n] = a

\* A console read: the reader becomes the owner of the console unless the
\* owner lives and is the reader or an ancestor.
signal_console_note_reader(p) ==
  /\ Call(p, table)
  /\ owner' = IF Found(table, owner) /\ (owner = p \/ signal_is_descendant(p, owner))
              THEN owner ELSE p
  /\ UNCHANGED <<next_pid, bootstrap>>

-----------------------------------------------------------------------------
(* Interrupts. *)

\* The jobs Ctrl+C is meant for: the process the console owner waits for, the
\* one that one waits for, and so on.
Jobs ==
  LET waited(p) == IF Found(table, p) /\ table.state[p] = "BLOCKED_WAIT"
                   THEN table.job[p] ELSE None
      chain[n \in Nat] == waited(IF n = 0 THEN owner ELSE chain[n - 1])
  IN  {p \in Pid : Found(table, p) /\ \E n \in 0 .. MaxPid : chain[n] = p}

\* Every job gets SIGINT, which some may catch and others die of.
signal_console_interrupt(sent) ==
  InterruptWaits([table EXCEPT !.pending = [p \in Pid |-> IF p \in Jobs THEN @[p] \cup {sent[p]}
                                                                        ELSE @[p]]],
                 Jobs)

\* The timer interrupts a process: it is rescheduled before the interrupt is
\* acknowledged.
TimerTick ==
  /\ cpu.mode = "user"
  /\ process_schedule(table, cpu.current, TRUE)
  /\ UNCHANGED <<next_pid, bootstrap, owner>>

\* An interrupt ends the hlt.  None arrives while the timer's is in service.
IdleTick ==
  /\ cpu.mode = "idle" /\ ~cpu.irq
  /\ \E W \in SUBSET Timed(table) : table' = Wake(table, W)
  /\ cpu' = [cpu EXCEPT !.mode = "pick"]
  /\ UNCHANGED <<next_pid, bootstrap, owner>>

\* Ctrl+C: the keyboard interrupt does not reschedule, but ends a hlt.
CtrlC ==
  /\ cpu.mode = "user" \/ (cpu.mode = "idle" /\ ~cpu.irq)
  /\ Jobs # {}
  /\ \E sent \in [Pid -> Signal] : table' = signal_console_interrupt(sent)
  /\ cpu' = [cpu EXCEPT !.mode = IF @ = "idle" THEN "pick" ELSE @]
  /\ UNCHANGED <<next_pid, bootstrap, owner>>

\* The kernel shell starts a program, the new bootstrap process.
run_user_elf ==
  /\ cpu.mode = "shell" /\ next_pid \in Pid
  /\ table' = process_create(table, next_pid, None)
  /\ cpu' = [cpu EXCEPT !.mode = "user", !.current = next_pid, !.space = next_pid]
  /\ bootstrap' = next_pid
  /\ next_pid' = next_pid + 1
  /\ UNCHANGED owner

-----------------------------------------------------------------------------

Init ==
  /\ table = [ring |-> << >>, alive |-> {}, state |-> [p \in Pid |-> "RUNNABLE"],
              call |-> [p \in Pid |-> "none"], job |-> [p \in Pid |-> None],
              prio |-> [p \in Pid |-> NORMAL], parent |-> [p \in Pid |-> None],
              pending |-> [p \in Pid |-> {}]]
  /\ next_pid = 1
  /\ cpu = [mode |-> "shell", current |-> None, prev |-> None, space |-> None,
            irq |-> FALSE]
  /\ bootstrap = None
  /\ owner = None

User(p) ==
  \/ SysOther(p) \/ SysSpawn(p) \/ process_set_priority(p) \/ SysSleep(p) \/ SysBlock(p)
  \/ SysWake(p) \/ SysWait(p) \/ signal_kill(p) \/ UserFault(p) \/ SysExit(p)
  \/ signal_console_note_reader(p)

Schedule == (\E p \in Pid : PickSpurious(p) \/ Dispatch(p) \/ PickKilled(p)) \/ PickIdle

Next == (\E p \in Pid : User(p)) \/ Schedule \/ TimerTick \/ IdleTick \/ CtrlC \/ run_user_elf

\* The loop of process_schedule() runs on, and the timer keeps ticking: weak
\* fairness of Schedule, TimerTick and IdleTick together, with the states in
\* which one of them is enabled and the steps they take written out, which
\* spares TLC their evaluation.  Only the timer sets irq.
CanTick == cpu.mode \in {"pick", "user"} \/ (cpu.mode = "idle" /\ ~cpu.irq)
Ticked == cpu.mode \in {"pick", "idle"} \/ (cpu.mode = "user" /\ cpu'.irq)
Fairness == []<>~CanTick \/ []<><<Ticked>>_vars

Spec == Init /\ [][Next]_vars /\ Fairness

-----------------------------------------------------------------------------
(* Properties. *)

\* The table is well formed: process_create() and process_destroy() keep the
\* circular list whole, with each process on it once and all the living on it.
TypeOK ==
  /\ table \in Table /\ cpu \in Cpu
  /\ next_pid \in 1 .. MaxPid + 1
  /\ bootstrap \in Pid \cup {None} /\ owner \in Pid \cup {None}
  /\ \A i, j \in DOMAIN table.ring : table.ring[i] = table.ring[j] => i = j
  /\ table.alive \subseteq Range(table.ring)

\* process_schedule() returns to user mode only in a process that is alive,
\* runnable and past the call it had blocked in, in its own address space.
RunsResumed ==
  cpu.mode = "user" =>
    /\ Found(table, cpu.current)
    /\ table.state[cpu.current] = "RUNNABLE" /\ table.call[cpu.current] = "none"
    /\ cpu.space = cpu.current

\* No process is used after process_destroy() freed it: not as the current
\* one, nor as the prev of the scheduler, nor for its address space.
NothingFreedInUse ==
  \A p \in {cpu.current, cpu.prev, cpu.space} : p = None \/ InTable(table, p)

\* A dead process does not outlive the schedule it died in: between them the
\* list holds the living only.
DeadAreReaped == cpu.mode # "pick" => Range(table.ring) = table.alive

\* "Idling is only reachable from the syscall path" (process_schedule()): the
\* CPU never halts with the timer interrupt unacknowledged.
IdleOnlyFromSyscall == cpu.mode = "idle" => ~cpu.irq

\* A process blocked on a child is blocked on a living child of its own, so
\* that its notice is still to come (process_begin_wait, process_record_exit).
WaitHasChild ==
  \A p \in table.alive : table.state[p] = "BLOCKED_WAIT" =>
    Found(table, table.job[p]) /\ table.parent[table.job[p]] = p

\* The process list is sound: types, nothing freed in use, the dead reaped, and
\* everybody blocked on a child has one.
ListSound == TypeOK /\ NothingFreedInUse /\ DeadAreReaped /\ WaitHasChild

Top(p) == /\ process_is_runnable(table, p)
          /\ \A q \in Pid : process_is_runnable(table, q) => table.prio[q] <= table.prio[p]

\* process_pick_next() alternates between equals: a process that stays the
\* runnable one of highest priority, or one of several, gets the CPU.
TopRuns == \A p \in Pid : Top(p) ~> (~Top(p) \/ Running(p))

\* A process of the highest priority with a fatal signal due, and no other, is
\* woken from whatever it waits for, dies and is destroyed.
KilledGoes ==
  \A p \in Pid :
    []<>~(/\ Found(table, p)
          /\ table.pending[p] # {} /\ table.pending[p] \subseteq Fatal
          /\ \A q \in table.alive : table.prio[q] <= table.prio[p])
=============================================================================
