------------------------------- MODULE PipeIO -------------------------------
(***************************************************************************)
(* Pipes and the processes blocked on them: kernel/core/pipe.c, the        *)
(* blocking, resuming and interrupting of pipe I/O and poll in             *)
(* kernel/core/process.c, and the handle table that counts pipe ends.      *)
(*                                                                         *)
(* The kernel runs a system call, and the scheduler pass behind it, with   *)
(* interrupts masked on one CPU, so each is one step.  A blocking call     *)
(* only records what it waits for; process_resume() completes it when the  *)
(* scheduler picks the process again.  Which runnable process that is is   *)
(* left open here (module Scheduler has the choice).                       *)
(*                                                                         *)
(* Bytes are abstracted to their number.  A process holds at most          *)
(* PollWidth poll entries where the kernel has PROCESS_POLL_MAX_FDS.       *)
(***************************************************************************)
EXTENDS WaitQueue, FiniteSets

CONSTANTS Proc,        \* process objects; one is reused after its exit
          Pipe,        \* the slots of the pipe pool
          Fd,          \* handle slots of a process
          NoFd,        \* the -1 of waiting_handle and of a skipped poll entry
          Cap,         \* KERNEL_PIPE_BUFFER_CAP
          MaxLen,      \* longest transfer a process asks for
          PollEvents,  \* the event masks processes poll with
          FREE,        \* PROCESS_HANDLE_FREE: an unused handle slot
          NoPoll       \* waiting_poll_fd < 0 and waiting_poll_count = 0

PollWidth == 2
Block == 0
PollSlot == 1 .. PollWidth
Slot == {Block} \cup PollSlot

Handle == (Pipe \X {"R", "W"}) \cup {FREE}
EmptyPipe == [used |-> FALSE, readers |-> 0, writers |-> 0, size |-> 0]
Blocked == {"PIPE_READ", "PIPE_WRITE", "POLL"}

\* One element of the array of SYS_POLL_MANY; SYS_POLL_WAIT has only one.
\* An element with fd = -1 is skipped.
NoWatch == [fd |-> NoFd, events |-> {}]
Watch == [fd : Fd, events : PollEvents] \cup {NoWatch}
Poll == [PollSlot -> Watch]

ASSUME PipeIOAssumption ==
  /\ Fd \subseteq Nat \ {0} /\ IsFiniteSet(Fd) /\ NoFd \notin Fd
  /\ IsFiniteSet(Proc)
  /\ Cap \in Nat \ {0} /\ MaxLen \in Nat \ {0}
  /\ PollEvents \subseteq SUBSET {"READ", "WRITE", "HUP"}
  /\ Queue = Pipe \X {"read", "write", "poll"}
  /\ Entry = Proc \X Slot
  /\ NoQueue \notin Queue
  /\ FREE \notin Pipe \X {"R", "W"} /\ NoPoll \notin Poll

VARIABLES kern,      \* wait queues, entries, scheduler states and pipes
          fd,        \* the handle table: [Proc \X Fd -> Handle]
          alive,     \* processes that exist and have not exited
          waiting,   \* waiting_handle: the fd of a pending read or write
          len,       \* frame.rdx: the length of that read or write
          polling,   \* the poll a process waits in
          deadline   \* whether that poll has a deadline, and if it passed

vars == <<kern, fd, alive, waiting, len, polling, deadline>>

ReadQ(x) == <<x, "read">>
WriteQ(x) == <<x, "write">>
PollQ(x) == <<x, "poll">>

Min2(a, b) == IF a < b THEN a ELSE b

\* The pipe behind handle f of p, when it is the given end of one.
IsEnd(p, f, end) == f \in Fd /\ fd[<<p, f>>] # FREE /\ fd[<<p, f>>][2] = end
PipeOf(p, f) == fd[<<p, f>>][1]

Init ==
  \E p \in Proc :
    /\ kern = [queue |-> [q \in Queue |-> << >>],
               entry |-> [e \in Entry |-> [queue |-> NoQueue, linked |-> FALSE,
                                           woken |-> FALSE, exclusive |-> FALSE]],
               state |-> [q \in Proc |-> RUNNABLE],
               pipe |-> [x \in Pipe |-> EmptyPipe]]
    /\ fd = [h \in Proc \X Fd |-> FREE]
    /\ alive = {p}
    /\ waiting = [q \in Proc |-> NoFd]
    /\ len = [q \in Proc |-> 0]
    /\ polling = [q \in Proc |-> NoPoll]
    /\ deadline = [q \in Proc |-> "none"]

-----------------------------------------------------------------------------
(* Wait registrations of a process. *)

process_wait_detach(k, p, cancel) ==
  LET b == IF cancel THEN wait_queue_cancel(k, <<p, Block>>)
                     ELSE wait_queue_remove(k, <<p, Block>>)
  IN  wait_queue_remove(wait_queue_remove(b, <<p, 1>>), <<p, 2>>)

Rearmed(k, e) ==
  IF k.entry[e].queue # NoQueue /\ ~k.entry[e].linked
  THEN wait_queue_add(k, k.entry[e].queue, e)
  ELSE k

process_wait_rearm(k, p) ==
  Rearmed(Rearmed(Rearmed(k, <<p, Block>>), <<p, 1>>), <<p, 2>>)

process_wait_block(k, p, q) ==
  wait_queue_add(wait_entry_init(process_wait_detach(k, p, FALSE),
                                 <<p, Block>>, TRUE),
                 q, <<p, Block>>)

\* Registers one poll entry on the queue of the pipe it watches, if any.
process_poll_watch_entry(k, p, i, watch) ==
  IF watch[i].fd = NoFd \/ fd[<<p, watch[i].fd>>] = FREE
  THEN k
  ELSE wait_queue_add(wait_entry_init(k, <<p, i>>, FALSE),
                      PollQ(PipeOf(p, watch[i].fd)), <<p, i>>)

-----------------------------------------------------------------------------
(* Pipe operations on the kernel state. *)

\* Mutant: what is left in the pipe is not passed on to the next reader.
ReadWakes_NoChain(k, x, left) ==
  WakeAll(wait_queue_wake_one(k, WriteQ(x)), {PollQ(x)})

\* The wakes of a read that moved bytes and left some number of them.
ReadWakes(k, x, left) ==
  LET a == wait_queue_wake_one(k, WriteQ(x))
      b == WakeAll(a, {PollQ(x)})
  IN  IF left > 0 THEN wait_queue_wake_one(b, ReadQ(x)) ELSE b

kernel_pipe_read(k, x, n) ==
  LET got == Min2(n, k.pipe[x].size)
      left == k.pipe[x].size - got
  IN  IF got = 0 THEN k ELSE ReadWakes([k EXCEPT !.pipe[x].size = left], x, left)

\* kernel_pipe_read() returns 1: nothing to take and a writer may still come.
ReadBlocks(k, x, n) == Min2(n, k.pipe[x].size) = 0 /\ k.pipe[x].writers > 0

\* Mutant: pollers are not told of new data.
WriteWakes_NoPoll(k, x, size) ==
  LET a == wait_queue_wake_one(k, ReadQ(x))
  IN  IF size < Cap THEN wait_queue_wake_one(a, WriteQ(x)) ELSE a

WriteWakes(k, x, size) ==
  LET a == wait_queue_wake_one(k, ReadQ(x))
      b == WakeAll(a, {PollQ(x)})
  IN  IF size < Cap THEN wait_queue_wake_one(b, WriteQ(x)) ELSE b

\* With no readers left the write fails with EPIPE and stores nothing.
kernel_pipe_write(k, x, n) ==
  LET put == Min2(n, Cap - k.pipe[x].size)
      size == k.pipe[x].size + put
  IN  IF k.pipe[x].readers = 0 \/ put = 0
      THEN k
      ELSE WriteWakes([k EXCEPT !.pipe[x].size = size], x, size)

WriteBlocks(k, x, n) ==
  /\ k.pipe[x].readers > 0
  /\ Min2(n, Cap - k.pipe[x].size) = 0
  /\ k.pipe[x].size >= Cap

\* The handles of the set H that are the given end of pipe x.
Ends(table, H, x, end) == {h \in H : table[h] = <<x, end>>}

\* process_handle_release() on every handle of H: kernel_pipe_close_reader()
\* and kernel_pipe_close_writer(), whose wakes come with the last end of a
\* kind, then kernel_pipe_maybe_release().
ReadersLeft(k, H, x) == k.pipe[x].readers - Cardinality(Ends(fd, H, x, "R"))
WritersLeft(k, H, x) == k.pipe[x].writers - Cardinality(Ends(fd, H, x, "W"))
NoReader(k, H) == {x \in Pipe : Ends(fd, H, x, "R") # {} /\ ReadersLeft(k, H, x) = 0}
NoWriter(k, H) == {x \in Pipe : Ends(fd, H, x, "W") # {} /\ WritersLeft(k, H, x) = 0}
Released(k, H) == {x \in NoReader(k, H) \cup NoWriter(k, H) :
                     ReadersLeft(k, H, x) = 0 /\ WritersLeft(k, H, x) = 0}
HangupQueues(k, H) == {WriteQ(x) : x \in NoReader(k, H)}
                        \cup {ReadQ(x) : x \in NoWriter(k, H)}
                        \cup {PollQ(x) : x \in NoReader(k, H) \cup NoWriter(k, H)}

CloseEnds(k, H) ==
  [WakeAll(k, HangupQueues(k, H)) EXCEPT
     !.pipe = [x \in Pipe |-> IF x \in Released(k, H)
                              THEN EmptyPipe
                              ELSE [k.pipe[x] EXCEPT !.readers = ReadersLeft(k, H, x),
                                                     !.writers = WritersLeft(k, H, x)]],
     !.queue = [q \in Queue |-> IF q[1] \in Released(k, H) THEN << >> ELSE @[q]]]

\* Mutant: a clone of a writer handle takes no reference.
AcquireEnds_NoWriterRef(k, table, H) ==
  [k EXCEPT !.pipe = [x \in Pipe |->
     [k.pipe[x] EXCEPT
        !.readers = k.pipe[x].readers + Cardinality(Ends(table, H, x, "R"))]]]

\* kernel_pipe_acquire_reader/writer() for every handle of H in the new table.
AcquireEnds(k, table, H) ==
  [k EXCEPT !.pipe = [x \in Pipe |->
     [k.pipe[x] EXCEPT
        !.readers = k.pipe[x].readers + Cardinality(Ends(table, H, x, "R")),
        !.writers = k.pipe[x].writers + Cardinality(Ends(table, H, x, "W"))]]]

-----------------------------------------------------------------------------
(* System calls.  A process in user mode is runnable and waits for nothing. *)

Pending(p) == waiting[p] # NoFd \/ polling[p] # NoPoll
InUserMode(p) == p \in alive /\ kern.state[p] = RUNNABLE /\ ~Pending(p)
FreeSlots(p) == {f \in Fd : fd[<<p, f>>] = FREE}
Lowest(F) == CHOOSE f \in F : \A g \in F : f <= g

SysPipe(p) ==
  \E x \in Pipe :
    LET f == Lowest(FreeSlots(p))
        g == Lowest(FreeSlots(p) \ {f})
    IN  /\ InUserMode(p)
        /\ ~kern.pipe[x].used
        /\ FreeSlots(p) # {} /\ FreeSlots(p) \ {f} # {}
        /\ kern' = [kern EXCEPT
             !.pipe[x] = [used |-> TRUE, readers |-> 1, writers |-> 1, size |-> 0],
             !.queue = [q \in Queue |-> IF q[1] = x THEN << >> ELSE @[q]]]
        /\ fd' = [fd EXCEPT ![<<p, f>>] = <<x, "R">>, ![<<p, g>>] = <<x, "W">>]
        /\ UNCHANGED <<alive, waiting, len, polling, deadline>>

SysRead(p) ==
  \E f \in Fd, n \in 1 .. MaxLen :
    LET x == PipeOf(p, f)
        k == process_wait_block(kern, p, ReadQ(x))
    IN  /\ InUserMode(p) /\ IsEnd(p, f, "R")
        /\ IF ReadBlocks(kern, x, n)
           THEN /\ kern' = [k EXCEPT !.state[p] = "PIPE_READ"]
                /\ waiting' = [waiting EXCEPT ![p] = f]
                /\ len' = [len EXCEPT ![p] = n]
           ELSE /\ kern' = kernel_pipe_read(kern, x, n)
                /\ UNCHANGED <<waiting, len>>
        /\ UNCHANGED <<fd, alive, polling, deadline>>

SysWrite(p) ==
  \E f \in Fd, n \in 1 .. MaxLen :
    LET x == PipeOf(p, f)
        k == process_wait_block(kern, p, WriteQ(x))
    IN  /\ InUserMode(p) /\ IsEnd(p, f, "W")
        /\ IF WriteBlocks(kern, x, n)
           THEN /\ kern' = [k EXCEPT !.state[p] = "PIPE_WRITE"]
                /\ waiting' = [waiting EXCEPT ![p] = f]
                /\ len' = [len EXCEPT ![p] = n]
           ELSE /\ kern' = kernel_pipe_write(kern, x, n)
                /\ UNCHANGED <<waiting, len>>
        /\ UNCHANGED <<fd, alive, polling, deadline>>

\* What process_fd_poll() finds for one watched handle; a handle that is not
\* open is reported at once (PROCESS_POLL_NVAL).
WatchReady(p, w) ==
  LET x == kern.pipe[PipeOf(p, w.fd)]
  IN  \/ fd[<<p, w.fd>>] = FREE
      \/ /\ IsEnd(p, w.fd, "R")
         /\ \/ "READ" \in w.events /\ (x.size > 0 \/ x.writers = 0)
            \/ "HUP" \in w.events /\ x.writers = 0
      \/ /\ IsEnd(p, w.fd, "W")
         /\ \/ "WRITE" \in w.events /\ x.readers > 0 /\ x.size < Cap
            \/ "HUP" \in w.events /\ x.readers = 0

PollReady(p, watch) ==
  \E i \in PollSlot : watch[i].fd # NoFd /\ WatchReady(p, watch[i])

\* SYS_POLL_WAIT and SYS_POLL_MANY; with something ready they just return.
SysPoll(p) ==
  \E watch \in Poll, d \in {"none", "pending"} :
    LET a == process_wait_detach(kern, p, FALSE)
        b == process_poll_watch_entry(a, p, 1, watch)
        c == process_poll_watch_entry(b, p, 2, watch)
    IN  /\ InUserMode(p) /\ ~PollReady(p, watch)
        /\ kern' = [c EXCEPT !.state[p] = "POLL"]
        /\ polling' = [polling EXCEPT ![p] = watch]
        /\ deadline' = [deadline EXCEPT ![p] = d]
        /\ UNCHANGED <<fd, alive, waiting, len>>

SysClose(p) ==
  \E f \in Fd :
    /\ InUserMode(p) /\ fd[<<p, f>>] # FREE
    /\ kern' = CloseEnds(kern, {<<p, f>>})
    /\ fd' = [fd EXCEPT ![<<p, f>>] = FREE]
    /\ UNCHANGED <<alive, waiting, len, polling, deadline>>

SysDup(p) ==
  \E f \in Fd :
    LET g == Lowest(FreeSlots(p))
        table == [fd EXCEPT ![<<p, g>>] = fd[<<p, f>>]]
    IN  /\ InUserMode(p) /\ fd[<<p, f>>] # FREE /\ FreeSlots(p) # {}
        /\ kern' = AcquireEnds(kern, table, {<<p, g>>})
        /\ fd' = table
        /\ UNCHANGED <<alive, waiting, len, polling, deadline>>

\* SYS_DUP2 and SYS_DUP3 release the target before they clone the source.
SysDup2(p) ==
  \E f, g \in Fd :
    LET table == [fd EXCEPT ![<<p, g>>] = fd[<<p, f>>]]
    IN  /\ InUserMode(p) /\ fd[<<p, f>>] # FREE /\ f # g
        /\ kern' = AcquireEnds(CloseEnds(kern, {<<p, g>>}), table, {<<p, g>>})
        /\ fd' = table
        /\ UNCHANGED <<alive, waiting, len, polling, deadline>>

\* The child c gets the handles of its parent that carry the inherit flag;
\* any subset S of them can carry it.
SysSpawn(p) ==
  \E c \in Proc \ alive, S \in SUBSET Fd :
    LET table == [h \in Proc \X Fd |->
                    IF h[1] = c THEN IF h[2] \in S THEN fd[<<p, h[2]>>] ELSE FREE
                                ELSE fd[h]]
    IN  /\ InUserMode(p)
        /\ kern' = AcquireEnds(kern, table, {c} \X S)
        /\ fd' = table
        /\ alive' = alive \cup {c}
        /\ UNCHANGED <<waiting, len, polling, deadline>>

\* Mutant: a process that dies while queued stays on its queues.
Exit_NoDetach(p) ==
  /\ p \in alive
  /\ kern' = [CloseEnds(kern, {p} \X Fd) EXCEPT !.state[p] = RUNNABLE]
  /\ fd' = [h \in Proc \X Fd |-> IF h[1] = p THEN FREE ELSE fd[h]]
  /\ alive' = alive \ {p}
  /\ waiting' = [waiting EXCEPT ![p] = NoFd]
  /\ len' = [len EXCEPT ![p] = 0]
  /\ polling' = [polling EXCEPT ![p] = NoPoll]
  /\ deadline' = [deadline EXCEPT ![p] = "none"]

\* process_record_exit(): by SYS_EXIT, a fatal signal, or, at any point of a
\* wait, the out-of-memory killer.
Exit(p) ==
  LET k == process_wait_detach(kern, p, TRUE)
  IN  /\ p \in alive
      /\ kern' = [CloseEnds(k, {p} \X Fd) EXCEPT !.state[p] = RUNNABLE]
      /\ fd' = [h \in Proc \X Fd |-> IF h[1] = p THEN FREE ELSE fd[h]]
      /\ alive' = alive \ {p}
      /\ waiting' = [waiting EXCEPT ![p] = NoFd]
      /\ len' = [len EXCEPT ![p] = 0]
      /\ polling' = [polling EXCEPT ![p] = NoPoll]
      /\ deadline' = [deadline EXCEPT ![p] = "none"]

\* The kernel shell starts another program once the bootstrap process is gone.
RunUser(p) ==
  /\ alive = {}
  /\ alive' = {p}
  /\ UNCHANGED <<kern, fd, waiting, len, polling, deadline>>

-----------------------------------------------------------------------------
(* The scheduler resumes a process that was woken in the middle of a call. *)

ClearWait(p) ==
  /\ waiting' = [waiting EXCEPT ![p] = NoFd]
  /\ len' = [len EXCEPT ![p] = 0]
  /\ polling' = [polling EXCEPT ![p] = NoPoll]
  /\ deadline' = [deadline EXCEPT ![p] = "none"]

\* A wake that turns out spurious: back on the queues, blocked as before.
Reblock(p, state) ==
  /\ kern' = [process_wait_rearm(kern, p) EXCEPT !.state[p] = state]
  /\ UNCHANGED <<waiting, len, polling, deadline>>

Resumable(p) == p \in alive /\ kern.state[p] = RUNNABLE

ResumeRead(p) ==
  LET x == PipeOf(p, waiting[p])
  IN  /\ Resumable(p) /\ IsEnd(p, waiting[p], "R")
      /\ IF ReadBlocks(kern, x, len[p])
         THEN Reblock(p, "PIPE_READ")
         ELSE /\ kern' = process_wait_detach(kernel_pipe_read(kern, x, len[p]),
                                             p, FALSE)
              /\ ClearWait(p)
      /\ UNCHANGED <<fd, alive>>

ResumeWrite(p) ==
  LET x == PipeOf(p, waiting[p])
  IN  /\ Resumable(p) /\ IsEnd(p, waiting[p], "W")
      /\ IF WriteBlocks(kern, x, len[p])
         THEN Reblock(p, "PIPE_WRITE")
         ELSE /\ kern' = process_wait_detach(kernel_pipe_write(kern, x, len[p]),
                                             p, FALSE)
              /\ ClearWait(p)
      /\ UNCHANGED <<fd, alive>>

\* The buffer is no longer accessible: EFAULT, and the wake is handed on.
ResumeFault(p) ==
  /\ Resumable(p) /\ waiting[p] # NoFd
  /\ kern' = process_wait_detach(kern, p, TRUE)
  /\ ClearWait(p)
  /\ UNCHANGED <<fd, alive>>

ResumePoll(p) ==
  /\ Resumable(p) /\ polling[p] # NoPoll
  /\ IF ~PollReady(p, polling[p]) /\ deadline[p] # "passed"
     THEN Reblock(p, "POLL")
     ELSE /\ kern' = process_wait_detach(kern, p, FALSE)
          /\ ClearWait(p)
  /\ UNCHANGED <<fd, alive>>

\* The poll of the woken process fails (its array of descriptors can no longer
\* be reached): the wait ends with the error.
ResumePollFault(p) ==
  /\ Resumable(p) /\ polling[p] # NoPoll
  /\ kern' = process_wait_detach(kern, p, FALSE)
  /\ ClearWait(p)
  /\ UNCHANGED <<fd, alive>>

\* process_interrupt_wait(): a deliverable signal ends the wait with EINTR.
Interrupt(p) ==
  /\ p \in alive /\ Pending(p)
  /\ kern' = [process_wait_detach(kern, p, TRUE) EXCEPT !.state[p] = RUNNABLE]
  /\ ClearWait(p)
  /\ UNCHANGED <<fd, alive>>

\* The clock reaches the deadline of a poll; process_update_poll_timeouts()
\* makes the process runnable before the next one is picked.
PollTimeout(p) ==
  /\ p \in alive /\ deadline[p] = "pending"
  /\ deadline' = [deadline EXCEPT ![p] = "passed"]
  /\ kern' = [kern EXCEPT !.state[p] = IF @ = "POLL" THEN RUNNABLE ELSE @]
  /\ UNCHANGED <<fd, alive, waiting, len, polling>>

Syscall(p) ==
  \/ SysPipe(p) \/ SysRead(p) \/ SysWrite(p) \/ SysPoll(p) \/ SysClose(p)
  \/ SysDup(p) \/ SysDup2(p) \/ SysSpawn(p)

Resume(p) ==
  \/ ResumeRead(p) \/ ResumeWrite(p) \/ ResumeFault(p) \/ ResumePoll(p)
  \/ ResumePollFault(p)

Next ==
  \E p \in Proc : Syscall(p) \/ Exit(p) \/ RunUser(p) \/ Resume(p)
                    \/ Interrupt(p) \/ PollTimeout(p)

Spec == Init /\ [][Next]_vars

\* The scheduler comes to every runnable process of the same priority in turn
\* (module Scheduler), and the clock does not stop.
Fairness == \A p \in Proc : WF_vars(Resume(p)) /\ WF_vars(PollTimeout(p))

FairSpec == Spec /\ Fairness

-----------------------------------------------------------------------------
(* Properties. *)

PipeRec == [used : BOOLEAN, readers : Nat, writers : Nat, size : 0 .. Cap]
Kernel == [queue : [Queue -> Seq(Entry)], entry : [Entry -> WaitEntry],
           state : [Proc -> {RUNNABLE} \cup Blocked], pipe : [Pipe -> PipeRec]]

\* Every variable has its type; a pipe never holds more than Cap bytes nor fewer
\* than none, and no reference count goes below zero.
TypeOK ==
  /\ kern \in Kernel
  /\ fd \in [Proc \X Fd -> Handle]
  /\ alive \subseteq Proc
  /\ waiting \in [Proc -> Fd \cup {NoFd}]
  /\ len \in [Proc -> 0 .. MaxLen]
  /\ polling \in [Proc -> Poll \cup {NoPoll}]
  /\ deadline \in [Proc -> {"none", "pending", "passed"}]

Counted(k, table) ==
  \A x \in Pipe :
    LET r == Cardinality(Ends(table, Proc \X Fd, x, "R"))
        w == Cardinality(Ends(table, Proc \X Fd, x, "W"))
    IN  /\ k.pipe[x].readers = r
        /\ k.pipe[x].writers = w
        /\ k.pipe[x].used <=> r + w > 0

\* The reader and writer counts of a pipe are the numbers of handles that
\* refer to it, over dup, spawn, close and exit, so its slot is in use exactly
\* as long as some process can still name it.
RefsCounted == Counted(kern, fd)

NoRepeats(s) == \A i, j \in DOMAIN s : s[i] = s[j] => i = j

Integrity(k) ==
  /\ \A q \in Queue : NoRepeats(k.queue[q])
  /\ \A e \in Entry, q \in Queue :
       e \in Elements(k.queue[q]) <=> k.entry[e].linked /\ k.entry[e].queue = q
  /\ \A e \in Entry :
       k.entry[e].linked \/ k.entry[e].woken
         => k.entry[e].queue # NoQueue /\ ~(k.entry[e].linked /\ k.entry[e].woken)

\* The lists and the entries agree: an entry is on a list exactly when it is
\* marked linked, on the list of the queue it points at and only once; a woken
\* entry is off every list.
QueueIntegrity == Integrity(kern)

\* Lifetime rule of waitq.h: when a pipe slot is released, and so may be reused
\* for an unrelated pipe, no entry points at one of its queues, linked or woken.
NoDanglingEntry ==
  \A e \in Entry : kern.entry[e].queue # NoQueue =>
    kern.pipe[kern.entry[e].queue[1]].used

\* A process is asleep only while it is on the queue that will wake it: the
\* read or write queue of the pipe of its pending call, or, for each watched
\* pipe, the poll queue.  A process that exited or makes no call is on none.
BlockedIsQueued ==
  \A p \in Proc :
    /\ kern.state[p] = "PIPE_READ" =>
         /\ IsEnd(p, waiting[p], "R") /\ kern.entry[<<p, Block>>].linked
         /\ kern.entry[<<p, Block>>].queue = ReadQ(PipeOf(p, waiting[p]))
    /\ kern.state[p] = "PIPE_WRITE" =>
         /\ IsEnd(p, waiting[p], "W") /\ kern.entry[<<p, Block>>].linked
         /\ kern.entry[<<p, Block>>].queue = WriteQ(PipeOf(p, waiting[p]))
    /\ kern.state[p] = "POLL" =>
         \A i \in PollSlot : polling[p][i].fd # NoFd =>
           /\ kern.entry[<<p, i>>].linked
           /\ kern.entry[<<p, i>>].queue = PollQ(PipeOf(p, polling[p][i].fd))
    /\ p \notin alive \/ ~Pending(p) =>
         \A i \in Slot : kern.entry[<<p, i>>].queue = NoQueue

\* An entry that was woken from q and has not acted on the wake yet.
WokenOn(q) == \E e \in Entry : kern.entry[e].woken /\ kern.entry[e].queue = q

\* No lost wakeup.  While a pipe holds bytes and a reader sleeps on it, some
\* other reader carries a wake for it; likewise while it has room and a writer
\* sleeps on it.  Holds although one event wakes one waiter only, and the woken
\* waiter may be interrupted, killed, or find its buffer unmapped.
NoLostWakeup ==
  \A x \in Pipe :
    /\ kern.pipe[x].size > 0 /\ kern.queue[ReadQ(x)] # << >> => WokenOn(ReadQ(x))
    /\ kern.pipe[x].size < Cap /\ kern.queue[WriteQ(x)] # << >> => WokenOn(WriteQ(x))

\* Nobody sleeps on a pipe that cannot serve them any more: after the last
\* writer is gone no reader is queued, after the last reader no writer.
NoWaitOnHungupPipe ==
  \A x \in Pipe :
    /\ kern.pipe[x].writers = 0 => kern.queue[ReadQ(x)] = << >>
    /\ kern.pipe[x].readers = 0 => kern.queue[WriteQ(x)] = << >>

\* A process sleeps in poll only while nothing it asked for is there and its
\* deadline is still ahead.
PollNotMissed ==
  \A p \in Proc : kern.state[p] = "POLL" =>
    ~PollReady(p, polling[p]) /\ deadline[p] # "passed"

\* The queues are sound: lists, entries, pipes and sleepers agree.
QueuesSound == QueueIntegrity /\ NoDanglingEntry /\ BlockedIsQueued

\* Nobody sleeps beside what they wait for unless a wake for it is on its way:
\* bytes, room, a hangup, a polled event or a deadline.
NoMissedWakeup == NoLostWakeup /\ NoWaitOnHungupPipe /\ PollNotMissed

\* A reader does not sleep for ever beside data it could take: readers are
\* served in turn and each passes on what it left (kernel_pipe_read).
BlockedReaderServed ==
  \A p \in Proc, x \in Pipe :
    []<>~(/\ kern.state[p] = "PIPE_READ" /\ kern.pipe[x].size > 0
          /\ kern.entry[<<p, Block>>].queue = ReadQ(x))

\* A writer does not sleep for ever beside room (kernel_pipe_write).
BlockedWriterServed ==
  \A p \in Proc, x \in Pipe :
    []<>~(/\ kern.state[p] = "PIPE_WRITE" /\ kern.pipe[x].size < Cap
          /\ kern.entry[<<p, Block>>].queue = WriteQ(x))

\* A pending read ends once the last writer is gone, a pending write once the
\* last reader is.
HangupEndsWait ==
  \A p \in Proc :
    /\ (IsEnd(p, waiting[p], "R") /\ kern.pipe[PipeOf(p, waiting[p])].writers = 0)
         ~> (waiting[p] = NoFd)
    /\ (IsEnd(p, waiting[p], "W") /\ kern.pipe[PipeOf(p, waiting[p])].readers = 0)
         ~> (waiting[p] = NoFd)

\* Every blocked read and write is served: beside data, beside room, and after
\* the other side has hung up.
BlockedServed == BlockedReaderServed /\ BlockedWriterServed /\ HangupEndsWait

\* A poll ends once its deadline has passed, and nobody sleeps in poll for ever
\* beside an event they asked for.
PollServed ==
  \A p \in Proc :
    /\ (deadline[p] # "none") ~> (polling[p] = NoPoll)
    /\ []<>~(kern.state[p] = "POLL" /\ PollReady(p, polling[p]))
=============================================================================
