# HydrogenOS in TLA+

TLA+ modules for the parts of HydrogenOS whose correctness depends on the order in which
things happen, the TLC configurations that check them on small instances, and proofs of the safety
properties of seven of them (pipes, scheduler, exit and wait, memory pressure, block cache, init, hpkg) for
instances of any size.

## The system

HydrogenOS is an x86_64 kernel for one CPU with a userland of its own. A system call, a fault
and an interrupt all enter the kernel with interrupts masked, and they stay masked until the
return to user mode. The only exception is the idle loop at the end of `process_schedule()`
(`sti; hlt; cli`, `kernel/core/process.c:2351`). No kernel code is therefore ever preempted, and
the kernel models take a system call together with the prologue of the scheduler behind it, a
timer tick, or a turn of the scheduler's loop as one step. What makes the kernel hard is what
remains: a call that cannot finish leaves a record of what it waits for and is completed much
later, from the scheduler, in a system that others have changed meanwhile. In userland, a
program is interrupted between any two system calls, and each of them may fail.

| Part | Source | Modules |
| --- | --- | --- |
| Wait queues, pipes, poll, handles | `kernel/core/waitq.c`, `pipe.c`, `process.c` | `WaitQueue`, `PipeIO` |
| Scheduler, life and death of processes, killing signals | `kernel/core/process.c`, `signal.c`, `arch/x86_64/isr.c` | `Scheduler` |
| Exit records and wait | `kernel/core/exit_record.c`, `process.c` | `ExitWait` |
| Program loading, out of memory | `kernel/mm/oom.c`, `core/kernel64.c`, `core/elf_loader.c` | `Oom` |
| Block cache | `kernel/drivers/block_cache.c` | `BlockCache`, `Disk` |
| ext2 driver, directory entry cache | `kernel/fs/ext2.c`, `dcache.c` | `Ext2`, `Ext2Blocks`, `Dcache` |
| TCP and stream sockets | `kernel/net/tcp.c` | `Tcp`, `TcpLive` |
| Service manager | `userspace/init/init.c` | `InitConfig`, `Supervisor` |
| Package manager | `userspace/hpkg/` | `Hpkg` |

`PROJECT.json` lists all parts, with the reason for each one left out, and maps every definition
to the lines it models. Definitions keep the names of the source; a name that is only the model's
begins with a capital letter and has a comment. A definition whose name ends in an underscore and
a word, and whose comment begins with "Mutant", is a deliberately wrong variant of a definition
below it and is used nowhere: put in the place of the right one it must make TLC report a property.

## Modules and runs

### WaitQueue and PipeIO

`WaitQueue` is `waitq.c`, function by function, as operators on a record `k` of the kernel
state: the lists, the entries (`linked`, `woken`, `exclusive`, `queue`) and the scheduler state
of their owners. A queue is a sequence of entries; wake-one takes its head, and cancelling an
entry that was woken but not used hands the wake to the next one.

`PipeIO` puts pipes and processes around it. `kern` holds the queues and the pipe pool, `fd` the
handle tables, and `waiting`, `len`, `polling` and `deadline` what a blocked process waits for.
One action stands for each system call on a pipe (`SysPipe`, `SysRead`, `SysWrite`, `SysPoll`,
`SysClose`, `SysDup`, `SysDup2`, `SysSpawn`), one for each way out of a wait (`ResumeRead`,
`ResumeWrite`, `ResumeFault`, `ResumePoll`, `ResumePollFault`, `Interrupt`, `PollTimeout`), and
`Exit` and `RunUser` for death and rebirth. Bytes are reduced to their number. A process that
exits may be used again, with its entries, as the kernel reuses the memory of one.

The run `pipes` has three processes, one pipe of two bytes and two handles for each process, in two
scenes (`MCPipeIO`). In the first, two processes make every call in every order, from the first
program on. In the second, three processes share the ends of the pipe, as they do after a few calls
that the first scene covers, and open no further handle. One process of a scene polls. It checks

* `RefsCounted`: the reader and writer counts of a pipe are the handles that name it;
* `QueuesSound`: lists and entries agree, no entry points at a pipe that was released (the
  lifetime rule of `waitq.h`), and who sleeps is on the queue that will wake them;
* `BlockedServed`: nobody sleeps for ever beside data or room, and a hangup ends every wait;
* `PollServed`: a deadline ends a poll, and nobody sleeps in a poll beside something ready.

Three processes are needed for a wake to go to one of two waiters while a third acts, two bytes
for a reader to leave something behind. The fairness is that of `Resume(p)` and `PollTimeout(p)`:
the scheduler visits a process that stays runnable (`TopRuns` below) and the timer keeps ticking.
`MCFair` states it on states, since each of the two actions ends the condition it is enabled in. No
fairness is assumed of what programs do. `CHECK_DEADLOCK` is off because all processes may have
exited.

### Scheduler

The ring of processes, the choice of the next one by priority and ring order, the resumption of
blocked calls, idling, reaping, signals that kill, Ctrl+C, and the return to the kernel shell
when the bootstrap process ends. `table` is the process ring with the fields the scheduler
reads; `cpu` says where the CPU is: in user mode, inside `process_schedule()` with its local
`prev`, halted in the idle loop (and whether below an interrupt), or in the kernel shell.
What a process blocks on is abstracted to whether its call can be completed; `PipeIO` has the
detail.

| Run | Instance | Shows |
| --- | --- | --- |
| `sched` | 3 processes, 2 priorities, a caught and a fatal signal | what runs was resumed and is alive (`RunsResumed`), nothing freed is used, the dead are reaped, a waiting parent has a living child (`ListSound`), no starvation among equals (`TopRuns`), a killed process goes (`KilledGoes`) |
| `sched_tick` | 2 processes | a violation, see Findings |

`MaxPid` bounds the processes ever created; three are the bootstrap process, a job and a job of
the job. The fairness is weak fairness of the scheduler's own steps and of the timer together:
the loop of `process_schedule()` runs on, and the timer is hardware. It is written out with
`CanTick` (the states in which one of these steps can be taken) and `Ticked` (what such a step
looks like), which TLC evaluates far faster than `ENABLED`. `CHECK_DEADLOCK` is off because all
pids may be used up.

### ExitWait

How the exit status of a child reaches its parent. The record of a process is allocated with it
(`own`), moves into the list of the parent at the exit (`records`) and is freed by the wait that
claims it, by the destruction of the parent, or with the process if there is no parent to tell.
A parent asleep in `SYS_WAIT` is on a queue inside the child (`wait[p].linked`); the exit hands it
the status, but it collects the record only when it is resumed, and its status pointer may have
become invalid by then. `freed`, `exited` and `collected` are history.

`exit_wait` (4 processes, 2 statuses) checks that each record is in one place and freed once
(`RecordsConserved`), that no status is lost or collected twice (`StatusKept`), that a sleeping
parent can still be woken (`WaitIsSound`), that an exit completes the wait for it although SIGCHLD
is sent in the same step (`ExitCompletesWait`), and, under weak fairness of `process_complete_wait`
(the scheduler resumes what can go on), that every such wait ends (`WaitEnds`).

### Oom

Memory running out. `mem` holds the process table and the number of user pages in each address
space; `image` is the address space a spawn or exec is building and `space` the active one. An
allocation (`oom_alloc_page`) may kill, by the three passes of `pick_victim()`; a victim other
than the caller is destroyed on the spot. Scores that tie are resolved in any way, where the
code takes the first in the ring. `oom` (4 processes, 4 frames) checks the order of victims
(`VictimOrder`), that each frame is free or owned once (`FramesConserved`), and that an allocation
fails only for lack of a victim (`FailsOnlyForLack`). Once a child under construction has been destroyed
(see Findings) the model stops, so these properties say nothing about what follows. `oom_spawn`
is that violation.

### BlockCache and Disk

`BlockCache` is the write-back cache over a device that may fail any request, may store any part
of a run of sectors it reports as failed, and has a volatile cache of its own (`possible`: what a
power cut may leave of a sector). `Disk` is what the cache promises: a disk that returns what was
last written and may lose, sector by sector, what was not synchronised. `block_cache` (3 sectors, 2
entries, so that eviction and the dirty limit are reached) checks that a victim always exists, that
clean entries match the device, that an idle cache has nothing left to lose and that the clock of
the periodic flush is no later than the oldest data of any sector no tick has `tried` in vain since the
last sync (together `EntriesSound`), that the cache
implements `Disk` (`CacheIsDisk`, with `Logical` and `since` as the refinement mapping), and that
what is written becomes durable (`EventuallyDurable`). The last needs strong fairness of a successful tick: a device that is asked
again and again answers in the end.

### Ext2, Ext2Blocks and Dcache

The file system driver. Each of its calls runs to completion, so a call is one step; what is hard
is how it ends when space runs out or a write fails half-way. A function of the driver is an
operator that gives the set of its outcomes, triples of return code, state and value, and
`Then`, `Undo`, `After` and `ForEach` put them together as the code does. `Ext2Blocks` has writes,
bitmaps and block maps with their indirect blocks, `Dcache` the cache of names as a sequence in the
order of use, and `Ext2` directories, path resolution and the calls. `fs` is the disk as seen
through the block cache, with the counts and the name cache in memory and two histories: `text`,
what programs wrote to each file, and `torn`, whether a directory block was stored by a write that
failed. A block of several sectors may be stored although its
write fails; a sector is written or not. A failing read is not a choice of its own, as it leaves
what the failing write of the same step leaves.

The run `ext2` has blocks of two units, two pointers or three entries, one direct pointer and two
levels of indirection, so that four units of a file already need an indirect block and a directory
grows with its second entry, and three scenes: calls on names with three inodes and four blocks to
give away, which run out; calls on the data of a file in six blocks; all calls with one device error.
The name cache holds one entry, and one of the two names is too long for it. It checks

* `TreeConsistent`: without device errors, what a file system checker looks at. Bitmaps, free
  counts, `i_blocks`, link counts, and a tree of directories in which ".." leads back;
* `FirstErrorLeaks`: the call that meets the first device error leaves every entry leading to an
  allocated inode and no block in two files, unless the failing write stored a directory entry; and
  a file has as many links as names, unless the call is a rename;
* `CacheCoherent`: the name cache never contradicts the directories, also after an error;
* `FilesReadBack`: a file reads as what was written, holes and regrown ranges as zeroes.

The run `ext2_error` checks the promise at the head of `ext2.c` as it stands, `EntriesLead`, and finds
it broken; see the findings. The model goes on after an error as the kernel does, until an entry leads
nowhere or two files share a block; it stops there (hence `CHECK_DEADLOCK FALSE`).

### Tcp and TcpLive

Two hosts running `tcp.c` over a network that loses, duplicates and reorders. A block of
`tcp_conns` is a record; a call works on the block and a set of outgoing segments (`On`,
`Apply`). Sequence numbers are modulo `M` and start just below the wrap. Bytes carry their number in
the stream, so that order, loss and repetition are visible. Timers run or do not; they may
expire at any time.

What the programs do is a plan, chosen in the initial state; `TcpPlans` in `TcpLive` has four.

| Plan of the run `tcp` | Shows |
| --- | --- |
| a client writes 3 bytes through rings of 2 and closes, a server reads | the stream arrives in order and once, end-of-file only after all of it, acknowledged means received (`StreamIntact`), windows are backed and never shrink (`WindowKept`), what is left to send has a timer behind it (`TimerRuns`), every block has an owner (`BlocksSound`) |
| a client shuts down and reads nothing, a server writes a byte and closes | also that a reset does not destroy unread data of a closed connection (`GoodOrderKept`): the client is in TIME_WAIT with the byte in its ring when the server, which has forgotten the connection, answers a repeated acknowledgement |
| both hosts open at once | the same invariants, in SYN_RECEIVED on both sides |
| as the first, with one fault; otherwise the network delivers in rounds before a timer expires | queued data drains or the connection fails (`DataDrains`), an opening ends and orphaned blocks return (`ConnectionsEnd`) |

The field `inflight` of a plan bounds what is under way, to 2 segments in the first three; a further
segment is lost, which the network may do anyway. The listening socket is closed before its connection
is accepted or not at all, as it shares no state with an accepted connection.
The fairness of the last plan: `net_poll()` and `tcp_tick()` run from every timer interrupt, and the
programs accept and read what arrives. It is written out over the variable `last` for the sake
of TLC. `CHECK_DEADLOCK` is off, as programs may stop calling.

### InitConfig and Supervisor

`InitConfig` is how init reads `/etc/init.rc`: options bind the standard handles of a service to
channels, tees and logsinks, later options replace earlier ones and the streams count their
writers. `Supervisor` extends it with the main loop: services start in order when their
dependencies have, are waited for, timed out and retried; daemons are reaped and restarted from
every waiting loop; pipes between services are opened and closed on the way. `hold` has the pipe
ends that running services hold. A backoff or a timeout may be over at any time, the exit of a
service is good or bad at will. A timeout takes two steps: `TimeIsUp` is the last `try_wait_pid`,
then the service is killed and reaped (`WaitTimedOut`) or has exited by itself, so that `kill`
fails (`WaitFailed`); `left` has the services this has happened to. A spawn may fail between any
two of the handles it prepares (`Broken`).

`supervisor` explores the configurations of `MCSupervisor`: a channel with its writers and reader
in several orders, daemons with a log server, collected output, refused and empty files, and every way for
two options of one line and one of the next to bind and rebind the handles. It checks the writer
counts (`BindingsCounted`); that a reader gets its end-of-file, that reader and writers share one
pipe and that log pipes live as long as their service (`StreamsWork`); that nothing runs whose
dependencies have not started and that no process is left running (`ServicesTracked`); that the
start-up ends (`BootEnds`) and that a daemon is restarted or given up (`DaemonKept`). The fairness:
init runs on and calls `daemons_tick` from every loop; a service that init waits for without a
timeout ends when it can.

### Hpkg

The package manager, one step per system call that changes the disk. Any of them may fail
(`MaxFaults` of them do) and the process may be killed between two (`MaxKills`). `tx` is the
transaction of `store.c`, with what is left to stage, commit, undo or discard; `repo` the plan of an
installation from a repository. `hpkg` has three packages, of which one is upgraded with a file
dropped, one kept and one added in a new directory, one takes over the dropped path, and two
depend on each other in a circle that no plan can resolve. It checks that after a failed
installation or plan, when every undoing call succeeded, the files in place, the directories and the
records are what they were, but for one directory that could not be listed (`FailureUndone`), that records and files agree and no file of the
old version is lost before the new record is written (`RecordsTrue`), that no path has two owners and
dependencies are met (`DatabaseSound`), that files of the user are never touched (`UserFilesKept`) and
that a record goes last (`RecordLast`).

## Findings

* `sched_tick`: the idle loop can be reached from the timer interrupt. `signal_deliver()` enters
  one handler at a time, so a fatal signal may stay pending while a handler runs in user mode;
  the next tick delivers it. With nothing else runnable the CPU halts before the interrupt is
  acknowledged. The comment at `process.c:2269` excludes this.
* `oom_spawn`: the victim may be the child that the caller is loading, whose address space is
  the active one, while the comment at `oom.c:103` reasons from the caller running on its own.
* `ext2_error`: a directory block is written sector by sector. When the sector with a new entry is
  stored and a later one fails, `ext2_mkdir()`, `ext2_write_file()` and `ext2_symlink()` free the inode
  and leave the entry. The comment at `ext2.c:17` excludes this.

## What the models say about the limits of the code

Beside the findings, modelling met these cases. The properties are stated so that they hold of the
code as it is, with the cases visible in them:

* TCP: a simultaneous open is never established, and lasts as long as no segment is lost: each end
  answers a SYN+ACK with a SYN+ACK and starts its timer again (`tcp.c:300`, `tcp.c:388`, `tcp.c:703`).
  `ConnectionsEnd` is about connections to a listener. An acknowledgement
  overtaken by a newer one pulls `snd_nxt` back, which costs a retransmission (`tcp.c:404`,
  `tcp.c:747`).
* init: `ready_mask` has 64 bits for up to 96 services, so `DepsStarted` assumes no more services
  than bits. `writer_spawned_count` counts spawns, so a retried writer may close a channel before
  another writer has started; `Connected` speaks of services started once. The write end of a log
  pipe stays open when a service is skipped or given up; `LogPipeKept` speaks of the others. A
  reader that init waits for without a timeout and that is placed before its writer stops the
  start-up: no configuration of `MCSupervisor` has one. "A service that outlives its timeout is
  killed and reaped" (`init.c:2173`), but one that exits after the last `try_wait_pid` makes `kill`
  return `-ESRCH`: it is not reaped, counts as failed whatever its status and may be started again
  (`init.c:2190`). `NoneLeftBehind` says that only such processes, never a running one, are left.
* block cache: `dirty_since_ms` is to be "when the oldest data not yet durable was written into the
  cache" (`block_cache.c:35`), but a tick that fails sets it to the time of the attempt
  (`block_cache.c:230`), later than all data that is left. `EntriesSound` speaks of the sectors no tick
  has tried in vain.
* ext2: a rename that fails after the new entry leaves two names and one link, or a wrong "..", so
  that removing one name later frees the inode the other leads to. A truncation or replacement that
  fails before the inode is written leaves it with freed blocks, which another file may get.
* hpkg: when `mkdir` succeeds and `directory_list_add()` then has no memory (`store.c:93`), the
  installation fails and `roll_back()` reports nothing left undone, but the directory stays: `store.h:49`
  says "Any failure undoes what was done". `FailureUndone` names it (`unlisted`).
* hpkg: an installation killed before its record is written leaves files that block its own
  repetition, and a repeated upgrade overwrites the backups of a killed one. `torn` and `suspect`
  name the packages this has happened to; nothing is claimed of their files but `OldKept`. There
  is no lock between two instances of hpkg, and the model has only one.

## Proofs

All proofs hold for every value of the constants that the assumptions named below allow.

### Wait queues and pipes

`PipeIOProofs` proves all safety properties of the pipes, for any number of processes, pipes and
handles, any capacity and any transfer length: `TypeCorrect`, `ReferencesCounted`, `QueuesAreSound`
with its parts `QueuesIntact`, `LifetimeRule` and `SleepersQueued`, and `WakeupsNotMissed` with
`WakeupsNotLost`, `HangupLeavesNoSleeper` and `PollersNotMissed`. The assumptions are those of
`PipeIOAssumption`: handles and processes are finite sets, capacity and transfer length are
positive, and queues and entries are the ones of the pipes and processes.

None of these properties is inductive. The invariant `IInv` adds, for each process, exactly what
its entries look like in each stage of a wait (`ProcInv`, `PollInv`): the block entry of a
reader is on the queue of its pipe, or carries a wake and the process is runnable. `CoverInv`
is the heart of the argument for lost wakeups: whenever a pipe has data and a reader is
queued, some reader of that pipe holds an unused wake. `HangupInv` says that nobody is queued
for an end that cannot come any more. `RefsCounted` is needed for both, as it makes the release of
a slot coincide with the last handle on it, and so with the last entry.

`PipeIOSteps` has the facts about the operators (what a wake, a cancellation, a close does to
queues, entries and counts), the system calls that read and write, the ways out of a wait and
poll; `PipeIOProofs` has the calls on handles, exit and the theorems. The counts of handles come
from a few facts about finite sets, collected in `HandleFacts` and proved at the end (`HandlesCounted`).

### Scheduler

`SchedulerProofs` proves `RunsOnlyResumed` and `ListStaysSound` for any number of processes, any
priorities and any signals. The invariant is about the table and the CPU together. `Good` says that
each process is on the list once, that the living are on it, that what is not on it has the fields
of a new process, and that whoever is blocked on a child has a living child. `DeadIsPrev` says that
the only dead process on the list is the one the scheduler came from, and none outside its loop:
this is what makes one `process_destroy()` on each path out of the loop enough. Most operators
only wake processes or end their waits; they make the table calmer (`Calmer`), which keeps it
good. The exceptions are the exit, which has to wake a parent blocked on the dead, the creation
and the destruction.

### Exit records

`ExitWaitProofs` proves `TypeCorrect`, `RecordsAreConserved`, `StatusIsKept`, `WaitsAreSound` and
the action property `ExitCompletes` for any number of processes and statuses
(`ExitWaitAssumption`). The invariant adds to them: a pid that was not given out has no history and
only processes in the list wait (`PidInv`); a record in a list has the list's owner as the parent of
its process, is not owned by that process any more, carries the status of the exit and was not
collected, and a record is freed exactly when it is neither owned nor listed (`RecordInv`); only
living processes without a result are on a queue (`LinkInv`). `RecordsConserved` counts the places
of a record; the lemma `PlacesOfRecord` derives it from `RecordInv`. `ExitCompletes` follows from
`ExitWaits`, which says what an exit does to every other wait, since the notice comes before the
signal and `process_interrupt_wait()` leaves an answered wait alone.

### Out of memory

`OomProofs` proves `FramesAreConserved`, `VictimsInOrder` and `FailsForLack` for any number of
processes and frames (`OomAssumption`). Pages are counted as pairs of an address space and a number
(`Pages`); the lemma `PagesMoved` says how the count changes when one address space grows or
shrinks, and `SetPages` carries it through every operation. The invariant counts the frames
(`Kept`; its second argument is a frame taken and not yet mapped), has init alive and the caller
in the table, and keeps the image that is being built apart from both, so that the clean-up of a
failed spawn cannot destroy the caller. `VictimFacts` reads the order of victims off the first of
the three passes that finds a candidate. As in the model, nothing is claimed after the state that
`oom_spawn` shows.

### Block cache

`BlockCacheProofs` proves `EntriesAreSound` and `CacheImplementsDisk`, the refinement of `Disk`,
for any sectors and contents, any cache of two entries or more, any length of a run and any flush
interval (`BlockCacheAssumption`). The invariant `Good` bounds the dirty entries by the limit, from
which a victim follows by counting; it says that clean entries match the device (`Sound`), that
what a power cut may leave of a sector is the current content or was written since the last sync
(`Covers`), that an idle cache has nothing to lose (`Quiet`), and that no data is older than the
clock (`Clocks`). Each action is shown to keep it and to be a step of `Disk` or none, with
`Logical` and `since` for the abstract variables.

### Package manager

`HpkgProofs` proves all properties of the package manager, `FailuresAreUndone`, `RecordsAreTrue`,
`DatabaseIsSound` and the action properties `LeavesUserFiles` and `RecordGoesLast`, for any
packages, paths, directories and archives and any number of failing calls and kills
(`PathAssumption`: what is above a directory is above everything in it; `ArchiveAssumption`: the
index of the repository is finite and has one archive of a name; `BoundAssumption`).

The invariant `IInv` says what holds between any two system calls. While a transaction is open
(`Open`), what `hpkg_store_install` checked at its beginning still holds (`Accepted`: nothing else
changes the database meanwhile); the lists of the transaction do not overlap (`Sets`); the new data is
staged or in place and the old in place or in its backup (`Copies`); the files found at the beginning
agreed with the records (`Began`); and everything that is not on a list is as it was found
(`Undoable`), but for a directory that could not be listed, so that empty lists mean that all else is
undone. `Onward` says that a transaction that
has not failed has dealt with every file by the time it writes its record, which makes the record
true; `Removing` that the files of a package under removal are gone or still to be deleted and that
nobody depends on it. `Rest` is `RecordsTrue` for all other packages, and for this one too once
the transaction is over. `RunInv` and `UndoInv` relate a plan to the records it began with: all it
installed before its last package was not installed then, so `undo_installed` may remove it.
Directories are in it (`Tree`) because `roll_back` can only restore a file to a directory that is
still there. The planner is specified by what it reaches and the orders it allows; that the package asked for
comes last in all of them is a lemma about these orders (`RequestedLast`).

### Service manager

`SupervisorProofs` proves all safety properties of init, `BindingsAreCounted`, `ServicesAreTracked`
and `StreamsDoWork`, for any configurations, table sizes, width of `ready_mask` and number of
failing spawns (`ConfigAssumption`: a configuration is a sequence of lines of options that `init.rc`
can express; `SupervisorAssumption`). `Inductive` is the invariant they follow from: `IInv` and, for
the processes that are not waited for, `LeftInv`.

* `TableInv` counts references while a line is being read, not only between two lines: the streams
  count the outputs of all rows and of the current line (`WritersMatch`), and each channel names the
  row that reads it (`ReadersMatch`). `RowInv` has what `parse_service_line` checked of a row.
* `RunTypes` and `BootInv` say that nothing has run while the configuration is read.
* `ProcInv` says which processes exist: those of daemons in phase `running` and the one main waits
  for. Whatever was started has its dependencies met and is behind main, or is what main is at.
* `LeftInv` says that a time is over only of the service main waits for, and that only services with
  a timeout have an exited process that is left.
* `HoldInv` gives a process one pipe for an end of a channel. By counting, `2 * MaxServices + 1`
  numbers are then enough for the pipes of a channel (`PipesAreNumbered`), which is what the model
  offers.
* `StreamInv` is about the bindings that are still to come (`Pending`). A channel counts at most the
  writers started or pending, and while its reader runs init has its write end only if one is to
  come (`Count`); this gives the end of file. As long as its services are started once at most it
  counts exactly those, and there is one pipe whose ends are with the running services or, for
  those to come, with init (`Link`); this gives the connection. A restarted reader or writer may be
  given a new pipe, which is why neither the property nor the invariant says more of it.

Reading a configuration is in `ReadConfigStep`, whose hard part is an option that binds an output
again (`ReadOptionStep`). The lemma `StreamStepsHold` follows a channel through the four things
that happen to it: a service is started, a spawn fails, a service is passed that never ran, processes
end. The steps of main, of `daemons_tick` and of the processes rest on it. Facts that serve
one lemma only are steps of its proof.

### Only model-checked

Liveness and fairness are not supported by the prover: `BlockedServed`, `PollServed`, `TopRuns`,
`KilledGoes`, `WaitEnds`, `EventuallyDurable`, `BootEnds`, `DaemonKept`, `DataDrains` and
`ConnectionsEnd`. The modules of ext2 use recursive operators, in whose presence the prover has no
arithmetic. `Tcp` has no proofs either: its properties rest on modular comparisons of sequence
numbers with every segment that may still be in flight, and no invariant for all of them has been
worked out; they are checked on the plans of `tcp` only. What a recursive
function computes for every input is out of reach as well; `session_leader()` is one, and the
proofs about `Oom` hold whatever it returns.

## Not modelled

The larger part of the repository by lines is outside these models, and `PROJECT.json` names each
part with its reason. In short: drawing, fonts, widgets and the desktop, and the vendored font
library; device registers, page-table bits and boot code; text formatting and parsing (shell,
`procfs`, `init.rc` syntax, archives); programs and test programs that make system calls in a
straight line; tools that run on the host; and the older 32-bit port. They run to the end
within one call or one process, and a model of them would repeat them line by line.
