-------------------------------- MODULE Oom --------------------------------
(***************************************************************************)
(* Running out of memory: the victim choice of kernel/mm/oom.c and the     *)
(* allocations that get there, for mappings (mm/vmm_user.c) and for the    *)
(* images of new programs (spawn and exec in core/kernel64.c,              *)
(* core/elf_loader.c).                                                     *)
(*                                                                         *)
(* An image is built page by page in an address space that is made active  *)
(* for it, while the process that asked for it remains the current one;    *)
(* each page may cost another process its life.  A system call runs to its *)
(* end before another process does.  Page tables and kernel objects are    *)
(* not counted, only user pages.                                           *)
(***************************************************************************)
EXTENDS Integers, FiniteSetsExt

CONSTANTS MaxPid,     \* bound on the number of processes ever created
          Priority,   \* priority levels in use, of 0 .. PROCESS_PRIO_RT
          Frames      \* page frames for user memory

PROCESS_PRIO_NORMAL == 1
PROCESS_PRIO_HIGH == 2
PROCESS_PRIO_RT == 3

ASSUME OomAssumption ==
  /\ MaxPid \in Nat \ {0} /\ Frames \in Nat \ {0}
  /\ Priority \subseteq 0 .. PROCESS_PRIO_RT /\ PROCESS_PRIO_NORMAL \in Priority

Pid == 1 .. MaxPid
None == 0
Bootstrap == 1       \* init, never a victim
NewSpace == -1       \* the address space an exec builds, of no process yet
Space == Pid \cup {NewSpace}

VARIABLES mem,       \* the processes and the memory they hold
          parent, prio,
          current,   \* the process in whose name the kernel runs
          image,     \* the address space an image is being built in, or None
          space,     \* the active address space
          next_pid

vars == <<mem, parent, prio, current, image, space, next_pid>>

\* rss counts the user pages of an address space.
Memory == [table : SUBSET Pid, alive : SUBSET Pid,
           rss : [Space -> 0 .. Frames], free : 0 .. Frames]

\* session_leader(): the ancestor of the caller directly below init.
session_leader(m, caller) ==
  LET up[n \in Nat] ==
        IF n = 0 THEN caller
        ELSE LET p == parent[up[n - 1]]
             IN  IF p \in m.alive \ {Bootstrap} THEN p ELSE up[n - 1]
  IN  up[MaxPid]

oom_score(m, p) == m.rss[p] * (PROCESS_PRIO_RT + 1 - prio[p])

\* Mutant: the second pass already gives up the session leader.
Candidates_LeaderEarly(m, pass, leader) ==
  {p \in m.alive \ {Bootstrap} : /\ m.rss[p] # 0
                                 /\ pass = 0 => p # leader /\ prio[p] < PROCESS_PRIO_HIGH}

\* Who may be killed in each of the three passes.
Candidates(m, pass, leader) ==
  {p \in m.alive \ {Bootstrap} : /\ m.rss[p] # 0
                                 /\ pass <= 1 => p # leader
                                 /\ pass = 0 => prio[p] < PROCESS_PRIO_HIGH}

\* The highest scores of the first pass that has a candidate.
pick_victim(m, leader) ==
  LET passes == {n \in 0 .. 2 : Candidates(m, n, leader) # {}}
      pool == Candidates(m, Min(passes), leader)
  IN  IF passes = {} THEN {}
      ELSE {p \in pool : \A q \in pool : oom_score(m, q) <= oom_score(m, p)}

process_destroy(m, p) ==
  [m EXCEPT !.table = @ \ {p}, !.alive = @ \ {p}, !.rss[p] = 0, !.free = @ + m.rss[p]]

\* A victim dies; its memory is released unless it is the caller.
Killed(m, v) ==
  IF v # current THEN process_destroy(m, v) ELSE [m EXCEPT !.alive = @ \ {v}]

\* Mutant: the allocation is not tried again after a kill.
oom_alloc_page_NoRetry(m) ==
  IF m.free > 0 THEN {[m |-> [m EXCEPT !.free = @ - 1], ok |-> TRUE]}
  ELSE {[m |-> Killed(m, v), ok |-> FALSE] : v \in pick_victim(m, session_leader(m, current))}

\* The outcomes of an allocation: with no frame free, a kill and, if that
\* released memory, a second attempt.
oom_alloc_page(m) ==
  LET got(k) == IF k.free > 0 THEN [m |-> [k EXCEPT !.free = @ - 1], ok |-> TRUE]
                              ELSE [m |-> k, ok |-> FALSE]
      victims == pick_victim(m, session_leader(m, current))
  IN  IF m.free > 0 \/ victims = {} THEN {got(m)}
      ELSE {got(Killed(m, v)) : v \in victims}

-----------------------------------------------------------------------------

\* The model ends where the kernel goes on building what it has freed.
Sound == image \in mem.table \cup {None, NewSpace}

Calling == current \in mem.alive /\ Sound

\* vmm_user_populate(), for one page; a failed call leaves no page behind.
MapPage ==
  /\ Calling /\ image = None
  /\ \E r \in oom_alloc_page(mem) :
       mem' = IF r.ok THEN [r.m EXCEPT !.rss[current] = @ + 1] ELSE r.m
  /\ UNCHANGED <<parent, prio, current, image, space, next_pid>>

UnmapPage ==
  /\ Calling /\ image = None /\ mem.rss[current] > 0
  /\ mem' = [mem EXCEPT !.rss[current] = @ - 1, !.free = @ + 1]
  /\ UNCHANGED <<parent, prio, current, image, space, next_pid>>

SetPriority ==
  /\ Calling /\ image = None
  /\ \E n \in Priority : prio' = [prio EXCEPT ![current] = n]
  /\ UNCHANGED <<mem, parent, current, image, space, next_pid>>

\* load_user_process(), up to the image: the child is in the process table
\* and its address space is active, but the caller remains current.
SpawnBegin ==
  /\ Calling /\ image = None /\ next_pid \in Pid
  /\ mem' = [mem EXCEPT !.table = @ \cup {next_pid}, !.alive = @ \cup {next_pid}]
  /\ parent' = [parent EXCEPT ![next_pid] = current]
  /\ image' = next_pid /\ space' = next_pid
  /\ next_pid' = next_pid + 1
  /\ UNCHANGED <<prio, current>>

\* user_exec_from_vfs(), up to the image: the new address space is of no
\* process until process_exec_commit().
ExecBegin ==
  /\ Calling /\ image = None
  /\ image' = NewSpace /\ space' = NewSpace
  /\ UNCHANGED <<mem, parent, prio, current, next_pid>>

\* Mutant: a failed exec forgets the pages loaded so far.
Abandoned_Leaks(m) ==
  IF image = NewSpace THEN [m EXCEPT !.rss[NewSpace] = 0] ELSE process_destroy(m, image)

\* What the failure of an image leaves: the caller's own address space.
Abandoned(m) ==
  IF image = NewSpace
  THEN [m EXCEPT !.rss[NewSpace] = 0, !.free = @ + m.rss[NewSpace]]
  ELSE process_destroy(m, image)

\* elf64_load_image(), one page.
LoadPage ==
  /\ Calling /\ image # None
  /\ \E r \in oom_alloc_page(mem) :
       IF r.ok
       THEN /\ mem' = IF image \in r.m.table \cup {NewSpace}
                      THEN [r.m EXCEPT !.rss[image] = @ + 1] ELSE r.m
            /\ UNCHANGED <<image, space>>
       ELSE mem' = Abandoned(r.m) /\ image' = None /\ space' = current
  /\ UNCHANGED <<parent, prio, current, next_pid>>

\* The image is unusable for another reason.
ImageFails ==
  /\ Calling /\ image # None
  /\ mem' = Abandoned(mem) /\ image' = None /\ space' = current
  /\ UNCHANGED <<parent, prio, current, next_pid>>

\* The child is ready, or process_exec_commit() replaces the caller's memory.
ImageDone ==
  /\ Calling /\ image # None
  /\ mem' = IF image = NewSpace
            THEN [mem EXCEPT !.free = @ + mem.rss[current],
                             !.rss = [@ EXCEPT ![current] = mem.rss[NewSpace], ![NewSpace] = 0]]
            ELSE mem
  /\ image' = None /\ space' = current
  /\ UNCHANGED <<parent, prio, current, next_pid>>

Exit ==
  /\ Calling /\ image = None /\ current # Bootstrap
  /\ mem' = [mem EXCEPT !.alive = @ \ {current}]
  /\ UNCHANGED <<parent, prio, current, image, space, next_pid>>

\* process_schedule() runs another process and reaps a dead one.
Schedule(p) ==
  /\ image = None /\ p \in mem.alive \ {current}
  /\ mem' = IF current \in mem.alive THEN mem ELSE process_destroy(mem, current)
  /\ current' = p /\ space' = p
  /\ UNCHANGED <<parent, prio, image, next_pid>>

Init ==
  /\ mem = [table |-> {Bootstrap}, alive |-> {Bootstrap},
            rss |-> [p \in Space |-> IF p = Bootstrap THEN 1 ELSE 0],
            free |-> Frames - 1]
  /\ parent = [p \in Pid |-> None]
  /\ prio = [p \in Pid |-> PROCESS_PRIO_NORMAL]
  /\ current = Bootstrap /\ image = None /\ space = Bootstrap
  /\ next_pid = Bootstrap + 1

Next ==
  \/ MapPage \/ UnmapPage \/ SetPriority \/ SpawnBegin \/ ExecBegin \/ LoadPage \/ ImageFails
  \/ ImageDone \/ Exit \/ \E p \in Pid : Schedule(p)

Spec == Init /\ [][Next]_vars

-----------------------------------------------------------------------------
(* Properties. *)

\* The pages of the address spaces, numbered in each.
Pages(m) == {page \in Space \X (1 .. Frames) : page[2] <= m.rss[page[1]]}

\* Every frame is free or in exactly one address space, whoever is killed in
\* the middle of whatever call (process_destroy(), the failure paths of spawn
\* and exec); and the types are right.
FramesConserved ==
  Sound =>
  /\ mem \in Memory
  /\ mem.free + Cardinality(Pages(mem)) = Frames
  /\ \A p \in Pid \ mem.table : mem.rss[p] = 0

\* The order the comment above pick_victim() gives: init is never killed, the
\* caller's session leader only when nobody else holds memory, and services
\* only when nobody else but that leader does.  A caller that is chosen is
\* "only reaped by the scheduler once it has returned" (oom_reclaim()).
VictimOrder ==
  LET leader == session_leader(mem, current)
  IN  /\ Bootstrap \in mem.alive /\ current \in mem.table
      /\ Calling => \A r \in oom_alloc_page(mem) : \A v \in mem.alive \ r.m.alive :
           \A p \in r.m.alive \ {Bootstrap} :
             \/ mem.rss[p] = 0
             \/ v # leader /\ (\/ p = leader
                              \/ prio[v] < PROCESS_PRIO_HIGH
                              \/ prio[p] >= PROCESS_PRIO_HIGH)

\* An allocation fails only if the caller had to be the victim, or if only
\* init holds memory (oom_alloc_page()).
FailsOnlyForLack ==
  Calling => \A r \in oom_alloc_page(mem) :
    r.ok \/ current \notin r.m.alive \/ \A p \in mem.alive \ {Bootstrap} : mem.rss[p] = 0

\* "The caller is running on its own address space" (oom_reclaim()): what is
\* destroyed is never the address space that is active.
ActiveSpaceLives == space \in mem.table \cup {NewSpace}
=============================================================================
