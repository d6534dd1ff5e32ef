----------------------------- MODULE Supervisor -----------------------------
(***************************************************************************)
(* init as the service manager (src/userspace/init/init.c, main and what   *)
(* it calls): services are started in the order of the table when what     *)
(* they depend on has started, one-shot and supervised services are waited *)
(* for and retried, daemons are reaped and restarted from every waiting    *)
(* loop, and the pipes between services are opened and closed on the way.  *)
(*                                                                         *)
(* Time is abstracted: a backoff or a timeout may be over at any moment.   *)
(* Service i runs as at most one process at a time, inst[i].  A process    *)
(* that reads a channel exits at its end-of-file; any other when it likes. *)
(* Data in pipes is left out, so no writer blocks.                         *)
(***************************************************************************)
EXTENDS InitConfig

CONSTANTS
  MaskBits,       \* bits of an unsigned long, for ready_mask
  MaxSpawnFails   \* bound on the spawns that fail

ASSUME SupervisorAssumption == MaskBits \in Nat \ {0} /\ MaxSpawnFails \in Nat

VARIABLES
  at,       \* the service main is at, from 1
  pc,       \* "boot", "start", "wait", "sleep", "loop" or "ended"
  fails,    \* failures of run_service
  spawned,  \* *spawned of run_service
  expired,  \* wait_for_service has found the service running, but its time over
  ready,    \* ready_mask, the set of its bits
  daemon,   \* [i -> [phase, failures]]
  inst,     \* [i -> "none", "run", or "ok"/"bad": exited and not waited for]
  chan,     \* [s -> [r, w: init's ends are open, pipe, writers, spawned]]
  source,   \* the services whose log pipe has its write end open in init
  hold,     \* <<i, end, s, pipe>>: the process of i has that end of a pipe
  started,  \* the services that have ever done what others may depend on
  starts,   \* [i -> 0, 1 or 2]: never, once, or more often started
  left,     \* services with an exited process that init will not wait for
  spawnFails

run == <<at, pc, fails, spawned, expired, ready, daemon, inst, chan, source,
         hold, started, starts, left, spawnFails>>
vars == <<config, run>>

svc == table.svc
N == Len(svc)
Places == 1 .. MaxServices
Bit(i) == (i - 1) % MaskBits

Init ==
  /\ ConfigInit
  /\ at = 1 /\ pc = "boot" /\ fails = 0 /\ spawned = FALSE /\ ready = {}
  /\ expired = FALSE /\ left = {}
  /\ daemon = [i \in Places |-> [phase |-> "none", failures |-> 0]]
  /\ inst = [i \in Places |-> "none"]
  /\ chan = [s \in Stream |->
               [r |-> FALSE, w |-> FALSE, pipe |-> 0, writers |-> 0, spawned |-> 0]]
  /\ source = {} /\ hold = {}
  /\ started = {} /\ starts = [i \in Places |-> 0]
  /\ spawnFails = 0

ReadStep == pc = "boot" /\ ReadConfig /\ UNCHANGED run

\* load_service_table has returned; main begins its loop, or exits.
Boot ==
  /\ pc = "boot" /\ ~Reading /\ ~NoService
  /\ pc' = IF from = "none" THEN "ended" ELSE "start"
  /\ chan' = [s \in Stream |->
                [chan[s] EXCEPT !.writers = table.writers["channel"][s]]]
  /\ UNCHANGED <<config, at, fails, spawned, expired, ready, daemon, inst, source,
                 hold, started, starts, left, spawnFails>>

-----------------------------------------------------------------------------
(* spawn_with_runtime                                                      *)

\* A number no process knows a pipe of the channel by.
FreshPipe(s) ==
  CHOOSE n \in 1 .. 2 * MaxServices + 1 : \A h \in hold : h[3] = s => h[4] # n

ensure_channel_pipe(ch, s) ==
  IF ch[s].r \/ ch[s].w THEN ch
  ELSE [ch EXCEPT ![s] = [ch[s] EXCEPT !.r = TRUE, !.w = TRUE, !.pipe = FreshPipe(s)]]

close_channel_write(ch, s) == [ch EXCEPT ![s].w = FALSE]

CloseIfAllSpawned(ch, s) ==
  IF ch[s].spawned >= ch[s].writers THEN close_channel_write(ch, s) ELSE ch

\* The channels once the handles of service v are chosen: its input first.
OnChannel(v, f) == v.mode[f] = "channel"
Prepared(v) ==
  LET c1 == IF OnChannel(v, "in")
              THEN CloseIfAllSpawned(ensure_channel_pipe(chan, v.to["in"]), v.to["in"])
              ELSE chan
      c2 == IF OnChannel(v, "out") THEN ensure_channel_pipe(c1, v.to["out"]) ELSE c1
  IN  IF OnChannel(v, "err") THEN ensure_channel_pipe(c2, v.to["err"]) ELSE c2

\* The ends the new process gets; a closed end is SPAWN_STDIO_CLEAR.
Given(i, v, ch) ==
  {<<i, "r", v.to["in"], ch[v.to["in"]].pipe>> : f \in
     {f \in {"in"} : OnChannel(v, f) /\ ch[v.to[f]].r}} \cup
  {<<i, "w", v.to[f], ch[v.to[f]].pipe>> : f \in
     {f \in Output : OnChannel(v, f) /\ ch[v.to[f]].w}}

\* One more writer of channel s is started; beyond 2 * MaxServices it makes no
\* difference how many.
CountWriter(ch, s) ==
  CloseIfAllSpawned(
    [ch EXCEPT ![s].spawned = IF ch[s].spawned < 2 * MaxServices
                                THEN ch[s].spawned + 1 ELSE ch[s].spawned], s)

\* The channels after the spawn: init keeps no end it does not need.
Handed(v, ch) ==
  LET c1 == IF OnChannel(v, "in") THEN [ch EXCEPT ![v.to["in"]].r = FALSE] ELSE ch
      c2 == IF OnChannel(v, "out") THEN CountWriter(c1, v.to["out"]) ELSE c1
  IN  IF OnChannel(v, "err") THEN CountWriter(c2, v.to["err"]) ELSE c2

UsesSyslog(v) == \E f \in Output : v.mode[f] = "syslog"

SpawnWorks(i) ==
  /\ UsesSyslog(svc[i]) => i \in source
  /\ LET ch == Prepared(svc[i]) IN
     /\ hold' = hold \cup Given(i, svc[i], ch)
     /\ chan' = Handed(svc[i], ch)
  /\ inst' = [inst EXCEPT ![i] = "run"]
  /\ starts' = [starts EXCEPT ![i] = IF starts[i] < 2 THEN starts[i] + 1 ELSE 2]
  /\ UNCHANGED spawnFails

\* The service with only the handles in F of its own.
Upto(v, F) == [v EXCEPT !.mode = [f \in Fd |-> IF f \in F THEN v.mode[f] ELSE "inherit"]]

\* The channels a failed spawn leaves: it fails before the first handle is
\* chosen, after one of them, or when all of them are.
Broken(i) ==
  {chan} \cup {Prepared(Upto(svc[i], F)) : F \in {{"in"}, {"in", "out"}, Fd}}

\* The spawn fails with the channels c: the log pipe of an output is missing, or
\* a pipe cannot be made or the program cannot be started.
BeforeLog(v) == IF v.mode["out"] = "syslog" THEN {"in"} ELSE {"in", "out"}
SpawnBreaks(i, c) ==
  \/ /\ UsesSyslog(svc[i]) /\ i \notin source
     /\ c = Prepared(Upto(svc[i], BeforeLog(svc[i])))
     /\ UNCHANGED spawnFails
  \/ spawnFails < MaxSpawnFails /\ spawnFails' = spawnFails + 1

\* spawn_log_server makes the pipes of all sources when it works.
Sources(i) == IF svc[i].server THEN table.sources ELSE source

-----------------------------------------------------------------------------
(* main and run_service                                                    *)

\* release_unspawned_channel_writers for a service that never ran.
DropWriter(ch, v, f) ==
  IF OnChannel(v, f) /\ ch[v.to[f]].writers > 0
    THEN CloseIfAllSpawned([ch EXCEPT ![v.to[f]].writers = ch[v.to[f]].writers - 1],
                           v.to[f])
    ELSE ch
\* Mutant: the reference of a service that never ran stays.
release_unspawned_channel_writers_None(ch, v) == ch

release_unspawned_channel_writers(ch, v) ==
  DropWriter(DropWriter(ch, v, "out"), v, "err")

Met(i) == {Bit(d) : d \in svc[i].deps} \subseteq ready

service_should_restart(v, success) ==
  v.policy = "always" \/ (v.policy = "on-failure" /\ ~success)

Advance == at' = at + 1 /\ pc' = "start" /\ fails' = 0 /\ spawned' = FALSE
Provide == ready' = ready \cup {Bit(at)} /\ started' = started \cup {at}

NotProvided == UNCHANGED <<ready, started>>

Starting == pc = "start" /\ at <= N

\* A dependency did not start.
Skip ==
  /\ Starting /\ ~Met(at)
  /\ chan' = release_unspawned_channel_writers(chan, svc[at])
  /\ Advance /\ NotProvided
  /\ UNCHANGED <<config, expired, daemon, inst, source, hold, starts, left, spawnFails>>

StartDaemon ==
  /\ Starting /\ Met(at) /\ svc[at].type = "daemon"
  /\ SpawnWorks(at)
  /\ daemon' = [daemon EXCEPT ![at].phase = "running"]
  /\ source' = IF svc[at].policy = "never" THEN Sources(at) \ {at} ELSE Sources(at)
  /\ Advance /\ Provide
  /\ UNCHANGED <<config, expired, left>>

StartDaemonFails ==
  /\ Starting /\ Met(at) /\ svc[at].type = "daemon"
  /\ \E c \in Broken(at) :
       SpawnBreaks(at, c) /\ chan' = release_unspawned_channel_writers(c, svc[at])
  /\ Advance /\ NotProvided
  /\ UNCHANGED <<config, expired, daemon, inst, source, hold, starts, left>>

\* The next round of run_service: at once, or after supervised_sleep.
AtSpawn ==
  /\ pc \in {"start", "sleep"} /\ at <= N
  /\ pc = "start" => Met(at)
  /\ svc[at].type # "daemon"

RunService ==
  /\ AtSpawn
  /\ SpawnWorks(at)
  /\ pc' = "wait" /\ spawned' = TRUE
  /\ UNCHANGED <<config, at, fails, expired, daemon, source, ready, started, left>>

\* run_service after a round: return, or sleep until the next one.  c are the
\* channels, s that one instance has been started.
RoundEnded(success, c, s) ==
  IF ~service_should_restart(svc[at], success)
    THEN /\ source' = source \ {at}
         /\ Advance
         /\ IF success THEN Provide ELSE NotProvided
         /\ chan' = IF success \/ s THEN c
                    ELSE release_unspawned_channel_writers(c, svc[at])
  ELSE IF ~success /\ fails >= svc[at].retries
    THEN /\ Advance /\ NotProvided
         /\ chan' = IF s THEN c ELSE release_unspawned_channel_writers(c, svc[at])
         /\ UNCHANGED source
  ELSE /\ pc' = "sleep"
       /\ fails' = IF success THEN 0 ELSE fails + 1
       /\ chan' = c
       /\ NotProvided
       /\ UNCHANGED <<at, spawned, source>>

RunServiceFails ==
  /\ AtSpawn
  /\ \E c \in Broken(at) : SpawnBreaks(at, c) /\ RoundEnded(FALSE, c, spawned)
  /\ UNCHANGED <<config, expired, daemon, inst, hold, starts, left>>

\* Captured output and complete logsinks are compared with what is expected.
Verified(v) ==
  IF \/ \E f \in Output : v.mode[f] \in {"capture", "tee"}
     \/ table.known["logsink"] # {}
    THEN BOOLEAN ELSE {TRUE}

\* wait_for_service: try_wait_pid has found that the service has exited.  It does
\* not fail, nor does wait_pid below: the process is a child of init, its exit
\* record was allocated with it, and init has no signal handlers.
WaitExited ==
  /\ pc = "wait" /\ ~expired /\ inst[at] \in {"ok", "bad"}
  /\ \E v \in Verified(svc[at]) : RoundEnded(inst[at] = "ok" /\ v, chan, TRUE)
  /\ inst' = [inst EXCEPT ![at] = "none"]
  /\ UNCHANGED <<config, expired, daemon, hold, starts, left, spawnFails>>

\* Mutant: only the first attempt is timed.
TimeIsUp_First ==
  /\ pc = "wait" /\ ~expired /\ inst[at] = "run" /\ svc[at].timeout /\ fails = 0
  /\ expired' = TRUE
  /\ UNCHANGED <<config, at, pc, fails, spawned, ready, daemon, inst, chan, source,
                 hold, started, starts, left, spawnFails>>

\* wait_for_service: try_wait_pid has found the service running, for the last
\* time.  Until init calls kill, daemons are looked after and the service runs.
TimeIsUp ==
  /\ pc = "wait" /\ ~expired /\ inst[at] = "run" /\ svc[at].timeout
  /\ expired' = TRUE
  /\ UNCHANGED <<config, at, pc, fails, spawned, ready, daemon, inst, chan, source,
                 hold, started, starts, left, spawnFails>>

\* Mutant: the service is left running.
WaitTimedOut_Leaves ==
  /\ pc = "wait" /\ expired /\ inst[at] = "run"
  /\ expired' = FALSE
  /\ RoundEnded(FALSE, chan, TRUE)
  /\ UNCHANGED <<config, daemon, inst, hold, starts, left, spawnFails>>

\* The service still runs: it is killed and reaped.
WaitTimedOut ==
  /\ pc = "wait" /\ expired /\ inst[at] = "run"
  /\ expired' = FALSE
  /\ RoundEnded(FALSE, chan, TRUE)
  /\ inst' = [inst EXCEPT ![at] = "none"]
  /\ hold' = {h \in hold : h[1] # at}
  /\ UNCHANGED <<config, daemon, starts, left, spawnFails>>

\* The service has exited meanwhile: kill returns -ESRCH and nobody waits for the
\* process any more.
WaitFailed ==
  /\ pc = "wait" /\ expired /\ inst[at] \in {"ok", "bad"}
  /\ expired' = FALSE
  /\ RoundEnded(FALSE, chan, TRUE)
  /\ inst' = [inst EXCEPT ![at] = "none"]
  /\ left' = left \cup {at}
  /\ UNCHANGED <<config, daemon, hold, starts, spawnFails>>

\* All services have been started; init stays for its daemons.
EnterLoop ==
  /\ pc = "start" /\ at > N
  /\ pc' = IF \E i \in 1 .. N : daemon[i].phase # "none" THEN "loop" ELSE "ended"
  /\ UNCHANGED <<config, at, fails, spawned, expired, ready, daemon, inst, chan,
                 source, hold, started, starts, left, spawnFails>>

Active == {i \in 1 .. N : daemon[i].phase \in {"running", "backoff"}}

LeaveLoop ==
  /\ pc = "loop" /\ Active = {}
  /\ pc' = "ended"
  /\ UNCHANGED <<config, at, fails, spawned, expired, ready, daemon, inst, chan,
                 source, hold, started, starts, left, spawnFails>>

-----------------------------------------------------------------------------
(* daemons_tick, from every waiting loop of init                           *)

\* Mutant: the daemons are looked after only once the start-up is over.
Ticks_Loop == pc = "loop"

Ticks == pc \in {"wait", "sleep", "loop"}

\* daemon_run_ended; stable: the instance ran for INIT_DAEMON_STABLE_MS.
daemon_run_ended(i, success, stable) ==
  LET failures == IF success \/ stable THEN 0 ELSE daemon[i].failures IN
  IF \/ ~service_should_restart(svc[i], success)
     \/ ~success /\ failures >= svc[i].retries
    THEN /\ daemon' = [daemon EXCEPT ![i].phase = "stopped"]
         /\ source' = source \ {i}
    ELSE /\ daemon' = [daemon EXCEPT
              ![i] = [phase |-> "backoff",
                      failures |-> IF success THEN 0 ELSE failures + 1]]
         /\ UNCHANGED source

ReapDaemon(i) ==
  /\ Ticks /\ daemon[i].phase = "running" /\ inst[i] \in {"ok", "bad"}
  /\ \E stable \in BOOLEAN : daemon_run_ended(i, inst[i] = "ok", stable)
  /\ inst' = [inst EXCEPT ![i] = "none"]
  /\ UNCHANGED <<config, at, pc, fails, spawned, expired, ready, chan, hold, started,
                 starts, left, spawnFails>>

RestartDaemon(i) ==
  /\ Ticks /\ daemon[i].phase = "backoff"
  /\ SpawnWorks(i)
  /\ daemon' = [daemon EXCEPT ![i].phase = "running"]
  /\ UNCHANGED <<config, at, pc, fails, spawned, expired, ready, source, started, left>>

RestartDaemonFails(i) ==
  /\ Ticks /\ daemon[i].phase = "backoff"
  /\ \E c \in Broken(i) : SpawnBreaks(i, c) /\ chan' = c
  /\ daemon_run_ended(i, FALSE, FALSE)
  /\ UNCHANGED <<config, at, pc, fails, spawned, expired, ready, inst, hold, started,
                 starts, left>>

daemons_tick(i) == ReapDaemon(i) \/ RestartDaemon(i) \/ RestartDaemonFails(i)

-----------------------------------------------------------------------------
(* The services' processes                                                 *)

\* A read of that end of a pipe returns end-of-file.
AtEof(h) ==
  /\ ~(chan[h[3]].w /\ chan[h[3]].pipe = h[4])
  /\ ~\E g \in hold : g[2] = "w" /\ g[3] = h[3] /\ g[4] = h[4]

Exit(i) ==
  /\ inst[i] = "run"
  /\ \A h \in hold : h[1] = i /\ h[2] = "r" => AtEof(h)
  /\ \E status \in {"ok", "bad"} : inst' = [inst EXCEPT ![i] = status]
  /\ hold' = {h \in hold : h[1] # i}
  /\ UNCHANGED <<config, at, pc, fails, spawned, expired, ready, daemon, chan, source,
                 started, starts, left, spawnFails>>

-----------------------------------------------------------------------------
Main ==
  \/ ReadStep \/ Boot \/ Skip \/ StartDaemon \/ StartDaemonFails
  \/ RunService \/ RunServiceFails
  \/ WaitExited \/ TimeIsUp \/ WaitTimedOut \/ WaitFailed
  \/ EnterLoop \/ LeaveLoop

Next ==
  \/ Main
  \/ \E i \in Places : daemons_tick(i) \/ Exit(i)

\* init runs on; daemons_tick is called again and again; a service that init
\* waits for without a timeout ends when it can.  Daemons may run forever.
Fairness ==
  /\ WF_vars(Main)
  /\ \A i \in Places :
       /\ WF_vars(daemons_tick(i))
       /\ WF_vars(pc = "wait" /\ at = i /\ ~svc[i].timeout /\ Exit(i))

Spec == Init /\ [][Next]_vars /\ Fairness

-----------------------------------------------------------------------------
\* The types of the service manager's state.
TypeOK ==
  /\ from \in {"file", "builtin", "none"} /\ N \in 0 .. MaxServices
  /\ at \in 1 .. N + 1 /\ pc \in {"boot", "start", "wait", "sleep", "loop", "ended"}
  /\ fails \in Nat /\ spawned \in BOOLEAN
  /\ ready \subseteq 0 .. MaskBits - 1 /\ started \subseteq 1 .. N
  /\ daemon \in [Places -> [phase : {"none", "running", "backoff", "stopped"},
                            failures : Nat]]
  /\ inst \in [Places -> {"none", "run", "ok", "bad"}]
  /\ source \subseteq table.sources
  /\ \A h \in hold : h[1] \in 1 .. N /\ h[2] \in {"r", "w"} /\ h[3] \in Stream
  /\ \A s \in Stream : chan[s].writers \in Nat /\ chan[s].spawned \in Nat
  /\ expired \in BOOLEAN /\ left \subseteq 1 .. N
  /\ starts \in [Places -> 0 .. 2] /\ spawnFails \in 0 .. MaxSpawnFails

\* A service has a process only when every service it depends on has started:
\* ready_mask never has a bit of a service that was skipped or failed, as long
\* as there are no more services than bits.
DepsStarted ==
  N <= MaskBits =>
    \A i \in 1 .. N : starts[i] > 0 => svc[i].deps \subseteq started

Writers(s) == {i \in 1 .. N : \E f \in Output : OnChannel(svc[i], f) /\ svc[i].to[f] = s}
Past(i) == i < at

\* Once main is past the writers of a channel, started, skipped or failed, and
\* no process of theirs is left, the reader reads end-of-file: init has closed
\* its own write end ("must not leave a channel reader waiting").
EofComes ==
  \A h \in hold :
    /\ h[2] = "r"
    /\ \A i \in Writers(h[3]) : Past(i)
    /\ ~\E g \in hold : g[2] = "w" /\ g[3] = h[3] /\ g[4] = h[4]
    => AtEof(h)

\* The reader and the writers of a channel that have been started once and run
\* have the two ends of one and the same pipe, whoever was started first and
\* whatever was skipped or failed in between.
Connected ==
  \A i, j \in 1 .. N :
    (inst[i] = "run" /\ inst[j] = "run" /\ OnChannel(svc[i], "in"))
      => LET s == svc[i].to["in"] IN
         j \in Writers(s) /\ starts[i] = 1 /\ (\A w \in Writers(s) : starts[w] <= 1)
           => \E p \in {h[4] : h \in hold} :
                <<i, "r", s, p>> \in hold /\ <<j, "w", s, p>> \in hold

\* init leaves no one-shot or supervised service running behind it, and knows
\* of a daemon that runs: the phase of a daemon and its process agree.  A process
\* it never waits for has exited, and is of a service with a timeout: it exited
\* between the last try_wait_pid and kill.
NoneLeftBehind ==
  /\ \A i \in 1 .. N :
       IF svc[i].type = "daemon"
         THEN inst[i] # "none" <=> daemon[i].phase = "running"
         ELSE inst[i] # "none" <=> pc = "wait" /\ at = i
  /\ \A i \in left : svc[i].type # "daemon" /\ svc[i].timeout

\* init keeps the write end of a log pipe as long as the service may be started
\* again, so no restart fails for want of it, and no longer once the service
\* has ended as its policy says, so that the log server sees its end-of-file.
LogPipeKept ==
  \A i \in table.sources :
    /\ daemon[i].phase \in {"running", "backoff"} /\ svc[i].policy # "never"
         => i \in source
    /\ pc \in {"wait", "sleep"} /\ at = i /\ starts[i] > 0 => i \in source
    /\ daemon[i].phase = "stopped" \/ (svc[i].type # "daemon" /\ i \in started)
         => i \notin source

\* The streams between services work: readers reach their end of file, both ends
\* are of one pipe, and log pipes live as long as their services.
StreamsWork == EofComes /\ Connected /\ LogPipeKept

\* init's view of its services is right: types, phases and processes agree, and
\* nothing runs before what it depends on.
ServicesTracked == TypeOK /\ NoneLeftBehind /\ DepsStarted

\* The start-up ends when no service that init waits for is always restarted.  A
\* reader without a timeout that comes before the writers of its channel would
\* not end, and init not go on to them: such configurations are left out.
BootEnds ==
  (pc = "start" /\ \A i \in 1 .. N : svc[i].type # "daemon" => svc[i].policy # "always")
    ~> pc \in {"loop", "ended"}

\* A daemon that has exited runs again or is stopped for good, also while init
\* waits for another service or sleeps before a retry.
DaemonKept ==
  \A i \in Places :
    (daemon[i].phase = "running" /\ inst[i] # "run")
      ~> (inst[i] = "run" \/ daemon[i].phase = "stopped")
=============================================================================
