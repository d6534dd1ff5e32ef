----------------------------- MODULE BlockCache -----------------------------
(***************************************************************************)
(* The write-back sector cache of kernel/drivers/block_cache.c over a      *)
(* device that may fail any request and has a volatile cache of its own.   *)
(*                                                                         *)
(* An entry is named by the sector it holds: cache_find() runs before      *)
(* every cache_link(), and which slot of the pool an entry uses does not   *)
(* matter.  Ages are the order of lru.  A call on several sectors is a     *)
(* series of calls on one, ended by the first failure.  Time is counted    *)
(* from dirty_since_ms, up to the flush interval.                          *)
(***************************************************************************)
EXTENDS Integers, Sequences, FiniteSets, Functions

CONSTANTS Lba,      \* sectors, consecutive numbers
          Value,    \* contents of a sector
          Entries,  \* CACHE_ENTRIES
          RunMax,   \* CACHE_WRITE_RUN_SECTORS
          Interval  \* CACHE_FLUSH_INTERVAL_MS, in clock steps

ASSUME BlockCacheAssumption ==
  /\ Lba \subseteq Nat /\ Entries \in Nat /\ Entries >= 2
  /\ RunMax \in Nat \ {0} /\ Interval \in Nat \ {0}

CACHE_DIRTY_LIMIT == (Entries * 3) \div 4
Durable == -1

VARIABLES c,      \* cache and device
          age,    \* time since dirty_since_ms
          since,  \* per sector, what was written to it since the last sync
          held,   \* per sector, the age of its oldest data not yet durable
          tried   \* sectors with data a tick has failed to make durable

vars == <<c, age, since, held, tried>>

\* lru lists the valid entries, least recently used first; possible has the
\* contents the device may come back with after a power cut.
Cache == [lru : Seq(Lba), data : [Lba -> Value], dirty : SUBSET Lba, unflushed : BOOLEAN,
          device : [Lba -> Value], possible : [Lba -> SUBSET Value]]

Cached(k) == Range(k.lru)
View(k) == [l \in Lba |-> IF l \in Cached(k) THEN k.data[l] ELSE k.device[l]]
Logical == View(c)

-----------------------------------------------------------------------------
(* The parts of an operation, on a cache k. *)

HasVictim(k) == Len(k.lru) < Entries \/ ~(Cached(k) \subseteq k.dirty)

\* The least recently used clean sector.
Victim(k) ==
  k.lru[CHOOSE i \in DOMAIN k.lru : /\ k.lru[i] \notin k.dirty
                                   /\ \A j \in 1 .. i - 1 : k.lru[j] \in k.dirty]

Without(s, l) ==
  IF l \notin Range(s) THEN s
  ELSE LET i == CHOOSE j \in DOMAIN s : s[j] = l
       IN  [j \in 1 .. Len(s) - 1 |-> IF j < i THEN s[j] ELSE s[j + 1]]

\* A free entry, else that of the victim.
cache_take_victim(k) ==
  IF Len(k.lru) < Entries THEN k ELSE [k EXCEPT !.lru = Without(k.lru, Victim(k))]

Touched(k, l) == [k EXCEPT !.lru = Append(Without(k.lru, l), l)]
Loaded(k, l) == [k EXCEPT !.data = [k.data EXCEPT ![l] = k.device[l]]]
Written(k, l, v) == [k EXCEPT !.data = [k.data EXCEPT ![l] = v], !.dirty = k.dirty \cup {l}]

\* Runs of dirty sectors: neighbours, at most RunMax of them.
RunBase(D, l) == CHOOSE s \in D : s <= l /\ s .. l \subseteq D /\ s - 1 \notin D
RunStart(D, l) == l - ((l - RunBase(D, l)) % RunMax)
Run(D, s) == {l \in D : RunStart(D, l) = s}

\* How the runs of dirty sectors D fare: all are written, or all before one
\* that fails; of that one the device may have stored some sectors.
Outcomes(D) ==
  {[ok |-> TRUE, written |-> D, torn |-> {}]} \cup
  UNION {{[ok |-> FALSE, written |-> {l \in D : l < s}, torn |-> T] : T \in SUBSET Run(D, s)} :
           s \in {RunStart(D, l) : l \in D}}

cache_write_back(k, o) ==
  LET hit == o.written \cup o.torn
  IN  [k EXCEPT !.dirty = k.dirty \ o.written,
                !.device = [l \in Lba |-> IF l \in hit THEN k.data[l] ELSE k.device[l]],
                !.possible = [l \in Lba |-> k.possible[l] \cup
                                            IF l \in hit THEN {k.data[l]} ELSE {}],
                !.unflushed = k.unflushed \/ o.written # {}]

\* block_flush(): the device makes durable what it has.
Flushed(k) == [k EXCEPT !.unflushed = FALSE, !.possible = [l \in Lba |-> {k.device[l]}]]

Idle(k) == k.dirty = {} /\ ~k.unflushed
-----------------------------------------------------------------------------
(* Operations. *)

block_read_cached(l) ==
  /\ IF l \in Cached(c) THEN c' = Touched(c, l)
     ELSE /\ HasVictim(c)
          /\ \/ c' = Touched(Loaded(cache_take_victim(c), l), l)
             \/ c' = cache_take_victim(c)                   \* the read fails
  /\ UNCHANGED <<age, since, held, tried>>

\* cache_mark_dirty(): the clock starts with the first data not yet durable.
MarkedAt(k, l) == IF l \notin k.dirty /\ Idle(k) THEN 0 ELSE age

\* The sector l of cache k is overwritten with v.
Stored(k, l, v) ==
  IF l \in Cached(k) /\ k.data[l] = v
  THEN c' = Touched(k, l) /\ UNCHANGED <<age, held, tried>>
  ELSE /\ HasVictim(k)
       /\ c' = Written(Touched(IF l \in Cached(k) THEN k ELSE cache_take_victim(k), l), l, v)
       /\ age' = MarkedAt(k, l)
       /\ held' = [held EXCEPT ![l] = IF held[l] = Durable THEN 0 ELSE held[l]]
       /\ UNCHANGED tried

\* Mutant: the dirty sectors may fill the cache.
AtDirtyLimit_Full(k) == Cardinality(k.dirty) > Entries

AtDirtyLimit(k) == Cardinality(k.dirty) >= CACHE_DIRTY_LIMIT

\* A full quota of dirty sectors is written back first; if that fails, so
\* does the write.
block_write_cached(l, v) ==
  \/ /\ ~AtDirtyLimit(c)
     /\ Stored(c, l, v)
     /\ since' = [since EXCEPT ![l] = since[l] \cup {v}]
  \/ /\ AtDirtyLimit(c)
     /\ \E o \in Outcomes(c.dirty) :
          IF o.ok
          THEN /\ Stored(cache_write_back(c, o), l, v)
               /\ since' = [since EXCEPT ![l] = since[l] \cup {v}]
          ELSE c' = cache_write_back(c, o) /\ UNCHANGED <<age, since, held, tried>>

\* Mutant: the flush of the device is left to the next tick.
SyncOk_NoFlush ==
  /\ \E o \in Outcomes(c.dirty) : o.ok /\ c' = cache_write_back(c, o)
  /\ since' = [l \in Lba |-> {Logical[l]}]
  /\ held' = [l \in Lba |-> Durable] /\ tried' = {}

\* block_cache_sync(), when it returns 0 and when it returns -1.
SyncOk ==
  /\ \E o \in Outcomes(c.dirty) :
       LET k == cache_write_back(c, o)
       IN  o.ok /\ c' = IF k.unflushed THEN Flushed(k) ELSE k
  /\ since' = [l \in Lba |-> {Logical[l]}]
  /\ held' = [l \in Lba |-> Durable] /\ tried' = {}

SyncFails ==
  \E o \in Outcomes(c.dirty) :
    LET k == cache_write_back(c, o)
    IN  (~o.ok \/ k.unflushed) /\ c' = k

\* sync, unmount and power-off.
block_cache_sync ==
  \/ SyncOk /\ UNCHANGED age
  \/ SyncFails /\ UNCHANGED <<age, since, held, tried>>

\* block_cache_invalidate() after a successful sync; if that fails it is a sync.
block_cache_invalidate ==
  /\ Idle(c)
  /\ c' = [c EXCEPT !.lru = <<>>] /\ age' = Interval
  /\ UNCHANGED <<since, held, tried>>

\* Mutant: only dirty sectors call for a flush.
TickDue_DirtyOnly == c.dirty # {} /\ age = Interval

TickDue == ~Idle(c) /\ age = Interval

block_cache_tick_ok == TickDue /\ SyncOk /\ UNCHANGED age

\* After a failure, a full interval passes before the next attempt.
block_cache_tick_fails ==
  /\ TickDue /\ SyncFails
  /\ age' = 0 /\ tried' = {l \in Lba : held[l] # Durable}
  /\ UNCHANGED <<since, held>>

Clock ==
  /\ age < Interval
  /\ age' = age + 1
  /\ held' = [l \in Lba |-> IF held[l] \in {Durable, Interval} THEN held[l] ELSE held[l] + 1]
  /\ UNCHANGED <<c, since, tried>>

\* block_cache_init() at the next boot, on what the device has kept.
PowerCut ==
  /\ \E d \in [Lba -> Value] :
       /\ \A l \in Lba : d[l] \in c.possible[l]
       /\ c' = [c EXCEPT !.lru = <<>>, !.data = d, !.dirty = {}, !.unflushed = FALSE, !.device = d,
                         !.possible = [l \in Lba |-> {d[l]}]]
       /\ since' = [l \in Lba |-> {d[l]}]
  /\ age' = Interval /\ held' = [l \in Lba |-> Durable] /\ tried' = {}

Init ==
  /\ \E d \in [Lba -> Value] :
       /\ c = [lru |-> <<>>, data |-> d, dirty |-> {}, unflushed |-> FALSE, device |-> d,
               possible |-> [l \in Lba |-> {d[l]}]]
       /\ since = [l \in Lba |-> {d[l]}]
  /\ age = Interval /\ held = [l \in Lba |-> Durable] /\ tried = {}

Next ==
  \/ \E l \in Lba : block_read_cached(l) \/ \E v \in Value : block_write_cached(l, v)
  \/ block_cache_sync \/ block_cache_invalidate \/ block_cache_tick_ok \/ block_cache_tick_fails
  \/ Clock \/ PowerCut

Spec == Init /\ [][Next]_vars

\* The timer goes on, and a device that is asked again and again answers.
FairSpec == Spec /\ WF_vars(Clock) /\ SF_vars(block_cache_tick_ok)

-----------------------------------------------------------------------------
(* Properties. *)

\* Types; no sector is cached twice, only cached ones are dirty.
TypeOK ==
  /\ c \in Cache /\ Len(c.lru) <= Entries /\ IsInjective(c.lru) /\ c.dirty \subseteq Cached(c)
  /\ age \in 0 .. Interval
  /\ held \in [Lba -> Durable .. Interval] /\ tried \subseteq Lba

\* "Eviction always finds a clean sector" (block_cache.h), whatever fails.
VictimExists == HasVictim(c)

\* A clean entry holds what the device holds, so that it can be dropped.
CleanMatchesDevice == \A l \in Cached(c) \ c.dirty : c.data[l] = c.device[l]

\* When nothing is dirty and no flush is due, nothing is lost in a power cut:
\* block_cache_tick() is right to do nothing.
NothingForgotten == Idle(c) => \A l \in Lba : c.possible[l] = {Logical[l]}

\* dirty_since_ms is never later than "the oldest data not yet durable" of the
\* sectors no tick has tried in vain: bulk write-backs, failed syncs and new
\* writes do not put the first attempt off.  A tick that fails sets it to the
\* time of the attempt, later than all data that is left.
OldestTracked == \A l \in Lba \ tried : held[l] <= age

\* The entries are sound: a victim exists, clean entries can be dropped, and
\* what is not durable yet is remembered, and tried in time.
EntriesSound ==
  TypeOK /\ VictimExists /\ CleanMatchesDevice /\ NothingForgotten /\ OldestTracked

\* The cache is a disk (module Disk), through failures and power cuts.
D == INSTANCE Disk WITH cur <- Logical, may <- since

CacheIsDisk == D!Spec

\* Everything written is durable in the end, again and again.
EventuallyDurable == []<>(c.dirty = {} /\ ~c.unflushed)
=============================================================================
