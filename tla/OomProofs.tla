----------------------------- MODULE OomProofs ------------------------------
(***************************************************************************)
(* The safety properties of Oom, proved for any number of processes and    *)
(* page frames.  The lemmas say what the operators do to a memory m; the   *)
(* theorems follow action by action.                                       *)
(***************************************************************************)
EXTENDS Oom, TLAPS, FiniteSetTheorems, WellFoundedInduction

\* Every frame is free or held, but for n that were just taken.
Kept(m, n) ==
  /\ m \in Memory /\ m.free + Cardinality(Pages(m)) + n = Frames
  /\ m.alive \subseteq m.table
  /\ \A p \in Pid \ m.table : m.rss[p] = 0

Types ==
  /\ prio \in [Pid -> Priority] /\ current \in Pid /\ next_pid \in Nat
  /\ \A p \in mem.table : p < next_pid
  /\ image \in {None, NewSpace} \cup (Pid \ {Bootstrap, current})

IInv ==
  /\ Bootstrap \in mem.alive /\ current \in mem.table
  /\ Sound => Kept(mem, 0) /\ Types

-----------------------------------------------------------------------------
(* Counting pages. *)

\* Pids are positive, other address spaces have other numbers.
LEMMA Numbers ==
  /\ Pid \subseteq Nat /\ Frames \in Nat /\ Bootstrap \in Pid
  /\ NewSpace \notin Pid /\ None \notin Pid /\ NewSpace # None
  /\ Pid \subseteq Space /\ NewSpace \in Space
BY OomAssumption DEF Pid, Bootstrap, NewSpace, None, Space

\* The first k pages of address space p.
Column(p, k) == {p} \X (1 .. k)

\* It has k pages.
LEMMA ColumnCount ==
  ASSUME NEW p, NEW k \in Nat
  PROVE  IsFiniteSet(Column(p, k)) /\ Cardinality(Column(p, k)) = k
<1>1. IsFiniteSet(1 .. k) /\ Cardinality(1 .. k) = k
  BY FS_Interval
<1>2. IsFiniteSet({p}) /\ Cardinality({p}) = 1
  BY FS_Singleton
<1>3. IsFiniteSet({p} \X (1 .. k)) /\ Cardinality({p} \X (1 .. k)) = 1 * k
  BY <1>1, <1>2, FS_Product, ZenonT(40)
<1> QED BY <1>3 DEF Column

\* There are finitely many pages.
LEMMA PagesFinite ==
  ASSUME NEW m
  PROVE  IsFiniteSet(Pages(m)) /\ Cardinality(Pages(m)) \in Nat
<1>1. IsFiniteSet(Pid)
  BY OomAssumption, FS_Interval DEF Pid
<1>2. IsFiniteSet(Space)
  BY <1>1, FS_AddElement DEF Space
<1>3. IsFiniteSet(1 .. Frames)
  BY OomAssumption, FS_Interval
<1>4. IsFiniteSet(Space \X (1 .. Frames))
  BY <1>2, <1>3, FS_Product, Zenon
<1>5. Pages(m) \subseteq Space \X (1 .. Frames)
  BY DEF Pages
<1>6. IsFiniteSet(Pages(m))
  BY <1>4, <1>5, FS_Subset
<1> QED BY <1>6, FS_CardinalityType

\* The pages of one address space and those of the others.
LEMMA PagesSplit ==
  ASSUME NEW m, NEW p \in Space, m.rss[p] \in 0 .. Frames
  PROVE  LET rest == {page \in Pages(m) : page[1] # p}
         IN  Cardinality(rest) \in Nat /\ Cardinality(Pages(m)) = Cardinality(rest) + m.rss[p]
<1> DEFINE rest == {page \in Pages(m) : page[1] # p}
           k == m.rss[p]
           own == Column(p, k)
<1>1. k \in Nat /\ k <= Frames
  BY Numbers
<1>2. IsFiniteSet(own) /\ Cardinality(own) = k
  BY <1>1, ColumnCount
<1>3. rest \subseteq Pages(m)
  OBVIOUS
<1>4. IsFiniteSet(rest) /\ Cardinality(rest) \in Nat
  BY <1>3, PagesFinite, FS_Subset, FS_CardinalityType
<1>5. Pages(m) = rest \cup own
  <2>1. ASSUME NEW x \in Pages(m) PROVE x \in rest \cup own
    BY <1>1, Numbers DEF Pages, Column
  <2>2. ASSUME NEW x \in own PROVE x \in Pages(m)
    BY <1>1, Numbers DEF Pages, Column
  <2> QED BY <2>1, <2>2
<1>6. rest \cap own = {}
  BY DEF Column
<1> HIDE DEF rest, own, k
<1>7. Cardinality(rest \cap own) = 0
  BY <1>6, FS_EmptySet
<1>8. Cardinality(rest \cup own) = Cardinality(rest) + Cardinality(own) - Cardinality(rest \cap own)
  BY <1>2, <1>4, FS_Union
<1>9. Cardinality(Pages(m)) = Cardinality(rest) + k
  BY <1>1, <1>2, <1>4, <1>5, <1>7, <1>8
<1> QED BY <1>4, <1>9 DEF rest, k

\* Giving one address space other pages.
LEMMA PagesMoved ==
  ASSUME NEW m, NEW w, NEW p \in Space, m.rss[p] \in 0 .. Frames, w.rss[p] \in 0 .. Frames,
         \A q \in Space \ {p} : w.rss[q] = m.rss[q]
  PROVE  /\ Cardinality(Pages(w)) + m.rss[p] = Cardinality(Pages(m)) + w.rss[p]
         /\ m.rss[p] <= Cardinality(Pages(m))
<1> DEFINE R == {page \in Pages(m) : page[1] # p}
           S == {page \in Pages(w) : page[1] # p}
<1>1. R = S
  BY DEF Pages
<1>2. Cardinality(R) \in Nat /\ Cardinality(Pages(m)) = Cardinality(R) + m.rss[p]
  BY PagesSplit
<1>3. Cardinality(S) \in Nat /\ Cardinality(Pages(w)) = Cardinality(S) + w.rss[p]
  BY PagesSplit
<1> HIDE DEF R, S
<1> QED BY <1>1, <1>2, <1>3, Numbers

-----------------------------------------------------------------------------
(* The parts of an operation. *)

\* The fields of a memory.
LEMMA Fields ==
  ASSUME NEW m \in Memory
  PROVE  /\ m.table \in SUBSET Pid /\ m.alive \in SUBSET Pid
         /\ m.rss \in [Space -> 0 .. Frames] /\ m.free \in 0 .. Frames
BY DEF Memory

\* Giving address space p the number k of pages and the free list the rest.
LEMMA SetPages ==
  ASSUME NEW m, NEW n \in Nat, Kept(m, n), NEW p \in Space, NEW k \in Int, NEW f \in Int,
         NEW T \in SUBSET Pid, NEW A \in SUBSET T, NEW i \in Nat,
         0 <= k, 0 <= f, k + f + i = m.rss[p] + m.free + n,
         \A q \in Pid \ T : q = p \/ m.rss[q] = 0, p \in Pid \ T => k = 0
  PROVE  Kept([m EXCEPT !.table = T, !.alive = A, !.rss = [m.rss EXCEPT ![p] = k],
                        !.free = f], i)
<1> DEFINE r == [m.rss EXCEPT ![p] = k]
           w == [m EXCEPT !.table = T, !.alive = A, !.rss = r, !.free = f]
<1>1. /\ m \in Memory /\ m.rss \in [Space -> 0 .. Frames] /\ m.free \in 0 .. Frames
      /\ m.rss[p] \in 0 .. Frames
  BY Fields DEF Kept
<1>2. m.free + Cardinality(Pages(m)) + n = Frames /\ Cardinality(Pages(m)) \in Nat
  BY PagesFinite DEF Kept
<1>3. r[p] = k /\ \A q \in Space \ {p} : r[q] = m.rss[q]
  BY <1>1
<1>4. m.rss[p] <= Cardinality(Pages(m))
  BY <1>1, PagesMoved
<1>5. k \in 0 .. Frames /\ f \in 0 .. Frames
  BY <1>1, <1>2, <1>4, Numbers
<1>6. r \in [Space -> 0 .. Frames]
  BY <1>1, <1>5
<1> HIDE DEF r
<1>7. w \in Memory /\ w.rss = r /\ w.free = f /\ w.table = T /\ w.alive = A
  BY <1>1, <1>5, <1>6, Zenon DEF Memory
<1> HIDE DEF w
<1>8. Cardinality(Pages(w)) + m.rss[p] = Cardinality(Pages(m)) + k
  BY <1>1, <1>3, <1>5, <1>7, PagesMoved
<1>9. w.free + Cardinality(Pages(w)) + i = Frames
  <2>1. Cardinality(Pages(w)) \in Nat
    BY PagesFinite
  <2> QED BY <1>1, <1>2, <1>5, <1>7, <1>8, <2>1
<1>10. \A q \in Pid \ T : r[q] = 0
  BY <1>3, Numbers
<1> QED BY <1>7, <1>9, <1>10 DEF Kept, w, r

\* process_destroy() frees the pages of the process.
LEMMA DestroyFacts ==
  ASSUME NEW m, NEW n \in Nat, Kept(m, n), NEW p \in Pid
  PROVE  LET w == process_destroy(m, p)
         IN  /\ Kept(w, n) /\ w.table = m.table \ {p} /\ w.alive = m.alive \ {p}
             /\ w.free = m.free + m.rss[p]
<1> DEFINE T == m.table \ {p}
           A == m.alive \ {p}
           f == m.free + m.rss[p]
           w == [m EXCEPT !.table = T, !.alive = A, !.rss = [m.rss EXCEPT ![p] = 0], !.free = f]
<1>1. process_destroy(m, p) = w
  BY DEF process_destroy
<1>2. /\ m \in Memory /\ p \in Space /\ T \in SUBSET Pid /\ A \in SUBSET T
      /\ m.rss[p] \in Nat /\ m.free \in Nat /\ f \in Int /\ 0 <= f
  BY Fields, Numbers DEF Kept
<1>3. w.table = T /\ w.alive = A /\ w.free = f
  BY <1>2 DEF Memory
<1>4. \A q \in Pid \ T : q = p \/ m.rss[q] = 0
  BY DEF Kept
<1> DEFINE k == 0
<1>5. /\ k \in Int /\ 0 <= k /\ k + f + n = m.rss[p] + m.free + n
      /\ (p \in Pid \ T => k = 0) /\ w = [m EXCEPT !.table = T, !.alive = A, !.rss = [m.rss EXCEPT ![p] = k], !.free = f]
  BY <1>2
<1> HIDE DEF T, A, f, k, w
<1>6. Kept(w, n)
  BY <1>2, <1>4, <1>5, SetPages, Zenon
<1> QED BY <1>1, <1>3, <1>6 DEF T, A, f

\* Priorities are numbers up to PROCESS_PRIO_RT.
LEMMA Priorities ==
  ASSUME prio \in [Pid -> Priority], NEW p \in Pid
  PROVE  prio[p] \in Int /\ 0 <= prio[p] /\ prio[p] <= 3
<1>1. prio[p] \in Priority
  OBVIOUS
<1>2. Priority \subseteq 0 .. PROCESS_PRIO_RT
  BY OomAssumption
<1>3. prio[p] \in 0 .. 3
  BY <1>1, <1>2, Zenon DEF PROCESS_PRIO_RT
<1> HIDE DEF PROCESS_PRIO_RT
<1> QED BY <1>3

\* The first pass with a candidate exists.
LEMMA MinPass ==
  ASSUME NEW S \in SUBSET (0 .. 2), S # {}
  PROVE  Min(S) \in S /\ \A n \in S : Min(S) <= n
<1>1. \E n \in S : \A i \in S : n <= i
  <2>1. CASE 0 \in S
    BY <2>1
  <2>2. CASE 0 \notin S /\ 1 \in S
    BY <2>2
  <2>3. CASE 0 \notin S /\ 1 \notin S
    <3>1. \A n \in S : n = 2
      BY <2>3
    <3>2. PICK n \in S : TRUE
      BY Zenon
    <3>3. n = 2 /\ \A i \in S : i = 2
      BY <3>1
    <3>4. 2 <= 2
      OBVIOUS
    <3> QED BY <3>3, <3>4, Zenon
  <2> QED BY <2>1, <2>2, <2>3
<1> QED BY <1>1, Zenon DEF Min

\* A victim is in the first pass that has a candidate.
LEMMA VictimPass ==
  ASSUME NEW m, NEW leader, NEW v \in pick_victim(m, leader)
  PROVE  \E n \in 0 .. 2 : /\ v \in Candidates(m, n, leader)
                           /\ \A i \in 0 .. 2 : i < n => Candidates(m, i, leader) = {}
<1> DEFINE C(n) == Candidates(m, n, leader)
           passes == {n \in 0 .. 2 : C(n) # {}}
           n == Min(passes)
<1>1. passes # {} /\ v \in C(n)
  BY DEF pick_victim
<1> HIDE DEF C
<1>2. passes \in SUBSET (0 .. 2)
  OBVIOUS
<1>3. n \in passes /\ \A i \in passes : n <= i
  BY <1>1, <1>2, MinPass
<1> HIDE DEF n
<1>4. n \in 0 .. 2 /\ \A i \in 0 .. 2 : i < n => C(i) = {}
  BY <1>3
<1> QED BY <1>1, <1>4 DEF C

\* What a victim is, next to another process p that holds memory.
LEMMA VictimFacts ==
  ASSUME NEW m \in Memory, NEW leader, prio \in [Pid -> Priority],
         NEW v \in pick_victim(m, leader)
  PROVE  /\ v \in m.alive \ {Bootstrap} /\ m.rss[v] # 0
         /\ \A p \in m.alive \ {Bootstrap, v} :
              \/ m.rss[p] = 0
              \/ v # leader /\ (\/ p = leader
                                \/ prio[v] < PROCESS_PRIO_HIGH
                                \/ prio[p] >= PROCESS_PRIO_HIGH)
<1>1. PICK n \in 0 .. 2 : /\ v \in Candidates(m, n, leader)
                          /\ \A i \in 0 .. 2 : i < n => Candidates(m, i, leader) = {}
  BY VictimPass
<1>2. v \in m.alive \ {Bootstrap} /\ m.rss[v] # 0
  BY <1>1 DEF Candidates
<1>3. ASSUME NEW p \in m.alive \ {Bootstrap, v}, m.rss[p] # 0
      PROVE  v # leader /\ (\/ p = leader
                            \/ prio[v] < PROCESS_PRIO_HIGH
                            \/ prio[p] >= PROCESS_PRIO_HIGH)
  <2>1. prio[p] \in Int /\ p \in Pid
    BY Fields, Priorities
  <2>2. CASE n = 0
    BY <1>1, <2>2 DEF Candidates
  <2>3. CASE n = 1
    <3>1. p \notin Candidates(m, 0, leader)
      BY <1>1, <2>3
    <3>2. p = leader \/ ~(prio[p] < PROCESS_PRIO_HIGH)
      BY <1>3, <3>1 DEF Candidates
    <3>3. prio[p] < PROCESS_PRIO_HIGH \/ prio[p] >= PROCESS_PRIO_HIGH
      BY <2>1 DEF PROCESS_PRIO_HIGH
    <3> QED BY <1>1, <2>3, <3>2, <3>3 DEF Candidates
  <2>4. CASE n = 2
    <3>1. p \notin Candidates(m, 1, leader) /\ v \notin Candidates(m, 1, leader)
      BY <1>1, <2>4
    <3>2. p = leader /\ v = leader
      BY <1>2, <1>3, <3>1 DEF Candidates
    <3> QED BY <3>2
  <2> QED BY <2>2, <2>3, <2>4
<1> QED BY <1>2, <1>3

\* A set of natural numbers that is not empty and has a bound has a greatest.
LEMMA GreatestNatural ==
  ASSUME NEW S \in SUBSET Nat, S # {}, NEW b \in Nat, \A x \in S : x <= b
  PROVE  \E x \in S : \A y \in S : y <= x
<1> DEFINE T == {n \in Nat : \E x \in S : n = b - x}
           less == {s \in Nat \X Nat : s[1] < s[2]}
<1>1. T \subseteq Nat /\ T # {} /\ \A x \in S : b - x \in T
  <2>1. ASSUME NEW x \in S PROVE b - x \in T
    <3>1. x \in Nat /\ x <= b
      OBVIOUS
    <3>2. b - x \in Nat
      BY <3>1
    <3> QED BY <3>2
  <2> QED BY <2>1, Zenon
<1>2. IsWellFoundedOn(less, Nat)
  BY NatLessThanWellFounded DEF OpToRel
<1> HIDE DEF less
<1>3. PICK n \in T : \A i \in T : <<i, n>> \notin less
  BY <1>1, <1>2, WFMin, Zenon
<1>4. \A i \in T : n <= i
  <2>1. ASSUME NEW i \in T PROVE n <= i
    <3>1. <<i, n>> \in Nat \X Nat /\ ~(i < n)
      BY <1>1, <1>3 DEF less
    <3> QED BY <1>1, <3>1
  <2> QED BY <2>1
<1>5. PICK x \in S : n = b - x
  OBVIOUS
<1>6. ASSUME NEW y \in S PROVE y <= x
  <2>1. n <= b - y
    BY <1>1, <1>4, SMTT(30)
  <2> QED BY <1>5, <2>1
<1> QED BY <1>6

\* Without a victim nobody but init holds memory.
LEMMA NoVictim ==
  ASSUME NEW m \in Memory, NEW leader, prio \in [Pid -> Priority], pick_victim(m, leader) = {}
  PROVE  \A p \in m.alive \ {Bootstrap} : m.rss[p] = 0
<1> DEFINE C(n) == Candidates(m, n, leader)
           passes == {n \in 0 .. 2 : C(n) # {}}
           pool == C(Min(passes))
           scores == {oom_score(m, p) : p \in pool}
<1>1. SUFFICES ASSUME passes # {} PROVE FALSE
  <2>1. SUFFICES ASSUME passes = {} PROVE \A p \in m.alive \ {Bootstrap} : m.rss[p] = 0
    BY <1>1
  <2>2. C(2) = {}
    BY <2>1
  <2> QED BY <2>2 DEF Candidates
<1>2. pool # {}
  <2>1. Min(passes) \in passes
    BY <1>1, MinPass
  <2> QED BY <2>1
<1>3. pool \subseteq m.alive
  BY DEF Candidates
<1>4. {p \in pool : \A q \in pool : oom_score(m, q) <= oom_score(m, p)} = {}
  BY <1>1, Zenon DEF pick_victim
<1> HIDE DEF pool
<1>5. ASSUME NEW p \in pool PROVE oom_score(m, p) \in Nat /\ oom_score(m, p) <= 4 * Frames
  <2> DEFINE x == m.rss[p]
             f == PROCESS_PRIO_RT + 1 - prio[p]
  <2>1. p \in Pid /\ p \in Space
    BY <1>3, Fields, Numbers, Zenon
  <2>2. x \in Nat /\ x <= Frames /\ Frames \in Nat
    BY <2>1, Fields, Numbers
  <2>3. f = 1 \/ f = 2 \/ f = 3 \/ f = 4
    BY <2>1, Priorities DEF PROCESS_PRIO_RT
  <2> HIDE DEF x, f
  <2>4. x * f \in Nat /\ x * f <= 4 * Frames
    BY <2>2, <2>3
  <2> QED BY <2>4 DEF oom_score, x, f
<1>6. scores \in SUBSET Nat /\ scores # {} /\ \A x \in scores : x <= 4 * Frames
  BY <1>2, <1>5
<1>7. PICK x \in scores : \A y \in scores : y <= x
  <2>1. 4 * Frames \in Nat
    BY Numbers
  <2> HIDE DEF scores
  <2> QED BY <1>6, <2>1, GreatestNatural, Zenon
<1>8. PICK p \in pool : x = oom_score(m, p)
  OBVIOUS
<1>9. \A q \in pool : oom_score(m, q) <= oom_score(m, p)
  BY <1>7, <1>8
<1> QED BY <1>4, <1>8, <1>9

\* Memories with the same pages.
LEMMA SamePages ==
  ASSUME NEW m, NEW n \in Nat, Kept(m, n), NEW w \in Memory, w.rss = m.rss, w.table = m.table,
         w.alive \subseteq m.alive, NEW i \in Nat, w.free + i = m.free + n
  PROVE  Kept(w, i)
<1>1. Pages(w) = Pages(m) /\ Cardinality(Pages(m)) \in Nat
  BY PagesFinite, Zenon DEF Pages
<1>2. w.free \in Nat /\ m.free \in Nat
  BY Fields, Numbers DEF Kept
<1>3. w.free + Cardinality(Pages(w)) + i = Frames
  BY <1>1, <1>2 DEF Kept
<1> QED BY <1>3 DEF Kept

\* One attempt at an allocation.
Got(k) == IF k.free > 0 THEN [m |-> [k EXCEPT !.free = k.free - 1], ok |-> TRUE]
                        ELSE [m |-> k, ok |-> FALSE]

\* Taking a frame from the free list, if there is one.
LEMMA GotFacts ==
  ASSUME NEW k, Kept(k, 0)
  PROVE  /\ Got(k).ok \in BOOLEAN /\ (Got(k).ok <=> k.free > 0)
         /\ Kept(Got(k).m, IF Got(k).ok THEN 1 ELSE 0)
         /\ Got(k).m.table = k.table /\ Got(k).m.alive = k.alive
<1>1. k \in Memory /\ k.free \in Nat /\ k.free <= Frames
  BY Fields, Numbers DEF Kept
<1>2. CASE k.free > 0
  <2> DEFINE w == [k EXCEPT !.free = k.free - 1]
  <2>1. Got(k).m = w /\ Got(k).ok = TRUE
    BY <1>2 DEF Got
  <2>2. k.free - 1 \in 0 .. Frames /\ (k.free - 1) + 1 = k.free + 0
    BY <1>1, <1>2, Numbers
  <2>3. /\ w \in Memory /\ w.rss = k.rss /\ w.table = k.table /\ w.alive = k.alive
        /\ w.free = k.free - 1
    BY <1>1, <2>2 DEF Memory
  <2> HIDE DEF w
  <2>4. Kept(w, 1)
    BY <2>2, <2>3, SamePages
  <2> QED BY <1>2, <2>1, <2>3, <2>4, Zenon
<1>3. CASE ~(k.free > 0)
  <2>1. Got(k).m = k /\ Got(k).ok = FALSE
    BY <1>3 DEF Got
  <2> QED BY <1>3, <2>1, Zenon
<1> QED BY <1>2, <1>3

\* A kill: it frees memory unless the caller itself is the victim.
LEMMA KilledFacts ==
  ASSUME NEW m, Kept(m, 0), current \in m.table, Bootstrap \in m.alive, NEW v \in m.alive, v # Bootstrap
  PROVE  LET k == Killed(m, v)
         IN  /\ Kept(k, 0) /\ k.alive = m.alive \ {v} /\ k.table \subseteq m.table
             /\ Bootstrap \in k.alive /\ current \in k.table
             /\ v # current => k.free = m.free + m.rss[v]
<1>1. m \in Memory /\ v \in Pid
  BY Fields DEF Kept
<1>2. CASE v # current
  BY <1>1, <1>2, DestroyFacts DEF Killed
<1>3. CASE v = current
  <2> DEFINE w == [m EXCEPT !.alive = m.alive \ {v}]
  <2>1. Killed(m, v) = w
    BY <1>3 DEF Killed
  <2>2. /\ w \in Memory /\ w.rss = m.rss /\ w.table = m.table /\ w.alive = m.alive \ {v}
        /\ w.free = m.free
    BY <1>1 DEF Memory
  <2> HIDE DEF w
  <2>3. Kept(w, 0)
    BY <2>2, SamePages, SMTT(30)
  <2> QED BY <1>3, <2>1, <2>2, <2>3
<1> QED BY <1>2, <1>3

\* What an allocation does and whom it costs.
LEMMA AllocFacts ==
  ASSUME NEW m, Kept(m, 0), prio \in [Pid -> Priority], current \in m.table, Bootstrap \in m.alive,
         NEW r \in oom_alloc_page(m)
  PROVE  /\ r.ok \in BOOLEAN /\ Kept(r.m, IF r.ok THEN 1 ELSE 0)
         /\ r.m.table \subseteq m.table /\ Bootstrap \in r.m.alive /\ current \in r.m.table
         /\ \A v \in m.alive \ r.m.alive :
              v \in pick_victim(m, session_leader(m, current)) /\ r.m.alive = m.alive \ {v}
         /\ r.ok \/ current \notin r.m.alive \/ \A p \in m.alive \ {Bootstrap} : m.rss[p] = 0
<1> DEFINE leader == session_leader(m, current)
           victims == pick_victim(m, leader)
<1>1. m \in Memory /\ m.free \in Nat
  BY Fields, Numbers, SMTT(30) DEF Kept
<1>2. CASE r = Got(m) /\ (m.free > 0 \/ victims = {})
  <2>1. victims = {} => \A p \in m.alive \ {Bootstrap} : m.rss[p] = 0
    BY <1>1, NoVictim
  <2> QED BY <1>2, <2>1, GotFacts, SMTT(30)
<1>3. ASSUME NEW v \in victims, r = Got(Killed(m, v)), ~(m.free > 0)
      PROVE  /\ r.ok \in BOOLEAN /\ Kept(r.m, IF r.ok THEN 1 ELSE 0)
             /\ r.m.table \subseteq m.table /\ Bootstrap \in r.m.alive /\ current \in r.m.table
             /\ r.m.alive = m.alive \ {v} /\ (r.ok \/ current \notin r.m.alive)
  <2>1. v \in m.alive /\ v # Bootstrap /\ m.rss[v] # 0 /\ m.rss[v] \in Nat
    <3>1. v \in m.alive /\ v # Bootstrap /\ m.rss[v] # 0
      BY <1>1, VictimFacts
    <3>2. v \in Space /\ m.rss \in [Space -> 0 .. Frames]
      BY <1>1, <3>1, Fields, Numbers, Zenon
    <3>3. m.rss[v] \in 0 .. Frames
      BY <3>2
    <3> QED BY <3>1, <3>3
  <2> DEFINE k == Killed(m, v)
  <2>2. /\ Kept(k, 0) /\ k.alive = m.alive \ {v} /\ k.table \subseteq m.table
        /\ Bootstrap \in k.alive /\ current \in k.table
        /\ v # current => k.free = m.free + m.rss[v]
    BY <2>1, KilledFacts
  <2> HIDE DEF k
  <2>3. ASSUME v # current PROVE k.free > 0
    <3>1. k.free = m.free + m.rss[v]
      BY <2>2, <2>3
    <3> QED BY <1>1, <2>1, <3>1
  <2>4. /\ r.ok \in BOOLEAN /\ (r.ok <=> k.free > 0) /\ Kept(r.m, IF r.ok THEN 1 ELSE 0)
        /\ r.m.table = k.table /\ r.m.alive = k.alive
    BY <1>3, <2>2, GotFacts DEF k
  <2> QED BY <2>2, <2>3, <2>4
<1>4. \/ r = Got(m) /\ (m.free > 0 \/ victims = {})
      \/ ~(m.free > 0) /\ \E v \in victims : r = Got(Killed(m, v))
  BY DEF oom_alloc_page, Got
<1> HIDE DEF victims
<1>5. CASE \E v \in victims : r = Got(Killed(m, v)) /\ ~(m.free > 0)
  BY <1>3, <1>5 DEF victims
<1> QED BY <1>2, <1>4, <1>5 DEF victims

-----------------------------------------------------------------------------
(* The actions. *)

\* A caller's state, and that only sound states have steps.
LEMMA CallingFacts ==
  ASSUME IInv, Sound
  PROVE  /\ Kept(mem, 0) /\ Types /\ mem \in Memory /\ current \in Pid /\ current \in Space
         /\ Bootstrap \in mem.alive /\ current \in mem.table /\ mem.alive \subseteq mem.table
         /\ mem.table \subseteq Pid /\ mem.rss \in [Space -> 0 .. Frames] /\ mem.free \in 0 .. Frames
BY Fields, Numbers, Zenon DEF IInv, Kept, Types

\* A page more for address space p, out of an allocation.
LEMMA PageTaken ==
  ASSUME NEW m, Kept(m, 1), NEW p \in m.table \cup {NewSpace}
  PROVE  LET w == [m EXCEPT !.rss = [m.rss EXCEPT ![p] = m.rss[p] + 1]]
         IN  Kept(w, 0) /\ w.table = m.table /\ w.alive = m.alive
<1> DEFINE T == m.table
           A == m.alive
           k == m.rss[p] + 1
           f == m.free
           w == [m EXCEPT !.rss = [m.rss EXCEPT ![p] = k]]
           x == [m EXCEPT !.table = T, !.alive = A, !.rss = [m.rss EXCEPT ![p] = k], !.free = f]
<1>1. m \in Memory /\ p \in Space /\ T \in SUBSET Pid /\ A \in SUBSET T
  BY Fields, Numbers, Zenon DEF Kept
<1>2. m.rss[p] \in 0 .. Frames /\ m.free \in 0 .. Frames
  BY <1>1, Fields
<1>3. k \in Int /\ 0 <= k /\ f \in Int /\ 0 <= f /\ k + f + 0 = m.rss[p] + m.free + 1
  BY <1>2, Numbers
<1>4. /\ \A q \in Pid \ T : q = p \/ m.rss[q] = 0
      /\ p \in Pid \ T => k = 0
  BY Numbers DEF Kept
<1>5. w = x /\ w.table = T /\ w.alive = A
  BY <1>1, Zenon DEF Memory
<1> HIDE DEF T, A, k, f, w
<1>6. Kept(x, 0)
  BY <1>1, <1>3, <1>4, SetPages, Zenon
<1> QED BY <1>5, <1>6 DEF w, T, A, k

\* A page that the caller maps, or cannot get.
LEMMA MapPageStep ==
  ASSUME IInv, MapPage
  PROVE  IInv'
<1>1. /\ Calling /\ image = None
      /\ prio' = prio /\ current' = current /\ image' = image /\ next_pid' = next_pid
  BY DEF MapPage
<1>2. PICK r \in oom_alloc_page(mem) :
        mem' = IF r.ok THEN [r.m EXCEPT !.rss = [r.m.rss EXCEPT ![current] = r.m.rss[current] + 1]]
                       ELSE r.m
  BY Zenon DEF MapPage
<1>3. Kept(mem, 0) /\ Types /\ Bootstrap \in mem.alive /\ current \in mem.table
  BY <1>1, CallingFacts DEF Calling
<1>4. /\ r.ok \in BOOLEAN /\ Kept(r.m, IF r.ok THEN 1 ELSE 0)
      /\ r.m.table \subseteq mem.table /\ Bootstrap \in r.m.alive /\ current \in r.m.table
  BY <1>3, AllocFacts DEF Types
<1>5. Kept(mem', 0) /\ mem'.table = r.m.table /\ mem'.alive = r.m.alive
  <2>1. CASE r.ok
    BY <1>2, <1>4, <2>1, PageTaken
  <2>2. CASE ~r.ok
    BY <1>2, <1>4, <2>2
  <2> QED BY <2>1, <2>2
<1>6. Types'
  BY <1>1, <1>3, <1>4, <1>5 DEF Types
<1> QED BY <1>1, <1>4, <1>5, <1>6 DEF IInv

\* A page goes back to the free list.
LEMMA UnmapPageStep ==
  ASSUME IInv, UnmapPage
  PROVE  IInv'
<1> DEFINE T == mem.table
           A == mem.alive
           p == current
           k == mem.rss[p] - 1
           f == mem.free + 1
           x == [mem EXCEPT !.table = T, !.alive = A, !.rss = [mem.rss EXCEPT ![p] = k], !.free = f]
<1>1. /\ Calling /\ image = None /\ mem.rss[p] > 0
      /\ mem' = [mem EXCEPT !.rss = [mem.rss EXCEPT ![p] = k], !.free = f]
      /\ prio' = prio /\ current' = current /\ image' = image /\ next_pid' = next_pid
  BY DEF UnmapPage
<1>2. /\ Kept(mem, 0) /\ Types /\ mem \in Memory /\ p \in Space /\ p \in T
      /\ Bootstrap \in mem.alive /\ A \in SUBSET T /\ T \in SUBSET Pid
      /\ mem.rss \in [Space -> 0 .. Frames] /\ mem.free \in 0 .. Frames
  BY <1>1, CallingFacts DEF Calling
<1>3. mem' = x /\ mem'.table = T /\ mem'.alive = A
  BY <1>1, <1>2, Zenon DEF Memory
<1>4. k \in Int /\ 0 <= k /\ f \in Int /\ 0 <= f /\ k + f + 0 = mem.rss[p] + mem.free + 0
  <2>1. mem.rss[p] \in 0 .. Frames
    BY <1>2
  <2> QED BY <1>1, <1>2, <2>1, Numbers
<1>5. /\ \A q \in Pid \ T : q = p \/ mem.rss[q] = 0
      /\ p \in Pid \ T => k = 0
  BY <1>2 DEF Kept
<1> HIDE DEF T, A, k, f
<1>6. Kept(x, 0)
  BY <1>2, <1>4, <1>5, SetPages, Zenon
<1>7. Types'
  BY <1>1, <1>2, <1>3 DEF Types, T
<1> QED BY <1>1, <1>2, <1>3, <1>6, <1>7 DEF IInv, A

\* Calls that do not touch memory: a change of priority, and the begin of an exec.
LEMMA QuietStep ==
  ASSUME IInv, SetPriority \/ ExecBegin
  PROVE  IInv'
<1>1. /\ Calling /\ image = None /\ mem' = mem /\ current' = current /\ next_pid' = next_pid
      /\ image' \in {None, NewSpace}
  BY DEF SetPriority, ExecBegin
<1>2. Kept(mem, 0) /\ Types /\ Bootstrap \in mem.alive /\ current \in mem.table
  BY <1>1, CallingFacts DEF Calling
<1>3. prio' \in [Pid -> Priority]
  BY <1>2 DEF SetPriority, ExecBegin, Types
<1>4. Types'
  BY <1>1, <1>2, <1>3 DEF Types
<1> QED BY <1>1, <1>2, <1>4 DEF IInv

\* The child gets a pid that nobody has and no page yet.
LEMMA SpawnBeginStep ==
  ASSUME IInv, SpawnBegin
  PROVE  IInv'
<1> DEFINE T == mem.table \cup {next_pid}
           A == mem.alive \cup {next_pid}
<1>1. /\ Calling /\ next_pid \in Pid /\ mem' = [mem EXCEPT !.table = T, !.alive = A]
      /\ image' = next_pid /\ next_pid' = next_pid + 1 /\ prio' = prio /\ current' = current
  BY DEF SpawnBegin
<1>2. /\ Kept(mem, 0) /\ Types /\ mem \in Memory /\ Bootstrap \in mem.alive /\ current \in mem.table
      /\ mem.alive \subseteq mem.table /\ mem.table \subseteq Pid
  BY <1>1, CallingFacts DEF Calling
<1>3. /\ mem' \in Memory /\ mem'.rss = mem.rss /\ mem'.free = mem.free /\ mem'.table = T
      /\ mem'.alive = A
  BY <1>1, <1>2, Zenon DEF Memory
<1>4. Pages(mem') = Pages(mem)
  BY <1>3 DEF Pages
<1>5. Kept(mem', 0)
  BY <1>2, <1>3, <1>4 DEF Kept
<1>6. Bootstrap < next_pid /\ current < next_pid /\ next_pid \in Nat
  BY <1>2 DEF Types
<1>7. next_pid # Bootstrap /\ next_pid # current
  <2>1. Bootstrap \in Int /\ current \in Int
    BY <1>2, Numbers DEF Types
  <2> QED BY <1>6, <2>1
<1>8. \A p \in T : p < next_pid + 1
  <2>1. \A p \in mem.table : p \in Nat /\ p < next_pid
    BY <1>2, Numbers DEF Types
  <2> QED BY <1>6, <2>1
<1>9. Types'
  BY <1>1, <1>2, <1>3, <1>6, <1>7, <1>8 DEF Types
<1> QED BY <1>1, <1>2, <1>3, <1>5, <1>9 DEF IInv

\* The memory of a failed image is free again.
LEMMA AbandonedFacts ==
  ASSUME NEW m, Kept(m, 0), Types, image # None, Bootstrap \in m.alive, current \in m.table
  PROVE  /\ Kept(Abandoned(m), 0) /\ Abandoned(m).table \subseteq m.table
         /\ Bootstrap \in Abandoned(m).alive /\ current \in Abandoned(m).table
<1>1. CASE image = NewSpace
  <2> DEFINE T == m.table
             A == m.alive
             f == m.free + m.rss[NewSpace]
             k == 0
             w == [m EXCEPT !.rss = [m.rss EXCEPT ![NewSpace] = k], !.free = f]
             x == [m EXCEPT !.table = T, !.alive = A,
                            !.rss = [m.rss EXCEPT ![NewSpace] = k], !.free = f]
  <2>1. Abandoned(m) = w
    BY <1>1 DEF Abandoned
  <2>2. m \in Memory /\ NewSpace \in Space /\ T \in SUBSET Pid /\ A \in SUBSET T
    BY Fields, Numbers DEF Kept
  <2>3. m.rss[NewSpace] \in 0 .. Frames /\ m.free \in 0 .. Frames
    BY <2>2, Fields
  <2>4. /\ f \in Int /\ 0 <= f /\ k \in Int /\ 0 <= k
        /\ k + f + 0 = m.rss[NewSpace] + m.free + 0
    BY <2>3, Numbers
  <2>5. /\ \A q \in Pid \ T : q = NewSpace \/ m.rss[q] = 0
        /\ NewSpace \in Pid \ T => k = 0
    BY DEF Kept
  <2>6. w = x /\ w.table = T /\ w.alive = A
    BY <2>2, Zenon DEF Memory
  <2> HIDE DEF T, A, f, k, w
  <2>7. Kept(x, 0)
    BY <2>2, <2>4, <2>5, SetPages, Zenon
  <2> QED BY <2>1, <2>6, <2>7 DEF T, A
<1>2. CASE image # NewSpace
  <2>1. Abandoned(m) = process_destroy(m, image) /\ image \in Pid \ {Bootstrap, current}
    BY <1>2 DEF Abandoned, Types
  <2> QED BY <2>1, DestroyFacts
<1> QED BY <1>1, <1>2

\* A failed image leaves a sound state.
LEMMA FailedImage ==
  ASSUME Types, image # None, NEW m, Kept(m, 0), Bootstrap \in m.alive, current \in m.table,
         m.table \subseteq mem.table, mem' = Abandoned(m), image' = None,
         prio' = prio, current' = current, next_pid' = next_pid
  PROVE  IInv'
<1>1. /\ Kept(mem', 0) /\ mem'.table \subseteq mem.table
      /\ Bootstrap \in mem'.alive /\ current \in mem'.table
  BY AbandonedFacts
<1>2. Types'
  BY <1>1 DEF Types
<1> QED BY <1>1, <1>2 DEF IInv

\* One page of an image, with the kill and the failure it may cause.
LEMMA LoadPageStep ==
  ASSUME IInv, LoadPage
  PROVE  IInv'
<1>1. Calling /\ image # None /\ prio' = prio /\ current' = current /\ next_pid' = next_pid
  BY DEF LoadPage
<1>2. PICK r \in oom_alloc_page(mem) :
        IF r.ok
        THEN /\ mem' = IF image \in r.m.table \cup {NewSpace}
                       THEN [r.m EXCEPT !.rss = [r.m.rss EXCEPT ![image] = r.m.rss[image] + 1]]
                       ELSE r.m
             /\ image' = image
        ELSE mem' = Abandoned(r.m) /\ image' = None
  BY DEF LoadPage
<1>3. Kept(mem, 0) /\ Types /\ Bootstrap \in mem.alive /\ current \in mem.table
  BY <1>1, CallingFacts, SMTT(30) DEF Calling
<1>4. /\ r.ok \in BOOLEAN /\ Kept(r.m, IF r.ok THEN 1 ELSE 0)
      /\ r.m.table \subseteq mem.table /\ Bootstrap \in r.m.alive /\ current \in r.m.table
  BY <1>3, AllocFacts DEF Types
<1>5. CASE r.ok /\ image \in r.m.table \cup {NewSpace}
  <2>1. Kept(mem', 0) /\ mem'.table = r.m.table /\ mem'.alive = r.m.alive
    <3> DEFINE n == r.m
    <3>1. mem' = [n EXCEPT !.rss = [n.rss EXCEPT ![image] = n.rss[image] + 1]]
      BY <1>2, <1>5
    <3>2. Kept(n, 1) /\ image \in n.table \cup {NewSpace}
      BY <1>4, <1>5
    <3> HIDE DEF n
    <3>3. Kept(mem', 0) /\ mem'.table = n.table /\ mem'.alive = n.alive
      BY <3>1, <3>2, PageTaken
    <3> QED BY <3>3 DEF n
  <2>2. Types'
    BY <1>1, <1>2, <1>3, <1>4, <1>5, <2>1, SMTT(30) DEF Types
  <2> QED BY <1>1, <1>4, <2>1, <2>2 DEF IInv
<1>6. CASE r.ok /\ image \notin r.m.table \cup {NewSpace}
  <2>1. mem' = r.m /\ image' = image
    BY <1>2, <1>6
  <2>2. ~Sound'
    BY <1>1, <1>6, <2>1 DEF Sound
  <2> QED BY <1>1, <1>4, <2>1, <2>2 DEF IInv
<1>7. CASE ~r.ok
  BY <1>1, <1>2, <1>3, <1>4, <1>7, FailedImage, SMTT(30)
<1> QED BY <1>4, <1>5, <1>6, <1>7

\* An image that fails for another reason than memory.
LEMMA ImageFailsStep ==
  ASSUME IInv, ImageFails
  PROVE  IInv'
<1>1. /\ Calling /\ image # None /\ mem' = Abandoned(mem) /\ image' = None
      /\ prio' = prio /\ current' = current /\ next_pid' = next_pid
  BY DEF ImageFails
<1>2. Kept(mem, 0) /\ Types /\ Bootstrap \in mem.alive /\ current \in mem.table
  BY <1>1, CallingFacts DEF Calling
<1> QED BY <1>1, <1>2, FailedImage

\* An exec gives the caller's frames back and the pages loaded to the caller.
LEMMA Committed ==
  ASSUME Kept(mem, 0), Types, current \in mem.table, Bootstrap \in mem.alive, image = NewSpace,
         mem' = [mem EXCEPT !.free = mem.free + mem.rss[current],
                            !.rss = [mem.rss EXCEPT ![current] = mem.rss[NewSpace],
                                                    ![NewSpace] = 0]]
  PROVE  Kept(mem', 0) /\ mem'.table = mem.table /\ mem'.alive = mem.alive
<1> DEFINE m == Abandoned(mem)
           p == current
           T == mem.table
           A == mem.alive
           k == mem.rss[NewSpace]
           f == mem.free + mem.rss[p]
           x == [m EXCEPT !.table = T, !.alive = A, !.rss = [m.rss EXCEPT ![p] = k], !.free = f]
<1>1. image # None
  BY Numbers
<1>2. Kept(m, 0)
  BY <1>1, AbandonedFacts
<1>3. m = [mem EXCEPT !.rss = [mem.rss EXCEPT ![NewSpace] = 0], !.free = mem.free + k]
  BY DEF Abandoned
<1>4. /\ mem \in Memory /\ p \in Space /\ NewSpace \in Space /\ p # NewSpace /\ p \in T
      /\ T \in SUBSET Pid /\ A \in SUBSET T
  BY Fields, Numbers DEF Kept, Types
<1>5. /\ mem.rss \in [Space -> 0 .. Frames] /\ k \in 0 .. Frames /\ mem.rss[p] \in 0 .. Frames
      /\ mem.free \in 0 .. Frames
  BY <1>4, Fields
<1>6. /\ m.table = T /\ m.alive = A /\ m.free = mem.free + k
      /\ m.rss = [mem.rss EXCEPT ![NewSpace] = 0]
  BY <1>3, <1>4 DEF Memory
<1>7. m.rss[p] = mem.rss[p]
  BY <1>4, <1>5, <1>6
<1>8. k \in Int /\ 0 <= k /\ f \in Int /\ 0 <= f /\ k + f + 0 = m.rss[p] + m.free + 0
  BY <1>5, <1>6, <1>7, Numbers
<1>9. /\ \A q \in Pid \ T : q = p \/ m.rss[q] = 0
      /\ p \in Pid \ T => k = 0
  BY <1>2, <1>4, <1>6 DEF Kept
<1>10. [mem.rss EXCEPT ![p] = k, ![NewSpace] = 0] = [m.rss EXCEPT ![p] = k]
  BY <1>4, <1>5, <1>6
<1>11. mem' = x
  BY <1>3, <1>4, <1>10, Zenon DEF Memory
<1>12. mem'.table = T /\ mem'.alive = A
  BY <1>4 DEF Memory
<1> HIDE DEF m, T, A, f, k, p
<1>13. Kept(x, 0)
  BY <1>2, <1>4, <1>8, <1>9, SetPages, Zenon
<1> QED BY <1>11, <1>12, <1>13 DEF T, A

\* A spawn or an exec succeeds.
LEMMA ImageDoneStep ==
  ASSUME IInv, ImageDone
  PROVE  IInv'
<1>1. /\ Calling /\ image # None /\ image' = None
      /\ prio' = prio /\ current' = current /\ next_pid' = next_pid
  BY DEF ImageDone
<1>2. Kept(mem, 0) /\ Types /\ Bootstrap \in mem.alive /\ current \in mem.table
  BY <1>1, CallingFacts DEF Calling
<1>3. Kept(mem', 0) /\ mem'.table = mem.table /\ mem'.alive = mem.alive
  <2>1. CASE image = NewSpace
    <3>1. mem' = [mem EXCEPT !.free = mem.free + mem.rss[current],
                             !.rss = [mem.rss EXCEPT ![current] = mem.rss[NewSpace],
                                                     ![NewSpace] = 0]]
      BY <2>1 DEF ImageDone
    <3> QED BY <1>2, <2>1, <3>1, Committed
  <2>2. CASE image # NewSpace
    BY <1>2, <2>2 DEF ImageDone
  <2> QED BY <2>1, <2>2
<1>4. Types'
  BY <1>1, <1>2, <1>3 DEF Types
<1> QED BY <1>1, <1>2, <1>3, <1>4 DEF IInv

\* The dead caller keeps its memory until it is reaped.
LEMMA ExitStep ==
  ASSUME IInv, Exit
  PROVE  IInv'
<1> DEFINE A == mem.alive \ {current}
<1>1. /\ Calling /\ image = None /\ current # Bootstrap /\ mem' = [mem EXCEPT !.alive = A]
      /\ prio' = prio /\ current' = current /\ next_pid' = next_pid /\ image' = image
  BY DEF Exit
<1>2. /\ Kept(mem, 0) /\ Types /\ mem \in Memory /\ Bootstrap \in mem.alive /\ current \in mem.table
      /\ mem.alive \subseteq mem.table /\ mem.table \subseteq Pid
  BY <1>1, CallingFacts DEF Calling
<1>3. /\ mem' \in Memory /\ mem'.rss = mem.rss /\ mem'.free = mem.free
      /\ mem'.table = mem.table /\ mem'.alive = A
  BY <1>1, <1>2 DEF Memory
<1>4. Pages(mem') = Pages(mem)
  BY <1>3 DEF Pages
<1>5. Kept(mem', 0)
  BY <1>2, <1>3, <1>4 DEF Kept
<1>6. Types'
  BY <1>1, <1>2, <1>3, SMTT(30) DEF Types
<1> QED BY <1>1, <1>2, <1>3, <1>5, <1>6 DEF IInv

\* Another process runs, and a dead one is reaped.
LEMMA ScheduleStep ==
  ASSUME IInv, NEW p \in Pid, Schedule(p)
  PROVE  IInv'
<1>1. /\ image = None /\ p \in mem.alive \ {current} /\ current' = p
      /\ mem' = IF current \in mem.alive THEN mem ELSE process_destroy(mem, current)
      /\ prio' = prio /\ next_pid' = next_pid /\ image' = image
  BY DEF Schedule
<1>2. Sound
  BY <1>1 DEF Sound
<1>3. Kept(mem, 0) /\ Types /\ Bootstrap \in mem.alive /\ current \in mem.table
  BY <1>2 DEF IInv
<1>4. /\ Kept(mem', 0) /\ mem'.table \subseteq mem.table
      /\ Bootstrap \in mem'.alive /\ p \in mem'.alive
  <2>1. CASE current \in mem.alive
    BY <1>1, <1>3, <2>1, SMTT(30)
  <2>2. CASE current \notin mem.alive
    BY <1>1, <1>3, <2>2, DestroyFacts DEF Types
  <2> QED BY <2>1, <2>2
<1>5. p \in mem'.table
  BY <1>4, SMTT(30) DEF Kept
<1>6. Types'
  BY <1>1, <1>3, <1>4 DEF Types
<1> QED BY <1>1, <1>4, <1>5, <1>6 DEF IInv

-----------------------------------------------------------------------------
(* The invariant and the theorems. *)

\* At the start init holds one page and every other frame is free.
LEMMA InitHolds == Init => IInv
<1> SUFFICES ASSUME Init PROVE IInv
  OBVIOUS
<1>1. Frames \in Nat /\ 1 <= Frames /\ Bootstrap \in Nat /\ Bootstrap \in Pid /\ Bootstrap \in Space
  BY OomAssumption, Numbers DEF Bootstrap
<1>2. /\ mem.table = {Bootstrap} /\ mem.alive = {Bootstrap} /\ mem.free = Frames - 1
      /\ mem.rss = [p \in Space |-> IF p = Bootstrap THEN 1 ELSE 0]
  BY DEF Init
<1>3. mem \in Memory
  BY <1>1 DEF Init, Memory
<1>4. mem.rss[Bootstrap] = 1 /\ \A p \in Space \ {Bootstrap} : mem.rss[p] = 0
  BY <1>1, <1>2
<1> DEFINE rest == {page \in Pages(mem) : page[1] # Bootstrap}
<1>5. rest = {}
  BY <1>4 DEF Pages
<1>6. Cardinality(Pages(mem)) = Cardinality(rest) + mem.rss[Bootstrap]
  BY <1>1, <1>4, PagesSplit
<1>7. Cardinality(Pages(mem)) = 1
  <2> HIDE DEF rest
  <2> QED BY <1>4, <1>5, <1>6, FS_EmptySet
<1>8. mem.free + Cardinality(Pages(mem)) + 0 = Frames
  BY <1>1, <1>2, <1>7
<1>9. Kept(mem, 0)
  BY <1>2, <1>3, <1>4, <1>8, Numbers, SMTT(30) DEF Kept
<1>10. Types
  <2>1. prio \in [Pid -> Priority]
    BY OomAssumption DEF Init
  <2>2. current = Bootstrap /\ image = None /\ next_pid = Bootstrap + 1
    BY DEF Init
  <2> QED BY <1>1, <1>2, <2>1, <2>2, SMTT(30) DEF Types
<1> QED BY <1>2, <1>9, <1>10 DEF IInv, Init

\* Every step keeps the invariant.
LEMMA NextHolds == IInv /\ [Next]_vars => IInv'
<1> SUFFICES ASSUME IInv, [Next]_vars PROVE IInv'
  OBVIOUS
<1>1. CASE UNCHANGED vars
  BY <1>1 DEF vars, IInv, Sound, Types
<1>2. CASE MapPage
  BY <1>2, MapPageStep
<1>3. CASE UnmapPage
  BY <1>3, UnmapPageStep
<1>4. CASE SetPriority \/ ExecBegin
  BY <1>4, QuietStep, SMTT(30)
<1>5. CASE SpawnBegin
  BY <1>5, SpawnBeginStep
<1>6. CASE LoadPage
  BY <1>6, LoadPageStep
<1>7. CASE ImageFails
  BY <1>7, ImageFailsStep
<1>8. CASE ImageDone
  BY <1>8, ImageDoneStep
<1>9. CASE Exit
  BY <1>9, ExitStep
<1>10. ASSUME NEW p \in Pid, Schedule(p) PROVE IInv'
  BY <1>10, ScheduleStep
<1> QED
  BY <1>1, <1>2, <1>3, <1>4, <1>5, <1>6, <1>7, <1>8, <1>9, <1>10, SMTT(30) DEF Next

\* The inductive invariant holds at every step.
THEOREM Inductive == Spec => []IInv
BY InitHolds, NextHolds, PTL DEF Spec

\* Frames never leak and are never shared: every frame is free or in exactly
\* one address space after any sequence of page allocations, kills by
\* oom_reclaim(), spawns and execs that fail half way, exits and reaps.
THEOREM FramesAreConserved == Spec => []FramesConserved
<1>1. IInv => FramesConserved
  <2> SUFFICES ASSUME IInv, Sound, Kept(mem, 0) PROVE FramesConserved
    BY DEF IInv, FramesConserved
  <2>1. mem.free + Cardinality(Pages(mem)) = Frames
    <3>1. mem.free \in Int /\ Cardinality(Pages(mem)) \in Int
      BY Fields, Numbers, PagesFinite DEF Kept
    <3>2. mem.free + Cardinality(Pages(mem)) + 0 = Frames
      BY SMTT(30) DEF Kept
    <3> QED BY <3>1, <3>2
  <2> QED BY <2>1 DEF FramesConserved, Kept
<1> QED BY <1>1, Inductive, PTL

\* oom_alloc_page() fails a caller that stays alive only when init alone holds
\* memory: pick_victim() gives up only when its third pass finds nobody, and
\* whoever it picks releases at least one frame.
THEOREM FailsForLack == Spec => []FailsOnlyForLack
<1>1. IInv => FailsOnlyForLack
  <2> SUFFICES ASSUME IInv, Calling, NEW r \in oom_alloc_page(mem)
               PROVE  r.ok \/ current \notin r.m.alive
                           \/ \A p \in mem.alive \ {Bootstrap} : mem.rss[p] = 0
    BY DEF FailsOnlyForLack
  <2>1. Kept(mem, 0) /\ Types /\ Bootstrap \in mem.alive /\ current \in mem.table
    BY CallingFacts, SMTT(30) DEF Calling
  <2> QED BY <2>1, AllocFacts DEF Types
<1> QED BY <1>1, Inductive, PTL

\* The victims of pick_victim() come in the order its comment gives, whoever
\* allocates and whatever the processes hold, and neither init nor a caller
\* that has not returned is taken from the process table.
THEOREM VictimsInOrder == Spec => []VictimOrder
<1>1. IInv => VictimOrder
  <2> DEFINE leader == session_leader(mem, current)
  <2> SUFFICES ASSUME IInv, Calling, NEW r \in oom_alloc_page(mem),
                      NEW v \in mem.alive \ r.m.alive, NEW p \in r.m.alive \ {Bootstrap}
               PROVE  \/ mem.rss[p] = 0
                      \/ v # leader /\ (\/ p = leader
                                        \/ prio[v] < PROCESS_PRIO_HIGH
                                        \/ prio[p] >= PROCESS_PRIO_HIGH)
    BY DEF VictimOrder, IInv
  <2>1. /\ Kept(mem, 0) /\ Types /\ mem \in Memory /\ Bootstrap \in mem.alive
        /\ current \in mem.table
    BY CallingFacts, SMTT(30) DEF Calling
  <2>2. v \in pick_victim(mem, leader) /\ r.m.alive = mem.alive \ {v}
    BY <2>1, AllocFacts DEF Types
  <2>3. p \in mem.alive \ {Bootstrap, v}
    BY <2>2
  <2>4. prio \in [Pid -> Priority]
    BY <2>1 DEF Types
  <2> HIDE DEF leader
  <2> QED BY <2>1, <2>2, <2>3, <2>4, VictimFacts, SMTT(30)
<1> QED BY <1>1, Inductive, PTL
=============================================================================
