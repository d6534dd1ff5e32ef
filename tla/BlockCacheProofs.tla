-------------------------- MODULE BlockCacheProofs --------------------------
(***************************************************************************)
(* Proofs about BlockCache, for any sectors, contents, number of entries,  *)
(* length of a run and flush interval.  The lemmas say what the parts of   *)
(* an operation do to a cache k; the theorems follow action by action.     *)
(***************************************************************************)
EXTENDS BlockCache, TLAPS, FiniteSetTheorems, WellFoundedInduction

\* A cache that is a cache, with clean entries that match the device.
Sound(k) ==
  /\ k \in Cache /\ Len(k.lru) <= Entries /\ IsInjective(k.lru) /\ k.dirty \subseteq Cached(k)
  /\ \A l \in Cached(k) \ k.dirty : k.data[l] = k.device[l]

\* Two caches that differ in the order of use and in which entries are valid.
SameBut(k, t) ==
  /\ t.data = k.data /\ t.dirty = k.dirty /\ t.unflushed = k.unflushed
  /\ t.device = k.device /\ t.possible = k.possible

-----------------------------------------------------------------------------
(* The order of use. *)

\* A sector is taken out of the order, the others stay.
LEMMA WithoutFacts ==
  ASSUME NEW s \in Seq(Lba), IsInjective(s), NEW e
  PROVE  /\ Without(s, e) \in Seq(Lba) /\ IsInjective(Without(s, e))
         /\ Range(Without(s, e)) = Range(s) \ {e}
         /\ Len(Without(s, e)) = IF e \in Range(s) THEN Len(s) - 1 ELSE Len(s)
<1>1. CASE e \notin Range(s)
  BY <1>1 DEF Without
<1>2. CASE e \in Range(s)
  <2> DEFINE i == CHOOSE j \in DOMAIN s : s[j] = e
             t == Without(s, e)
  <2>1. DOMAIN s = 1 .. Len(s) /\ Len(s) \in Nat /\ \A j \in 1 .. Len(s) : s[j] \in Lba
    OBVIOUS
  <2>2. i \in 1 .. Len(s) /\ s[i] = e
    BY <1>2, <2>1 DEF Range
  <2>3. t = [j \in 1 .. Len(s) - 1 |-> IF j < i THEN s[j] ELSE s[j + 1]]
    BY <1>2 DEF Without
  <2> HIDE DEF i, t
  <2>4. DOMAIN t = 1 .. Len(s) - 1 /\ Len(s) - 1 \in Nat
    BY <2>1, <2>2, <2>3
  <2>5. t \in Seq(Lba) /\ Len(t) = Len(s) - 1
    BY <2>1, <2>2, <2>3
  <2>6. IsInjective(t)
    <3>1. \A a, b \in 1 .. Len(s) : s[a] = s[b] => a = b
      BY <2>1 DEF IsInjective
    <3>2. SUFFICES ASSUME NEW a \in DOMAIN t, NEW b \in DOMAIN t, t[a] = t[b] PROVE a = b
      BY DEF IsInjective
    <3>3. /\ a \in Int /\ b \in Int /\ i \in Int /\ 1 <= a /\ 1 <= b
          /\ a \in 1 .. Len(s) /\ a + 1 \in 1 .. Len(s) /\ b \in 1 .. Len(s) /\ b + 1 \in 1 .. Len(s)
      BY <2>1, <2>2, <2>4
    <3>4. t[a] = (IF a < i THEN s[a] ELSE s[a + 1]) /\ t[b] = (IF b < i THEN s[b] ELSE s[b + 1])
      BY <2>3, <2>4
    <3>5. CASE a < i /\ b < i
      BY <3>1, <3>2, <3>3, <3>4, <3>5, Zenon
    <3>6. CASE a < i /\ ~(b < i)
      <4>1. s[a] = s[b + 1]
        BY <3>2, <3>4, <3>6, Zenon
      <4>2. a = b + 1
        BY <3>1, <3>3, <4>1
      <4> QED BY <3>3, <3>6, <4>2
    <3>7. CASE ~(a < i) /\ b < i
      <4>1. s[a + 1] = s[b]
        BY <3>2, <3>4, <3>7, Zenon
      <4>2. a + 1 = b
        BY <3>1, <3>3, <4>1
      <4> QED BY <3>3, <3>7, <4>2
    <3>8. CASE ~(a < i) /\ ~(b < i)
      <4>1. s[a + 1] = s[b + 1]
        BY <3>2, <3>4, <3>8, Zenon
      <4>2. a + 1 = b + 1
        BY <3>1, <3>3, <4>1
      <4> QED BY <3>3, <4>2
    <3> QED BY <3>5, <3>6, <3>7, <3>8
  <2>7. ASSUME NEW x \in Range(t) PROVE x \in Range(s) \ {e}
    BY <2>1, <2>2, <2>3, <2>4, <2>7 DEF IsInjective, Range
  <2>8. ASSUME NEW x \in Range(s) \ {e} PROVE x \in Range(t)
    <3>1. PICK j \in 1 .. Len(s) : s[j] = x
      BY <2>1 DEF Range
    <3>2. CASE j < i
      <4>1. j \in DOMAIN t /\ t[j] = x
        BY <2>2, <2>3, <2>4, <3>1, <3>2
      <4> QED BY <4>1 DEF Range
    <3>3. CASE j > i
      <4>1. j - 1 \in DOMAIN t /\ t[j - 1] = x
        BY <2>2, <2>3, <2>4, <3>1, <3>3
      <4> QED BY <4>1 DEF Range
    <3> QED BY <2>2, <3>1, <3>2, <3>3
  <2> QED BY <1>2, <2>5, <2>6, <2>7, <2>8 DEF t
<1> QED BY <1>1, <1>2

\* A sector is put at the end of the order.
LEMMA AppendFacts ==
  ASSUME NEW s \in Seq(Lba), IsInjective(s), NEW e \in Lba, e \notin Range(s)
  PROVE  /\ Append(s, e) \in Seq(Lba) /\ IsInjective(Append(s, e))
         /\ Range(Append(s, e)) = Range(s) \cup {e}
         /\ Len(Append(s, e)) = Len(s) + 1
<1> DEFINE t == Append(s, e)
<1>1. /\ DOMAIN t = 1 .. Len(s) + 1 /\ DOMAIN s = 1 .. Len(s) /\ Len(s) \in Nat
      /\ \A j \in 1 .. Len(s) : t[j] = s[j]
      /\ t[Len(s) + 1] = e
      /\ t \in Seq(Lba) /\ Len(t) = Len(s) + 1
  OBVIOUS
<1> HIDE DEF t
<1>2. IsInjective(t)
  BY <1>1 DEF IsInjective, Range
<1>3. ASSUME NEW x \in Range(s) \cup {e} PROVE x \in Range(t)
  BY <1>1 DEF Range
<1>4. ASSUME NEW x \in Range(t) PROVE x \in Range(s) \cup {e}
  BY <1>1 DEF Range
<1> QED BY <1>1, <1>2, <1>3, <1>4 DEF t

\* As many sectors are cached as there are entries in use.
LEMMA CachedCount ==
  ASSUME NEW s \in Seq(Lba), IsInjective(s)
  PROVE  IsFiniteSet(Range(s)) /\ Cardinality(Range(s)) = Len(s)
<1>1. DOMAIN s = 1 .. Len(s) /\ Len(s) \in Nat
  OBVIOUS
<1>2. IsFiniteSet(1 .. Len(s)) /\ Cardinality(1 .. Len(s)) = Len(s)
  BY <1>1, FS_Interval, SMTT(30)
<1>3. s \in Bijection(1 .. Len(s), Range(s))
  <2>1. s \in [1 .. Len(s) -> Range(s)]
    BY <1>1 DEF Range
  <2>2. s \in Injection(1 .. Len(s), Range(s))
    BY <1>1, <2>1 DEF IsInjective, Injection
  <2>3. s \in Surjection(1 .. Len(s), Range(s))
    BY <1>1, <2>1 DEF Range, Surjection
  <2> QED BY <2>2, <2>3 DEF Bijection
<1>4. ExistsBijection(1 .. Len(s), Range(s))
  BY <1>3 DEF ExistsBijection
<1> QED BY <1>2, <1>3, <1>4, FS_Bijection, FS_SameCardinalityBij

\* A set of natural numbers that is not empty has a least element.
LEMMA LeastNatural ==
  ASSUME NEW T \in SUBSET Nat, T # {}
  PROVE  \E i \in T : \A j \in T : i <= j
<1>1. PICK i \in T : \A j \in T : ~(<<j, i>> \in OpToRel(<, Nat))
  BY NatLessThanWellFounded, WFMin, Zenon
<1>2. ASSUME NEW j \in T, j < i PROVE FALSE
  <2>1. <<j, i>> \in Nat \X Nat
    OBVIOUS
  <2>2. <<j, i>>[1] < <<j, i>>[2]
    BY <1>2
  <2>3. <<j, i>> \in OpToRel(<, Nat)
    BY <2>1, <2>2, Zenon DEF OpToRel
  <2> QED BY <1>1, <2>3, Zenon
<1>3. \A j \in T : i <= j
  BY <1>2
<1> QED BY <1>3
-----------------------------------------------------------------------------
(* The parts of an operation. *)

\* The fields of a cache.
LEMMA CacheFields ==
  ASSUME NEW k, Sound(k)
  PROVE  /\ k = [lru |-> k.lru, data |-> k.data, dirty |-> k.dirty, unflushed |-> k.unflushed,
                 device |-> k.device, possible |-> k.possible]
         /\ k.lru \in Seq(Lba) /\ IsInjective(k.lru) /\ Len(k.lru) \in Nat /\ Len(k.lru) <= Entries
         /\ DOMAIN k.lru = 1 .. Len(k.lru)
         /\ k.data \in [Lba -> Value] /\ k.device \in [Lba -> Value]
         /\ k.dirty \in SUBSET Lba /\ k.unflushed \in BOOLEAN
         /\ k.possible \in [Lba -> SUBSET Value]
         /\ Cached(k) \in SUBSET Lba
  BY DEF Sound, Cache, Cached, Range

\* The victim is cached and clean.
LEMMA VictimFacts ==
  ASSUME NEW k, Sound(k), ~(Cached(k) \subseteq k.dirty)
  PROVE  Victim(k) \in Cached(k) \ k.dirty
<1> DEFINE P(i) == /\ k.lru[i] \notin k.dirty
                   /\ \A j \in 1 .. i - 1 : k.lru[j] \in k.dirty
           T == {i \in DOMAIN k.lru : k.lru[i] \notin k.dirty}
<1>1. DOMAIN k.lru = 1 .. Len(k.lru) /\ Len(k.lru) \in Nat
  BY CacheFields
<1>2. T \in SUBSET Nat /\ T # {}
  BY <1>1 DEF Cached, Range
<1>3. PICK i \in T : \A j \in T : i <= j
  BY <1>2, LeastNatural, Zenon
<1>4. i \in DOMAIN k.lru /\ P(i)
  <2>1. i \in DOMAIN k.lru /\ k.lru[i] \notin k.dirty /\ i \in 1 .. Len(k.lru)
    BY <1>1
  <2>2. ASSUME NEW j \in 1 .. i - 1, k.lru[j] \notin k.dirty PROVE FALSE
    <3>1. j \in DOMAIN k.lru /\ j < i /\ j \in Nat /\ i \in Nat
      BY <1>1, <2>1
    <3>2. j \in T
      BY <2>2, <3>1
    <3>3. i <= j
      BY <1>3, <3>2
    <3> QED BY ONLY <3>1, <3>3
  <2> QED BY <2>1, <2>2
<1>5. PICK v \in DOMAIN k.lru : Victim(k) = k.lru[v] /\ P(v)
  BY <1>4, Zenon DEF Victim
<1> QED BY <1>5 DEF Cached, Range

\* cache_take_victim() leaves a free entry and changes no contents.
LEMMA TakeVictim ==
  ASSUME NEW k, Sound(k), HasVictim(k)
  PROVE  LET t == cache_take_victim(k)
         IN  /\ Sound(t) /\ SameBut(k, t) /\ View(t) = View(k)
             /\ Cached(t) \subseteq Cached(k) /\ Len(t.lru) < Entries
<1> DEFINE t == cache_take_victim(k)
<1> USE CacheFields
<1>1. CASE Len(k.lru) < Entries
  BY <1>1 DEF cache_take_victim, SameBut
<1>2. CASE ~(Len(k.lru) < Entries)
  <2> DEFINE v == Victim(k)
  <2>1. v \in Cached(k) \ k.dirty
    BY <1>2, VictimFacts DEF HasVictim
  <2>2. t = [k EXCEPT !.lru = Without(k.lru, v)]
    BY <1>2 DEF cache_take_victim
  <2> HIDE DEF v, t
  <2>3. t.lru = Without(k.lru, v) /\ SameBut(k, t) /\ t \in Cache
    <3>1. Without(k.lru, v) \in Seq(Lba)
      BY WithoutFacts
    <3> QED BY <2>2, <3>1 DEF SameBut, Cache
  <2>4. /\ IsInjective(t.lru) /\ Cached(t) = Cached(k) \ {v}
        /\ Len(t.lru) = Len(k.lru) - 1
    BY <2>1, <2>3, WithoutFacts DEF Cached
  <2>5. Len(t.lru) < Entries /\ Len(t.lru) <= Entries
    BY <2>4, BlockCacheAssumption
  <2>6. Sound(t)
    BY <2>1, <2>3, <2>4, <2>5 DEF Sound, SameBut
  <2>7. View(t) = View(k)
    <3>1. k.data[v] = k.device[v]
      BY <2>1 DEF Sound
    <3> QED BY <2>3, <2>4, <3>1 DEF View, SameBut
  <2> QED BY <2>3, <2>4, <2>5, <2>6, <2>7 DEF t
<1> QED BY <1>1, <1>2

\* The most recently used sector is cached, and no other sector leaves.
LEMMA TouchedFacts ==
  ASSUME NEW k \in Cache, IsInjective(k.lru), Len(k.lru) <= Entries, NEW l \in Lba,
         l \in Cached(k) \/ Len(k.lru) < Entries
  PROVE  LET t == Touched(k, l)
         IN  /\ t \in Cache /\ IsInjective(t.lru) /\ Len(t.lru) <= Entries
             /\ SameBut(k, t) /\ Cached(t) = Cached(k) \cup {l}
<1> DEFINE t == Touched(k, l)
           s == Without(k.lru, l)
<1>1. k.lru \in Seq(Lba) /\ Len(k.lru) \in Nat
  BY DEF Cache
<1>2. /\ s \in Seq(Lba) /\ IsInjective(s) /\ Range(s) = Range(k.lru) \ {l}
      /\ Len(s) = IF l \in Range(k.lru) THEN Len(k.lru) - 1 ELSE Len(k.lru)
  BY <1>1, WithoutFacts
<1>3. t = [k EXCEPT !.lru = Append(s, l)]
  BY DEF Touched
<1> HIDE DEF s, t
<1>4. /\ Append(s, l) \in Seq(Lba) /\ IsInjective(Append(s, l))
      /\ Range(Append(s, l)) = Range(s) \cup {l} /\ Len(Append(s, l)) = Len(s) + 1
  BY <1>2, AppendFacts
<1>5. t.lru = Append(s, l) /\ SameBut(k, t) /\ t \in Cache
  BY <1>3, <1>4, Zenon DEF SameBut, Cache
<1>6. Len(t.lru) <= Entries
  BY <1>1, <1>2, <1>4, <1>5, BlockCacheAssumption, SMTT(30) DEF Cached
<1> QED BY <1>2, <1>4, <1>5, <1>6 DEF Cached, t

\* A sector that is read into a free entry changes no contents.
LEMMA ReadFacts ==
  ASSUME NEW k, Sound(k), HasVictim(k), NEW l \in Lba, l \notin Cached(k)
  PROVE  LET t == Touched(Loaded(cache_take_victim(k), l), l)
         IN  /\ Sound(t) /\ View(t) = View(k) /\ t.dirty = k.dirty
             /\ t.unflushed = k.unflushed /\ t.possible = k.possible
<1> DEFINE u == cache_take_victim(k)
           w == Loaded(u, l)
           t == Touched(w, l)
<1>1. /\ Sound(u) /\ SameBut(k, u) /\ View(u) = View(k)
      /\ l \notin Cached(u) /\ Len(u.lru) < Entries
  BY TakeVictim
<1> HIDE DEF u
<1>2. /\ u \in Cache /\ u.data \in [Lba -> Value] /\ u.device \in [Lba -> Value]
      /\ Len(u.lru) \in Nat /\ Cached(u) \in SUBSET Lba
  BY <1>1, CacheFields DEF Sound
<1>3. /\ w \in Cache /\ w.lru = u.lru /\ w.dirty = u.dirty /\ w.unflushed = u.unflushed
      /\ w.device = u.device /\ w.possible = u.possible
      /\ w.data = [u.data EXCEPT ![l] = u.device[l]]
  BY <1>2, ZenonT(40) DEF Loaded, Cache
<1> HIDE DEF w
<1>4. /\ t \in Cache /\ IsInjective(t.lru) /\ Len(t.lru) <= Entries
      /\ SameBut(w, t) /\ Cached(t) = Cached(w) \cup {l}
  BY <1>1, <1>2, <1>3, TouchedFacts, BlockCacheAssumption DEF Sound
<1> HIDE DEF t
<1>5. Cached(w) = Cached(u)
  BY <1>3 DEF Cached
<1>6. Sound(t)
  BY <1>1, <1>2, <1>3, <1>4, <1>5, SMTT(30) DEF Sound, SameBut
<1>7. View(t) = View(u)
  BY <1>1, <1>2, <1>3, <1>4, <1>5 DEF View, SameBut
<1> QED BY <1>1, <1>3, <1>4, <1>6, <1>7 DEF SameBut, t, w, u

\* A hit changes the order of use only.
LEMMA HitFacts ==
  ASSUME NEW k, Sound(k), NEW l \in Cached(k)
  PROVE  LET t == Touched(k, l)
         IN  /\ Sound(t) /\ View(t) = View(k) /\ t.dirty = k.dirty
             /\ t.unflushed = k.unflushed /\ t.possible = k.possible
<1> DEFINE t == Touched(k, l)
<1>1. l \in Lba
  BY CacheFields
<1>2. /\ t \in Cache /\ IsInjective(t.lru) /\ Len(t.lru) <= Entries
      /\ SameBut(k, t) /\ Cached(t) = Cached(k) \cup {l}
  BY <1>1, TouchedFacts DEF Sound
<1> HIDE DEF t
<1>3. Cached(t) = Cached(k)
  BY <1>2
<1>4. Sound(t)
  BY <1>2, <1>3 DEF Sound, SameBut
<1>5. View(t) = View(k)
  BY <1>2, <1>3, SMTT(30) DEF View, SameBut
<1> QED BY <1>2, <1>4, <1>5 DEF SameBut, t

\* A sector that is overwritten is cached and dirty, and reads as written.
LEMMA WrittenFacts ==
  ASSUME NEW k, Sound(k), HasVictim(k), NEW l \in Lba, NEW v \in Value
  PROVE  LET t == Written(Touched(IF l \in Cached(k) THEN k ELSE cache_take_victim(k), l), l, v)
         IN  /\ Sound(t) /\ View(t) = [View(k) EXCEPT ![l] = v] /\ t.dirty = k.dirty \cup {l}
             /\ t.unflushed = k.unflushed /\ t.possible = k.possible
<1> DEFINE u == IF l \in Cached(k) THEN k ELSE cache_take_victim(k)
           w == Touched(u, l)
           t == Written(w, l, v)
<1>1. /\ Sound(u) /\ SameBut(k, u) /\ View(u) = View(k)
      /\ l \in Cached(u) \/ Len(u.lru) < Entries
  BY TakeVictim DEF SameBut
<1> HIDE DEF u
<1>2. u \in Cache /\ Cached(u) \in SUBSET Lba
  BY <1>1, CacheFields DEF Sound
<1>3. /\ w \in Cache /\ IsInjective(w.lru) /\ Len(w.lru) <= Entries
      /\ SameBut(u, w) /\ Cached(w) = Cached(u) \cup {l}
  BY <1>1, <1>2, TouchedFacts DEF Sound
<1> HIDE DEF w
<1>4. w.data \in [Lba -> Value] /\ w.device \in [Lba -> Value] /\ w.dirty \in SUBSET Lba
  BY <1>3 DEF Cache
<1>5. /\ t \in Cache /\ t.lru = w.lru /\ t.unflushed = w.unflushed
      /\ t.device = w.device /\ t.possible = w.possible
      /\ t.data = [w.data EXCEPT ![l] = v] /\ t.dirty = w.dirty \cup {l}
  BY <1>3, <1>4, Zenon DEF Written, Cache
<1> HIDE DEF t
<1>6. Cached(t) = Cached(u) \cup {l}
  BY <1>3, <1>5 DEF Cached
<1>7. Sound(t)
  BY <1>1, <1>2, <1>3, <1>4, <1>5, <1>6 DEF Sound, SameBut
<1>8. View(t) = [View(u) EXCEPT ![l] = v]
  BY <1>1, <1>2, <1>3, <1>4, <1>5, <1>6, ZenonT(40) DEF View, SameBut
<1> QED BY <1>1, <1>3, <1>5, <1>7, <1>8 DEF SameBut, t, w, u

\* A write-back changes no contents as seen through the cache.  What the device
\* may come back with afterwards was there before or is the contents now, and
\* unless it found nothing dirty, a flush is due.
LEMMA WriteBackFacts ==
  ASSUME NEW k, Sound(k), NEW o \in Outcomes(k.dirty)
  PROVE  LET t == cache_write_back(k, o)
         IN  /\ Sound(t) /\ View(t) = View(k) /\ t.dirty \subseteq k.dirty
             /\ o.ok => t.dirty = {} /\ (t.unflushed \/ k.dirty = {})
             /\ Idle(t) => Idle(k) /\ t.possible = k.possible
             /\ \A l \in Lba : t.possible[l] \subseteq k.possible[l] \cup {View(k)[l]}
<1> DEFINE t == cache_write_back(k, o)
           hit == o.written \cup o.torn
<1>1. /\ o.ok \in BOOLEAN /\ o.written \subseteq k.dirty /\ o.torn \subseteq k.dirty
      /\ o.ok => o.written = k.dirty /\ o.torn = {}
      /\ k.dirty = {} => o.ok
  <2>1. CASE o = [ok |-> TRUE, written |-> k.dirty, torn |-> {}]
    BY <2>1
  <2>2. CASE \E s \in {RunStart(k.dirty, l) : l \in k.dirty} : \E T \in SUBSET Run(k.dirty, s) :
               o = [ok |-> FALSE, written |-> {l \in k.dirty : l < s}, torn |-> T]
    <3>0. PICK s \in {RunStart(k.dirty, l) : l \in k.dirty} : \E T \in SUBSET Run(k.dirty, s) :
            o = [ok |-> FALSE, written |-> {l \in k.dirty : l < s}, torn |-> T]
      BY <2>2, Zenon
    <3>1. PICK T \in SUBSET Run(k.dirty, s) :
            o = [ok |-> FALSE, written |-> {l \in k.dirty : l < s}, torn |-> T]
      BY <3>0, Zenon
    <3>2. o.ok = FALSE /\ o.written = {l \in k.dirty : l < s} /\ o.torn = T
      BY <3>1
    <3>3. T \subseteq k.dirty /\ k.dirty # {}
      BY DEF Run
    <3> QED BY <3>2, <3>3, Zenon
  <2> QED BY <2>1, <2>2 DEF Outcomes
<1>2. /\ t = [k EXCEPT !.dirty = k.dirty \ o.written,
               !.device = [l \in Lba |-> IF l \in hit THEN k.data[l] ELSE k.device[l]],
               !.possible = [l \in Lba |-> k.possible[l] \cup
                                           IF l \in hit THEN {k.data[l]} ELSE {}],
               !.unflushed = k.unflushed \/ o.written # {}]
      /\ hit \subseteq k.dirty /\ (k.dirty = {} => hit = {})
  BY <1>1 DEF cache_write_back
<1> HIDE DEF hit, t
<1>3. /\ t.lru = k.lru /\ t.data = k.data /\ t.dirty = k.dirty \ o.written
      /\ t.device = [l \in Lba |-> IF l \in hit THEN k.data[l] ELSE k.device[l]]
      /\ t.possible = [l \in Lba |-> k.possible[l] \cup IF l \in hit THEN {k.data[l]} ELSE {}]
      /\ t.unflushed = (k.unflushed \/ o.written # {}) /\ t \in Cache
  <2> DEFINE d == [l \in Lba |-> IF l \in hit THEN k.data[l] ELSE k.device[l]]
             p == [l \in Lba |-> k.possible[l] \cup IF l \in hit THEN {k.data[l]} ELSE {}]
             f == k.unflushed \/ o.written # {}
             r == k.dirty \ o.written
  <2>1. d \in [Lba -> Value] /\ p \in [Lba -> SUBSET Value] /\ r \in SUBSET Lba /\ f \in BOOLEAN
    BY CacheFields
  <2>2. t = [k EXCEPT !.dirty = r, !.device = d, !.possible = p, !.unflushed = f]
    BY <1>2
  <2> HIDE DEF d, p, f, r
  <2>3. k \in Cache
    BY DEF Sound
  <2>4. /\ t.lru = k.lru /\ t.data = k.data /\ t.dirty = r /\ t.device = d /\ t.possible = p
        /\ t.unflushed = f /\ t \in Cache
    BY <2>1, <2>2, <2>3, Zenon DEF Cache
  <2> QED BY <2>4 DEF d, p, f, r
<1>4. Cached(t) = Cached(k) /\ Cached(k) \subseteq Lba /\ k.dirty \subseteq Cached(k)
  BY <1>3, CacheFields DEF Cached, Sound
<1>5. Sound(t)
  <2>1. t.dirty \subseteq Cached(t) /\ Len(t.lru) <= Entries /\ IsInjective(t.lru)
    BY <1>3, <1>4 DEF Sound
  <2>2. ASSUME NEW l \in Cached(t) \ t.dirty PROVE t.data[l] = t.device[l]
    BY <1>1, <1>2, <1>3, <1>4 DEF Sound, hit
  <2> QED BY <1>3, <2>1, <2>2, Zenon DEF Sound
<1>6. View(t) = View(k)
  BY <1>2, <1>3, <1>4 DEF View
<1>7. o.ok => t.dirty = {} /\ (t.unflushed \/ k.dirty = {})
  BY <1>1, <1>3, Zenon
<1>8. ASSUME Idle(t) PROVE Idle(k) /\ t.possible = k.possible
  <2>1. o.written = {} /\ k.dirty = {} /\ ~k.unflushed
    BY <1>3, <1>8, Zenon DEF Idle
  <2>2. hit = {}
    BY <1>2, <2>1
  <2>3. k.possible \in [Lba -> SUBSET Value]
    BY CacheFields
  <2> QED BY <1>3, <2>1, <2>2, <2>3 DEF Idle
<1>9. ASSUME NEW l \in Lba PROVE t.possible[l] \subseteq k.possible[l] \cup {View(k)[l]}
  BY <1>2, <1>3, <1>4 DEF View
<1> QED BY <1>3, <1>5, <1>6, <1>7, <1>8, <1>9 DEF t

\* There is room for dirty sectors, and a clean one or a free entry is left.
LEMMA LimitFacts == CACHE_DIRTY_LIMIT \in Nat /\ 1 <= CACHE_DIRTY_LIMIT /\ CACHE_DIRTY_LIMIT < Entries
  BY BlockCacheAssumption DEF CACHE_DIRTY_LIMIT

\* There are finitely many dirty sectors.
LEMMA DirtyCount ==
  ASSUME NEW k, Sound(k)
  PROVE  IsFiniteSet(k.dirty) /\ Cardinality(k.dirty) \in Nat
<1>1. IsFiniteSet(Cached(k)) /\ k.dirty \in SUBSET Cached(k)
  BY CachedCount, CacheFields DEF Cached, Sound
<1> QED BY <1>1, FS_Subset, FS_CardinalityType

\* Below the dirty limit there is an entry to take.
LEMMA VictimThere ==
  ASSUME NEW k, Sound(k), Cardinality(k.dirty) <= CACHE_DIRTY_LIMIT
  PROVE  HasVictim(k)
<1> SUFFICES ASSUME ~(Len(k.lru) < Entries), Cached(k) \subseteq k.dirty PROVE FALSE
  BY DEF HasVictim
<1>1. Len(k.lru) = Entries /\ Cached(k) = k.dirty
  BY CacheFields, BlockCacheAssumption, Zenon DEF Sound
<1>2. Cardinality(k.dirty) = Entries
  BY <1>1, CachedCount, CacheFields DEF Cached
<1> QED BY <1>2, LimitFacts, BlockCacheAssumption

-----------------------------------------------------------------------------
(* The invariant, of a cache k, the age a of its oldest data, what was written *)
(* since the last sync s, the ages h and the sectors x tried in vain. *)

\* A power cut leaves what was written since the last sync, and so do reads.
Covers(k, s) == \A l \in Lba : k.possible[l] \subseteq s[l] /\ View(k)[l] \in s[l]

\* An idle cache has nothing to lose.
Quiet(k) == Idle(k) => \A l \in Lba : k.possible[l] = {View(k)[l]}

\* The oldest data no tick has tried is no older than the clock, and an idle
\* cache has none.
Clocks(k, a, h, x) ==
  /\ a \in 0 .. Interval /\ h \in [Lba -> Durable .. Interval] /\ x \subseteq Lba
  /\ \A l \in Lba \ x : h[l] <= a
  /\ Idle(k) => \A l \in Lba : h[l] = Durable

Good(k, a, s, h, x) ==
  /\ Sound(k) /\ Cardinality(k.dirty) <= CACHE_DIRTY_LIMIT
  /\ s \in [Lba -> SUBSET Value] /\ Covers(k, s) /\ Quiet(k)
  /\ Clocks(k, a, h, x)

IInv == Good(c, age, since, held, tried)

\* The invariant implies what the run checks.
LEMMA InvImplies == IInv => EntriesSound
<1> SUFFICES ASSUME IInv PROVE EntriesSound
  OBVIOUS
<1>1. HasVictim(c)
  BY VictimThere DEF IInv, Good
<1>2. TypeOK
  BY DEF IInv, Good, Sound, Clocks, TypeOK
<1>3. CleanMatchesDevice /\ NothingForgotten /\ OldestTracked
  BY DEF IInv, Good, Sound, Quiet, Clocks, CleanMatchesDevice, NothingForgotten, OldestTracked,
         Logical
<1> QED BY <1>1, <1>2, <1>3 DEF EntriesSound, VictimExists

\* A cache with the same contents, of which as much is durable.
LEMMA SameContents ==
  ASSUME NEW k, NEW a, NEW s, NEW h, NEW x, Good(k, a, s, h, x), NEW t, Sound(t),
         View(t) = View(k), t.dirty = k.dirty, t.unflushed = k.unflushed,
         t.possible = k.possible
  PROVE  Good(t, a, s, h, x)
<1>1. Idle(t) = Idle(k)
  BY DEF Idle
<1>2. Covers(t, s) /\ Quiet(t) /\ Clocks(t, a, h, x)
  BY <1>1 DEF Good, Covers, Quiet, Clocks
<1> QED BY <1>2 DEF Good

\* Time passes.
LEMMA OtherClock ==
  ASSUME NEW k, NEW a, NEW s, NEW h, NEW x, Good(k, a, s, h, x),
         NEW b \in 0 .. Interval, NEW g \in [Lba -> Durable .. Interval],
         NEW y \in SUBSET Lba, \A l \in Lba \ y : g[l] <= b,
         \A l \in Lba : h[l] = Durable => g[l] = Durable
  PROVE  Good(k, b, s, g, y)
  BY SMTT(30) DEF Good, Clocks

\* cache_write_back(), whether it fails or not.
LEMMA WriteBackGood ==
  ASSUME NEW k, NEW a, NEW s, NEW h, NEW x, Good(k, a, s, h, x), NEW o \in Outcomes(k.dirty)
  PROVE  Good(cache_write_back(k, o), a, s, h, x)
<1> DEFINE t == cache_write_back(k, o)
<1>1. Sound(k)
  BY DEF Good
<1>2. /\ Sound(t) /\ View(t) = View(k) /\ t.dirty \subseteq k.dirty
      /\ Idle(t) => Idle(k) /\ t.possible = k.possible
      /\ \A l \in Lba : t.possible[l] \subseteq k.possible[l] \cup {View(k)[l]}
  BY <1>1, WriteBackFacts
<1> HIDE DEF t
<1>3. Cardinality(t.dirty) <= CACHE_DIRTY_LIMIT
  <2>1. Cardinality(t.dirty) <= Cardinality(k.dirty)
    BY <1>1, <1>2, DirtyCount, FS_Subset, SMTT(30)
  <2>2. Cardinality(t.dirty) \in Nat /\ Cardinality(k.dirty) \in Nat
    BY <1>1, <1>2, DirtyCount
  <2> QED BY <2>1, <2>2, LimitFacts DEF Good
<1>4. Covers(t, s)
  BY <1>2 DEF Good, Covers
<1>5. Quiet(t) /\ Clocks(t, a, h, x)
  BY <1>2, SMTT(30) DEF Good, Quiet, Clocks
<1> QED BY <1>2, <1>3, <1>4, <1>5 DEF Good, t

\* An overwritten sector with the quota not full: the clock starts when the
\* cache was idle.
LEMMA WrittenGood ==
  ASSUME NEW k, NEW a, NEW s, NEW h, NEW x, Good(k, a, s, h, x),
         Cardinality(k.dirty) < CACHE_DIRTY_LIMIT, NEW l \in Lba, NEW v \in Value
  PROVE  LET t == Written(Touched(IF l \in Cached(k) THEN k ELSE cache_take_victim(k), l), l, v)
         IN  /\ View(t) = [View(k) EXCEPT ![l] = v]
             /\ Good(t, IF l \notin k.dirty /\ Idle(k) THEN 0 ELSE a,
                     [s EXCEPT ![l] = s[l] \cup {v}],
                     [h EXCEPT ![l] = IF h[l] = Durable THEN 0 ELSE h[l]], x)
<1> DEFINE t == Written(Touched(IF l \in Cached(k) THEN k ELSE cache_take_victim(k), l), l, v)
           b == IF l \notin k.dirty /\ Idle(k) THEN 0 ELSE a
           r == [s EXCEPT ![l] = s[l] \cup {v}]
           g == [h EXCEPT ![l] = IF h[l] = Durable THEN 0 ELSE h[l]]
<1>1. Sound(k) /\ Cardinality(k.dirty) \in Nat /\ IsFiniteSet(k.dirty)
  BY DirtyCount DEF Good
<1>2. HasVictim(k)
  BY <1>1, VictimThere, LimitFacts, SMTT(30)
<1>3. /\ Sound(t) /\ View(t) = [View(k) EXCEPT ![l] = v] /\ t.dirty = k.dirty \cup {l}
      /\ t.unflushed = k.unflushed /\ t.possible = k.possible
  BY <1>1, <1>2, WrittenFacts, SMTT(30)
<1> HIDE DEF t
<1>4. Cardinality(t.dirty) <= CACHE_DIRTY_LIMIT
  <2>1. Cardinality(t.dirty) <= Cardinality(k.dirty) + 1
    <3>1. Cardinality(k.dirty \cup {l}) =
            IF l \in k.dirty THEN Cardinality(k.dirty) ELSE Cardinality(k.dirty) + 1
      BY <1>1, FS_AddElement, Zenon
    <3> QED BY <1>1, <1>3, <3>1
  <2>2. Cardinality(t.dirty) \in Nat
    BY <1>3, DirtyCount, SMTT(30)
  <2> QED BY <1>1, <2>1, <2>2, LimitFacts, SMTT(30)
<1>5. r \in [Lba -> SUBSET Value] /\ Covers(t, r)
  <2>1. s \in [Lba -> SUBSET Value] /\ Covers(k, s) /\ View(k) \in [Lba -> Value]
    BY <1>1, CacheFields DEF Good, View
  <2> QED BY <1>3, <2>1 DEF Covers
<1>6. ~Idle(t)
  BY <1>3, SMTT(30) DEF Idle
<1>7. b \in 0 .. Interval /\ g \in [Lba -> Durable .. Interval] /\ \A m \in Lba \ x : g[m] <= b
  <2>1. /\ a \in 0 .. Interval /\ h \in [Lba -> Durable .. Interval]
        /\ \A m \in Lba \ x : h[m] <= a
        /\ Idle(k) => \A m \in Lba : h[m] = Durable
    BY DEF Good, Clocks
  <2>2. Durable = -1 /\ Interval \in Nat
    BY BlockCacheAssumption DEF Durable
  <2>3. CASE l \notin k.dirty /\ Idle(k)
    BY <2>1, <2>2, <2>3
  <2>4. CASE ~(l \notin k.dirty /\ Idle(k))
    BY <2>1, <2>2, <2>4, SMTT(30)
  <2> QED BY <2>3, <2>4
<1> HIDE DEF b, r, g
<1>8. Good(t, b, r, g, x)
  BY <1>3, <1>4, <1>5, <1>6, <1>7, SMTT(30) DEF Good, Quiet, Clocks
<1> QED BY <1>3, <1>8 DEF t, b, r, g

\* A successful sync: what the device holds is what is read.
LEMMA SyncGood ==
  ASSUME NEW k, NEW a, NEW s, NEW h, NEW x, Good(k, a, s, h, x), NEW o \in Outcomes(k.dirty), o.ok, NEW t,
         t = IF cache_write_back(k, o).unflushed
             THEN Flushed(cache_write_back(k, o)) ELSE cache_write_back(k, o)
  PROVE  /\ View(t) = View(k)
         /\ Good(t, a, [l \in Lba |-> {View(k)[l]}], [l \in Lba |-> Durable], {})
<1> DEFINE w == cache_write_back(k, o)
           r == [l \in Lba |-> {View(k)[l]}]
           g == [l \in Lba |-> Durable]
<1>1. Sound(k) /\ Sound(w) /\ View(w) = View(k) /\ w.dirty = {} /\ Good(w, a, s, h, x)
  BY WriteBackFacts, WriteBackGood DEF Good
<1>2. t = IF w.unflushed THEN Flushed(w) ELSE w
  OBVIOUS
<1> HIDE DEF w
<1>3. View(w) \in [Lba -> Value] /\ \A l \in Lba : View(w)[l] = w.device[l]
  BY <1>1, CacheFields, SMTT(30) DEF View, Sound
<1>4. Sound(t) /\ View(t) = View(w) /\ t.dirty = {} /\ \A l \in Lba : t.possible[l] = {View(w)[l]}
  <2>1. CASE w.unflushed
    <3> DEFINE p == [l \in Lba |-> {w.device[l]}]
    <3>1. w \in Cache /\ p \in [Lba -> SUBSET Value]
      BY <1>1, CacheFields DEF Sound
    <3>2. t = [w EXCEPT !.unflushed = FALSE, !.possible = p]
      BY <1>2, <2>1 DEF Flushed
    <3> HIDE DEF p
    <3>3. /\ t \in Cache /\ t.lru = w.lru /\ t.data = w.data /\ t.dirty = w.dirty
          /\ t.device = w.device /\ t.possible = p
      BY <3>1, <3>2, ZenonT(40) DEF Cache
    <3>4. Cached(t) = Cached(w)
      BY <3>3, SMTT(30) DEF Cached
    <3>5. Sound(t) /\ View(t) = View(w)
      BY <1>1, <3>3, <3>4, SMTT(30) DEF Sound, View
    <3> QED BY <1>1, <1>3, <3>3, <3>5, SMTT(30) DEF p
  <2>2. CASE ~w.unflushed
    BY <1>1, <1>2, <2>2, SMTT(30) DEF Good, Quiet, Idle
  <2> QED BY <2>1, <2>2, SMTT(30)
<1>5. Cardinality(t.dirty) <= CACHE_DIRTY_LIMIT
  BY <1>4, FS_EmptySet, LimitFacts, SMTT(30)
<1>6. r \in [Lba -> SUBSET Value] /\ Covers(t, r) /\ Quiet(t)
  BY <1>1, <1>3, <1>4 DEF Covers, Quiet
<1>7. Clocks(t, a, g, {})
  <2>1. a \in 0 .. Interval
    BY SMTT(30) DEF Good, Clocks
  <2> QED BY <2>1, BlockCacheAssumption DEF Clocks, Durable
<1> HIDE DEF r, g
<1>8. Good(t, a, r, g, {})
  BY <1>4, <1>5, <1>6, <1>7 DEF Good
<1> QED BY <1>1, <1>4, <1>8, SMTT(30) DEF r, g

\* block_cache_invalidate(): the entries of an idle cache can be dropped.
LEMMA DroppedGood ==
  ASSUME NEW k, NEW a, NEW s, NEW h, NEW x, Good(k, a, s, h, x), k.dirty = {}, NEW t,
         t = [k EXCEPT !.lru = <<>>]
  PROVE  View(t) = View(k) /\ Good(t, a, s, h, x)
<1>1. Sound(k)
  BY DEF Good
<1>2. <<>> \in Seq(Lba) /\ Len(<<>>) = 0 /\ DOMAIN <<>> = {}
  OBVIOUS
<1>3. /\ t \in Cache /\ t.lru = <<>> /\ t.data = k.data /\ t.dirty = {}
      /\ t.unflushed = k.unflushed /\ t.device = k.device /\ t.possible = k.possible
  BY <1>1, <1>2, Zenon DEF Sound, Cache
<1>4. Cached(t) = {} /\ IsInjective(t.lru)
  BY <1>2, <1>3 DEF Cached, Range, IsInjective
<1>5. Sound(t)
  BY <1>2, <1>3, <1>4, BlockCacheAssumption DEF Sound
<1>6. View(t) = View(k)
  BY <1>1, <1>3, <1>4, SMTT(30) DEF Sound, View
<1> QED BY <1>3, <1>5, <1>6, SameContents, Zenon

\* block_cache_init(), over a device that holds d.
LEMMA FreshGood ==
  ASSUME NEW d \in [Lba -> Value], NEW k,
         k = [lru |-> <<>>, data |-> d, dirty |-> {}, unflushed |-> FALSE, device |-> d,
              possible |-> [l \in Lba |-> {d[l]}]]
  PROVE  View(k) = d /\ Good(k, Interval, [l \in Lba |-> {d[l]}], [l \in Lba |-> Durable], {})
<1> DEFINE p == [l \in Lba |-> {d[l]}]
           g == [l \in Lba |-> Durable]
<1>1. <<>> \in Seq(Lba) /\ Len(<<>>) = 0 /\ DOMAIN <<>> = {}
  OBVIOUS
<1>2. p \in [Lba -> SUBSET Value] /\ \A l \in Lba : p[l] = {d[l]}
  OBVIOUS
<1> HIDE DEF p
<1>3. /\ k \in Cache /\ k.lru = <<>> /\ k.data = d /\ k.dirty = {} /\ k.device = d
      /\ k.possible = p
  BY <1>1, <1>2 DEF Cache, p
<1>4. Cached(k) = {} /\ IsInjective(k.lru)
  BY <1>1, <1>3, SMTT(30) DEF Cached, Range, IsInjective
<1>5. Sound(k) /\ View(k) = d
  BY <1>1, <1>3, <1>4, BlockCacheAssumption, SMTT(30) DEF Sound, View
<1>6. Cardinality(k.dirty) <= CACHE_DIRTY_LIMIT
  BY <1>3, FS_EmptySet, LimitFacts
<1>7. Covers(k, p) /\ Quiet(k)
  BY <1>2, <1>3, <1>5, Zenon DEF Covers, Quiet
<1>8. Clocks(k, Interval, g, {})
  BY BlockCacheAssumption DEF Clocks, Durable
<1> HIDE DEF g
<1> QED BY <1>2, <1>5, <1>6, <1>7, <1>8, SMTT(30) DEF Good, p, g

-----------------------------------------------------------------------------
(* The actions.  Each keeps the invariant and is a step of the disk, or none. *)

\* A cache just started is sound and a disk in its initial state.
LEMMA InitHolds == Init => IInv /\ D!Init
<1> SUFFICES ASSUME Init PROVE IInv /\ D!Init
  OBVIOUS
<1>1. PICK d \in [Lba -> Value] :
        /\ c = [lru |-> <<>>, data |-> d, dirty |-> {}, unflushed |-> FALSE, device |-> d,
                possible |-> [l \in Lba |-> {d[l]}]]
        /\ since = [l \in Lba |-> {d[l]}]
  BY Zenon DEF Init
<1>2. age = Interval /\ held = [l \in Lba |-> Durable] /\ tried = {}
  BY SMTT(30) DEF Init
<1>3. View(c) = d /\ Good(c, age, since, held, tried)
  BY <1>1, <1>2, FreshGood, SMTT(30)
<1> QED BY <1>1, <1>3, Zenon DEF IInv, D!Init, Logical

\* block_read_cached(): a hit, a miss, and a read that fails.
LEMMA ReadStep ==
  ASSUME IInv, NEW l \in Lba, block_read_cached(l)
  PROVE  IInv' /\ UNCHANGED <<Logical, since>>
<1>1. Good(c, age, since, held, tried) /\ Sound(c) /\ UNCHANGED <<age, since, held, tried>>
  BY DEF IInv, Good, block_read_cached
<1>2. CASE l \in Cached(c)
  <2>1. c' = Touched(c, l)
    BY <1>2 DEF block_read_cached
  <2>2. /\ Sound(c') /\ View(c') = View(c) /\ c'.dirty = c.dirty
        /\ c'.unflushed = c.unflushed /\ c'.possible = c.possible
    BY <1>1, <1>2, <2>1, HitFacts, SMTT(30)
  <2> QED BY <1>1, <2>2, SameContents DEF IInv, Logical
<1>3. CASE l \notin Cached(c) /\ HasVictim(c) /\ c' = Touched(Loaded(cache_take_victim(c), l), l)
  <2>1. /\ Sound(c') /\ View(c') = View(c) /\ c'.dirty = c.dirty
        /\ c'.unflushed = c.unflushed /\ c'.possible = c.possible
    BY <1>1, <1>3, ReadFacts, SMTT(30)
  <2> QED BY <1>1, <2>1, SameContents DEF IInv, Logical
<1>4. CASE HasVictim(c) /\ c' = cache_take_victim(c)
  <2>1. /\ Sound(c') /\ View(c') = View(c) /\ c'.dirty = c.dirty
        /\ c'.unflushed = c.unflushed /\ c'.possible = c.possible
    BY <1>1, <1>4, TakeVictim, SMTT(30) DEF SameBut
  <2> QED BY <1>1, <2>1, SameContents DEF IInv, Logical
<1> QED BY <1>2, <1>3, <1>4, SMTT(30) DEF block_read_cached

\* Stored(), on a cache k that reads as c does.
LEMMA StoredStep ==
  ASSUME NEW k, Good(k, age, since, held, tried), Cardinality(k.dirty) < CACHE_DIRTY_LIMIT,
         View(k) = Logical, NEW l \in Lba, NEW v \in Value, Stored(k, l, v),
         since' = [since EXCEPT ![l] = since[l] \cup {v}]
  PROVE  IInv' /\ D!Write(l, v)
<1>1. Sound(k) /\ View(k) \in [Lba -> Value] /\ since \in [Lba -> SUBSET Value]
  BY CacheFields DEF Good, View
<1>2. CASE l \in Cached(k) /\ k.data[l] = v
  <2>1. c' = Touched(k, l) /\ UNCHANGED <<age, held, tried>>
    BY <1>2, SMTT(30) DEF Stored
  <2>2. /\ Sound(c') /\ View(c') = View(k) /\ c'.dirty = k.dirty
        /\ c'.unflushed = k.unflushed /\ c'.possible = k.possible
    BY <1>1, <1>2, <2>1, HitFacts, SMTT(30)
  <2>3. View(k)[l] = v
    BY <1>2, SMTT(30) DEF View
  <2>4. since[l] \cup {v} = since[l]
    BY <2>3 DEF Good, Covers
  <2>5. since' = since
    BY <1>1, <2>4
  <2>6. Good(c', age', since', held', tried')
    BY <2>1, <2>2, <2>5, SameContents, ZenonT(40)
  <2>7. Logical' = [Logical EXCEPT ![l] = v]
    BY <1>1, <2>2, <2>3, SMTT(30) DEF Logical
  <2> QED BY <2>6, <2>7, SMTT(30) DEF IInv, D!Write
<1>3. CASE ~(l \in Cached(k) /\ k.data[l] = v)
  <2>1. /\ c' = Written(Touched(IF l \in Cached(k) THEN k ELSE cache_take_victim(k), l), l, v)
        /\ age' = IF l \notin k.dirty /\ Idle(k) THEN 0 ELSE age
        /\ held' = [held EXCEPT ![l] = IF held[l] = Durable THEN 0 ELSE held[l]]
        /\ tried' = tried
    BY <1>3 DEF Stored, MarkedAt
  <2>2. View(c') = [View(k) EXCEPT ![l] = v] /\ Good(c', age', since', held', tried)
    <3> DEFINE t == Written(Touched(IF l \in Cached(k) THEN k ELSE cache_take_victim(k), l), l, v)
    <3>1. /\ View(t) = [View(k) EXCEPT ![l] = v]
          /\ Good(t, IF l \notin k.dirty /\ Idle(k) THEN 0 ELSE age,
                  [since EXCEPT ![l] = since[l] \cup {v}],
                  [held EXCEPT ![l] = IF held[l] = Durable THEN 0 ELSE held[l]], tried)
      BY WrittenGood, ZenonT(60)
    <3> QED BY <2>1, <3>1, ZenonT(60)
  <2> QED BY <2>1, <2>2, SMTT(30) DEF IInv, D!Write, Logical
<1> QED BY <1>2, <1>3, SMTT(30)

\* block_write_cached(), with the write-back of a full quota before it.
LEMMA WriteStep ==
  ASSUME IInv, NEW l \in Lba, NEW v \in Value, block_write_cached(l, v)
  PROVE  IInv' /\ (D!Write(l, v) \/ UNCHANGED <<Logical, since>>)
<1>1. Good(c, age, since, held, tried) /\ Sound(c) /\ Cardinality(c.dirty) \in Nat
  BY DirtyCount DEF IInv, Good
<1>2. CASE /\ ~AtDirtyLimit(c) /\ Stored(c, l, v)
           /\ since' = [since EXCEPT ![l] = since[l] \cup {v}]
  <2>1. Cardinality(c.dirty) < CACHE_DIRTY_LIMIT
    BY <1>1, <1>2, LimitFacts DEF AtDirtyLimit
  <2> QED BY <1>1, <1>2, <2>1, StoredStep, Zenon DEF Logical
<1>3. CASE \E o \in Outcomes(c.dirty) : o.ok /\ Stored(cache_write_back(c, o), l, v)
             /\ since' = [since EXCEPT ![l] = since[l] \cup {v}]
  <2>1. PICK o \in Outcomes(c.dirty) : o.ok /\ Stored(cache_write_back(c, o), l, v)
             /\ since' = [since EXCEPT ![l] = since[l] \cup {v}]
    BY <1>3, SMTT(30)
  <2> DEFINE w == cache_write_back(c, o)
  <2>2. Good(w, age, since, held, tried) /\ View(w) = Logical /\ w.dirty = {}
    BY <1>1, <2>1, WriteBackFacts, WriteBackGood, SMTT(30) DEF Logical
  <2>3. Stored(w, l, v)
    BY <2>1
  <2> HIDE DEF w
  <2>4. Cardinality(w.dirty) < CACHE_DIRTY_LIMIT
    BY <2>2, FS_EmptySet, LimitFacts, SMTT(30)
  <2> QED BY <2>1, <2>2, <2>3, <2>4, StoredStep, ZenonT(40)
<1>4. CASE \E o \in Outcomes(c.dirty) :
             c' = cache_write_back(c, o) /\ UNCHANGED <<age, since, held, tried>>
  <2>1. View(c') = View(c) /\ Good(c', age, since, held, tried)
    BY <1>1, <1>4, WriteBackFacts, WriteBackGood, SMTT(30)
  <2> QED BY <1>4, <2>1, SMTT(30) DEF IInv, Logical
<1> QED BY <1>2, <1>3, <1>4, SMTT(30) DEF block_write_cached

\* A successful sync, by a call or by the tick.
LEMMA SyncOkStep ==
  ASSUME IInv, SyncOk, UNCHANGED age
  PROVE  IInv' /\ D!Sync
<1>1. PICK o \in Outcomes(c.dirty) :
        /\ o.ok
        /\ c' = IF cache_write_back(c, o).unflushed
                THEN Flushed(cache_write_back(c, o)) ELSE cache_write_back(c, o)
  BY DEF SyncOk
<1>2. since' = [l \in Lba |-> {View(c)[l]}] /\ held' = [l \in Lba |-> Durable] /\ tried' = {}
  BY SMTT(30) DEF SyncOk, Logical
<1>3. View(c') = View(c) /\ Good(c', age', since', held', tried')
  BY <1>1, <1>2, SyncGood, SMTT(30) DEF IInv
<1> QED BY <1>2, <1>3, SMTT(30) DEF IInv, D!Sync, Logical

\* A sync that fails changes nothing as seen through the cache.
LEMMA SyncFailsStep ==
  ASSUME IInv, SyncFails
  PROVE  Good(c', age, since, held, tried) /\ View(c') = View(c)
<1>1. PICK o \in Outcomes(c.dirty) : c' = cache_write_back(c, o)
  BY DEF SyncFails
<1>2. Sound(c)
  BY DEF IInv, Good
<1> QED BY <1>1, <1>2, WriteBackFacts, WriteBackGood, SMTT(30) DEF IInv

\* The failed tick restarts the clock.
LEMMA TickFailsStep ==
  ASSUME IInv, block_cache_tick_fails
  PROVE  IInv' /\ UNCHANGED <<Logical, since>>
<1>1. Good(c', age, since, held, tried) /\ View(c') = View(c)
  BY SyncFailsStep DEF block_cache_tick_fails
<1>2. /\ age' = 0 /\ tried' = {l \in Lba : held[l] # Durable}
      /\ held' = held /\ since' = since
  BY DEF block_cache_tick_fails
<1>3. /\ age' \in 0 .. Interval /\ held' \in [Lba -> Durable .. Interval]
      /\ tried' \in SUBSET Lba /\ \A l \in Lba \ tried' : held'[l] <= age'
      /\ \A l \in Lba : held[l] = Durable => held'[l] = Durable
  BY <1>1, <1>2, BlockCacheAssumption, SMTT(30) DEF Durable, Good, Clocks
<1>4. Good(c', age', since, held', tried')
  BY <1>1, <1>3, OtherClock
<1> QED BY <1>1, <1>2, <1>4 DEF IInv, Logical

\* block_cache_invalidate(), once the sync before it succeeded.
LEMMA InvalidateStep ==
  ASSUME IInv, block_cache_invalidate
  PROVE  IInv' /\ UNCHANGED <<Logical, since>>
<1>1. /\ c.dirty = {} /\ c' = [c EXCEPT !.lru = <<>>] /\ age' = Interval
      /\ UNCHANGED <<since, held, tried>>
  BY DEF block_cache_invalidate, Idle
<1>2. View(c') = View(c) /\ Good(c', age, since, held, tried)
  BY <1>1, DroppedGood DEF IInv
<1>3. /\ age \in 0 .. Interval /\ held \in [Lba -> Durable .. Interval]
      /\ tried \in SUBSET Lba /\ \A l \in Lba \ tried : held[l] <= age
  BY DEF IInv, Good, Clocks
<1>4. age' \in 0 .. Interval /\ \A l \in Lba \ tried : held[l] <= age'
  BY <1>1, <1>3, BlockCacheAssumption, SMTT(30) DEF Durable
<1>5. Good(c', age', since, held, tried)
  BY <1>2, <1>3, <1>4, OtherClock, SMTT(30)
<1> QED BY <1>1, <1>2, <1>5 DEF IInv, Logical

\* Time passes for the cache and for the data it holds.
LEMMA ClockStep ==
  ASSUME IInv, Clock
  PROVE  IInv' /\ UNCHANGED <<Logical, since>>
<1>1. /\ age < Interval /\ age' = age + 1 /\ UNCHANGED <<c, since, tried>>
      /\ held' = [l \in Lba |-> IF held[l] \in {Durable, Interval} THEN held[l] ELSE held[l] + 1]
  BY DEF Clock
<1>2. /\ age \in 0 .. Interval /\ held \in [Lba -> Durable .. Interval]
      /\ tried \in SUBSET Lba /\ \A l \in Lba \ tried : held[l] <= age
  BY DEF IInv, Good, Clocks
<1>3. /\ age' \in 0 .. Interval /\ held' \in [Lba -> Durable .. Interval]
      /\ \A l \in Lba \ tried : held'[l] <= age'
      /\ \A l \in Lba : held[l] = Durable => held'[l] = Durable
  BY <1>1, <1>2, BlockCacheAssumption, SMTT(30) DEF Durable
<1>4. Good(c, age', since, held', tried)
  BY <1>2, <1>3, OtherClock DEF IInv
<1> QED BY <1>1, <1>4 DEF IInv, Logical

\* After a power cut the disk holds what each sector may come back with.
LEMMA PowerCutStep ==
  ASSUME IInv, PowerCut
  PROVE  IInv' /\ D!PowerCut
<1>1. PICK d \in [Lba -> Value] :
        /\ \A l \in Lba : d[l] \in c.possible[l]
        /\ c' = [c EXCEPT !.lru = <<>>, !.data = d, !.dirty = {}, !.unflushed = FALSE, !.device = d,
                          !.possible = [l \in Lba |-> {d[l]}]]
        /\ since' = [l \in Lba |-> {d[l]}]
  BY Zenon DEF PowerCut
<1>2. age' = Interval /\ held' = [l \in Lba |-> Durable] /\ tried' = {}
  BY DEF PowerCut
<1>3. c' = [lru |-> <<>>, data |-> d, dirty |-> {}, unflushed |-> FALSE, device |-> d,
            possible |-> [l \in Lba |-> {d[l]}]]
  BY <1>1, ZenonT(40) DEF IInv, Good, Sound, Cache
<1>4. View(c') = d /\ Good(c', age', since', held', tried')
  BY <1>1, <1>2, <1>3, FreshGood, Zenon
<1>5. \A l \in Lba : d[l] \in since[l]
  BY <1>1, SMTT(30) DEF IInv, Good, Covers
<1> QED BY <1>1, <1>4, <1>5, ZenonT(40) DEF IInv, D!PowerCut, Logical

\* Every step keeps the cache sound and is a step of the disk, or none.
LEMMA NextHolds == IInv /\ [Next]_vars => IInv' /\ [D!Next]_<<Logical, since>>
<1> SUFFICES ASSUME IInv, [Next]_vars PROVE IInv' /\ [D!Next]_<<Logical, since>>
  OBVIOUS
<1>1. ASSUME NEW l \in Lba, block_read_cached(l) PROVE IInv' /\ [D!Next]_<<Logical, since>>
  BY <1>1, ReadStep
<1>2. ASSUME NEW l \in Lba, NEW v \in Value, block_write_cached(l, v)
      PROVE  IInv' /\ [D!Next]_<<Logical, since>>
  BY <1>2, WriteStep DEF D!Next
<1>3. CASE SyncOk /\ UNCHANGED age
  BY <1>3, SyncOkStep DEF D!Next
<1>4. CASE SyncFails /\ UNCHANGED <<age, since, held, tried>>
  BY <1>4, SyncFailsStep DEF IInv, Logical
<1>5. CASE block_cache_invalidate
  BY <1>5, InvalidateStep
<1>6. CASE block_cache_tick_fails
  BY <1>6, TickFailsStep, SMTT(30)
<1>7. CASE Clock
  BY <1>7, ClockStep
<1>8. CASE PowerCut
  BY <1>8, PowerCutStep DEF D!Next
<1>9. CASE UNCHANGED vars
  BY <1>9 DEF vars, IInv, Logical
<1> QED
  BY <1>1, <1>2, <1>3, <1>4, <1>5, <1>6, <1>7, <1>8, <1>9, SMTT(30)
     DEF Next, block_cache_sync, block_cache_tick_ok

-----------------------------------------------------------------------------
(* The theorems. *)

\* The entries of the cache are sound in every state: a write that needs an
\* entry finds one that is free or clean, clean entries match the device, an
\* idle cache has nothing that a power cut could undo, and the clock of the tick
\* is no later than the oldest data of a sector no tick has tried in vain.
THEOREM EntriesAreSound == Spec => []EntriesSound
<1>1. Init => IInv
  BY InitHolds
<1>2. IInv /\ [Next]_vars => IInv'
  BY NextHolds
<1>3. IInv => EntriesSound
  BY InvImplies
<1> QED BY <1>1, <1>2, <1>3, PTL DEF Spec

\* Through the cache the device is the disk block_cache.h promises: reads return
\* what was last written, and a power cut undoes no write before the last
\* successful sync.
THEOREM CacheImplementsDisk == Spec => CacheIsDisk
<1>1. Init => IInv /\ D!Init
  BY InitHolds
<1>2. IInv /\ [Next]_vars => IInv' /\ [D!Next]_<<Logical, since>>
  BY NextHolds
<1> QED BY <1>1, <1>2, PTL DEF Spec, CacheIsDisk, D!Spec
=============================================================================
