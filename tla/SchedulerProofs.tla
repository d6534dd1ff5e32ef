-------------------------- MODULE SchedulerProofs ---------------------------
(***************************************************************************)
(* The safety properties of Scheduler, proved for any number of processes, *)
(* priorities and signals.  The lemmas say what the operators on a process *)
(* table t keep; the theorems follow action by action.                     *)
(***************************************************************************)
EXTENDS Scheduler, TLAPS

Ring(t) == Range(t.ring)

Once(ring) == \A i, j \in DOMAIN ring : ring[i] = ring[j] => i = j

\* A table of processes with pids below n: every process is on the list once
\* and all the living are on it; what is not on it has the fields of a new
\* process; and whoever is blocked on a child has a living one.
Good(t, n) ==
  /\ t \in Table /\ Once(t.ring) /\ t.alive \subseteq Ring(t)
  /\ \A p \in Ring(t) : p < n
  /\ \A p \in Pid \ Ring(t) : t.state[p] = "RUNNABLE" /\ t.call[p] = "none"
  /\ \A p \in t.alive : t.state[p] = "BLOCKED_WAIT" =>
       t.job[p] \in t.alive /\ t.parent[t.job[p]] = p

\* On the list only the process the scheduler came from may be dead.
DeadIsPrev == Ring(table) \ table.alive \subseteq IF cpu.mode = "pick" THEN {cpu.prev} ELSE {}

IInv ==
  /\ Good(table, next_pid)
  /\ cpu \in Cpu /\ next_pid \in 1 .. MaxPid + 1
  /\ bootstrap \in Pid \cup {None} /\ owner \in Pid \cup {None}
  /\ NothingFreedInUse /\ DeadIsPrev /\ RunsResumed

-----------------------------------------------------------------------------
(* The list. *)

\* Pids are positive.
LEMMA Pids == None \notin Pid /\ Pid \subseteq Nat
BY DEF Pid, None

\* A process on the list has a place on it.
LEMMA PlaceFacts ==
  ASSUME NEW s \in Seq(Pid), NEW p \in Range(s)
  PROVE  /\ Place(s, p) \in 1 .. Len(s) /\ s[Place(s, p)] = p /\ p \in Pid
         /\ Len(s) \in Nat /\ DOMAIN s = 1 .. Len(s)
<1>1. Len(s) \in Nat /\ DOMAIN s = 1 .. Len(s)
  OBVIOUS
<1>2. PICK i \in 1 .. Len(s) : s[i] = p
  BY <1>1 DEF Range
<1>3. p \in Pid /\ p # None
  BY <1>1, <1>2, Pids
<1> QED BY <1>1, <1>2, <1>3 DEF Place

\* A piece of a list.
LEMMA Piece ==
  ASSUME NEW s \in Seq(Pid), NEW m \in 1 .. Len(s) + 1, NEW n \in 0 .. Len(s), m <= n + 1
  PROVE  LET u == SubSeq(s, m, n)
         IN  u \in Seq(Pid) /\ Len(u) = n - m + 1 /\ \A j \in 1 .. n - m + 1 : u[j] = s[m + j - 1]
<1> DEFINE u == SubSeq(s, m, n)
<1>1. u \in Seq(Pid)
  OBVIOUS
<1>2. Len(u) = n - m + 1
  OBVIOUS
<1>3. \A j \in 1 .. n - m + 1 : u[j] = s[m + j - 1]
  OBVIOUS
<1> QED BY <1>1, <1>2, <1>3

\* Two lists, one after the other.
LEMMA Joined ==
  ASSUME NEW s \in Seq(Pid), NEW t \in Seq(Pid)
  PROVE  /\ s \o t \in Seq(Pid) /\ Len(s \o t) = Len(s) + Len(t)
         /\ \A j \in 1 .. Len(s) + Len(t) : (s \o t)[j] = IF j <= Len(s) THEN s[j] ELSE t[j - Len(s)]
<1>1. s \o t \in Seq(Pid)
  OBVIOUS
<1>2. Len(s \o t) = Len(s) + Len(t)
  OBVIOUS
<1>3. \A j \in 1 .. Len(s) + Len(t) : (s \o t)[j] = IF j <= Len(s) THEN s[j] ELSE t[j - Len(s)]
  OBVIOUS
<1> QED BY <1>1, <1>2, <1>3

\* Taking a process off the list leaves the others on it.
LEMMA RemoveFacts ==
  ASSUME NEW s \in Seq(Pid), Once(s), NEW p \in Range(s)
  PROVE  LET t == Removed(s, Place(s, p))
         IN  t \in Seq(Pid) /\ Once(t) /\ Range(t) = Range(s) \ {p}
<1> DEFINE i == Place(s, p)
           t == Removed(s, i)
<1>1. i \in 1 .. Len(s) /\ s[i] = p /\ Len(s) \in Nat /\ DOMAIN s = 1 .. Len(s)
  BY PlaceFacts
<1> HIDE DEF i
<1> DEFINE u == SubSeq(s, 1, i - 1)
           v == SubSeq(s, i + 1, Len(s))
<1>2a. u \in Seq(Pid) /\ Len(u) = i - 1 /\ \A j \in 1 .. i - 1 : u[j] = s[j]
  <2>1. 1 \in 1 .. Len(s) + 1 /\ i - 1 \in 0 .. Len(s) /\ 1 <= (i - 1) + 1
    BY <1>1
  <2> HIDE DEF u
  <2>2. u \in Seq(Pid) /\ Len(u) = (i - 1) - 1 + 1 /\ \A j \in 1 .. (i - 1) - 1 + 1 : u[j] = s[1 + j - 1]
    BY <2>1, Piece DEF u
  <2> QED BY <1>1, <2>2
<1>2b. v \in Seq(Pid) /\ Len(v) = Len(s) - i /\ \A j \in 1 .. Len(s) - i : v[j] = s[i + j]
  <2>1. i + 1 \in 1 .. Len(s) + 1 /\ Len(s) \in 0 .. Len(s) /\ i + 1 <= Len(s) + 1
    BY <1>1
  <2> HIDE DEF v
  <2>2. v \in Seq(Pid) /\ Len(v) = Len(s) - (i + 1) + 1 /\ \A j \in 1 .. Len(s) - (i + 1) + 1 : v[j] = s[(i + 1) + j - 1]
    BY <2>1, Piece DEF v
  <2> QED BY <1>1, <2>2
<1>2c. t = u \o v
  BY DEF Removed
<1> HIDE DEF u, v, t
<1>2d. /\ t \in Seq(Pid) /\ Len(t) = Len(u) + Len(v)
       /\ \A j \in 1 .. Len(u) + Len(v) : t[j] = IF j <= Len(u) THEN u[j] ELSE v[j - Len(u)]
  BY <1>2a, <1>2b, <1>2c, Joined, Zenon
<1>2e. Len(u) + Len(v) = Len(s) - 1
  BY <1>1, <1>2a, <1>2b
<1>2. t \in Seq(Pid) /\ Len(t) = Len(s) - 1 /\ DOMAIN t = 1 .. Len(s) - 1
  BY <1>2d, <1>2e
<1>3. ASSUME NEW j \in 1 .. Len(s) - 1 PROVE t[j] = IF j < i THEN s[j] ELSE s[j + 1]
  <2>1. t[j] = IF j <= i - 1 THEN u[j] ELSE v[j - (i - 1)]
    BY <1>2a, <1>2d, <1>2e
  <2>2. j < i => j \in 1 .. i - 1
    BY <1>1
  <2>3. ~(j < i) => j - (i - 1) \in 1 .. Len(s) - i /\ i + (j - (i - 1)) = j + 1
    BY <1>1
  <2>4. (j <= i - 1) <=> (j < i)
    BY <1>1
  <2> QED BY <1>2a, <1>2b, <2>1, <2>2, <2>3, <2>4
<1>4. \A a, b \in 1 .. Len(s) : s[a] = s[b] => a = b
  BY <1>1 DEF Once
<1>5. Once(t)
  <2>1. SUFFICES ASSUME NEW a \in 1 .. Len(s) - 1, NEW b \in 1 .. Len(s) - 1, t[a] = t[b]
                 PROVE  a = b
    BY <1>2 DEF Once
  <2> DEFINE A == IF a < i THEN a ELSE a + 1
             B == IF b < i THEN b ELSE b + 1
  <2>2. A \in 1 .. Len(s) /\ B \in 1 .. Len(s)
    BY <1>1
  <2>3. s[A] = s[B]
    BY <1>3, <2>1
  <2>4. A = B
    BY <1>4, <2>2, <2>3
  <2> QED BY <1>1, <2>4
<1>6. ASSUME NEW x \in Range(t) PROVE x \in Range(s) \ {p}
  <2>1. PICK j \in 1 .. Len(s) - 1 : t[j] = x
    BY <1>2 DEF Range
  <2> DEFINE J == IF j < i THEN j ELSE j + 1
  <2>2. J \in 1 .. Len(s) /\ J # i
    BY <1>1
  <2>3. s[J] = x
    BY <1>3, <2>1
  <2> HIDE DEF J
  <2>4. s[J] # s[i]
    BY <1>1, <1>4, <2>2
  <2> QED BY <1>1, <2>2, <2>3, <2>4 DEF Range
<1>7. ASSUME NEW x \in Range(s) \ {p} PROVE x \in Range(t)
  <2>1. PICK j \in 1 .. Len(s) : s[j] = x
    BY <1>1 DEF Range
  <2> DEFINE J == IF j < i THEN j ELSE j - 1
  <2>2. j # i
    BY <1>1, <2>1
  <2>3. J \in 1 .. Len(s) - 1 /\ t[J] = x
    BY <1>1, <1>3, <2>1, <2>2
  <2> QED BY <1>2, <2>3, SMTT(30) DEF Range
<1> QED BY <1>2, <1>5, <1>6, <1>7 DEF t, i

\* Putting a new process behind the one at place n adds it to the list.
LEMMA InsertFacts ==
  ASSUME NEW s \in Seq(Pid), Once(s), NEW p \in Pid \ Range(s), NEW n \in 1 .. Len(s)
  PROVE  LET t == Inserted(s, n, p)
         IN  t \in Seq(Pid) /\ Once(t) /\ Range(t) = Range(s) \cup {p}
<1> DEFINE t == Inserted(s, n, p)
<1>1. Len(s) \in Nat /\ DOMAIN s = 1 .. Len(s) /\ n \in Int /\ 1 <= n /\ n <= Len(s)
  OBVIOUS
<1> DEFINE u == SubSeq(s, 1, n)
           v == SubSeq(s, n + 1, Len(s))
           w == u \o <<p>>
<1>2a. u \in Seq(Pid) /\ Len(u) = n /\ \A j \in 1 .. n : u[j] = s[j]
  <2>1. 1 \in 1 .. Len(s) + 1 /\ n \in 0 .. Len(s) /\ 1 <= n + 1
    BY <1>1
  <2> HIDE DEF u
  <2>2. u \in Seq(Pid) /\ Len(u) = n - 1 + 1 /\ \A j \in 1 .. n - 1 + 1 : u[j] = s[1 + j - 1]
    BY <2>1, Piece DEF u
  <2> QED BY <1>1, <2>2
<1>2b. v \in Seq(Pid) /\ Len(v) = Len(s) - n /\ \A j \in 1 .. Len(s) - n : v[j] = s[n + j]
  <2>1. n + 1 \in 1 .. Len(s) + 1 /\ Len(s) \in 0 .. Len(s) /\ n + 1 <= Len(s) + 1
    BY <1>1
  <2> HIDE DEF v
  <2>2. /\ v \in Seq(Pid) /\ Len(v) = Len(s) - (n + 1) + 1
        /\ \A j \in 1 .. Len(s) - (n + 1) + 1 : v[j] = s[(n + 1) + j - 1]
    BY <2>1, Piece DEF v
  <2> QED BY <1>1, <2>2
<1>2c. t = w \o v
  BY DEF Inserted
<1> HIDE DEF u, v, t
<1>2d. /\ w \in Seq(Pid) /\ Len(w) = n + 1 /\ \A j \in 1 .. n : w[j] = s[j]
       /\ w[n + 1] = p
  BY <1>1, <1>2a
<1> HIDE DEF w
<1>2e. /\ t \in Seq(Pid) /\ Len(t) = Len(w) + Len(v)
       /\ \A j \in 1 .. Len(w) + Len(v) : t[j] = IF j <= Len(w) THEN w[j] ELSE v[j - Len(w)]
  BY <1>2b, <1>2c, <1>2d, Joined, Zenon
<1>2f. Len(w) + Len(v) = Len(s) + 1
  BY <1>1, <1>2b, <1>2d
<1>2. t \in Seq(Pid) /\ Len(t) = Len(s) + 1 /\ DOMAIN t = 1 .. Len(s) + 1
  BY <1>2e, <1>2f
<1>3. ASSUME NEW j \in 1 .. Len(s) + 1
      PROVE  t[j] = IF j <= n THEN s[j] ELSE IF j = n + 1 THEN p ELSE s[j - 1]
  <2>1. t[j] = IF j <= n + 1 THEN w[j] ELSE v[j - (n + 1)]
    BY <1>2d, <1>2e, <1>2f
  <2>2. j <= n => j \in 1 .. n /\ j <= n + 1
    BY <1>1
  <2>3. ~(j <= n + 1) => /\ j - (n + 1) \in 1 .. Len(s) - n /\ n + (j - (n + 1)) = j - 1
                         /\ ~(j <= n) /\ j # n + 1
    BY <1>1
  <2>4. j <= n \/ j = n + 1 \/ ~(j <= n + 1)
    BY <1>1
  <2>5. j = n + 1 => j <= n + 1 /\ ~(j <= n)
    BY <1>1
  <2>6. CASE j <= n
    BY <1>2d, <2>1, <2>2, <2>6
  <2>7. CASE j = n + 1
    BY <1>2d, <2>1, <2>5, <2>7
  <2>8. CASE ~(j <= n + 1)
    BY <1>2b, <2>1, <2>3, <2>8, SMTT(30)
  <2> QED BY <2>4, <2>6, <2>7, <2>8
<1>4. \A a, b \in 1 .. Len(s) : s[a] = s[b] => a = b
  BY <1>1 DEF Once
<1>5. \A a \in 1 .. Len(s) : s[a] # p
  BY <1>1 DEF Range
<1>6. Once(t)
  <2>1. SUFFICES ASSUME NEW a \in 1 .. Len(s) + 1, NEW b \in 1 .. Len(s) + 1, t[a] = t[b]
                 PROVE  a = b
    BY <1>2 DEF Once
  <2> DEFINE old(j) == IF j <= n THEN j ELSE j - 1
  <2>2. \A j \in 1 .. Len(s) + 1 : j # n + 1 => old(j) \in 1 .. Len(s) /\ t[j] = s[old(j)]
    BY <1>1, <1>3
  <2>3. t[n + 1] = p
    BY <1>1, <1>3
  <2>4. CASE a = n + 1 \/ b = n + 1
    BY <1>5, <2>1, <2>2, <2>3, <2>4
  <2>5. CASE a # n + 1 /\ b # n + 1
    <3>1. old(a) = old(b)
      BY <1>4, <2>1, <2>2, <2>5
    <3> QED BY <1>1, <2>5, <3>1
  <2> QED BY <2>4, <2>5
<1>7. ASSUME NEW x \in Range(t) PROVE x \in Range(s) \cup {p}
  <2>1. PICK j \in 1 .. Len(s) + 1 : t[j] = x
    BY <1>2 DEF Range
  <2> DEFINE J == IF j <= n THEN j ELSE j - 1
  <2>2. j # n + 1 => J \in 1 .. Len(s) /\ s[J] = x
    BY <1>1, <1>3, <2>1
  <2> QED BY <1>1, <1>3, <2>1, <2>2 DEF Range
<1>8. ASSUME NEW x \in Range(s) \cup {p} PROVE x \in Range(t)
  <2>1. CASE x = p
    <3>1. n + 1 \in 1 .. Len(s) + 1 /\ t[n + 1] = p
      BY <1>1, <1>3
    <3> QED BY <1>2, <2>1, <3>1 DEF Range
  <2>2. CASE x \in Range(s)
    <3>1. PICK j \in 1 .. Len(s) : s[j] = x
      BY <1>1, <2>2 DEF Range
    <3> DEFINE J == IF j <= n THEN j ELSE j + 1
    <3>2. J \in 1 .. Len(s) + 1 /\ t[J] = x
      BY <1>1, <1>3, <3>1
    <3> QED BY <1>2, <3>2 DEF Range
  <2> QED BY <2>1, <2>2
<1> QED BY <1>2, <1>6, <1>7, <1>8 DEF t

-----------------------------------------------------------------------------
(* The process table. *)

\* The fields of a table.
LEMMA TableFields ==
  ASSUME NEW t \in Table
  PROVE  /\ t.ring \in Seq(Pid) /\ t.alive \in SUBSET Pid
         /\ t.state \in [Pid -> {"RUNNABLE", "SLEEPING", "BLOCKED_IO", "BLOCKED_WAIT"}]
         /\ t.call \in [Pid -> {"none", "io", "wait"}] /\ t.job \in [Pid -> Pid \cup {None}]
         /\ t.prio \in [Pid -> Priority] /\ t.parent \in [Pid -> Pid \cup {None}]
         /\ t.pending \in [Pid -> SUBSET Signal]
         /\ Ring(t) \subseteq Pid
<1>1. t.ring \in Seq(Pid)
  BY DEF Table
<1>2. Ring(t) \subseteq Pid
  BY <1>1, PlaceFacts DEF Ring
<1> QED BY <1>1, <1>2 DEF Table

\* From t to u nobody comes or goes, nobody begins to wait for a child, and what
\* is not on the list stays as it is.
Calmer(t, u) ==
  /\ u \in Table /\ u.ring = t.ring /\ u.alive = t.alive /\ u.parent = t.parent
  /\ \A p \in t.alive : u.state[p] = "BLOCKED_WAIT" =>
       t.state[p] = "BLOCKED_WAIT" /\ u.job[p] = t.job[p]
  /\ \A p \in Pid \ Ring(t) : t.state[p] = "RUNNABLE" /\ t.call[p] = "none" =>
       u.state[p] = "RUNNABLE" /\ u.call[p] = "none"

\* A calmer table is as good.
LEMMA CalmerGood ==
  ASSUME NEW t, NEW n, Good(t, n), NEW u, Calmer(t, u)
  PROVE  Good(u, n)
BY DEF Good, Calmer, Ring

\* Calmer and calmer again is calmer.
LEMMA CalmerTrans ==
  ASSUME NEW t, NEW u, NEW w, Calmer(t, u), Calmer(u, w)
  PROVE  Calmer(t, w)
BY DEF Calmer, Ring

\* Waking processes.
LEMMA WakeFacts ==
  ASSUME NEW t \in Table, NEW W
  PROVE  /\ Calmer(t, Wake(t, W))
         /\ Wake(t, W).job = t.job
<1> DEFINE u == Wake(t, W)
           s == [q \in Pid |-> IF q \in W THEN "RUNNABLE" ELSE t.state[q]]
<1>1. u = [t EXCEPT !.state = s]
  BY DEF Wake
<1>2. s \in [Pid -> {"RUNNABLE", "SLEEPING", "BLOCKED_IO", "BLOCKED_WAIT"}]
  BY TableFields
<1>3. /\ u \in Table /\ u.state = s /\ u.ring = t.ring /\ u.alive = t.alive /\ u.parent = t.parent
      /\ u.job = t.job /\ u.call = t.call
  BY <1>1, <1>2, Zenon DEF Table
<1>4. t.alive \subseteq Pid
  BY TableFields
<1> HIDE DEF u
<1>5. Calmer(t, u)
  BY <1>3, <1>4 DEF Calmer
<1> QED BY <1>3, <1>5 DEF u

\* Interrupting waits; a process that is in no call is left alone.
LEMMA InterruptFacts ==
  ASSUME NEW t \in Table, NEW S
  PROVE  /\ Calmer(t, InterruptWaits(t, S))
         /\ \A p \in Pid : t.state[p] = "RUNNABLE" => InterruptWaits(t, S).state[p] = "RUNNABLE"
         /\ \A p \in Pid : t.call[p] = "none" => InterruptWaits(t, S).call[p] = "none"
<1> DEFINE hit == {p \in S : Interruptible(t, p)}
           u == InterruptWaits(t, S)
           s == [p \in Pid |-> IF p \in hit THEN "RUNNABLE" ELSE t.state[p]]
           c == [p \in Pid |-> IF p \in hit THEN "none" ELSE t.call[p]]
           b == [p \in Pid |-> IF p \in hit THEN None ELSE t.job[p]]
<1>1. u = [t EXCEPT !.state = s, !.call = c, !.job = b]
  BY DEF InterruptWaits
<1> HIDE DEF hit
<1>2. /\ s \in [Pid -> {"RUNNABLE", "SLEEPING", "BLOCKED_IO", "BLOCKED_WAIT"}]
      /\ c \in [Pid -> {"none", "io", "wait"}] /\ b \in [Pid -> Pid \cup {None}]
  BY TableFields
<1>3. /\ u \in Table /\ u.state = s /\ u.call = c /\ u.job = b
      /\ u.ring = t.ring /\ u.alive = t.alive /\ u.parent = t.parent
  <2> HIDE DEF s, c, b, u
  <2> QED BY <1>1, <1>2, Zenon DEF Table
<1>4. t.alive \subseteq Pid
  BY TableFields
<1> HIDE DEF u
<1>5. Calmer(t, u)
  BY <1>3, <1>4 DEF Calmer
<1> QED BY <1>3, <1>5 DEF u

\* A signal only wakes its target.
LEMMA SendFacts ==
  ASSUME NEW t \in Table, NEW p, NEW sig \in Signal
  PROVE  Calmer(t, signal_send(t, p, sig))
<1>1. CASE ~Found(t, p)
  BY <1>1 DEF signal_send, Calmer
<1>2. CASE Found(t, p)
  <2> DEFINE u == [t EXCEPT !.pending = [t.pending EXCEPT ![p] = t.pending[p] \cup {sig}]]
  <2>1. p \in Pid
    BY <1>2, TableFields DEF Found
  <2>2. [t.pending EXCEPT ![p] = t.pending[p] \cup {sig}] \in [Pid -> SUBSET Signal]
    BY <2>1, TableFields
  <2>3. u \in Table /\ Calmer(t, u)
    BY <2>2, Zenon DEF Table, Calmer
  <2>4. signal_send(t, p, sig) = InterruptWaits(u, {p})
    BY <1>2 DEF signal_send, process_interrupt_wait
  <2> HIDE DEF u
  <2> QED BY <2>3, <2>4, InterruptFacts, CalmerTrans
<1> QED BY <1>1, <1>2

\* After the exit of p the table is as good, with p dead on it: a parent that
\* was blocked on p has been woken.
LEMMA ExitFacts ==
  ASSUME NEW t, NEW n, Good(t, n), NEW p \in t.alive, NEW u \in Exits(t, p)
  PROVE  Good(u, n) /\ u.ring = t.ring /\ u.alive = t.alive \ {p}
<1>1. PICK W \in SUBSET (OnQueue(t) \ {p}), chld \in {{}} \cup {{s} : s \in Caught} :
        u = process_mark_exited(t, p, W, chld)
  BY DEF Exits
<1>2. t \in Table /\ t.alive \subseteq Ring(t) /\ p \in Pid /\ t.alive \subseteq Pid
  BY TableFields DEF Good
<1> DEFINE waiters == {q \in Pid : /\ Found(t, t.parent[p])
                                   /\ t.state[q] = "BLOCKED_WAIT" /\ t.job[q] = p}
           r == [t EXCEPT !.alive = t.alive \ {p}, !.state = [t.state EXCEPT ![p] = "RUNNABLE"]]
           V == W \cup waiters
           d == Wake(r, V)
<1>3. process_record_exit(t, p, W) = d
  BY DEF process_record_exit
<1>4. /\ r \in Table /\ r.ring = t.ring /\ r.alive = t.alive \ {p} /\ r.parent = t.parent
      /\ r.job = t.job /\ r.call = t.call /\ r.state = [t.state EXCEPT ![p] = "RUNNABLE"]
  BY <1>2, TableFields, Zenon DEF Table
<1>5. t.state \in [Pid -> {"RUNNABLE", "SLEEPING", "BLOCKED_IO", "BLOCKED_WAIT"}]
  BY <1>2, TableFields
<1> HIDE DEF r, waiters, V
<1>6. /\ Calmer(r, d) /\ d.job = t.job
      /\ \A q \in Pid : d.state[q] = IF q \in V THEN "RUNNABLE" ELSE r.state[q]
  <2>1. Calmer(r, d) /\ d.job = r.job
    BY <1>4, WakeFacts
  <2>2. d.state = [q \in Pid |-> IF q \in V THEN "RUNNABLE" ELSE r.state[q]]
    BY <1>4 DEF Wake, Table
  <2> QED BY <1>4, <2>1, <2>2
<1> HIDE DEF d
<1>7. d \in Table /\ d.ring = t.ring /\ d.alive = t.alive \ {p} /\ d.parent = t.parent
  BY <1>4, <1>6 DEF Calmer
<1>8. ASSUME NEW q \in d.alive, d.state[q] = "BLOCKED_WAIT"
      PROVE  d.job[q] \in d.alive /\ d.parent[d.job[q]] = q
  <2>1. q \in Pid /\ q \in t.alive /\ q # p /\ q \notin waiters /\ t.state[q] = "BLOCKED_WAIT"
    BY <1>2, <1>4, <1>5, <1>6, <1>7, <1>8 DEF V
  <2>2. t.job[q] \in t.alive /\ t.parent[t.job[q]] = q
    BY <2>1 DEF Good
  <2>3. t.job[q] # p
    BY <1>2, <2>1, <2>2 DEF waiters, Found, InTable, Ring
  <2> QED BY <1>6, <1>7, <2>2, <2>3
<1>9. ASSUME NEW q \in Pid \ Ring(t) PROVE d.state[q] = "RUNNABLE" /\ d.call[q] = "none"
  <2>1. t.state[q] = "RUNNABLE" /\ t.call[q] = "none"
    BY DEF Good
  <2>2. r.state[q] = "RUNNABLE" /\ r.call[q] = "none" /\ Ring(r) = Ring(t)
    BY <1>4, <1>5, <2>1 DEF Ring
  <2> QED BY <1>6, <2>2 DEF Calmer
<1>10. Good(d, n)
  BY <1>7, <1>8, <1>9 DEF Good, Ring
<1>11. Calmer(d, u)
  <2>1. CASE chld = {}
    BY <1>1, <1>3, <1>7, <2>1 DEF process_mark_exited, Calmer
  <2>2. CASE chld # {}
    <3>1. (CHOOSE sig \in chld : TRUE) \in Signal
      BY <2>2 DEF Signal
    <3>2. u = signal_send(d, t.parent[p], CHOOSE sig \in chld : TRUE)
      BY <1>1, <1>3, <2>2 DEF process_mark_exited
    <3> QED BY <1>7, <3>1, <3>2, SendFacts
  <2> QED BY <2>1, <2>2
<1> QED BY <1>7, <1>10, <1>11, CalmerGood, Zenon DEF Calmer

\* Destroying a dead process takes it off the list and leaves the rest alone.
LEMMA DestroyFacts ==
  ASSUME NEW t, NEW n, Good(t, n), NEW p \in Ring(t) \ t.alive
  PROVE  LET u == process_destroy(t, p)
         IN  /\ Good(u, n) /\ Ring(u) = Ring(t) \ {p} /\ u.alive = t.alive
             /\ \A q \in Pid \ {p} : u.state[q] = t.state[q] /\ u.call[q] = t.call[q]
<1> DEFINE u == process_destroy(t, p)
           s == Removed(t.ring, Place(t.ring, p))
<1>1. t \in Table /\ t.ring \in Seq(Pid) /\ Once(t.ring) /\ t.alive \subseteq Ring(t) /\ p \in Pid
  BY TableFields DEF Good
<1>2. s \in Seq(Pid) /\ Once(s) /\ Range(s) = Range(t.ring) \ {p}
  BY <1>1, RemoveFacts DEF Ring
<1> HIDE DEF s
<1> DEFINE st == [t.state EXCEPT ![p] = "RUNNABLE"]
           ca == [t.call EXCEPT ![p] = "none"]
           jo == [t.job EXCEPT ![p] = None]
           pr == [t.prio EXCEPT ![p] = NORMAL]
           pa == [t.parent EXCEPT ![p] = None]
           pe == [t.pending EXCEPT ![p] = {}]
<1>3. u = [t EXCEPT !.ring = s, !.alive = t.alive \ {p}, !.state = st, !.call = ca, !.job = jo,
                    !.prio = pr, !.parent = pa, !.pending = pe]
  BY DEF process_destroy, s
<1>4. /\ st \in [Pid -> {"RUNNABLE", "SLEEPING", "BLOCKED_IO", "BLOCKED_WAIT"}]
      /\ ca \in [Pid -> {"none", "io", "wait"}] /\ jo \in [Pid -> Pid \cup {None}]
      /\ pr \in [Pid -> Priority] /\ pa \in [Pid -> Pid \cup {None}]
      /\ pe \in [Pid -> SUBSET Signal]
  BY <1>1, TableFields, SchedulerAssumption
<1>5. /\ st[p] = "RUNNABLE" /\ ca[p] = "none"
      /\ \A q \in Pid \ {p} : /\ st[q] = t.state[q] /\ ca[q] = t.call[q] /\ jo[q] = t.job[q]
                              /\ pa[q] = t.parent[q]
  BY <1>1, TableFields
<1>6. t.alive \ {p} = t.alive /\ t.alive \subseteq Pid
  BY <1>1, TableFields
<1> HIDE DEF u, st, ca, jo, pr, pa, pe
<1>7. /\ u \in Table /\ u.ring = s /\ u.alive = t.alive /\ u.state = st /\ u.call = ca
      /\ u.job = jo /\ u.parent = pa
  BY <1>1, <1>2, <1>3, <1>4, <1>6, Zenon DEF Table
<1>8. Ring(u) = Ring(t) \ {p}
  BY <1>2, <1>7 DEF Ring
<1>9. ASSUME NEW q \in u.alive, u.state[q] = "BLOCKED_WAIT"
      PROVE  u.job[q] \in u.alive /\ u.parent[u.job[q]] = q
  <2>1. q \in t.alive /\ q \in Pid /\ q # p /\ t.state[q] = "BLOCKED_WAIT" /\ u.job[q] = t.job[q]
    BY <1>5, <1>6, <1>7, <1>9
  <2>2. t.job[q] \in t.alive /\ t.parent[t.job[q]] = q
    BY <2>1 DEF Good
  <2>3. t.job[q] \in Pid \ {p}
    BY <1>6, <2>2
  <2> QED BY <1>5, <1>7, <2>1, <2>2, <2>3
<1>10. \A q \in Pid \ Ring(u) : u.state[q] = "RUNNABLE" /\ u.call[q] = "none"
  BY <1>5, <1>7, <1>8 DEF Good
<1>11. \A q \in Ring(u) : q < n
  BY <1>8 DEF Good
<1>12. u.alive \subseteq Ring(u) /\ Once(u.ring)
  BY <1>1, <1>2, <1>7, <1>8
<1>13. Good(u, n)
  BY <1>7, <1>9, <1>10, <1>11, <1>12 DEF Good
<1> QED BY <1>5, <1>7, <1>8, <1>13 DEF u

\* Creating the process n adds it to the list, alive and runnable.
LEMMA CreateFacts ==
  ASSUME NEW t, NEW n \in Pid, Good(t, n), NEW parent \in Ring(t) \cup {None}
  PROVE  LET u == process_create(t, n, parent)
         IN  /\ Good(u, n + 1) /\ Ring(u) = Ring(t) \cup {n} /\ u.alive = t.alive \cup {n}
             /\ u.state[n] = "RUNNABLE" /\ u.call[n] = "none"
<1> DEFINE u == process_create(t, n, parent)
           at == IF parent = None THEN 1 ELSE Place(t.ring, parent)
           s == IF t.ring = << >> THEN <<n>> ELSE Inserted(t.ring, at, n)
           pa == [t.parent EXCEPT ![n] = parent]
<1>1. /\ t \in Table /\ t.ring \in Seq(Pid) /\ Once(t.ring) /\ t.alive \subseteq Ring(t)
      /\ Ring(t) \subseteq Pid
  BY TableFields DEF Good
<1>2. n \in Nat /\ n \in Pid \ Ring(t)
  BY Pids DEF Good
<1>3. u = [t EXCEPT !.ring = s, !.alive = t.alive \cup {n}, !.parent = pa]
  BY DEF process_create
<1>4. s \in Seq(Pid) /\ Once(s) /\ Range(s) = Range(t.ring) \cup {n}
  <2>1. CASE t.ring = << >>
    <3>1. <<n>> \in Seq(Pid) /\ Once(<<n>>) /\ Range(<<n>>) = {n} /\ Range(<< >>) = {}
      BY DEF Once, Range
    <3> QED BY <2>1, <3>1
  <2>2. CASE t.ring # << >>
    <3>1. at \in 1 .. Len(t.ring)
      BY <1>1, <2>2, PlaceFacts DEF Ring
    <3> HIDE DEF at
    <3> QED BY <1>1, <1>2, <2>2, <3>1, InsertFacts DEF Ring
  <2> QED BY <2>1, <2>2
<1>5. pa \in [Pid -> Pid \cup {None}] /\ \A q \in Pid \ {n} : pa[q] = t.parent[q]
  BY <1>1, TableFields
<1> HIDE DEF u, s, pa
<1>6. /\ u \in Table /\ u.ring = s /\ u.alive = t.alive \cup {n} /\ u.parent = pa
      /\ u.state = t.state /\ u.call = t.call /\ u.job = t.job
  BY <1>1, <1>3, <1>4, <1>5, Zenon DEF Table
<1>7. Ring(u) = Ring(t) \cup {n}
  BY <1>4, <1>6 DEF Ring
<1>8. t.state[n] = "RUNNABLE" /\ t.call[n] = "none"
  BY <1>2 DEF Good
<1>9. ASSUME NEW q \in u.alive, u.state[q] = "BLOCKED_WAIT"
      PROVE  u.job[q] \in u.alive /\ u.parent[u.job[q]] = q
  <2>1. q \in t.alive /\ t.state[q] = "BLOCKED_WAIT"
    BY <1>6, <1>8, <1>9
  <2>2. t.job[q] \in t.alive /\ t.parent[t.job[q]] = q
    BY <2>1 DEF Good
  <2>3. t.job[q] \in Pid \ {n}
    BY <1>1, <1>2, <2>2
  <2> QED BY <1>5, <1>6, <2>2, <2>3
<1>10. \A q \in Ring(u) : q < n + 1
  <2>1. \A q \in Ring(t) : q \in Nat
    BY <1>1, Pids, Zenon
  <2>2. \A q \in Ring(t) : q < n
    BY DEF Good
  <2> QED BY <1>2, <1>7, <2>1, <2>2
<1>11. \A q \in Pid \ Ring(u) : u.state[q] = "RUNNABLE" /\ u.call[q] = "none"
  BY <1>6, <1>7 DEF Good
<1>12. Good(u, n + 1)
  BY <1>1, <1>4, <1>6, <1>7, <1>9, <1>10, <1>11 DEF Good
<1> QED BY <1>6, <1>7, <1>8, <1>12 DEF u

-----------------------------------------------------------------------------
(* System calls. *)

\* What a reschedule leaves: nobody runs, and only the process it came from may
\* be dead.
LEMMA ScheduleStep ==
  ASSUME NEW t, Good(t, next_pid'), NEW p \in Ring(t), Ring(t) \ t.alive \subseteq {p},
         NEW irq \in BOOLEAN, cpu \in Cpu, cpu.current \in Ring(t) \cup {None},
         cpu.space \in Ring(t) \cup {None}, next_pid' \in 1 .. MaxPid + 1,
         bootstrap' \in Pid \cup {None}, owner' \in Pid \cup {None},
         process_schedule(t, p, irq)
  PROVE  IInv'
<1> DEFINE a == IF p \in t.alive /\ signal_deliverable(t, p)
                THEN process_interrupt_wait(t, p) ELSE t
<1>1. PICK W : table' = Wake(a, W)
  BY DEF process_schedule
<1>2. t \in Table /\ p \in Pid
  BY TableFields DEF Good
<1>3. Calmer(t, a) /\ a \in Table
  <2>1. Calmer(t, t)
    BY <1>2 DEF Calmer
  <2> QED BY <1>2, <2>1, InterruptFacts DEF process_interrupt_wait, Calmer
<1> HIDE DEF a
<1>4. Calmer(t, table')
  BY <1>1, <1>3, WakeFacts, CalmerTrans
<1>5. Good(table', next_pid') /\ table'.ring = t.ring /\ table'.alive = t.alive
  BY <1>4, CalmerGood DEF Calmer
<1>6. cpu' = [cpu EXCEPT !.mode = "pick", !.prev = p, !.irq = irq]
  BY DEF process_schedule
<1>7. /\ cpu' \in Cpu /\ cpu'.mode = "pick" /\ cpu'.prev = p /\ cpu'.current = cpu.current
      /\ cpu'.space = cpu.space
  BY <1>2, <1>6, Zenon DEF Cpu
<1>8. NothingFreedInUse'
  BY <1>5, <1>7 DEF NothingFreedInUse, InTable, Ring
<1>9. DeadIsPrev'
  BY <1>5, <1>7 DEF DeadIsPrev, Ring
<1>10. RunsResumed'
  BY <1>7 DEF RunsResumed
<1> QED BY <1>5, <1>7, <1>8, <1>9, <1>10 DEF IInv

\* A process in user mode is alive, and so is everybody else on the list.
LEMMA RunningFacts ==
  ASSUME IInv, NEW p \in Pid, Running(p)
  PROVE  /\ p \in table.alive /\ p \in Ring(table) /\ Ring(table) = table.alive
         /\ table \in Table /\ cpu \in Cpu /\ cpu.current = p /\ cpu.space = p
         /\ table.state[p] = "RUNNABLE" /\ table.call[p] = "none"
BY DEF IInv, Running, RunsResumed, Found, InTable, Ring, DeadIsPrev, Good

\* A call that wakes processes, or blocks the caller on anything but a child.
LEMMA CallStep ==
  ASSUME IInv, NEW p \in Pid, NEW t, Call(p, t), Calmer(table, t), next_pid' = next_pid,
         bootstrap' = bootstrap, owner' \in Pid \cup {None}
  PROVE  IInv'
<1>1. Running(p) /\ process_schedule(t, p, FALSE)
  BY Zenon DEF Call
<1>2. Good(t, next_pid) /\ t.ring = table.ring /\ t.alive = table.alive
  BY CalmerGood DEF IInv, Calmer
<1>3. p \in Ring(t) /\ Ring(t) \ t.alive \subseteq {p}
  BY <1>1, <1>2, RunningFacts DEF Ring
<1> QED BY <1>1, <1>2, <1>3, RunningFacts, ScheduleStep, Zenon DEF IInv

\* Calls that only reschedule, and the console read.
LEMMA OtherStep ==
  ASSUME IInv, NEW p \in Pid, SysOther(p) \/ signal_console_note_reader(p)
  PROVE  IInv'
<1>1. Calmer(table, table)
  BY DEF Calmer, IInv, Good
<1>2. Call(p, table) /\ next_pid' = next_pid /\ bootstrap' = bootstrap /\ owner' \in {owner, p}
  BY SMTT(30) DEF SysOther, signal_console_note_reader
<1> QED BY <1>1, <1>2, CallStep DEF IInv

\* process_create() behind the caller.
LEMMA SpawnStep ==
  ASSUME IInv, NEW p \in Pid, SysSpawn(p)
  PROVE  IInv'
<1> DEFINE t == process_create(table, next_pid, p)
<1>1. /\ Running(p) /\ next_pid \in Pid /\ next_pid' = next_pid + 1
      /\ process_schedule(t, p, FALSE) /\ bootstrap' = bootstrap /\ owner' = owner
  BY Zenon DEF SysSpawn, Call
<1>2. Good(table, next_pid) /\ p \in Ring(table) \cup {None}
  BY <1>1, RunningFacts DEF IInv
<1>3. Good(t, next_pid') /\ Ring(t) = Ring(table) \cup {next_pid} /\ t.alive = table.alive \cup {next_pid}
  BY <1>1, <1>2, CreateFacts
<1>4. next_pid' \in 1 .. MaxPid + 1
  BY <1>1, SchedulerAssumption DEF Pid
<1> HIDE DEF t
<1>5. /\ p \in Ring(t) /\ Ring(t) \ t.alive \subseteq {p} /\ cpu.current \in Ring(t) \cup {None}
      /\ cpu.space \in Ring(t) \cup {None} /\ cpu \in Cpu
  BY <1>1, <1>3, RunningFacts
<1> QED BY <1>1, <1>3, <1>4, <1>5, ScheduleStep, Zenon DEF IInv

\* Calls that change only the caller's priority or pending signals, or block it
\* in a sleep or on a wait queue.
LEMMA OwnFieldStep ==
  ASSUME IInv, NEW p \in Pid,
         process_set_priority(p) \/ UserFault(p) \/ SysSleep(p) \/ SysBlock(p)
  PROVE  IInv'
<1> DEFINE pri(n) == [table EXCEPT !.prio = [table.prio EXCEPT ![p] = n]]
           sig(s) == [table EXCEPT !.pending = [table.pending EXCEPT ![p] = table.pending[p] \cup {s}]]
           slp == [table EXCEPT !.state = [table.state EXCEPT ![p] = "SLEEPING"]]
           blk == [table EXCEPT !.state = [table.state EXCEPT ![p] = "BLOCKED_IO"],
                                !.call = [table.call EXCEPT ![p] = "io"]]
<1>1. next_pid' = next_pid /\ bootstrap' = bootstrap /\ owner' = owner
  BY DEF process_set_priority, UserFault, SysSleep, SysBlock
<1>2. \/ \E n \in Priority : Call(p, pri(n))
      \/ \E s \in Signal : Call(p, sig(s))
      \/ Call(p, slp) \/ Call(p, blk)
  BY DEF process_set_priority, UserFault, SysSleep, SysBlock
<1>3. Running(p)
  BY <1>2, Zenon DEF Call
<1>4. table \in Table /\ p \in Ring(table) /\ table.state[p] = "RUNNABLE"
  BY <1>3, RunningFacts
<1>5. ASSUME NEW n \in Priority PROVE Calmer(table, pri(n))
  <2>1. [table.prio EXCEPT ![p] = n] \in [Pid -> Priority]
    BY <1>4, TableFields
  <2> QED BY <1>4, <2>1, Zenon DEF Table, Calmer
<1>6. ASSUME NEW s \in Signal PROVE Calmer(table, sig(s))
  <2>1. [table.pending EXCEPT ![p] = table.pending[p] \cup {s}] \in [Pid -> SUBSET Signal]
    BY <1>4, TableFields
  <2> QED BY <1>4, <2>1, Zenon DEF Table, Calmer
<1>7. Calmer(table, slp)
  <2>1. /\ slp \in Table /\ slp.ring = table.ring /\ slp.alive = table.alive
        /\ slp.parent = table.parent /\ slp.call = table.call /\ slp.job = table.job
        /\ slp.state = [table.state EXCEPT ![p] = "SLEEPING"]
    BY <1>4, TableFields, Zenon DEF Table
  <2>2. slp.state[p] # "BLOCKED_WAIT" /\ \A q \in Pid \ {p} : slp.state[q] = table.state[q]
    BY <1>4, <2>1, TableFields
  <2> HIDE DEF slp
  <2> QED BY <1>4, <2>1, <2>2, TableFields DEF Calmer
<1>8. Calmer(table, blk)
  <2>1. /\ blk \in Table /\ blk.ring = table.ring /\ blk.alive = table.alive
        /\ blk.parent = table.parent /\ blk.job = table.job
        /\ blk.state = [table.state EXCEPT ![p] = "BLOCKED_IO"]
        /\ blk.call = [table.call EXCEPT ![p] = "io"]
    BY <1>4, TableFields, Zenon DEF Table
  <2>2. /\ blk.state[p] # "BLOCKED_WAIT"
        /\ \A q \in Pid \ {p} : blk.state[q] = table.state[q] /\ blk.call[q] = table.call[q]
    BY <1>4, <2>1, TableFields
  <2> HIDE DEF blk
  <2> QED BY <1>4, <2>1, <2>2, TableFields DEF Calmer
<1> HIDE DEF pri, sig, slp, blk
<1> QED BY <1>1, <1>2, <1>5, <1>6, <1>7, <1>8, CallStep DEF IInv

\* Calls that wake others: writes and closes, and signals.
LEMMA WakingStep ==
  ASSUME IInv, NEW p \in Pid, SysWake(p) \/ signal_kill(p)
  PROVE  IInv'
<1>1. next_pid' = next_pid /\ bootstrap' = bootstrap /\ owner' = owner /\ table \in Table
  BY DEF SysWake, signal_kill, IInv, Good
<1>2. CASE SysWake(p)
  <2>1. PICK W : Call(p, Wake(table, W))
    BY <1>2 DEF SysWake
  <2> QED BY <1>1, <2>1, WakeFacts, CallStep DEF IInv
<1>3. CASE signal_kill(p)
  <2>1. PICK q \in Pid, sig \in Signal : Call(p, signal_send(table, q, sig))
    BY <1>3 DEF signal_kill
  <2> QED BY <1>1, <2>1, SendFacts, CallStep DEF IInv
<1> QED BY <1>2, <1>3

\* process_begin_wait(): the child waited for is alive and the caller's own.
LEMMA WaitStep ==
  ASSUME IInv, NEW p \in Pid, SysWait(p)
  PROVE  IInv'
<1>1. PICK q \in Pid :
        /\ Found(table, q) /\ table.parent[q] = p
        /\ Call(p, [table EXCEPT !.state = [table.state EXCEPT ![p] = "BLOCKED_WAIT"],
                                 !.call = [table.call EXCEPT ![p] = "wait"],
                                 !.job = [table.job EXCEPT ![p] = q]])
  BY Zenon DEF SysWait
<1> DEFINE t == [table EXCEPT !.state = [table.state EXCEPT ![p] = "BLOCKED_WAIT"],
                              !.call = [table.call EXCEPT ![p] = "wait"],
                              !.job = [table.job EXCEPT ![p] = q]]
<1>2. /\ next_pid' = next_pid /\ bootstrap' = bootstrap /\ owner' = owner
      /\ Running(p) /\ process_schedule(t, p, FALSE)
  BY <1>1, Zenon DEF SysWait, Call
<1>3. /\ table \in Table /\ p \in Ring(table) /\ Ring(table) = table.alive /\ cpu \in Cpu
      /\ cpu.current = p /\ cpu.space = p
  BY <1>2, RunningFacts
<1>4. /\ t \in Table /\ t.ring = table.ring /\ t.alive = table.alive /\ t.parent = table.parent
      /\ t.state = [table.state EXCEPT ![p] = "BLOCKED_WAIT"]
      /\ t.call = [table.call EXCEPT ![p] = "wait"] /\ t.job = [table.job EXCEPT ![p] = q]
  BY <1>3, TableFields, Zenon DEF Table
<1>5. /\ t.job[p] = q
      /\ \A r \in Pid \ {p} : /\ t.state[r] = table.state[r] /\ t.call[r] = table.call[r]
                              /\ t.job[r] = table.job[r]
  BY <1>3, <1>4, TableFields
<1> HIDE DEF t
<1>6. Ring(t) = Ring(table) /\ Good(table, next_pid) /\ table.alive \subseteq Pid
  BY <1>3, <1>4, TableFields DEF Ring, IInv
<1>7. ASSUME NEW r \in t.alive, t.state[r] = "BLOCKED_WAIT"
      PROVE  t.job[r] \in t.alive /\ t.parent[t.job[r]] = r
  <2>1. CASE r = p
    BY <1>1, <1>4, <1>5, <2>1, SMTT(30) DEF Found
  <2>2. CASE r # p
    BY <1>4, <1>5, <1>6, <1>7, <2>2, SMTT(30) DEF Good
  <2> QED BY <2>1, <2>2
<1>8. \A r \in Pid \ Ring(t) : t.state[r] = "RUNNABLE" /\ t.call[r] = "none"
  BY <1>3, <1>5, <1>6, SMTT(30) DEF Good
<1>9. Good(t, next_pid)
  BY <1>4, <1>6, <1>7, <1>8 DEF Good
<1> QED BY <1>2, <1>3, <1>4, <1>6, <1>9, ScheduleStep, Zenon DEF IInv

\* The shell has the CPU: nobody runs, and nobody on the list is dead.
LEMMA ShellStep ==
  ASSUME IInv, Good(table', next_pid), Ring(table)' = table'.alive, EnterShell,
         next_pid' = next_pid, owner' = owner
  PROVE  IInv'
<1>1. /\ cpu' = [mode |-> "shell", current |-> None, prev |-> None, space |-> None, irq |-> FALSE]
      /\ bootstrap' = None
  BY DEF EnterShell
<1>2. cpu' \in Cpu /\ cpu'.mode = "shell"
  BY <1>1, SMTT(30) DEF Cpu
<1>3. NothingFreedInUse' /\ DeadIsPrev' /\ RunsResumed'
  BY <1>1 DEF NothingFreedInUse, DeadIsPrev, RunsResumed
<1> QED BY <1>1, <1>2, <1>3 DEF IInv

\* process_exit(): the process stays on the list, dead, unless it was the last
\* that could run and the shell takes over.
LEMMA ExitStep ==
  ASSUME IInv, NEW p \in Pid, SysExit(p)
  PROVE  IInv'
<1>1. Running(p) /\ next_pid' = next_pid /\ owner' = owner
  BY DEF SysExit
<1>2. PICK t \in Exits(table, p) :
        IF BootstrapExited(t, p)
        THEN table' = process_destroy(t, p) /\ EnterShell
        ELSE process_schedule(t, p, FALSE) /\ bootstrap' = bootstrap
  BY Zenon DEF SysExit
<1>3. /\ p \in table.alive /\ p \in Ring(table) /\ Ring(table) = table.alive /\ cpu \in Cpu
      /\ cpu.current = p /\ cpu.space = p
  BY <1>1, RunningFacts
<1>4. Good(t, next_pid) /\ Ring(t) = Ring(table) /\ t.alive = table.alive \ {p}
  BY <1>3, ExitFacts DEF IInv, Ring
<1>5. CASE BootstrapExited(t, p)
  <2>1. Good(table', next_pid) /\ Ring(table)' = Ring(t) \ {p} /\ table'.alive = t.alive
    BY <1>2, <1>3, <1>4, <1>5, DestroyFacts DEF Ring
  <2> QED BY <1>1, <1>2, <1>3, <1>4, <1>5, <2>1, ShellStep
<1>6. CASE ~BootstrapExited(t, p)
  <2>1. process_schedule(t, p, FALSE) /\ bootstrap' = bootstrap
    BY <1>2, <1>6, Zenon
  <2> QED BY <1>1, <1>3, <1>4, <2>1, ScheduleStep, Zenon DEF IInv
<1> QED BY <1>5, <1>6

-----------------------------------------------------------------------------
(* The loop of process_schedule(). *)

\* The process picked is alive, and the table once it is current as good.
LEMMA PickedFacts ==
  ASSUME IInv, NEW p \in Pid, Picked(p)
  PROVE  /\ p \in table.alive /\ p \in Ring(table) /\ table.state[p] = "RUNNABLE"
         /\ Calmer(table, Chosen(p)) /\ Good(Chosen(p), next_pid)
         /\ Chosen(p).ring = table.ring /\ Chosen(p).alive = table.alive
         /\ Chosen(p) \in Table /\ Chosen(p).state[p] = "RUNNABLE"
         /\ cpu.mode = "pick" /\ Ring(table) \ table.alive \subseteq {cpu.prev}
         /\ cpu.prev \in Ring(table) \cup {None} /\ cpu \in Cpu
<1>1. cpu.mode = "pick" /\ p \in table.alive /\ p \in Ring(table) /\ table.state[p] = "RUNNABLE"
  BY DEF Picked, IsNext, process_is_runnable, Found, InTable, Ring
<1>2. table \in Table /\ Good(table, next_pid) /\ cpu \in Cpu
  BY SMTT(30) DEF IInv, Good
<1>3. Calmer(table, Chosen(p)) /\ Chosen(p).state[p] = "RUNNABLE"
  <2>1. Calmer(table, table)
    BY <1>2 DEF Calmer
  <2> QED BY <1>1, <1>2, <2>1, InterruptFacts DEF Chosen, process_interrupt_wait
<1>4. Ring(table) \ table.alive \subseteq {cpu.prev} /\ cpu.prev \in Ring(table) \cup {None}
  BY <1>1, SMTT(30) DEF IInv, DeadIsPrev, NothingFreedInUse, InTable, Ring
<1> QED BY <1>1, <1>2, <1>3, <1>4, CalmerGood DEF Calmer

\* The picked process past its call.
LEMMA ResumedFacts ==
  ASSUME NEW t, NEW n, Good(t, n), NEW p \in t.alive, t.state[p] = "RUNNABLE"
  PROVE  LET u == Resumed(t, p)
         IN  /\ Good(u, n) /\ u.ring = t.ring /\ u.alive = t.alive
             /\ u.state[p] = "RUNNABLE" /\ u.call[p] = "none"
<1> DEFINE u == Resumed(t, p)
           ca == [t.call EXCEPT ![p] = "none"]
           jo == [t.job EXCEPT ![p] = None]
<1>1. t \in Table /\ p \in Ring(t) /\ p \in Pid
  BY TableFields DEF Good
<1>2. u = [t EXCEPT !.call = ca, !.job = jo]
  BY SMTT(30) DEF Resumed
<1>3. /\ ca \in [Pid -> {"none", "io", "wait"}] /\ jo \in [Pid -> Pid \cup {None}] /\ ca[p] = "none"
      /\ \A q \in Pid \ {p} : ca[q] = t.call[q] /\ jo[q] = t.job[q]
  BY <1>1, TableFields
<1> HIDE DEF u, ca, jo
<1>4. /\ u \in Table /\ u.ring = t.ring /\ u.alive = t.alive /\ u.parent = t.parent
      /\ u.state = t.state /\ u.call = ca /\ u.job = jo
  BY <1>1, <1>2, <1>3, Zenon DEF Table
<1>5. Calmer(t, u)
  BY <1>1, <1>3, <1>4, TableFields DEF Calmer
<1> QED BY <1>3, <1>4, <1>5, CalmerGood DEF u

\* A dead prev is destroyed: then everybody on the list is alive.
LEMMA ReapedFacts ==
  ASSUME NEW t, NEW n, Good(t, n), NEW prev \in Pid \cup {None}, NEW next,
         Ring(t) \ t.alive \subseteq {prev} \ {next}, prev \in Ring(t) \cup {None, next}
  PROVE  LET u == Reaped(t, prev, next)
         IN  /\ Good(u, n) /\ Ring(u) = t.alive /\ u.alive = t.alive
             /\ \A q \in t.alive : u.state[q] = t.state[q] /\ u.call[q] = t.call[q]
<1>1. t.alive \subseteq Ring(t) /\ t.alive \subseteq Pid /\ None \notin Ring(t)
  BY Pids, TableFields DEF Good
<1>2. CASE prev # None /\ prev # next /\ prev \notin t.alive
  <2>1. prev \in Ring(t) \ t.alive /\ Reaped(t, prev, next) = process_destroy(t, prev)
    BY <1>2 DEF Reaped
  <2> QED BY <1>1, <2>1, DestroyFacts, SMTT(30)
<1>3. CASE ~(prev # None /\ prev # next /\ prev \notin t.alive)
  <2>1. Reaped(t, prev, next) = t
    BY <1>3 DEF Reaped
  <2> QED BY <1>1, <1>3, <2>1
<1> QED BY <1>2, <1>3

\* A spurious wake.
LEMMA PickSpuriousStep ==
  ASSUME IInv, NEW p \in Pid, PickSpurious(p)
  PROVE  IInv'
<1> DEFINE t == Chosen(p)
<1>1. /\ Picked(p) /\ table' = [t EXCEPT !.state = [t.state EXCEPT ![p] = "BLOCKED_IO"]]
      /\ cpu' = [cpu EXCEPT !.current = p, !.space = p]
      /\ next_pid' = next_pid /\ bootstrap' = bootstrap /\ owner' = owner
  BY DEF PickSpurious
<1>2. /\ Good(t, next_pid) /\ t \in Table /\ t.ring = table.ring /\ t.alive = table.alive
      /\ p \in Ring(table) /\ cpu.mode = "pick" /\ cpu \in Cpu
  BY <1>1, PickedFacts
<1> HIDE DEF t
<1>3. /\ table' \in Table /\ table'.ring = t.ring /\ table'.alive = t.alive
      /\ table'.parent = t.parent /\ table'.call = t.call /\ table'.job = t.job
      /\ table'.state = [t.state EXCEPT ![p] = "BLOCKED_IO"]
  BY <1>1, <1>2, TableFields, Zenon DEF Table
<1>4. Calmer(t, table')
  <2>1. table'.state[p] # "BLOCKED_WAIT" /\ \A q \in Pid \ {p} : table'.state[q] = t.state[q]
    BY <1>2, <1>3, TableFields
  <2> QED BY <1>2, <1>3, <2>1, TableFields DEF Calmer, Ring
<1>5. Good(table', next_pid)
  BY <1>2, <1>4, CalmerGood
<1>6. /\ cpu' \in Cpu /\ cpu'.mode = "pick" /\ cpu'.current = p /\ cpu'.space = p
      /\ cpu'.prev = cpu.prev
  BY <1>1, <1>2, Zenon DEF Cpu
<1>7. NothingFreedInUse' /\ DeadIsPrev' /\ RunsResumed'
  BY <1>2, <1>3, <1>6 DEF NothingFreedInUse, DeadIsPrev, RunsResumed, InTable, Ring, IInv
<1> QED BY <1>1, <1>5, <1>6, <1>7 DEF IInv

\* The return to user mode.
LEMMA DispatchStep ==
  ASSUME IInv, NEW p \in Pid, Dispatch(p)
  PROVE  IInv'
<1> DEFINE t == Resumed(Chosen(p), p)
           w(s) == [t EXCEPT !.pending = [t.pending EXCEPT ![p] = t.pending[p] \ {s}]]
<1>1. /\ Picked(p)
      /\ \/ table' = Reaped(t, cpu.prev, p)
         \/ \E sig \in Caught : table' = Reaped(w(sig), cpu.prev, p)
      /\ cpu' = [mode |-> "user", current |-> p, prev |-> None, space |-> p, irq |-> FALSE]
      /\ next_pid' = next_pid /\ bootstrap' = bootstrap /\ owner' = owner
  BY SMTT(30) DEF Dispatch
<1>2. /\ Good(Chosen(p), next_pid) /\ p \in Chosen(p).alive /\ Chosen(p).state[p] = "RUNNABLE"
      /\ Chosen(p).ring = table.ring /\ Chosen(p).alive = table.alive
      /\ Ring(table) \ table.alive \subseteq {cpu.prev} \ {p}
      /\ cpu.prev \in Ring(table) \cup {None} /\ cpu.prev \in Pid \cup {None}
  BY <1>1, PickedFacts DEF Cpu
<1>3. /\ Good(t, next_pid) /\ t.ring = table.ring /\ t.alive = table.alive
      /\ t.state[p] = "RUNNABLE" /\ t.call[p] = "none"
  BY <1>2, ResumedFacts, SMTT(30)
<1> HIDE DEF t
<1>4. ASSUME NEW s
      PROVE  /\ Good(w(s), next_pid) /\ w(s).ring = table.ring /\ w(s).alive = table.alive
             /\ w(s).state[p] = "RUNNABLE" /\ w(s).call[p] = "none"
  <2>1. t \in Table
    BY <1>3 DEF Good
  <2>2. [t.pending EXCEPT ![p] = t.pending[p] \ {s}] \in [Pid -> SUBSET Signal]
    BY <2>1, TableFields
  <2>3. /\ w(s) \in Table /\ w(s).ring = t.ring /\ w(s).alive = t.alive /\ w(s).parent = t.parent
        /\ w(s).state = t.state /\ w(s).call = t.call /\ w(s).job = t.job
    BY <2>1, <2>2, Zenon DEF Table
  <2> HIDE DEF w
  <2>4. Calmer(t, w(s))
    BY <2>3 DEF Calmer
  <2> QED BY <1>3, <2>3, <2>4, CalmerGood
<1> HIDE DEF w
<1>5. PICK u : /\ Good(u, next_pid) /\ u.ring = table.ring /\ u.alive = table.alive
               /\ u.state[p] = "RUNNABLE" /\ u.call[p] = "none"
               /\ table' = Reaped(u, cpu.prev, p)
  BY <1>1, <1>3, <1>4, SMTT(30)
<1>6. /\ Good(table', next_pid) /\ Ring(table)' = u.alive /\ table'.alive = u.alive
      /\ table'.state[p] = "RUNNABLE" /\ table'.call[p] = "none"
  BY <1>2, <1>5, ReapedFacts DEF Ring
<1>7. /\ cpu' \in Cpu /\ cpu'.mode = "user" /\ cpu'.current = p /\ cpu'.space = p
      /\ cpu'.prev = None
  BY <1>1 DEF Cpu
<1>8. p \in u.alive
  BY <1>2, <1>5, SMTT(30)
<1>9. NothingFreedInUse' /\ DeadIsPrev' /\ RunsResumed'
  BY <1>6, <1>7, <1>8 DEF NothingFreedInUse, DeadIsPrev, RunsResumed, Found, InTable, Ring
<1> QED BY <1>1, <1>6, <1>7, <1>9 DEF IInv

\* A process that is resumed only to die: it is destroyed at once, unless it is
\* the one the scheduler came from.
LEMMA PickKilledStep ==
  ASSUME IInv, NEW p \in Pid, PickKilled(p)
  PROVE  IInv'
<1> DEFINE r == Resumed(Chosen(p), p)
<1>1. Picked(p) /\ next_pid' = next_pid /\ owner' = owner
  BY DEF PickKilled
<1>2. PICK t \in Exits(r, p) :
        IF BootstrapExited(t, p)
        THEN table' = Reaped(process_destroy(t, p), cpu.prev, p) /\ EnterShell
        ELSE LeaveKilled(t, p) /\ bootstrap' = bootstrap
  BY SMTT(30) DEF PickKilled
<1>3. /\ Good(Chosen(p), next_pid) /\ p \in Chosen(p).alive /\ Chosen(p).state[p] = "RUNNABLE"
      /\ Chosen(p).ring = table.ring /\ Chosen(p).alive = table.alive
      /\ Ring(table) \ table.alive \subseteq {cpu.prev} /\ p \in Ring(table)
      /\ cpu.prev \in Ring(table) \cup {None} /\ cpu.prev \in Pid \cup {None}
      /\ cpu \in Cpu /\ cpu.mode = "pick"
  BY <1>1, PickedFacts, SMTT(30) DEF Cpu
<1>4. Good(r, next_pid) /\ r.ring = table.ring /\ r.alive = table.alive
  BY <1>3, ResumedFacts, SMTT(30)
<1> HIDE DEF r
<1>5. Good(t, next_pid) /\ Ring(t) = Ring(table) /\ t.alive = table.alive \ {p}
  BY <1>3, <1>4, ExitFacts, SMTT(30) DEF Ring
<1> DEFINE d == process_destroy(t, p)
<1>6. Good(d, next_pid) /\ Ring(d) = Ring(table) \ {p} /\ d.alive = table.alive \ {p}
  BY <1>3, <1>5, DestroyFacts, SMTT(30)
<1> HIDE DEF d
<1>7. CASE BootstrapExited(t, p)
  <2>1. table' = Reaped(d, cpu.prev, p) /\ EnterShell
    BY <1>2, <1>7, SMTT(30) DEF d
  <2>2. Good(table', next_pid) /\ Ring(table)' = d.alive /\ table'.alive = d.alive
    BY <1>3, <1>6, <2>1, ReapedFacts DEF Ring
  <2> QED BY <1>1, <2>1, <2>2, ShellStep
<1>8. CASE ~BootstrapExited(t, p) /\ p # cpu.prev
  <2>1. /\ table' = d /\ cpu' = [cpu EXCEPT !.current = None, !.space = None]
        /\ bootstrap' = bootstrap
    BY <1>2, <1>8 DEF LeaveKilled, d
  <2>2. /\ cpu' \in Cpu /\ cpu'.mode = "pick" /\ cpu'.current = None /\ cpu'.space = None
        /\ cpu'.prev = cpu.prev
    BY <1>3, <2>1, Zenon DEF Cpu
  <2>3. NothingFreedInUse' /\ DeadIsPrev' /\ RunsResumed'
    BY <1>3, <1>6, <1>8, <2>1, <2>2
       DEF NothingFreedInUse, DeadIsPrev, RunsResumed, InTable, Ring
  <2> QED BY <1>1, <1>6, <2>1, <2>2, <2>3 DEF IInv
<1>9. CASE ~BootstrapExited(t, p) /\ p = cpu.prev
  <2>1. table' = t /\ cpu' = [cpu EXCEPT !.current = p, !.space = p] /\ bootstrap' = bootstrap
    BY <1>2, <1>9 DEF LeaveKilled
  <2>2. /\ cpu' \in Cpu /\ cpu'.mode = "pick" /\ cpu'.current = p /\ cpu'.space = p
        /\ cpu'.prev = p
    BY <1>3, <1>9, <2>1, Zenon DEF Cpu
  <2>3. NothingFreedInUse' /\ DeadIsPrev' /\ RunsResumed'
    BY <1>3, <1>5, <1>9, <2>1, <2>2
       DEF NothingFreedInUse, DeadIsPrev, RunsResumed, InTable, Ring
  <2> QED BY <1>1, <1>5, <2>1, <2>2, <2>3 DEF IInv
<1> QED BY <1>7, <1>8, <1>9

\* The CPU halts.
LEMMA PickIdleStep ==
  ASSUME IInv, PickIdle
  PROVE  IInv'
<1>1. /\ cpu.mode = "pick" /\ table' = Reaped(table, cpu.prev, None)
      /\ cpu' = [cpu EXCEPT !.mode = "idle", !.current = None, !.space = None,
                            !.prev = IF cpu.prev \in table.alive THEN cpu.prev ELSE None]
      /\ next_pid' = next_pid /\ bootstrap' = bootstrap /\ owner' = owner
  BY DEF PickIdle
<1>2. /\ Good(table, next_pid) /\ cpu \in Cpu /\ None \notin Ring(table)
      /\ Ring(table) \ table.alive \subseteq {cpu.prev}
      /\ cpu.prev \in Ring(table) \cup {None} /\ cpu.prev \in Pid \cup {None}
  BY <1>1, Pids, TableFields
     DEF IInv, Good, DeadIsPrev, NothingFreedInUse, InTable, Ring, Cpu
<1>3. Good(table', next_pid) /\ Ring(table)' = table.alive /\ table'.alive = table.alive
  <2>1. Ring(table) \ table.alive \subseteq {cpu.prev} \ {None}
    BY <1>2
  <2>2. cpu.prev \in Ring(table) \cup {None, None}
    BY <1>2, SMTT(30)
  <2> DEFINE u == Reaped(table, cpu.prev, None)
  <2>3. Good(u, next_pid) /\ Ring(u) = table.alive /\ u.alive = table.alive
    BY <1>2, <2>1, <2>2, ReapedFacts
  <2>4. u = table'
    BY <1>1
  <2> HIDE DEF u
  <2> QED BY <2>3, <2>4 DEF Ring
<1>4. /\ cpu' \in Cpu /\ cpu'.mode = "idle" /\ cpu'.current = None /\ cpu'.space = None
      /\ cpu'.prev = IF cpu.prev \in table.alive THEN cpu.prev ELSE None
  BY <1>1, <1>2, Zenon DEF Cpu
<1>5. NothingFreedInUse' /\ DeadIsPrev' /\ RunsResumed'
  BY <1>3, <1>4 DEF NothingFreedInUse, DeadIsPrev, RunsResumed, InTable, Ring
<1> QED BY <1>1, <1>3, <1>4, <1>5 DEF IInv

-----------------------------------------------------------------------------
(* Interrupts. *)

\* The timer, in user mode.
LEMMA TimerStep ==
  ASSUME IInv, TimerTick
  PROVE  IInv'
<1> DEFINE p == cpu.current
<1>1. /\ cpu.mode = "user" /\ process_schedule(table, p, TRUE)
      /\ next_pid' = next_pid /\ bootstrap' = bootstrap /\ owner' = owner
  BY Zenon DEF TimerTick
<1>2. p \in Ring(table) /\ p \in Pid
  BY <1>1, TableFields DEF IInv, RunsResumed, Found, InTable, Ring, Good
<1>3. Running(p)
  BY <1>1 DEF Running
<1>4. Ring(table) = table.alive /\ cpu \in Cpu /\ cpu.space = p /\ Good(table, next_pid)
  BY <1>2, <1>3, RunningFacts DEF IInv
<1> QED BY <1>1, <1>2, <1>4, ScheduleStep, Zenon DEF IInv

\* The end of a hlt.
LEMMA IdleTickStep ==
  ASSUME IInv, IdleTick
  PROVE  IInv'
<1>1. PICK W : table' = Wake(table, W)
  BY DEF IdleTick
<1>2. /\ cpu.mode = "idle" /\ cpu' = [cpu EXCEPT !.mode = "pick"]
      /\ next_pid' = next_pid /\ bootstrap' = bootstrap /\ owner' = owner
  BY DEF IdleTick
<1>3. table \in Table /\ Good(table, next_pid) /\ cpu \in Cpu
  BY DEF IInv, Good
<1>4. Calmer(table, table')
  BY <1>1, <1>3, WakeFacts, SMTT(30)
<1>5. Good(table', next_pid) /\ table'.ring = table.ring /\ table'.alive = table.alive
  BY <1>3, <1>4, CalmerGood DEF Calmer
<1>6. /\ cpu' \in Cpu /\ cpu'.mode = "pick" /\ cpu'.current = cpu.current
      /\ cpu'.space = cpu.space /\ cpu'.prev = cpu.prev
  BY <1>2, <1>3 DEF Cpu
<1>7. NothingFreedInUse' /\ DeadIsPrev' /\ RunsResumed'
  BY <1>2, <1>5, <1>6 DEF IInv, NothingFreedInUse, DeadIsPrev, RunsResumed, InTable, Ring
<1> QED BY <1>2, <1>5, <1>6, <1>7 DEF IInv

\* Ctrl+C leaves a process that is in user mode there.
LEMMA CtrlCStep ==
  ASSUME IInv, CtrlC
  PROVE  IInv'
<1>1. PICK sent \in [Pid -> Signal] : table' = signal_console_interrupt(sent)
  BY DEF CtrlC
<1>2. /\ cpu.mode \in {"user", "idle"}
      /\ cpu' = [cpu EXCEPT !.mode = IF cpu.mode = "idle" THEN "pick" ELSE cpu.mode]
      /\ next_pid' = next_pid /\ bootstrap' = bootstrap /\ owner' = owner
  BY DEF CtrlC
<1>3. table \in Table /\ Good(table, next_pid) /\ cpu \in Cpu
  BY DEF IInv, Good
<1> DEFINE pe == [p \in Pid |-> IF p \in Jobs THEN table.pending[p] \cup {sent[p]}
                                           ELSE table.pending[p]]
           t == [table EXCEPT !.pending = pe]
<1>4. table' = InterruptWaits(t, Jobs)
  BY <1>1, SMTT(30) DEF signal_console_interrupt
<1>5. pe \in [Pid -> SUBSET Signal]
  BY <1>3, TableFields
<1> HIDE DEF pe
<1>6. /\ t \in Table /\ t.ring = table.ring /\ t.alive = table.alive /\ t.parent = table.parent
      /\ t.state = table.state /\ t.call = table.call /\ t.job = table.job
  <2>1. t \in Table
    BY <1>3, <1>5, Zenon DEF Table
  <2>2. t.ring = table.ring /\ t.alive = table.alive /\ t.parent = table.parent
    BY <1>3 DEF Table
  <2>3. t.state = table.state /\ t.call = table.call /\ t.job = table.job
    BY <1>3 DEF Table
  <2> QED BY <2>1, <2>2, <2>3
<1> HIDE DEF t
<1>7. Calmer(table, t)
  BY <1>6 DEF Calmer
<1>8. /\ Calmer(table, table')
      /\ \A p \in Pid : table.state[p] = "RUNNABLE" => table'.state[p] = "RUNNABLE"
      /\ \A p \in Pid : table.call[p] = "none" => table'.call[p] = "none"
  BY <1>4, <1>6, <1>7, InterruptFacts, CalmerTrans
<1>9. Good(table', next_pid) /\ table'.ring = table.ring /\ table'.alive = table.alive
  BY <1>3, <1>8, CalmerGood DEF Calmer
<1>10. /\ cpu' \in Cpu /\ cpu'.mode = IF cpu.mode = "idle" THEN "pick" ELSE "user"
       /\ cpu'.current = cpu.current /\ cpu'.space = cpu.space /\ cpu'.prev = cpu.prev
  BY <1>2, <1>3 DEF Cpu
<1>11. NothingFreedInUse' /\ DeadIsPrev'
  BY <1>2, <1>9, <1>10 DEF IInv, NothingFreedInUse, DeadIsPrev, InTable, Ring
<1>12. RunsResumed'
  <2>1. SUFFICES ASSUME cpu'.mode = "user" PROVE RunsResumed'
    BY DEF RunsResumed
  <2>2. cpu.mode = "user" /\ cpu.current \in Pid
    BY <1>2, <1>3, <1>10, <2>1, TableFields DEF IInv, RunsResumed, Found
  <2> QED BY <1>8, <1>9, <1>10, <2>2, SMTT(30) DEF IInv, RunsResumed, Found, InTable
<1> QED BY <1>2, <1>9, <1>10, <1>11, <1>12 DEF IInv

\* The kernel shell starts a program.
LEMMA RunElfStep ==
  ASSUME IInv, run_user_elf
  PROVE  IInv'
<1>1. /\ cpu.mode = "shell" /\ next_pid \in Pid /\ next_pid' = next_pid + 1
      /\ table' = process_create(table, next_pid, None)
      /\ cpu' = [cpu EXCEPT !.mode = "user", !.current = next_pid, !.space = next_pid]
      /\ bootstrap' = next_pid /\ owner' = owner
  BY DEF run_user_elf
<1>2. Good(table, next_pid) /\ cpu \in Cpu /\ Ring(table) = table.alive
  BY <1>1, Zenon DEF IInv, Good, DeadIsPrev
<1>3. /\ Good(table', next_pid') /\ Ring(table)' = Ring(table) \cup {next_pid}
      /\ table'.alive = table.alive \cup {next_pid}
      /\ table'.state[next_pid] = "RUNNABLE" /\ table'.call[next_pid] = "none"
  BY <1>1, <1>2, CreateFacts DEF Ring
<1>4. next_pid' \in 1 .. MaxPid + 1
  BY <1>1, SchedulerAssumption DEF Pid
<1>5. /\ cpu' \in Cpu /\ cpu'.mode = "user" /\ cpu'.current = next_pid /\ cpu'.space = next_pid
      /\ cpu'.prev = cpu.prev
  BY <1>1, <1>2, Zenon DEF Cpu
<1>6. NothingFreedInUse' /\ DeadIsPrev' /\ RunsResumed'
  BY <1>2, <1>3, <1>5
     DEF IInv, NothingFreedInUse, DeadIsPrev, RunsResumed, Found, InTable, Ring
<1> QED BY <1>1, <1>3, <1>4, <1>5, <1>6 DEF IInv

-----------------------------------------------------------------------------
(* The theorems. *)

\* No process has been created yet.
LEMMA InitHolds == Init => IInv
<1> SUFFICES ASSUME Init PROVE IInv
  BY SMTT(30)
<1>1. /\ table = [ring |-> << >>, alive |-> {}, state |-> [p \in Pid |-> "RUNNABLE"],
                  call |-> [p \in Pid |-> "none"], job |-> [p \in Pid |-> None],
                  prio |-> [p \in Pid |-> NORMAL], parent |-> [p \in Pid |-> None],
                  pending |-> [p \in Pid |-> {}]]
      /\ next_pid = 1 /\ bootstrap = None /\ owner = None
      /\ cpu = [mode |-> "shell", current |-> None, prev |-> None, space |-> None, irq |-> FALSE]
  BY DEF Init
<1>2. << >> \in Seq(Pid) /\ Once(<< >>) /\ Range(<< >>) = {}
  BY SMTT(30) DEF Once, Range
<1>3. table \in Table
  BY <1>1, <1>2, SchedulerAssumption, SMTT(30) DEF Table
<1>4. Good(table, next_pid)
  BY <1>1, <1>2, <1>3, SMTT(30) DEF Good, Ring
<1>5. cpu \in Cpu /\ cpu.mode = "shell" /\ next_pid \in 1 .. MaxPid + 1
  BY <1>1, SchedulerAssumption, SMTT(30) DEF Cpu
<1>6. NothingFreedInUse /\ DeadIsPrev /\ RunsResumed
  BY <1>1, <1>2 DEF NothingFreedInUse, DeadIsPrev, RunsResumed, Ring
<1> QED BY <1>1, <1>4, <1>5, <1>6 DEF IInv

\* Every step keeps the invariant.
LEMMA NextHolds == IInv /\ [Next]_vars => IInv'
<1> SUFFICES ASSUME IInv, [Next]_vars PROVE IInv'
  OBVIOUS
<1>1. ASSUME NEW p \in Pid, User(p) PROVE IInv'
  BY <1>1, OtherStep, SpawnStep, OwnFieldStep, WakingStep, WaitStep, ExitStep DEF User
<1>2. CASE Schedule
  BY <1>2, PickSpuriousStep, DispatchStep, PickKilledStep, PickIdleStep DEF Schedule
<1>3. CASE TimerTick \/ IdleTick \/ CtrlC \/ run_user_elf
  BY <1>3, TimerStep, IdleTickStep, CtrlCStep, RunElfStep, SMTT(30)
<1>4. CASE UNCHANGED vars
  BY <1>4 DEF vars, IInv, NothingFreedInUse, DeadIsPrev, RunsResumed
<1> QED BY <1>1, <1>2, <1>3, <1>4 DEF Next

\* The invariant holds at every step.
LEMMA Inductive == Spec => []IInv
BY InitHolds, NextHolds, PTL DEF Spec

\* process_schedule() returns to user mode only in a process that is alive,
\* runnable and past the call it had blocked in, and in its own address space,
\* whatever was created, killed or reaped in between.
THEOREM RunsOnlyResumed == Spec => []RunsResumed
<1>1. IInv => RunsResumed
  BY SMTT(30) DEF IInv
<1> QED BY <1>1, Inductive, PTL

\* The process list stays whole under process_create() and process_destroy(); no
\* process is used after it was freed; the dead are reaped by the schedule they
\* died in; and whoever is blocked on a child has a living one.
THEOREM ListStaysSound == Spec => []ListSound
<1>1. IInv => TypeOK
  BY DEF IInv, Good, TypeOK, Once, Ring
<1>2. IInv => DeadAreReaped
  BY SMTT(30) DEF IInv, Good, DeadIsPrev, DeadAreReaped, Ring
<1>3. IInv => WaitHasChild
  BY DEF IInv, Good, WaitHasChild, Found, InTable, Ring
<1>4. IInv => ListSound
  BY <1>1, <1>2, <1>3 DEF IInv, ListSound
<1> QED BY <1>4, Inductive, PTL
=============================================================================
