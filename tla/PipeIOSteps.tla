----------------------------- MODULE PipeIOSteps ----------------------------
(***************************************************************************)
(* The inductive invariant of PipeIO and the steps that preserve it.       *)
(* First what the functions of waitq.c, the wait registrations of          *)
(* process.c and reads and writes of pipes do to the kernel state, one     *)
(* lemma for each.  Then the invariant and the system calls that read and  *)
(* write pipes.  Then the steps that end a wait, and polls: resumption,    *)
(* interruption and timeout.                                               *)
(***************************************************************************)
EXTENDS PipeIO, Integers, TLAPS

-----------------------------------------------------------------------------
(* Numbers. *)

\* A count is zero or positive.
LEMMA NatZero == ~(0 > 0) /\ \A n \in Nat : n = 0 \/ n > 0
  OBVIOUS

\* The lengths a pipe of capacity c can have.
LEMMA NatRange ==
  \A c \in Nat : /\ \A n \in 0 .. c : n \in Nat
                 /\ \A n \in 0 .. c - 1 : n \in 0 .. c
                 /\ \A n \in 1 .. c : n \in 0 .. c
  OBVIOUS

-----------------------------------------------------------------------------
(* Lists. *)

\* Unlinking keeps a list a list of entries.
LEMMA WithoutType ==
  ASSUME NEW s \in Seq(Entry), NEW e
  PROVE  Without(s, e) \in Seq(Entry)
  BY DEF Without

\* waitq_unlink() takes exactly the given entry off the list.
LEMMA WithoutElements ==
  ASSUME NEW s \in Seq(Entry), NoRepeats(s), NEW e \in Elements(s)
  PROVE  /\ Elements(Without(s, e)) = Elements(s) \ {e}
         /\ NoRepeats(Without(s, e))
<1> DEFINE i == CHOOSE j \in DOMAIN s : s[j] = e
           t == Without(s, e)
<1>1. i \in 1 .. Len(s) /\ s[i] = e
  BY DEF Elements
<1>2. t = [j \in 1 .. Len(s) - 1 |-> IF j < i THEN s[j] ELSE s[j + 1]]
  BY Zenon DEF Without
<1>3. DOMAIN t = 1 .. Len(s) - 1 /\ DOMAIN s = 1 .. Len(s) /\ Len(s) \in Nat
  BY <1>2
<1> HIDE DEF i, t
<1>4. NoRepeats(t)
  BY <1>1, <1>2, <1>3, SMTT(30) DEF NoRepeats
<1>5. ASSUME NEW x \in Elements(t) PROVE x \in Elements(s) \ {e}
  BY <1>1, <1>2, <1>3, <1>5 DEF NoRepeats, Elements
<1>6. ASSUME NEW x \in Elements(s) \ {e} PROVE x \in Elements(t)
  <2>1. PICK j \in 1 .. Len(s) : s[j] = x
    BY <1>3, Zenon DEF Elements
  <2>2. CASE j < i
    <3>1. j \in DOMAIN t /\ t[j] = x
      BY <1>1, <1>2, <1>3, <2>1, <2>2
    <3> QED BY <3>1, Zenon DEF Elements
  <2>3. CASE j > i
    <3>1. j - 1 \in DOMAIN t /\ t[j - 1] = x
      BY <1>1, <1>2, <1>3, <2>1, <2>3
    <3> QED BY <3>1, Zenon DEF Elements
  <2> QED BY <1>1, <2>1, <2>2, <2>3
<1> QED BY <1>4, <1>5, <1>6, Zenon DEF t

\* wait_queue_add() appends the entry and nothing else.
LEMMA AppendElements ==
  ASSUME NEW s \in Seq(Entry), NoRepeats(s), NEW e \in Entry, e \notin Elements(s)
  PROVE  /\ Append(s, e) \in Seq(Entry)
         /\ Elements(Append(s, e)) = Elements(s) \cup {e}
         /\ NoRepeats(Append(s, e))
<1>1. /\ DOMAIN Append(s, e) = 1 .. Len(s) + 1 /\ DOMAIN s = 1 .. Len(s)
      /\ Len(s) \in Nat
      /\ \A j \in 1 .. Len(s) : Append(s, e)[j] = s[j]
      /\ Append(s, e)[Len(s) + 1] = e
  OBVIOUS
<1> DEFINE t == Append(s, e)
<1> HIDE DEF t
<1>2. NoRepeats(t)
  BY <1>1 DEF NoRepeats, Elements, t
<1>3. ASSUME NEW x \in Elements(s) \cup {e} PROVE x \in Elements(t)
  BY <1>1 DEF Elements, t
<1>4. ASSUME NEW x \in Elements(t) PROVE x \in Elements(s) \cup {e}
  BY <1>1 DEF Elements, t
<1> QED BY <1>2, <1>3, <1>4 DEF t

\* waitq_wake_head() takes the first entry off the list.
LEMMA TailElements ==
  ASSUME NEW s \in Seq(Entry), NoRepeats(s), s # << >>
  PROVE  /\ Head(s) \in Entry /\ Head(s) \in Elements(s)
         /\ Tail(s) \in Seq(Entry)
         /\ Elements(Tail(s)) = Elements(s) \ {Head(s)}
         /\ NoRepeats(Tail(s))
<1> DEFINE t == Tail(s)
<1>1. /\ DOMAIN t = 1 .. Len(s) - 1 /\ DOMAIN s = 1 .. Len(s)
      /\ Len(s) \in Nat \ {0}
      /\ \A j \in 1 .. Len(s) - 1 : t[j] = s[j + 1]
      /\ Head(s) = s[1] /\ Head(s) \in Entry /\ t \in Seq(Entry)
  OBVIOUS
<1> HIDE DEF t
<1>2. ASSUME NEW i \in 1 .. Len(s) - 1, NEW j \in 1 .. Len(s) - 1, t[i] = t[j]
      PROVE  i = j
  <2>1. s[i + 1] = s[j + 1] /\ i + 1 \in 1 .. Len(s) /\ j + 1 \in 1 .. Len(s)
    BY <1>1, <1>2
  <2> QED BY <1>1, <2>1 DEF NoRepeats
<1>3. ASSUME NEW x \in Elements(t) PROVE x \in Elements(s) \ {Head(s)}
  <2>1. PICK j \in 1 .. Len(s) - 1 : t[j] = x
    BY <1>1, Zenon DEF Elements
  <2>2. j + 1 \in 1 .. Len(s) /\ s[j + 1] = x /\ 1 \in 1 .. Len(s) /\ j + 1 # 1
    BY <1>1, <2>1
  <2>3. x # s[1]
    BY <1>1, <2>2, Zenon DEF NoRepeats
  <2> QED BY <1>1, <2>2, <2>3, Zenon DEF Elements
<1>4. ASSUME NEW x \in Elements(s) \ {Head(s)} PROVE x \in Elements(t)
  <2>1. PICK j \in 1 .. Len(s) : s[j] = x
    BY <1>1, Zenon DEF Elements
  <2>2. j - 1 \in DOMAIN t /\ t[j - 1] = x
    BY <1>1, <1>4, <2>1
  <2> QED BY <2>2, Zenon DEF Elements
<1>5. Head(s) \in Elements(s)
  BY <1>1 DEF Elements
<1>6. NoRepeats(t)
  BY <1>1, <1>2, Zenon DEF NoRepeats
<1> QED BY <1>1, <1>3, <1>4, <1>5, <1>6, Zenon DEF t

\* A list of no entries is the empty list.
LEMMA NoElements ==
  ASSUME NEW s \in Seq(Entry), Elements(s) = {}
  PROVE  s = << >>
<1>1. DOMAIN s = 1 .. Len(s) /\ Len(s) \in Nat
  OBVIOUS
<1>2. CASE Len(s) = 0
  BY <1>2
<1>3. CASE Len(s) > 0
  <2>1. s[1] \in Elements(s)
    BY <1>1, <1>3 DEF Elements
  <2> QED BY <2>1, Zenon
<1> QED BY <1>1, <1>2, <1>3

-----------------------------------------------------------------------------
(* The functions of waitq.c. *)

Linked(k, e, q) == k.entry[e].linked /\ k.entry[e].queue = q

\* waitq_unlink(), where the code first tests the linked flag.
LEMMA UnlinkedEffect ==
  ASSUME NEW k \in Kernel, Integrity(k), NEW e \in Entry
  PROVE  LET u == Unlinked(k, e)
         IN  /\ u \in Kernel /\ Integrity(u)
             /\ u.entry = [k.entry EXCEPT ![e] = [@ EXCEPT !.linked = FALSE]]
             /\ u.state = k.state /\ u.pipe = k.pipe
<1> DEFINE u == Unlinked(k, e)
           q == k.entry[e].queue
<1>1. /\ k.entry \in [Entry -> WaitEntry] /\ k.entry[e] \in WaitEntry
      /\ k.queue \in [Queue -> Seq(Entry)]
  BY Zenon DEF Kernel
<1>2. CASE ~k.entry[e].linked
  <2>1. u = k
    BY <1>2, Zenon DEF Unlinked
  <2>2. k.entry[e] = [k.entry[e] EXCEPT !.linked = FALSE]
    BY <1>1, <1>2, Zenon DEF WaitEntry
  <2>3. k.entry = [k.entry EXCEPT ![e] = [@ EXCEPT !.linked = FALSE]]
    BY <1>1, <2>2, Zenon
  <2> QED BY <2>1, <2>3, Zenon
<1>3. CASE k.entry[e].linked
  <2>1. q \in Queue
    BY <1>1, <1>3, Zenon DEF Integrity, WaitEntry
  <2>2. e \in Elements(k.queue[q]) /\ NoRepeats(k.queue[q]) /\ k.queue[q] \in Seq(Entry)
    BY <1>1, <1>3, <2>1, Zenon DEF Integrity
  <2>3. /\ u.queue = [k.queue EXCEPT ![q] = Without(k.queue[q], e)]
        /\ u.entry = [k.entry EXCEPT ![e] = [@ EXCEPT !.linked = FALSE]]
        /\ u.state = k.state /\ u.pipe = k.pipe
        /\ u = [queue |-> u.queue, entry |-> u.entry, state |-> u.state, pipe |-> u.pipe]
    BY <1>3, Zenon DEF Unlinked, waitq_unlink, Kernel
  <2> HIDE DEF u
  <2>4. Without(k.queue[q], e) \in Seq(Entry)
    BY <2>2, WithoutType, Zenon
  <2>5. u.queue \in [Queue -> Seq(Entry)] /\ u.entry \in [Entry -> WaitEntry]
    BY <1>1, <2>1, <2>3, <2>4, ZenonT(40) DEF WaitEntry
  <2>6. u \in Kernel
    BY <2>3, <2>5, Zenon DEF Kernel
  <2>7. /\ Elements(u.queue[q]) = Elements(k.queue[q]) \ {e}
        /\ NoRepeats(u.queue[q])
        /\ \A r \in Queue \ {q} : u.queue[r] = k.queue[r]
    <3>1. u.queue[q] = Without(k.queue[q], e) /\ \A r \in Queue \ {q} : u.queue[r] = k.queue[r]
      BY <1>1, <2>1, <2>3, Zenon
    <3>2. Elements(Without(k.queue[q], e)) = Elements(k.queue[q]) \ {e} /\ NoRepeats(Without(k.queue[q], e))
      BY <2>2, WithoutElements, Zenon
    <3> QED BY <3>1, <3>2, Zenon
  <2>8. /\ \A f \in Entry \ {e} : u.entry[f] = k.entry[f]
        /\ u.entry[e].linked = FALSE /\ u.entry[e].queue = q
        /\ u.entry[e].woken = k.entry[e].woken
    BY <1>1, <2>3, Zenon DEF WaitEntry
  <2>9. Integrity(u)
    BY <1>3, <2>1, <2>7, <2>8 DEF Integrity
  <2> QED BY <2>3, <2>6, <2>9, Zenon DEF u
<1> QED BY <1>2, <1>3, Zenon

\* An entry that is forgotten.
Idle(entry) == [entry EXCEPT !.queue = NoQueue, !.linked = FALSE, !.woken = FALSE]

\* wait_queue_remove() forgets the entry and touches no other.
LEMMA RemoveEffect ==
  ASSUME NEW k \in Kernel, Integrity(k), NEW e \in Entry
  PROVE  LET j == wait_queue_remove(k, e)
         IN  /\ j \in Kernel /\ Integrity(j)
             /\ j.entry = [k.entry EXCEPT ![e] = Idle(k.entry[e])]
             /\ j.state = k.state /\ j.pipe = k.pipe
<1> DEFINE u == Unlinked(k, e)
           j == wait_queue_remove(k, e)
<1>1. /\ u \in Kernel /\ Integrity(u)
      /\ u.entry = [k.entry EXCEPT ![e] = [@ EXCEPT !.linked = FALSE]]
      /\ u.state = k.state /\ u.pipe = k.pipe
  BY UnlinkedEffect, Zenon
<1>2. /\ k.entry \in [Entry -> WaitEntry] /\ k.entry[e] \in WaitEntry
      /\ u.entry \in [Entry -> WaitEntry] /\ u.entry[e] \in WaitEntry
  BY <1>1, Zenon DEF Kernel
<1>3. j = [u EXCEPT !.entry[e] = [@ EXCEPT !.queue = NoQueue, !.woken = FALSE]]
  BY Zenon DEF wait_queue_remove
<1> HIDE DEF u, j
<1>4. /\ j.queue = u.queue /\ j.state = u.state /\ j.pipe = u.pipe
      /\ j.entry = [u.entry EXCEPT ![e] = [@ EXCEPT !.queue = NoQueue, !.woken = FALSE]]
      /\ j = [queue |-> j.queue, entry |-> j.entry, state |-> j.state, pipe |-> j.pipe]
  BY <1>1, <1>3, Zenon DEF Kernel
<1>5. Idle(k.entry[e]) = [u.entry[e] EXCEPT !.queue = NoQueue, !.woken = FALSE]
  BY <1>1, <1>2, ZenonT(40) DEF Idle, WaitEntry
<1>6. j.entry = [k.entry EXCEPT ![e] = Idle(k.entry[e])]
  BY <1>1, <1>2, <1>4, <1>5, Zenon
<1>7. Idle(k.entry[e]) \in WaitEntry
  BY <1>2, Zenon DEF Idle, WaitEntry
<1>8. j.entry \in [Entry -> WaitEntry]
  BY <1>2, <1>6, <1>7, Zenon
<1>9. j \in Kernel
  BY <1>1, <1>4, <1>8, Zenon DEF Kernel
<1>10. /\ \A f \in Entry \ {e} : j.entry[f] = u.entry[f]
      /\ ~j.entry[e].linked /\ ~j.entry[e].woken /\ ~u.entry[e].linked
  BY <1>1, <1>2, <1>4 DEF WaitEntry
<1>11. Integrity(j)
  <2>1. \A q \in Queue : NoRepeats(j.queue[q])
    BY <1>1, <1>4, Zenon DEF Integrity
  <2>2. ASSUME NEW f \in Entry, NEW q \in Queue
        PROVE  f \in Elements(j.queue[q]) <=> j.entry[f].linked /\ j.entry[f].queue = q
    <3>1. f \in Elements(j.queue[q]) <=> u.entry[f].linked /\ u.entry[f].queue = q
      BY <1>1, <1>4 DEF Integrity
    <3> QED BY <1>10, <3>1, Zenon
  <2>3. \A f \in Entry : j.entry[f].linked \/ j.entry[f].woken =>
          j.entry[f].queue # NoQueue /\ ~(j.entry[f].linked /\ j.entry[f].woken)
    BY <1>1, <1>10, Zenon DEF Integrity
  <2> QED BY <2>1, <2>2, <2>3, Zenon DEF Integrity
<1> QED BY <1>1, <1>4, <1>6, <1>9, <1>11, Zenon DEF j

\* An entry that sleeps on q.
Asleep(entry, q) == [entry EXCEPT !.queue = q, !.linked = TRUE, !.woken = FALSE]

\* wait_queue_add() puts the entry on the given queue, whatever it was on.
LEMMA AddEffect ==
  ASSUME NEW k \in Kernel, Integrity(k), NEW e \in Entry, NEW q \in Queue
  PROVE  LET j == wait_queue_add(k, q, e)
         IN  /\ j \in Kernel /\ Integrity(j)
             /\ j.entry = [k.entry EXCEPT ![e] = Asleep(k.entry[e], q)]
             /\ j.state = k.state /\ j.pipe = k.pipe
<1> DEFINE u == Unlinked(k, e)
           j == wait_queue_add(k, q, e)
           new == Asleep(k.entry[e], q)
<1>1. /\ u \in Kernel /\ Integrity(u)
      /\ u.entry = [k.entry EXCEPT ![e] = [@ EXCEPT !.linked = FALSE]]
      /\ u.state = k.state /\ u.pipe = k.pipe
  BY UnlinkedEffect, Zenon
<1>2. /\ k.entry \in [Entry -> WaitEntry] /\ k.entry[e] \in WaitEntry
      /\ u.entry \in [Entry -> WaitEntry] /\ u.entry[e] \in WaitEntry
      /\ u.queue \in [Queue -> Seq(Entry)] /\ u.queue[q] \in Seq(Entry)
  BY <1>1, Zenon DEF Kernel
<1>3. j = [u EXCEPT !.queue[q] = Append(@, e),
                    !.entry[e] = [@ EXCEPT !.queue = q, !.linked = TRUE, !.woken = FALSE]]
  BY Zenon DEF wait_queue_add
<1> HIDE DEF u, j
<1>4. /\ j.queue = [u.queue EXCEPT ![q] = Append(@, e)]
      /\ j.state = u.state /\ j.pipe = u.pipe
      /\ j.entry = [u.entry EXCEPT ![e] = [@ EXCEPT !.queue = q, !.linked = TRUE, !.woken = FALSE]]
      /\ j = [queue |-> j.queue, entry |-> j.entry, state |-> j.state, pipe |-> j.pipe]
  BY <1>1, <1>3, Zenon DEF Kernel
<1>5. new = [u.entry[e] EXCEPT !.queue = q, !.linked = TRUE, !.woken = FALSE]
  BY <1>1, <1>2, Zenon DEF WaitEntry, Asleep
<1>6. new \in WaitEntry
  BY <1>2, Zenon DEF WaitEntry, Asleep
<1> HIDE DEF new
<1>7. j.entry = [k.entry EXCEPT ![e] = new] /\ j.entry \in [Entry -> WaitEntry]
  BY <1>1, <1>2, <1>4, <1>5, <1>6, ZenonT(40)
<1>8. ~u.entry[e].linked
  BY <1>1, <1>2, Zenon DEF WaitEntry
<1>9. e \notin Elements(u.queue[q]) /\ NoRepeats(u.queue[q])
  BY <1>1, <1>8, Zenon DEF Integrity
<1>10. /\ Append(u.queue[q], e) \in Seq(Entry)
      /\ Elements(Append(u.queue[q], e)) = Elements(u.queue[q]) \cup {e}
      /\ NoRepeats(Append(u.queue[q], e))
  BY <1>2, <1>9, AppendElements, Zenon
<1>11. j \in Kernel
  BY <1>1, <1>2, <1>4, <1>7, <1>10, ZenonT(40) DEF Kernel
<1>12. /\ Elements(j.queue[q]) = Elements(u.queue[q]) \cup {e} /\ NoRepeats(j.queue[q])
       /\ \A r \in Queue \ {q} : j.queue[r] = u.queue[r]
  BY <1>2, <1>4, <1>10, Zenon
<1>13. /\ \A f \in Entry \ {e} : j.entry[f] = u.entry[f]
       /\ j.entry[e].linked /\ ~j.entry[e].woken /\ j.entry[e].queue = q
  BY <1>2, <1>4, Zenon DEF WaitEntry
<1>14. NoQueue \notin Queue
  BY PipeIOAssumption, Zenon
<1>15. Integrity(j)
  BY <1>1, <1>8, <1>12, <1>13, <1>14 DEF Integrity
<1> QED BY <1>1, <1>4, <1>7, <1>11, <1>15, Zenon DEF j, new

\* wait_entry_init() on an entry that is on no list.
LEMMA EntryInitEffect ==
  ASSUME NEW k \in Kernel, Integrity(k), NEW e \in Entry, ~k.entry[e].linked,
         NEW x \in BOOLEAN
  PROVE  LET j == wait_entry_init(k, e, x)
         IN  /\ j \in Kernel /\ Integrity(j)
             /\ j.entry = [k.entry EXCEPT ![e] = [queue |-> NoQueue, linked |-> FALSE,
                                                  woken |-> FALSE, exclusive |-> x]]
             /\ j.state = k.state /\ j.pipe = k.pipe
<1> DEFINE j == wait_entry_init(k, e, x)
           new == [queue |-> NoQueue, linked |-> FALSE, woken |-> FALSE, exclusive |-> x]
<1>1. j = [k EXCEPT !.entry[e] = new]
  BY Zenon DEF wait_entry_init
<1>2. new \in WaitEntry /\ ~new.linked /\ ~new.woken
  BY Zenon DEF WaitEntry
<1> HIDE DEF j, new
<1>3. /\ j.queue = k.queue /\ j.state = k.state /\ j.pipe = k.pipe
      /\ j.entry = [k.entry EXCEPT ![e] = new]
      /\ k.entry \in [Entry -> WaitEntry]
      /\ j = [queue |-> j.queue, entry |-> j.entry, state |-> j.state, pipe |-> j.pipe]
  BY <1>1, Zenon DEF Kernel
<1>4. j.entry \in [Entry -> WaitEntry]
  BY <1>2, <1>3, Zenon
<1>5. j \in Kernel
  BY <1>3, <1>4, Zenon DEF Kernel
<1>6. /\ \A f \in Entry \ {e} : j.entry[f] = k.entry[f]
      /\ ~j.entry[e].linked /\ ~j.entry[e].woken
  BY <1>2, <1>3, Zenon
<1>7. Integrity(j)
  <2>1. \A q \in Queue : NoRepeats(j.queue[q])
    BY <1>3, Zenon DEF Integrity
  <2>2. ASSUME NEW f \in Entry, NEW q \in Queue
        PROVE  f \in Elements(j.queue[q]) <=> j.entry[f].linked /\ j.entry[f].queue = q
    <3>1. f \in Elements(j.queue[q]) <=> k.entry[f].linked /\ k.entry[f].queue = q
      BY <1>3, Zenon DEF Integrity
    <3> QED BY <1>6, <3>1, Zenon
  <2>3. \A f \in Entry : j.entry[f].linked \/ j.entry[f].woken =>
          j.entry[f].queue # NoQueue /\ ~(j.entry[f].linked /\ j.entry[f].woken)
    BY <1>6, Zenon DEF Integrity
  <2> QED BY <2>1, <2>2, <2>3, Zenon DEF Integrity
<1> QED BY <1>3, <1>5, <1>7, Zenon DEF j, new

\* An entry that was woken: off the list, its queue pointer kept.
Awake(entry) == [entry EXCEPT !.linked = FALSE, !.woken = TRUE]

\* waitq_wake_head() wakes one entry of the queue, if it has one.
LEMMA WakeHeadEffect ==
  ASSUME NEW k \in Kernel, Integrity(k), NEW q \in Queue
  PROVE  LET j == waitq_wake_head(k, q)
         IN  /\ j \in Kernel /\ Integrity(j)
             /\ j.pipe = k.pipe
             /\ \/ j = k /\ \A e \in Entry : ~Linked(k, e, q)
                \/ \E e \in Entry :
                     /\ Linked(k, e, q)
                     /\ j.entry = [k.entry EXCEPT ![e] = Awake(k.entry[e])]
                     /\ j.state = [k.state EXCEPT ![Owner(e)] = RUNNABLE]
<1> DEFINE j == waitq_wake_head(k, q)
<1>1. /\ k.entry \in [Entry -> WaitEntry] /\ k.queue \in [Queue -> Seq(Entry)]
      /\ k.state \in [Proc -> {RUNNABLE} \cup Blocked]
      /\ k.queue[q] \in Seq(Entry) /\ NoRepeats(k.queue[q])
  BY Zenon DEF Kernel, Integrity
<1>2. CASE k.queue[q] = << >>
  <2>1. j = k
    BY <1>2, Zenon DEF waitq_wake_head
  <2>2. Elements(k.queue[q]) = {}
    BY <1>2 DEF Elements
  <2>3. \A e \in Entry : ~Linked(k, e, q)
    BY <2>2, Zenon DEF Integrity, Linked
  <2> QED BY <2>1, <2>3, Zenon
<1>3. CASE k.queue[q] # << >>
  <2> DEFINE e == Head(k.queue[q])
  <2>1. /\ e \in Entry /\ e \in Elements(k.queue[q])
        /\ Tail(k.queue[q]) \in Seq(Entry)
        /\ Elements(Tail(k.queue[q])) = Elements(k.queue[q]) \ {e}
        /\ NoRepeats(Tail(k.queue[q]))
    BY <1>1, <1>3, TailElements, Zenon
  <2>2. Linked(k, e, q) /\ k.entry[e] \in WaitEntry
    BY <1>1, <2>1, Zenon DEF Integrity, Linked
  <2>3. j = [k EXCEPT !.queue[q] = Tail(@), !.entry[e] = Awake(@),
                      !.state[Owner(e)] = RUNNABLE]
    BY <1>3, Zenon DEF waitq_wake_head, Awake
  <2>4. /\ Awake(k.entry[e]) \in WaitEntry
        /\ ~Awake(k.entry[e]).linked /\ Awake(k.entry[e]).woken
        /\ Awake(k.entry[e]).queue = q
    BY <2>2, Zenon DEF Awake, WaitEntry, Linked
  <2> HIDE DEF j, e
  <2>5. /\ j.queue = [k.queue EXCEPT ![q] = Tail(@)] /\ j.pipe = k.pipe
        /\ j.entry = [k.entry EXCEPT ![e] = Awake(@)]
        /\ j.state = [k.state EXCEPT ![Owner(e)] = RUNNABLE]
        /\ j = [queue |-> j.queue, entry |-> j.entry, state |-> j.state, pipe |-> j.pipe]
    BY <2>3, Zenon DEF Kernel
  <2>6. /\ j.queue \in [Queue -> Seq(Entry)]
        /\ j.entry \in [Entry -> WaitEntry]
        /\ j.state \in [Proc -> {RUNNABLE} \cup Blocked]
    <3>1. j.queue \in [Queue -> Seq(Entry)]
      BY <1>1, <2>1, <2>5, Zenon
    <3>2. j.entry \in [Entry -> WaitEntry]
      BY <1>1, <2>4, <2>5, ZenonT(40)
    <3>3. j.state \in [Proc -> {RUNNABLE} \cup Blocked]
      BY <1>1, <2>5, Zenon
    <3> QED BY <3>1, <3>2, <3>3, Zenon
  <2>7. j \in Kernel
    BY <2>5, <2>6, Zenon DEF Kernel
  <2>8. /\ Elements(j.queue[q]) = Elements(k.queue[q]) \ {e} /\ NoRepeats(j.queue[q])
        /\ \A r \in Queue \ {q} : j.queue[r] = k.queue[r]
    BY <1>1, <2>1, <2>5, Zenon DEF e
  <2>9. /\ \A f \in Entry \ {e} : j.entry[f] = k.entry[f]
        /\ ~j.entry[e].linked /\ j.entry[e].woken /\ j.entry[e].queue = q
    BY <1>1, <2>1, <2>4, <2>5
  <2>10. NoQueue \notin Queue
    BY PipeIOAssumption, Zenon
  <2>11. Integrity(j)
    BY <2>2, <2>8, <2>9, <2>10 DEF Integrity, Linked
  <2> QED BY <2>1, <2>2, <2>5, <2>7, <2>11, Zenon DEF j
<1> QED BY <1>2, <1>3, Zenon

\* wait_queue_wake_all() leaves nobody on the queues Q.
LEMMA WakeAllEffect ==
  ASSUME NEW k \in Kernel, Integrity(k), NEW Q \in SUBSET Queue
  PROVE  LET j == WakeAll(k, Q)
             woken(e) == k.entry[e].linked /\ k.entry[e].queue \in Q
         IN  /\ j \in Kernel /\ Integrity(j)
             /\ j.pipe = k.pipe
             /\ \A e \in Entry : j.entry[e] = IF woken(e) THEN Awake(k.entry[e])
                                                          ELSE k.entry[e]
             /\ \A p \in Proc : j.state[p] = IF \E e \in Entry : woken(e) /\ Owner(e) = p
                                             THEN RUNNABLE ELSE k.state[p]
<1> DEFINE j == WakeAll(k, Q)
           woken(e) == k.entry[e].linked /\ k.entry[e].queue \in Q
           W == UNION {Elements(k.queue[q]) : q \in Q}
<1>1. /\ k.entry \in [Entry -> WaitEntry] /\ k.queue \in [Queue -> Seq(Entry)]
      /\ k.state \in [Proc -> {RUNNABLE} \cup Blocked] /\ DOMAIN k.state = Proc
  BY Zenon DEF Kernel
<1>2. \A q \in Queue : Elements(k.queue[q]) \subseteq Entry
  BY <1>1 DEF Elements
<1>3. W \subseteq Entry /\ \A e \in Entry : e \in W <=> woken(e)
  <2>1. W \subseteq Entry
    BY <1>2, Zenon
  <2>2. \A e \in Entry : e \in W <=> \E q \in Q : e \in Elements(k.queue[q])
    BY Zenon
  <2>3. \A e \in Entry : e \in W <=> woken(e)
    BY <2>2 DEF Integrity
  <2> QED BY <2>1, <2>3, Zenon
<1> HIDE DEF W
<1>4. j = [k EXCEPT
             !.queue = [q \in Queue |-> IF q \in Q THEN << >> ELSE k.queue[q]],
             !.entry = [e \in Entry |-> IF e \in W THEN Awake(k.entry[e]) ELSE k.entry[e]],
             !.state = [p \in DOMAIN k.state |->
                          IF \E e \in W : Owner(e) = p THEN RUNNABLE ELSE k.state[p]]]
  BY Zenon DEF WakeAll, Awake, W
<1> HIDE DEF j
<1>5. /\ j.queue = [q \in Queue |-> IF q \in Q THEN << >> ELSE k.queue[q]]
      /\ j.entry = [e \in Entry |-> IF e \in W THEN Awake(k.entry[e]) ELSE k.entry[e]]
      /\ j.state = [p \in Proc |-> IF \E e \in W : Owner(e) = p THEN RUNNABLE ELSE k.state[p]]
      /\ j.pipe = k.pipe
      /\ j = [queue |-> j.queue, entry |-> j.entry, state |-> j.state, pipe |-> j.pipe]
  BY <1>1, <1>4, Zenon DEF Kernel
<1>6. \A e \in Entry : /\ Awake(k.entry[e]) \in WaitEntry
                       /\ ~Awake(k.entry[e]).linked /\ Awake(k.entry[e]).woken
                       /\ Awake(k.entry[e]).queue = k.entry[e].queue
  BY <1>1, Zenon DEF Awake, WaitEntry
<1>7. /\ j.queue \in [Queue -> Seq(Entry)]
      /\ j.entry \in [Entry -> WaitEntry]
      /\ j.state \in [Proc -> {RUNNABLE} \cup Blocked]
  <2>1. j.queue \in [Queue -> Seq(Entry)]
    BY <1>1, <1>5
  <2>2. j.entry \in [Entry -> WaitEntry]
    BY <1>1, <1>5, <1>6
  <2>3. j.state \in [Proc -> {RUNNABLE} \cup Blocked]
    BY <1>1, <1>5, Zenon
  <2> QED BY <2>1, <2>2, <2>3, Zenon
<1>8. j \in Kernel
  BY <1>5, <1>7, Zenon DEF Kernel
<1>9. \A e \in Entry : j.entry[e] = IF woken(e) THEN Awake(k.entry[e]) ELSE k.entry[e]
  BY <1>3, <1>5
<1>10. ASSUME NEW p \in Proc
       PROVE  j.state[p] = IF \E e \in Entry : woken(e) /\ Owner(e) = p
                           THEN RUNNABLE ELSE k.state[p]
  BY <1>3, <1>5
<1>11. Integrity(j)
  <2>1. NoRepeats(<< >>) /\ Elements(<< >>) = {}
    BY DEF NoRepeats, Elements
  <2>2. \A q \in Queue : NoRepeats(j.queue[q])
    BY <1>5, <2>1, ZenonT(40) DEF Integrity
  <2>3. ASSUME NEW e \in Entry, NEW q \in Queue
        PROVE  e \in Elements(j.queue[q]) <=> j.entry[e].linked /\ j.entry[e].queue = q
    <3>1. e \in Elements(k.queue[q]) <=> k.entry[e].linked /\ k.entry[e].queue = q
      BY Zenon DEF Integrity
    <3>2. CASE q \in Q
      BY <1>5, <1>6, <1>9, <2>1, <3>1, <3>2
    <3>3. CASE q \notin Q
      BY <1>5, <1>6, <1>9, <3>1, <3>3
    <3> QED BY <3>2, <3>3, Zenon
  <2>4. \A e \in Entry : j.entry[e].linked \/ j.entry[e].woken =>
          j.entry[e].queue # NoQueue /\ ~(j.entry[e].linked /\ j.entry[e].woken)
    BY <1>6, <1>9 DEF Integrity
  <2> QED BY <2>2, <2>3, <2>4, Zenon DEF Integrity
<1> HIDE DEF woken
<1>12. /\ j \in Kernel /\ Integrity(j) /\ j.pipe = k.pipe
       /\ \A e \in Entry : j.entry[e] = IF woken(e) THEN Awake(k.entry[e]) ELSE k.entry[e]
       /\ \A p \in Proc : j.state[p] = IF \E e \in Entry : woken(e) /\ Owner(e) = p
                                       THEN RUNNABLE ELSE k.state[p]
  BY <1>5, <1>8, <1>9, <1>10, <1>11, Zenon
<1> QED BY <1>12, Zenon DEF j, woken

-----------------------------------------------------------------------------
(* A system call of one process can only wake another one. *)

\* The step from k to j does nothing to entry e of p, or wakes p through it.
WokenEntry(k, j, e) ==
  k.entry[e].linked /\ j.entry[e] = Awake(k.entry[e])

\* All that happens to process p between k and j is that it may be woken.
OnlyWoken(k, j, p) ==
  /\ \A i \in Slot : \/ j.entry[<<p, i>>] = k.entry[<<p, i>>]
                     \/ WokenEntry(k, j, <<p, i>>) /\ j.state[p] = RUNNABLE
  /\ \/ j.state[p] = k.state[p]
     \/ j.state[p] = RUNNABLE /\ \E i \in Slot : WokenEntry(k, j, <<p, i>>)

Wakes(k, j) == \A p \in Proc : OnlyWoken(k, j, p)

\* If somebody sleeps on q, somebody else was woken from q and will act on it.
Covered(k, q) ==
  (\E e \in Entry : Linked(k, e, q))
    => \E e \in Entry : k.entry[e].woken /\ k.entry[e].queue = q

\* Entries are the slots of the processes.
LEMMA Entries ==
  /\ \A p \in Proc, i \in Slot : <<p, i>> \in Entry /\ Owner(<<p, i>>) = p
  /\ \A e \in Entry : /\ Owner(e) \in Proc /\ e[2] \in Slot
                      /\ e = <<Owner(e), e[2]>>
  BY PipeIOAssumption DEF Owner

\* The fields of an entry that was woken.
LEMMA AwakeFields ==
  ASSUME NEW e \in WaitEntry
  PROVE  /\ Awake(e) \in WaitEntry /\ ~Awake(e).linked /\ Awake(e).woken
         /\ Awake(e).queue = e.queue /\ Awake(e).exclusive = e.exclusive
  BY Zenon DEF Awake, WaitEntry

\* Nobody is touched when the entries and the states stay as they are.
LEMMA OnlyWokenRefl ==
  ASSUME NEW k, NEW j, NEW p, j.entry = k.entry, j.state = k.state
  PROVE  OnlyWoken(k, j, p)
  BY Zenon DEF OnlyWoken

\* Wakes after wakes are wakes: an entry that is awake is not woken again.
LEMMA OnlyWokenTrans ==
  ASSUME NEW k \in Kernel, NEW j \in Kernel, NEW l, NEW p \in Proc,
         OnlyWoken(k, j, p), OnlyWoken(j, l, p)
  PROVE  OnlyWoken(k, l, p)
<1>1. \A i \in Slot : k.entry[<<p, i>>] \in WaitEntry /\ j.entry[<<p, i>>] \in WaitEntry
  BY Entries, Zenon DEF Kernel
<1>2. ASSUME NEW i \in Slot, WokenEntry(k, j, <<p, i>>)
      PROVE  l.entry[<<p, i>>] = j.entry[<<p, i>>] /\ ~WokenEntry(j, l, <<p, i>>)
             /\ WokenEntry(k, l, <<p, i>>)
  <2>1. ~j.entry[<<p, i>>].linked
    BY <1>1, <1>2, AwakeFields, Zenon DEF WokenEntry
  <2> QED BY <1>2, <2>1, Zenon DEF OnlyWoken, WokenEntry
<1>3. ASSUME NEW i \in Slot, WokenEntry(j, l, <<p, i>>)
      PROVE  WokenEntry(k, l, <<p, i>>) /\ l.state[p] = RUNNABLE
  <2>1. j.entry[<<p, i>>] = k.entry[<<p, i>>]
    BY <1>2, <1>3, Zenon DEF OnlyWoken
  <2>2. l.state[p] = RUNNABLE
    <3>1. l.entry[<<p, i>>] # j.entry[<<p, i>>]
      BY <1>1, <1>3, AwakeFields, Zenon DEF WokenEntry
    <3> QED BY <3>1, Zenon DEF OnlyWoken
  <2> QED BY <1>3, <2>1, <2>2, Zenon DEF WokenEntry
<1>4. j.state[p] = RUNNABLE => l.state[p] = RUNNABLE
  BY Zenon DEF OnlyWoken
<1>5. ASSUME NEW i \in Slot
      PROVE  \/ l.entry[<<p, i>>] = k.entry[<<p, i>>]
             \/ WokenEntry(k, l, <<p, i>>) /\ l.state[p] = RUNNABLE
  BY <1>2, <1>3, <1>4, Zenon DEF OnlyWoken
<1>6. \/ l.state[p] = k.state[p]
      \/ l.state[p] = RUNNABLE /\ \E i \in Slot : WokenEntry(k, l, <<p, i>>)
  BY <1>2, <1>3, <1>4, Zenon DEF OnlyWoken
<1> QED BY <1>5, <1>6, Zenon DEF OnlyWoken

\* Wakes after wakes are wakes, for all processes.
LEMMA WakesTrans ==
  ASSUME NEW k \in Kernel, NEW j \in Kernel, NEW l, Wakes(k, j), Wakes(j, l)
  PROVE  Wakes(k, l)
  BY OnlyWokenTrans, Zenon DEF Wakes

\* Whether one state is another with wakes depends on entries and states only.
LEMMA WakesSame ==
  ASSUME NEW k, NEW u, NEW j, Wakes(k, u), j.entry = u.entry, j.state = u.state
  PROVE  Wakes(k, j)
  BY SMTT(30) DEF Wakes, OnlyWoken, WokenEntry

\* Wakes put nobody to sleep and undo no wake.
LEMMA WakesKeep ==
  ASSUME NEW k \in Kernel, NEW j \in Kernel, Wakes(k, j), NEW e \in Entry
  PROVE  /\ j.entry[e].queue = k.entry[e].queue
         /\ j.entry[e].exclusive = k.entry[e].exclusive
         /\ j.entry[e].linked => k.entry[e].linked
         /\ k.entry[e].woken => j.entry[e].woken
<1>1. k.entry[e] \in WaitEntry
  BY Zenon DEF Kernel
<1>2. j.entry[e] = k.entry[e] \/ j.entry[e] = Awake(k.entry[e])
  BY Entries, Zenon DEF Wakes, OnlyWoken, WokenEntry
<1> QED BY <1>1, <1>2, AwakeFields, Zenon

\* Wakes keep a queue covered.
LEMMA WakesCover ==
  ASSUME NEW k \in Kernel, NEW j \in Kernel, Wakes(k, j), NEW q, Covered(k, q)
  PROVE  Covered(j, q)
  BY WakesKeep DEF Covered, Linked

\* Somebody other than p sleeps on q only if somebody other than p was woken.
CoveredBut(k, q, p) ==
  (\E e \in Entry : Linked(k, e, q) /\ Owner(e) # p)
    => \E e \in Entry : k.entry[e].woken /\ k.entry[e].queue = q /\ Owner(e) # p

\* Wakes keep a queue covered without p.
LEMMA WakesCoverBut ==
  ASSUME NEW k \in Kernel, NEW j \in Kernel, Wakes(k, j), NEW q, NEW p,
         CoveredBut(k, q, p)
  PROVE  CoveredBut(j, q, p)
  BY WakesKeep DEF CoveredBut, Linked

\* wait_queue_wake_one() covers its queue, and without p if p does not sleep there.
LEMMA WakeOneWakes ==
  ASSUME NEW k \in Kernel, Integrity(k), NEW q \in Queue
  PROVE  LET j == wait_queue_wake_one(k, q)
         IN  /\ j \in Kernel /\ Integrity(j) /\ j.pipe = k.pipe
             /\ Wakes(k, j) /\ Covered(j, q)
             /\ \A p \in Proc : (\A i \in Slot : ~Linked(k, <<p, i>>, q))
                                  => CoveredBut(j, q, p)
<1> DEFINE j == wait_queue_wake_one(k, q)
<1>1. /\ j \in Kernel /\ Integrity(j) /\ j.pipe = k.pipe
      /\ \/ j = k /\ \A e \in Entry : ~Linked(k, e, q)
         \/ \E e \in Entry :
              /\ Linked(k, e, q)
              /\ j.entry = [k.entry EXCEPT ![e] = Awake(k.entry[e])]
              /\ j.state = [k.state EXCEPT ![Owner(e)] = RUNNABLE]
  BY WakeHeadEffect, Zenon DEF wait_queue_wake_one
<1> HIDE DEF j
<1>2. CASE j = k /\ \A e \in Entry : ~Linked(k, e, q)
  <2>1. Wakes(k, j)
    BY <1>2, OnlyWokenRefl, Zenon DEF Wakes
  <2>2. Covered(j, q) /\ \A p \in Proc : CoveredBut(j, q, p)
    BY <1>2, Zenon DEF Covered, CoveredBut
  <2> QED BY <1>1, <2>1, <2>2, Zenon DEF j
<1>3. ASSUME NEW e \in Entry, Linked(k, e, q),
             j.entry = [k.entry EXCEPT ![e] = Awake(k.entry[e])],
             j.state = [k.state EXCEPT ![Owner(e)] = RUNNABLE]
      PROVE  /\ Wakes(k, j) /\ Covered(j, q)
             /\ \A p \in Proc : (\A i \in Slot : ~Linked(k, <<p, i>>, q))
                                  => CoveredBut(j, q, p)
  <2>1. /\ k.entry \in [Entry -> WaitEntry] /\ k.entry[e] \in WaitEntry
        /\ k.state \in [Proc -> {RUNNABLE} \cup Blocked]
    BY Zenon DEF Kernel
  <2>2. j.entry[e] = Awake(k.entry[e]) /\ \A f \in Entry \ {e} : j.entry[f] = k.entry[f]
    BY <1>3, <2>1, Zenon
  <2>3. /\ j.state[Owner(e)] = RUNNABLE
        /\ \A p \in Proc \ {Owner(e)} : j.state[p] = k.state[p]
    BY <1>3, <2>1, Entries, Zenon
  <2>4. WokenEntry(k, j, e)
    BY <1>3, <2>2, Zenon DEF WokenEntry, Linked
  <2>5. ASSUME NEW p \in Proc PROVE OnlyWoken(k, j, p)
    <3>1. CASE p = Owner(e)
      BY <2>2, <2>3, <2>4, <3>1, Entries, Zenon DEF OnlyWoken
    <3>2. CASE p # Owner(e)
      BY <2>2, <2>3, <3>2, Entries, Zenon DEF OnlyWoken
    <3> QED BY <3>1, <3>2, Zenon
  <2>6. j.entry[e].woken /\ j.entry[e].queue = q
    BY <1>3, <2>1, <2>2, AwakeFields DEF Linked
  <2>7. ASSUME NEW p \in Proc, \A i \in Slot : ~Linked(k, <<p, i>>, q)
        PROVE  CoveredBut(j, q, p)
    <3>1. Owner(e) # p
      BY <1>3, <2>7, Entries
    <3> QED BY <2>6, <3>1, Zenon DEF CoveredBut
  <2> QED BY <2>5, <2>6, <2>7, Zenon DEF Wakes, Covered
<1> QED BY <1>1, <1>2, <1>3, Zenon DEF j

\* wait_queue_wake_all() empties its queues.
LEMMA WakeAllWakes ==
  ASSUME NEW k \in Kernel, Integrity(k), NEW Q \in SUBSET Queue
  PROVE  LET j == WakeAll(k, Q)
         IN  /\ j \in Kernel /\ Integrity(j) /\ j.pipe = k.pipe
             /\ Wakes(k, j)
             /\ \A e \in Entry, q \in Q : ~Linked(j, e, q)
<1> DEFINE j == WakeAll(k, Q)
           woken(e) == k.entry[e].linked /\ k.entry[e].queue \in Q
<1>1. /\ j \in Kernel /\ Integrity(j) /\ j.pipe = k.pipe
      /\ \A e \in Entry : j.entry[e] = IF woken(e) THEN Awake(k.entry[e])
                                                   ELSE k.entry[e]
      /\ \A p \in Proc : j.state[p] = IF \E e \in Entry : woken(e) /\ Owner(e) = p
                                      THEN RUNNABLE ELSE k.state[p]
  BY WakeAllEffect, Zenon
<1> HIDE DEF j
<1>2. \A e \in Entry : k.entry[e] \in WaitEntry
  BY Zenon DEF Kernel
<1>3. ASSUME NEW e \in Entry, NEW q \in Q PROVE ~Linked(j, e, q)
  BY <1>1, <1>2, AwakeFields, SMTT(30) DEF Linked
<1>4. ASSUME NEW p \in Proc PROVE OnlyWoken(k, j, p)
  <2>1. \A i \in Slot : woken(<<p, i>>) =>
          WokenEntry(k, j, <<p, i>>) /\ j.state[p] = RUNNABLE
    BY <1>1, Entries DEF WokenEntry
  <2>2. \A i \in Slot : ~woken(<<p, i>>) => j.entry[<<p, i>>] = k.entry[<<p, i>>]
    BY <1>1, Entries, Zenon
  <2>3. \/ j.state[p] = k.state[p]
        \/ j.state[p] = RUNNABLE /\ \E i \in Slot : woken(<<p, i>>)
    BY <1>1, Entries
  <2> HIDE DEF woken
  <2> QED BY <2>1, <2>2, <2>3, Zenon DEF OnlyWoken
<1> QED BY <1>1, <1>3, <1>4, Zenon DEF Wakes, j

-----------------------------------------------------------------------------
(* The wait registrations of a process (process.c). *)

\* The fields of an entry that was removed.
LEMMA IdleFields ==
  ASSUME NEW e \in WaitEntry
  PROVE  /\ Idle(e) \in WaitEntry /\ ~Idle(e).linked /\ ~Idle(e).woken
         /\ Idle(e).queue = NoQueue /\ Idle(e).exclusive = e.exclusive
  BY Zenon DEF Idle, WaitEntry

\* wait_queue_cancel() forgets the entry; a wake it carries goes to another one.
LEMMA CancelEffect ==
  ASSUME NEW k \in Kernel, Integrity(k), NEW e \in Entry
  PROVE  LET j == wait_queue_cancel(k, e)
         IN  /\ j \in Kernel /\ Integrity(j) /\ j.pipe = k.pipe
             /\ j.entry[e] = Idle(k.entry[e])
             /\ Wakes([k EXCEPT !.entry[e] = Idle(@)], j)
             /\ (k.entry[e].woken => k.entry[e].exclusive) =>
                  \A q \in Queue : Covered(k, q) => Covered(j, q)
<1> DEFINE j == wait_queue_cancel(k, e)
           r == wait_queue_remove(k, e)
           s == [k EXCEPT !.entry[e] = Idle(@)]
           q0 == k.entry[e].queue
<1>1. /\ r \in Kernel /\ Integrity(r)
      /\ r.entry = [k.entry EXCEPT ![e] = Idle(k.entry[e])]
      /\ r.state = k.state /\ r.pipe = k.pipe
  BY RemoveEffect, Zenon
<1>2. s.entry = r.entry /\ s.state = r.state
  BY <1>1, Zenon DEF Kernel
<1>3. k.entry \in [Entry -> WaitEntry] /\ k.entry[e] \in WaitEntry
  BY Zenon DEF Kernel
<1>4. /\ r.entry[e] = Idle(k.entry[e]) /\ ~r.entry[e].linked
      /\ \A f \in Entry \ {e} : r.entry[f] = k.entry[f]
  BY <1>1, <1>3, IdleFields, Zenon
<1>5. j = IF k.entry[e].woken /\ k.entry[e].exclusive THEN wait_queue_wake_one(r, q0) ELSE r
  BY Zenon DEF wait_queue_cancel, wait_queue_wake_one
<1> HIDE DEF j, r, s
<1>6. /\ j \in Kernel /\ Integrity(j) /\ j.pipe = k.pipe
      /\ j.entry[e] = Idle(k.entry[e]) /\ Wakes(s, j)
      /\ (k.entry[e].woken => k.entry[e].exclusive) =>
           \A q \in Queue : Covered(k, q) => Covered(j, q)
  <2>1. CASE k.entry[e].woken /\ k.entry[e].exclusive
    <3>1. q0 \in Queue
      BY <1>3, <2>1, Zenon DEF Integrity, WaitEntry
    <3>2. /\ j \in Kernel /\ Integrity(j) /\ j.pipe = r.pipe
          /\ Wakes(r, j) /\ Covered(j, q0)
      BY <1>1, <1>5, <2>1, <3>1, WakeOneWakes, Zenon
    <3>3. Wakes(s, j)
      BY <1>2, <3>2, SMTT(30) DEF Wakes, OnlyWoken, WokenEntry
    <3>4. j.entry[e] = r.entry[e]
      BY <1>4, <3>2, Entries DEF Wakes, OnlyWoken, WokenEntry
    <3>5. ASSUME NEW q \in Queue, Covered(k, q), q # q0 PROVE Covered(r, q)
      BY <1>4, <3>5, Zenon DEF Covered, Linked
    <3>6. \A q \in Queue : Covered(k, q) => Covered(j, q)
      BY <1>1, <3>2, <3>5, WakesCover, Zenon
    <3> QED BY <1>1, <1>4, <3>2, <3>3, <3>4, <3>6, Zenon
  <2>2. CASE ~(k.entry[e].woken /\ k.entry[e].exclusive)
    <3>1. j = r
      BY <1>5, <2>2, Zenon
    <3>2. Wakes(s, j)
      BY <1>2, <3>1, OnlyWokenRefl, Zenon DEF Wakes
    <3>3. ASSUME NEW q \in Queue, Covered(k, q), k.entry[e].woken => k.entry[e].exclusive
          PROVE  Covered(j, q)
      BY <1>4, <2>2, <3>1, <3>3, Zenon DEF Covered, Linked
    <3> QED BY <1>1, <1>4, <3>1, <3>2, <3>3, ZenonT(40)
  <2> QED BY <2>1, <2>2, Zenon
<1> QED BY <1>6, Zenon DEF j, s

\* The entry e is on no list and carries no wake.
Free(k, e) == ~k.entry[e].linked /\ ~k.entry[e].woken /\ k.entry[e].queue = NoQueue

\* process_wait_detach() leaves p on no queue and otherwise only wakes.  If it
\* cancels, queues stay covered; if not, those that p did not cover do.
LEMMA DetachEffect ==
  ASSUME NEW k \in Kernel, Integrity(k), NEW p \in Proc, NEW cancel \in BOOLEAN
  PROVE  LET j == process_wait_detach(k, p, cancel)
         IN  /\ j \in Kernel /\ Integrity(j) /\ j.pipe = k.pipe
             /\ \A i \in Slot : Free(j, <<p, i>>)
             /\ \A q \in Proc \ {p} : OnlyWoken(k, j, q)
             /\ j.state[p] \in {k.state[p], RUNNABLE}
             /\ ~cancel => j.state = k.state
             /\ ~cancel => \A q \in Queue : CoveredBut(k, q, p) => Covered(j, q)
             /\ cancel /\ (k.entry[<<p, Block>>].woken => k.entry[<<p, Block>>].exclusive) =>
                  \A q \in Queue :
                    Covered(k, q) /\ (\A i \in PollSlot : k.entry[<<p, i>>].queue # q)
                      => Covered(j, q)
<1> DEFINE e0 == <<p, Block>>
           e1 == <<p, 1>>
           e2 == <<p, 2>>
           b == IF cancel THEN wait_queue_cancel(k, e0) ELSE wait_queue_remove(k, e0)
           c == wait_queue_remove(b, e1)
           j == process_wait_detach(k, p, cancel)
<1>1. j = wait_queue_remove(c, e2)
  BY Zenon DEF process_wait_detach
<1>2. /\ Slot = {0, 1, 2} /\ PollSlot = {1, 2} /\ Block = 0
      /\ e0 \in Entry /\ e1 \in Entry /\ e2 \in Entry
      /\ e0 # e1 /\ e0 # e2 /\ e1 # e2
      /\ \A f \in Entry : Owner(f) = p <=> f \in {e0, e1, e2}
  BY PipeIOAssumption DEF Slot, PollSlot, PollWidth, Block, Owner
<1>3. /\ b \in Kernel /\ Integrity(b) /\ b.pipe = k.pipe
      /\ b.entry[e0] = Idle(k.entry[e0])
      /\ Wakes([k EXCEPT !.entry[e0] = Idle(@)], b)
      /\ ~cancel => b.state = k.state /\ b.entry = [k.entry EXCEPT ![e0] = Idle(k.entry[e0])]
      /\ cancel /\ (k.entry[e0].woken => k.entry[e0].exclusive) =>
           \A q \in Queue : Covered(k, q) => Covered(b, q)
  <2> DEFINE s == [k EXCEPT !.entry[e0] = Idle(@)]
  <2>1. CASE cancel
    <3>1. b = wait_queue_cancel(k, e0)
      BY <2>1, Zenon
    <3> HIDE DEF b, s
    <3> QED BY <1>2, <2>1, <3>1, CancelEffect, Zenon DEF s
  <2>2. CASE ~cancel
    <3>1. b = wait_queue_remove(k, e0)
      BY <2>2, Zenon
    <3> HIDE DEF b
    <3>2. /\ b \in Kernel /\ Integrity(b) /\ b.pipe = k.pipe /\ b.state = k.state
          /\ b.entry = [k.entry EXCEPT ![e0] = Idle(k.entry[e0])]
      BY <1>2, <3>1, RemoveEffect, Zenon
    <3>3. b.entry[e0] = Idle(k.entry[e0])
      BY <1>2, <3>2, Zenon DEF Kernel
    <3>4. s.entry = b.entry /\ s.state = b.state
      BY <3>2, Zenon DEF Kernel
    <3>5. Wakes(s, b)
      BY <3>4, OnlyWokenRefl, Zenon DEF Wakes
    <3> HIDE DEF s
    <3> QED BY <2>2, <3>2, <3>3, <3>5, Zenon DEF s
  <2> QED BY <2>1, <2>2, Zenon
<1> HIDE DEF b
<1>4. /\ c \in Kernel /\ Integrity(c) /\ c.pipe = k.pipe /\ c.state = b.state
      /\ c.entry = [b.entry EXCEPT ![e1] = Idle(b.entry[e1])]
  BY <1>2, <1>3, RemoveEffect, Zenon
<1> HIDE DEF c, j
<1>5. /\ j \in Kernel /\ Integrity(j) /\ j.pipe = k.pipe /\ j.state = b.state
      /\ j.entry = [c.entry EXCEPT ![e2] = Idle(c.entry[e2])]
  BY <1>1, <1>2, <1>4, RemoveEffect, Zenon
<1>6. /\ k.entry \in [Entry -> WaitEntry] /\ b.entry \in [Entry -> WaitEntry]
      /\ c.entry \in [Entry -> WaitEntry]
  BY <1>3, <1>4, Zenon DEF Kernel
<1>7. /\ j.entry[e0] = Idle(k.entry[e0]) /\ j.entry[e1] = Idle(b.entry[e1])
      /\ j.entry[e2] = Idle(b.entry[e2])
      /\ \A f \in Entry : Owner(f) # p => j.entry[f] = b.entry[f]
  BY <1>2, <1>3, <1>4, <1>5, <1>6, SMTT(30)
<1>8. \A i \in Slot : Free(j, <<p, i>>)
  BY <1>2, <1>6, <1>7, IdleFields DEF Free
<1>9. [k EXCEPT !.entry[e0] = Idle(@)].state = k.state
      /\ [k EXCEPT !.entry[e0] = Idle(@)].entry = [k.entry EXCEPT ![e0] = Idle(@)]
  BY SMTT(30) DEF Kernel
<1>10. ASSUME NEW q \in Proc \ {p} PROVE OnlyWoken(k, j, q)
  <2>1. OnlyWoken([k EXCEPT !.entry[e0] = Idle(@)], b, q)
    BY <1>3, Zenon DEF Wakes
  <2>2. \A i \in Slot : [k.entry EXCEPT ![e0] = Idle(@)][<<q, i>>] = k.entry[<<q, i>>]
    BY <1>2, <1>6, Entries, Zenon
  <2>3. OnlyWoken(k, b, q)
    BY <1>9, <2>1, <2>2, SMTT(30) DEF OnlyWoken, WokenEntry
  <2>4. \A i \in Slot : j.entry[<<q, i>>] = b.entry[<<q, i>>]
    BY <1>7, Entries, Zenon
  <2> QED BY <1>5, <2>3, <2>4, Zenon DEF OnlyWoken, WokenEntry
<1>11. j.state[p] \in {k.state[p], RUNNABLE}
  BY <1>3, <1>5, <1>9, Zenon DEF Wakes, OnlyWoken
<1>12. ~cancel => j.state = k.state
  BY <1>3, <1>5, Zenon
<1>13. ASSUME ~cancel, NEW q \in Queue, CoveredBut(k, q, p) PROVE Covered(j, q)
  <2>1. \A f \in Entry : Owner(f) # p => j.entry[f] = k.entry[f]
    BY <1>2, <1>3, <1>6, <1>7, <1>13, Zenon
  <2>2. \A f \in Entry : Owner(f) = p => ~j.entry[f].linked
    BY <1>2, <1>8, Zenon DEF Free
  <2> QED BY <1>13, <2>1, <2>2, Zenon DEF CoveredBut, Covered, Linked
<1>14. ASSUME cancel, k.entry[e0].woken => k.entry[e0].exclusive, NEW q \in Queue, Covered(k, q),
              \A i \in PollSlot : k.entry[<<p, i>>].queue # q
       PROVE  Covered(j, q)
  <2>1. Covered(b, q)
    BY <1>3, <1>14, Zenon
  <2>2. b.entry[e1].queue # q /\ b.entry[e2].queue # q
    <3>1. /\ b.entry[e1] \in {k.entry[e1], Awake(k.entry[e1])}
          /\ b.entry[e2] \in {k.entry[e2], Awake(k.entry[e2])}
      BY <1>2, <1>3, <1>6, <1>9 DEF Wakes, OnlyWoken, WokenEntry
    <3> QED BY <1>2, <1>6, <1>14, <3>1, AwakeFields, Zenon
  <2>3. b.entry[e0].queue # q
    BY <1>2, <1>3, <1>6, IdleFields, PipeIOAssumption, SMTT(30)
  <2>4. \A f \in Entry : b.entry[f].queue = q => j.entry[f] = b.entry[f]
    BY <1>2, <1>7, <2>2, <2>3, Zenon
  <2>5. \A f \in Entry : Owner(f) = p => ~j.entry[f].linked
    BY <1>2, <1>8 DEF Free
  <2> QED BY <1>7, <2>1, <2>4, <2>5, Zenon DEF Covered, Linked
<1>15. \A q \in Proc \ {p} : OnlyWoken(k, j, q)
  BY <1>10, Zenon
<1>16. ~cancel => \A q \in Queue : CoveredBut(k, q, p) => Covered(j, q)
  BY <1>13, Zenon
<1>17. cancel /\ (k.entry[<<p, Block>>].woken => k.entry[<<p, Block>>].exclusive) =>
         \A q \in Queue :
           Covered(k, q) /\ (\A i \in PollSlot : k.entry[<<p, i>>].queue # q)
             => Covered(j, q)
  BY <1>14, Zenon
<1> QED BY <1>5, <1>8, <1>11, <1>12, <1>15, <1>16, <1>17, Zenon DEF j

\* Between k and j nothing happens to any process but p.
OnlyOf(k, j, p) ==
  /\ \A f \in Entry : Owner(f) # p => j.entry[f] = k.entry[f]
  /\ j.state = k.state

\* The entry e is asleep on q.
Queued(k, e, q) == k.entry[e].linked /\ ~k.entry[e].woken /\ k.entry[e].queue = q

\* Rearmed() queues an entry that was woken and leaves any other alone.
LEMMA RearmedEffect ==
  ASSUME NEW k \in Kernel, Integrity(k), NEW e \in Entry
  PROVE  LET j == Rearmed(k, e)
         IN  /\ j \in Kernel /\ Integrity(j) /\ j.pipe = k.pipe
             /\ OnlyOf(k, j, Owner(e))
             /\ \A f \in Entry \ {e} : j.entry[f] = k.entry[f]
             /\ j.entry[e].exclusive = k.entry[e].exclusive
             /\ k.entry[e].queue # NoQueue => Queued(j, e, k.entry[e].queue)
             /\ k.entry[e].queue = NoQueue => j.entry[e] = k.entry[e]
<1> DEFINE j == Rearmed(k, e)
           q == k.entry[e].queue
<1>1. k.entry \in [Entry -> WaitEntry] /\ k.entry[e] \in WaitEntry
  BY DEF Kernel
<1>2. CASE q # NoQueue /\ ~k.entry[e].linked
  <2>1. j = wait_queue_add(k, q, e) /\ q \in Queue
    BY <1>1, <1>2, Zenon DEF Rearmed, WaitEntry
  <2> HIDE DEF j, q
  <2>2. /\ j \in Kernel /\ Integrity(j) /\ j.state = k.state /\ j.pipe = k.pipe
        /\ j.entry = [k.entry EXCEPT ![e] = Asleep(k.entry[e], q)]
    BY <2>1, AddEffect, Zenon
  <2>3. /\ \A f \in Entry \ {e} : j.entry[f] = k.entry[f]
        /\ j.entry[e].linked /\ ~j.entry[e].woken /\ j.entry[e].queue = q
        /\ j.entry[e].exclusive = k.entry[e].exclusive
    BY <1>1, <2>2, Zenon DEF WaitEntry, Asleep
  <2> QED BY <1>2, <2>2, <2>3, Zenon DEF j, q, OnlyOf, Queued
<1>3. CASE ~(q # NoQueue /\ ~k.entry[e].linked)
  <2>1. j = k
    BY <1>3, Zenon DEF Rearmed
  <2>2. q # NoQueue => Queued(k, e, q)
    BY <1>3, Zenon DEF Integrity, Queued
  <2> QED BY <2>1, <2>2, Zenon DEF OnlyOf
<1> QED BY <1>2, <1>3, Zenon

\* process_wait_rearm() puts p back on every queue it waits for.
LEMMA RearmEffect ==
  ASSUME NEW k \in Kernel, Integrity(k), NEW p \in Proc
  PROVE  LET j == process_wait_rearm(k, p)
         IN  /\ j \in Kernel /\ Integrity(j) /\ j.pipe = k.pipe
             /\ OnlyOf(k, j, p)
             /\ \A i \in Slot :
                  /\ j.entry[<<p, i>>].exclusive = k.entry[<<p, i>>].exclusive
                  /\ k.entry[<<p, i>>].queue # NoQueue =>
                       Queued(j, <<p, i>>, k.entry[<<p, i>>].queue)
                  /\ k.entry[<<p, i>>].queue = NoQueue =>
                       j.entry[<<p, i>>] = k.entry[<<p, i>>]
<1> DEFINE e0 == <<p, Block>>
           e1 == <<p, 1>>
           e2 == <<p, 2>>
           b == Rearmed(k, e0)
           c == Rearmed(b, e1)
           j == process_wait_rearm(k, p)
<1>1. j = Rearmed(c, e2)
  BY Zenon DEF process_wait_rearm
<1>2. /\ \A i \in Slot : <<p, i>> \in {e0, e1, e2}
      /\ e0 \in Entry /\ e1 \in Entry /\ e2 \in Entry
      /\ Owner(e0) = p /\ Owner(e1) = p /\ Owner(e2) = p
      /\ e0 # e1 /\ e0 # e2 /\ e1 # e2
  BY PipeIOAssumption, SMTT(30) DEF Slot, PollSlot, PollWidth, Block, Owner
<1> HIDE DEF e0, e1, e2
<1>3. /\ b \in Kernel /\ Integrity(b) /\ b.pipe = k.pipe /\ OnlyOf(k, b, p)
      /\ \A f \in Entry \ {e0} : b.entry[f] = k.entry[f]
      /\ b.entry[e0].exclusive = k.entry[e0].exclusive
      /\ k.entry[e0].queue # NoQueue => Queued(b, e0, k.entry[e0].queue)
      /\ k.entry[e0].queue = NoQueue => b.entry[e0] = k.entry[e0]
  BY <1>2, RearmedEffect, Zenon
<1> HIDE DEF b
<1>4. /\ c \in Kernel /\ Integrity(c) /\ c.pipe = b.pipe /\ OnlyOf(b, c, p)
      /\ \A f \in Entry \ {e1} : c.entry[f] = b.entry[f]
      /\ c.entry[e1].exclusive = b.entry[e1].exclusive
      /\ b.entry[e1].queue # NoQueue => Queued(c, e1, b.entry[e1].queue)
      /\ b.entry[e1].queue = NoQueue => c.entry[e1] = b.entry[e1]
  BY <1>2, <1>3, RearmedEffect, Zenon
<1> HIDE DEF c, j
<1>5. /\ j \in Kernel /\ Integrity(j) /\ j.pipe = c.pipe /\ OnlyOf(c, j, p)
      /\ \A f \in Entry \ {e2} : j.entry[f] = c.entry[f]
      /\ j.entry[e2].exclusive = c.entry[e2].exclusive
      /\ c.entry[e2].queue # NoQueue => Queued(j, e2, c.entry[e2].queue)
      /\ c.entry[e2].queue = NoQueue => j.entry[e2] = c.entry[e2]
  BY <1>1, <1>2, <1>4, RearmedEffect, Zenon
<1>6. /\ b.entry[e1] = k.entry[e1] /\ c.entry[e2] = k.entry[e2]
      /\ j.entry[e0] = b.entry[e0] /\ j.entry[e1] = c.entry[e1]
  BY <1>2, <1>3, <1>4, <1>5, Zenon
<1>7. OnlyOf(k, j, p)
  BY <1>3, <1>4, <1>5, Zenon DEF OnlyOf
<1>8. ASSUME NEW e \in {e0, e1, e2}
      PROVE  /\ j.entry[e].exclusive = k.entry[e].exclusive
             /\ k.entry[e].queue # NoQueue => Queued(j, e, k.entry[e].queue)
             /\ k.entry[e].queue = NoQueue => j.entry[e] = k.entry[e]
  <2>1. CASE e = e0
    BY <1>3, <1>6, <2>1, Zenon DEF Queued
  <2>2. CASE e = e1
    BY <1>4, <1>6, <2>2, Zenon DEF Queued
  <2>3. CASE e = e2
    BY <1>5, <1>6, <2>3, Zenon DEF Queued
  <2> QED BY <2>1, <2>2, <2>3, Zenon
<1>9. \A i \in Slot :
        /\ j.entry[<<p, i>>].exclusive = k.entry[<<p, i>>].exclusive
        /\ k.entry[<<p, i>>].queue # NoQueue =>
             Queued(j, <<p, i>>, k.entry[<<p, i>>].queue)
        /\ k.entry[<<p, i>>].queue = NoQueue => j.entry[<<p, i>>] = k.entry[<<p, i>>]
  BY <1>2, <1>8, Zenon
<1> QED BY <1>3, <1>4, <1>5, <1>7, <1>9, Zenon DEF j

\* wait_entry_init() and wait_queue_add() on an entry that is free.
LEMMA EnqueueEffect ==
  ASSUME NEW k \in Kernel, Integrity(k), NEW e \in Entry, Free(k, e),
         NEW x \in BOOLEAN, NEW q \in Queue
  PROVE  LET j == wait_queue_add(wait_entry_init(k, e, x), q, e)
         IN  /\ j \in Kernel /\ Integrity(j) /\ j.pipe = k.pipe
             /\ j.state = k.state
             /\ \A f \in Entry \ {e} : j.entry[f] = k.entry[f]
             /\ j.entry[e].exclusive = x /\ Queued(j, e, q)
<1> DEFINE i == wait_entry_init(k, e, x)
           j == wait_queue_add(i, q, e)
           new == [queue |-> NoQueue, linked |-> FALSE, woken |-> FALSE, exclusive |-> x]
<1>1. /\ i \in Kernel /\ Integrity(i) /\ i.state = k.state /\ i.pipe = k.pipe
      /\ i.entry = [k.entry EXCEPT ![e] = new]
  BY EntryInitEffect, SMTT(30) DEF Free
<1>2. j = wait_queue_add(i, q, e) /\ i \in Kernel /\ Integrity(i)
  BY <1>1, Zenon
<1> HIDE DEF i, j, new
<1>3. /\ j \in Kernel /\ Integrity(j) /\ j.state = i.state /\ j.pipe = i.pipe
      /\ j.entry = [i.entry EXCEPT ![e] = Asleep(i.entry[e], q)]
  BY <1>2, AddEffect, SMTT(30)
<1>4. k.entry \in [Entry -> WaitEntry] /\ i.entry \in [Entry -> WaitEntry]
  BY <1>1, Zenon DEF Kernel
<1>5. j.entry[e] = Asleep(new, q)
  BY <1>1, <1>3, <1>4, Zenon
<1>6. \A f \in Entry \ {e} : j.entry[f] = k.entry[f]
  BY <1>1, <1>3, <1>4, Zenon
<1>7. j.entry[e].exclusive = x /\ Queued(j, e, q)
  BY <1>5, Zenon DEF Queued, Asleep, new
<1> QED BY <1>1, <1>3, <1>6, <1>7, Zenon DEF i, j

\* process_wait_block() leaves p asleep on q alone.
LEMMA BlockEffect ==
  ASSUME NEW k \in Kernel, Integrity(k), NEW p \in Proc, NEW q \in Queue,
         \A i \in Slot : Free(k, <<p, i>>)
  PROVE  LET j == process_wait_block(k, p, q)
         IN  /\ j \in Kernel /\ Integrity(j) /\ j.pipe = k.pipe
             /\ j.state = k.state
             /\ \A r \in Proc \ {p} : OnlyWoken(k, j, r)
             /\ j.entry[<<p, Block>>].exclusive /\ Queued(j, <<p, Block>>, q)
             /\ \A i \in PollSlot : Free(j, <<p, i>>)
             /\ \A r \in Queue \ {q} : Covered(k, r) => Covered(j, r)
<1> DEFINE d == process_wait_detach(k, p, FALSE)
           j == process_wait_block(k, p, q)
           e == <<p, Block>>
           x == TRUE
<1>1. /\ d \in Kernel /\ Integrity(d) /\ d.pipe = k.pipe /\ d.state = k.state
      /\ \A i \in Slot : Free(d, <<p, i>>)
      /\ \A r \in Proc \ {p} : OnlyWoken(k, d, r)
      /\ \A r \in Queue : CoveredBut(k, r, p) => Covered(d, r)
  BY DetachEffect, Zenon
<1>2. e \in Entry /\ \A i \in PollSlot : <<p, i>> \in Entry \ {e} /\ i \in Slot
  BY Entries DEF Slot, PollSlot, PollWidth, Block
<1>3. Free(d, e)
  BY <1>1, Zenon DEF Slot
<1> HIDE DEF d
<1>4. /\ j = wait_queue_add(wait_entry_init(d, e, x), q, e)
      /\ x \in BOOLEAN /\ d \in Kernel /\ Integrity(d) /\ e \in Entry
  BY <1>1, <1>2, ZenonT(40) DEF process_wait_block, d
<1> HIDE DEF j, e, x
<1>5. /\ j \in Kernel /\ Integrity(j) /\ j.pipe = d.pipe /\ j.state = d.state
      /\ \A f \in Entry \ {e} : j.entry[f] = d.entry[f]
      /\ j.entry[e].exclusive = x /\ Queued(j, e, q)
  BY <1>3, <1>4, EnqueueEffect, SMTT(30)
<1>6. \A i \in PollSlot : Free(j, <<p, i>>)
  BY <1>1, <1>2, <1>5, Zenon DEF Free
<1>7. ASSUME NEW r \in Proc \ {p} PROVE OnlyWoken(k, j, r)
  <2>1. \A i \in Slot : j.entry[<<r, i>>] = d.entry[<<r, i>>]
    BY <1>5, Entries, Zenon DEF e
  <2> QED BY <1>1, <1>5, <2>1, Zenon DEF OnlyWoken, WokenEntry
<1>8. ASSUME NEW r \in Queue \ {q}, Covered(k, r) PROVE Covered(j, r)
  <2>1. CoveredBut(k, r, p)
    BY <1>8, Entries DEF Covered, CoveredBut, Free
  <2>2. Covered(d, r)
    BY <1>1, <2>1, Zenon
  <2>3. ~Linked(j, e, r) /\ ~(d.entry[e].woken)
    BY <1>3, <1>5, Zenon DEF Linked, Queued, Free
  <2> QED BY <1>5, <2>2, <2>3, Zenon DEF Covered, Linked
<1>9. /\ \A r \in Proc \ {p} : OnlyWoken(k, j, r)
      /\ \A r \in Queue \ {q} : Covered(k, r) => Covered(j, r)
  BY <1>7, <1>8, Zenon
<1> QED BY <1>1, <1>5, <1>6, <1>9, Zenon DEF j, e, x

-----------------------------------------------------------------------------
(* Pipes. *)

\* A change of a pipe's fields wakes nobody and moves no entry.
LEMMA SizeEffect ==
  ASSUME NEW k \in Kernel, Integrity(k), NEW x \in Pipe, NEW n \in 0 .. Cap
  PROVE  LET j == [k EXCEPT !.pipe[x].size = n]
         IN  /\ j \in Kernel /\ Integrity(j) /\ Wakes(k, j)
             /\ j.entry = k.entry /\ j.state = k.state
             /\ j.pipe = [k.pipe EXCEPT ![x] = [k.pipe[x] EXCEPT !.size = n]]
<1> DEFINE j == [k EXCEPT !.pipe[x].size = n]
<1>1. j = [k EXCEPT !.pipe = [k.pipe EXCEPT ![x] = [k.pipe[x] EXCEPT !.size = n]]]
  BY Zenon
<1> HIDE DEF j
<1>2. /\ j.entry = k.entry /\ j.state = k.state /\ j.queue = k.queue
      /\ j.pipe = [k.pipe EXCEPT ![x] = [k.pipe[x] EXCEPT !.size = n]]
      /\ j = [queue |-> j.queue, entry |-> j.entry, state |-> j.state, pipe |-> j.pipe]
  BY <1>1, Zenon DEF Kernel
<1>3. k.pipe \in [Pipe -> PipeRec] /\ k.pipe[x] \in PipeRec
  BY Zenon DEF Kernel
<1>4. [k.pipe[x] EXCEPT !.size = n] \in PipeRec
  BY <1>3, Zenon DEF PipeRec
<1>5. j.pipe \in [Pipe -> PipeRec]
  BY <1>2, <1>3, <1>4, Zenon
<1>6. j \in Kernel
  BY <1>2, <1>5, ZenonT(40) DEF Kernel
<1>7. Integrity(j)
  BY <1>2 DEF Integrity
<1>8. Wakes(k, j)
  BY <1>2, OnlyWokenRefl, Zenon DEF Wakes
<1> QED BY <1>2, <1>6, <1>7, <1>8, Zenon DEF j

\* The three queues of a pipe are queues.
LEMMA PipeQueues ==
  ASSUME NEW x \in Pipe
  PROVE  ReadQ(x) \in Queue /\ WriteQ(x) \in Queue /\ PollQ(x) \in Queue
  BY PipeIOAssumption, Zenon DEF ReadQ, WriteQ, PollQ

\* An entry that is on a queue is not on none.
LEMMA QueueIsSome == \A q \in Queue : q # NoQueue
  BY PipeIOAssumption, Zenon

\* The three wakes of kernel_pipe_read() and kernel_pipe_write(): one waiter
\* of q, all pollers, and if chain holds one more waiter of r.
LEMMA WakeSequence ==
  ASSUME NEW k \in Kernel, Integrity(k), NEW x \in Pipe, NEW q \in Queue,
         NEW r \in Queue, NEW chain \in BOOLEAN
  PROVE  LET b == WakeAll(wait_queue_wake_one(k, q), {PollQ(x)})
             j == IF chain THEN wait_queue_wake_one(b, r) ELSE b
         IN  /\ j \in Kernel /\ Integrity(j) /\ j.pipe = k.pipe
             /\ Wakes(k, j)
             /\ Covered(j, q) /\ (chain => Covered(j, r))
             /\ \A e \in Entry : ~Linked(j, e, PollQ(x))
             /\ \A p \in Proc : chain /\ (\A i \in Slot : ~Linked(k, <<p, i>>, r))
                                  => CoveredBut(j, r, p)
             /\ \A p \in Proc : (\A i \in Slot : ~Linked(k, <<p, i>>, q))
                                  => CoveredBut(j, q, p)
<1> DEFINE a == wait_queue_wake_one(k, q)
           b == WakeAll(a, {PollQ(x)})
           j == IF chain THEN wait_queue_wake_one(b, r) ELSE b
<1>1. /\ a \in Kernel /\ Integrity(a) /\ a.pipe = k.pipe /\ Wakes(k, a) /\ Covered(a, q)
      /\ \A p \in Proc : (\A i \in Slot : ~Linked(k, <<p, i>>, q)) => CoveredBut(a, q, p)
  BY WakeOneWakes, Zenon
<1> HIDE DEF a
<1>2. {PollQ(x)} \in SUBSET Queue
  BY PipeQueues, Zenon
<1>3. /\ b \in Kernel /\ Integrity(b) /\ b.pipe = a.pipe /\ Wakes(a, b)
      /\ \A e \in Entry : ~Linked(b, e, PollQ(x))
  BY <1>1, <1>2, WakeAllWakes, Zenon
<1> HIDE DEF b
<1>4. /\ j \in Kernel /\ Integrity(j) /\ j.pipe = b.pipe /\ Wakes(b, j)
      /\ chain => Covered(j, r)
      /\ \A p \in Proc : chain /\ (\A i \in Slot : ~Linked(b, <<p, i>>, r))
                           => CoveredBut(j, r, p)
  <2>1. CASE chain
    BY <1>3, <2>1, WakeOneWakes, Zenon
  <2>2. CASE ~chain
    BY <1>3, <2>2, OnlyWokenRefl, Zenon DEF Wakes
  <2> QED BY <2>1, <2>2, Zenon
<1> HIDE DEF j
<1>5. Wakes(k, b) /\ Wakes(k, j) /\ Wakes(a, j)
  BY <1>1, <1>3, <1>4, WakesTrans, Zenon
<1>6. Covered(j, q)
  BY <1>1, <1>4, <1>5, WakesCover, Zenon
<1>7. \A p \in Proc : CoveredBut(a, q, p) => CoveredBut(j, q, p)
  BY <1>1, <1>4, <1>5, WakesCoverBut, Zenon
<1>8. \A e \in Entry : ~Linked(j, e, PollQ(x))
  BY <1>3, <1>4, WakesKeep, Zenon DEF Linked
<1>9. \A p \in Proc, i \in Slot : Linked(b, <<p, i>>, r) => Linked(k, <<p, i>>, r)
  BY <1>3, <1>5, WakesKeep, Entries, Zenon DEF Linked
<1> QED BY <1>1, <1>3, <1>4, <1>5, <1>6, <1>7, <1>8, <1>9, ZenonT(40) DEF j, b, a

\* Pipe x of j has the given size and is otherwise as in k; so are the others.
Resized(k, j, x, n) ==
  j.pipe = [k.pipe EXCEPT ![x] = [k.pipe[x] EXCEPT !.size = n]]

\* kernel_pipe_read() that finds something takes at most what is there, covers
\* the writers and, if it leaves something, the readers.
LEMMA ReadEffect ==
  ASSUME NEW k \in Kernel, Integrity(k), NEW x \in Pipe, NEW n \in 1 .. MaxLen,
         k.pipe[x].size > 0
  PROVE  LET j == kernel_pipe_read(k, x, n)
         IN  \E left \in 0 .. Cap - 1 :
               /\ j \in Kernel /\ Integrity(j) /\ Resized(k, j, x, left)
               /\ Wakes(k, j)
               /\ Covered(j, WriteQ(x)) /\ (left > 0 => Covered(j, ReadQ(x)))
               /\ \A e \in Entry : ~Linked(j, e, PollQ(x))
               /\ \A p \in Proc :
                    left > 0 /\ (\A i \in Slot : ~Linked(k, <<p, i>>, ReadQ(x)))
                      => CoveredBut(j, ReadQ(x), p)
               /\ \A p \in Proc : (\A i \in Slot : ~Linked(k, <<p, i>>, WriteQ(x)))
                      => CoveredBut(j, WriteQ(x), p)
<1> DEFINE got == Min2(n, k.pipe[x].size)
           left == k.pipe[x].size - got
           s == [k EXCEPT !.pipe[x].size = left]
           chain == left > 0
           b == WakeAll(wait_queue_wake_one(s, WriteQ(x)), {PollQ(x)})
           j == kernel_pipe_read(k, x, n)
<1>1. k.pipe[x].size \in 0 .. Cap /\ MaxLen \in Nat /\ Cap \in Nat
  BY PipeIOAssumption, Zenon DEF Kernel, PipeRec
<1>2. got # 0 /\ left \in 0 .. Cap - 1
  BY <1>1 DEF Min2
<1>3. j = IF chain THEN wait_queue_wake_one(b, ReadQ(x)) ELSE b
  BY <1>2, Zenon DEF kernel_pipe_read, ReadWakes
<1>4. ReadQ(x) \in Queue /\ WriteQ(x) \in Queue /\ chain \in BOOLEAN
  BY PipeQueues
<1>5. left \in 0 .. Cap
  BY <1>1, <1>2
<1> HIDE DEF left
<1>6. /\ s \in Kernel /\ Integrity(s) /\ Wakes(k, s)
      /\ s.entry = k.entry /\ s.state = k.state /\ Resized(k, s, x, left)
  BY <1>5, SizeEffect DEF Resized
<1> HIDE DEF s, j
<1> DEFINE Post ==
             /\ j \in Kernel /\ Integrity(j) /\ j.pipe = s.pipe
             /\ Wakes(s, j)
             /\ Covered(j, WriteQ(x)) /\ (chain => Covered(j, ReadQ(x)))
             /\ \A e \in Entry : ~Linked(j, e, PollQ(x))
             /\ \A p \in Proc : chain /\ (\A i \in Slot : ~Linked(s, <<p, i>>, ReadQ(x)))
                                  => CoveredBut(j, ReadQ(x), p)
             /\ \A p \in Proc : (\A i \in Slot : ~Linked(s, <<p, i>>, WriteQ(x)))
                                  => CoveredBut(j, WriteQ(x), p)
<1> HIDE DEF chain
<1>7. Post
  BY <1>3, <1>4, <1>6, WakeSequence, ZenonT(40)
<1>8. Wakes(k, j)
  BY <1>6, <1>7, WakesTrans, Zenon
<1>9. \A p \in Proc, i \in Slot, q \in Queue :
        Linked(s, <<p, i>>, q) <=> Linked(k, <<p, i>>, q)
  BY <1>6, Zenon DEF Linked
<1>10. Resized(k, j, x, left)
  BY <1>6, <1>7, Zenon DEF Resized
<1> QED BY <1>2, <1>4, <1>7, <1>8, <1>9, <1>10, ZenonT(40) DEF j, chain

\* kernel_pipe_write() that finds a reader and room stores at least one byte and
\* no more than fit, covers the readers and, if room is left, the writers.
LEMMA WriteEffect ==
  ASSUME NEW k \in Kernel, Integrity(k), NEW x \in Pipe, NEW n \in 1 .. MaxLen,
         k.pipe[x].size < Cap, k.pipe[x].readers > 0
  PROVE  LET j == kernel_pipe_write(k, x, n)
         IN  \E size \in 1 .. Cap :
               /\ j \in Kernel /\ Integrity(j) /\ Resized(k, j, x, size)
               /\ Wakes(k, j)
               /\ Covered(j, ReadQ(x)) /\ (size < Cap => Covered(j, WriteQ(x)))
               /\ \A e \in Entry : ~Linked(j, e, PollQ(x))
               /\ \A p \in Proc :
                    size < Cap /\ (\A i \in Slot : ~Linked(k, <<p, i>>, WriteQ(x)))
                      => CoveredBut(j, WriteQ(x), p)
               /\ \A p \in Proc : (\A i \in Slot : ~Linked(k, <<p, i>>, ReadQ(x)))
                      => CoveredBut(j, ReadQ(x), p)
<1> DEFINE put == Min2(n, Cap - k.pipe[x].size)
           size == k.pipe[x].size + put
           s == [k EXCEPT !.pipe[x].size = size]
           chain == size < Cap
           b == WakeAll(wait_queue_wake_one(s, ReadQ(x)), {PollQ(x)})
           j == kernel_pipe_write(k, x, n)
<1>1. /\ k.pipe[x].size \in 0 .. Cap /\ MaxLen \in Nat /\ Cap \in Nat
      /\ k.pipe[x].readers \in Nat
  BY PipeIOAssumption, Zenon DEF Kernel, PipeRec
<1>2. put # 0 /\ size \in 1 .. Cap
  BY <1>1 DEF Min2
<1>3. j = IF chain THEN wait_queue_wake_one(b, WriteQ(x)) ELSE b
  BY <1>1, <1>2 DEF kernel_pipe_write, WriteWakes
<1>4. ReadQ(x) \in Queue /\ WriteQ(x) \in Queue /\ chain \in BOOLEAN
  BY PipeQueues, SMTT(30)
<1>5. size \in 0 .. Cap
  BY <1>1, <1>2
<1> HIDE DEF size
<1>6. /\ s \in Kernel /\ Integrity(s) /\ Wakes(k, s)
      /\ s.entry = k.entry /\ s.state = k.state /\ Resized(k, s, x, size)
  BY <1>5, SizeEffect DEF Resized
<1> HIDE DEF s, j
<1> DEFINE Post ==
             /\ j \in Kernel /\ Integrity(j) /\ j.pipe = s.pipe
             /\ Wakes(s, j)
             /\ Covered(j, ReadQ(x)) /\ (chain => Covered(j, WriteQ(x)))
             /\ \A e \in Entry : ~Linked(j, e, PollQ(x))
             /\ \A p \in Proc : chain /\ (\A i \in Slot : ~Linked(s, <<p, i>>, WriteQ(x)))
                                  => CoveredBut(j, WriteQ(x), p)
             /\ \A p \in Proc : (\A i \in Slot : ~Linked(s, <<p, i>>, ReadQ(x)))
                                  => CoveredBut(j, ReadQ(x), p)
<1> HIDE DEF chain
<1>7. Post
  BY <1>3, <1>4, <1>6, WakeSequence, ZenonT(40)
<1>8. Wakes(k, j)
  BY <1>6, <1>7, WakesTrans, Zenon
<1>9. \A p \in Proc, i \in Slot, q \in Queue :
        Linked(s, <<p, i>>, q) <=> Linked(k, <<p, i>>, q)
  BY <1>6, Zenon DEF Linked
<1>10. Resized(k, j, x, size)
  BY <1>6, <1>7, Zenon DEF Resized
<1> QED BY <1>2, <1>4, <1>7, <1>8, <1>9, <1>10, ZenonT(40) DEF j, chain

-----------------------------------------------------------------------------
(* The inductive invariant. *)

IsReading(p) == fd[<<p, waiting[p]>>][2] = "R"
IOQueue(p) == IF IsReading(p) THEN ReadQ(PipeOf(p, waiting[p]))
                              ELSE WriteQ(PipeOf(p, waiting[p]))
IOState(p) == IF IsReading(p) THEN "PIPE_READ" ELSE "PIPE_WRITE"

\* A pending read or write: the block entry is on the queue of the pipe, or
\* carries a wake from it and the process is runnable.
IOWait(p) ==
  LET e == kern.entry[<<p, Block>>]
  IN  /\ fd[<<p, waiting[p]>>] # FREE /\ len[p] \in 1 .. MaxLen
      /\ e.queue = IOQueue(p) /\ e.exclusive
      /\ \/ e.linked /\ kern.state[p] = IOState(p)
         \/ e.woken /\ kern.state[p] = RUNNABLE

\* A pending poll: every watched handle is open and its entry on the poll queue
\* of its pipe, unless the process was woken.
PollWait(p) ==
  /\ kern.state[p] \in {"POLL", RUNNABLE}
  /\ \A i \in PollSlot :
       IF polling[p][i].fd = NoFd
       THEN Free(kern, <<p, i>>)
       ELSE /\ fd[<<p, polling[p][i].fd>>] # FREE
            /\ kern.entry[<<p, i>>].queue = PollQ(PipeOf(p, polling[p][i].fd))
            /\ kern.entry[<<p, i>>].linked \/ kern.state[p] = RUNNABLE

ProcInv(p) ==
  /\ p \notin alive => /\ waiting[p] = NoFd /\ polling[p] = NoPoll
                       /\ \A f \in Fd : fd[<<p, f>>] = FREE
  /\ waiting[p] = NoFd => Free(kern, <<p, Block>>)
  /\ waiting[p] # NoFd => polling[p] = NoPoll /\ IOWait(p)
  /\ polling[p] = NoPoll => \A i \in PollSlot : Free(kern, <<p, i>>)
  /\ polling[p] # NoPoll => PollWait(p)
  /\ waiting[p] = NoFd /\ polling[p] = NoPoll => kern.state[p] = RUNNABLE

\* NoLostWakeup in terms of the entries.
CoverInv(k) ==
  \A x \in Pipe : /\ k.pipe[x].size > 0 => Covered(k, ReadQ(x))
                  /\ k.pipe[x].size < Cap => Covered(k, WriteQ(x))

\* NoWaitOnHungupPipe in terms of the entries.
HangupInv(k) ==
  \A x \in Pipe, e \in Entry :
    /\ k.pipe[x].writers = 0 => ~Linked(k, e, ReadQ(x))
    /\ k.pipe[x].readers = 0 => ~Linked(k, e, WriteQ(x))

PollInv(p) ==
  kern.state[p] = "POLL" => ~PollReady(p, polling[p]) /\ deadline[p] # "passed"

IInv ==
  /\ TypeOK /\ RefsCounted /\ QueueIntegrity
  /\ \A p \in Proc : ProcInv(p) /\ PollInv(p)
  /\ CoverInv(kern) /\ HangupInv(kern)

\* A process that only was woken still satisfies its invariant.
LEMMA BystanderProc ==
  ASSUME TypeOK, kern' \in Kernel, NEW p \in Proc, ProcInv(p),
         OnlyWoken(kern, kern', p), \A f \in Fd : fd'[<<p, f>>] = fd[<<p, f>>],
         waiting'[p] = waiting[p], len'[p] = len[p], polling'[p] = polling[p],
         p \in alive' <=> p \in alive
  PROVE  ProcInv(p)'
<1>1. /\ waiting[p] \in Fd \cup {NoFd} /\ polling[p] \in Poll \cup {NoPoll}
      /\ \A i \in Slot : kern.entry[<<p, i>>] \in WaitEntry /\ kern'.entry[<<p, i>>] \in WaitEntry
      /\ Block \in Slot /\ PollSlot \subseteq Slot
  BY Entries, Zenon DEF TypeOK, Kernel, Slot
<1>2. \A i \in Slot : Free(kern, <<p, i>>) => Free(kern', <<p, i>>)
  BY <1>1, Zenon DEF OnlyWoken, WokenEntry, Free
<1>3. ASSUME waiting[p] # NoFd PROVE IOWait(p)'
  <2>1. waiting[p] \in Fd /\ fd'[<<p, waiting'[p]>>] = fd[<<p, waiting[p]>>]
    BY <1>1, <1>3, Zenon
  <2>2. /\ IsReading(p)' <=> IsReading(p) 
        /\ IOQueue(p)' = IOQueue(p) /\ IOState(p)' = IOState(p)
    BY <2>1, Zenon DEF IsReading, IOQueue, IOState, PipeOf
  <2>3. IOWait(p) /\ polling[p] = NoPoll
    BY <1>3, Zenon DEF ProcInv
  <2>4. \A i \in PollSlot : ~kern.entry[<<p, i>>].linked
    BY <2>3, Zenon DEF ProcInv, Free
  <2>5. CASE kern'.entry[<<p, Block>>] = kern.entry[<<p, Block>>]
    <3>1. ~WokenEntry(kern, kern', <<p, Block>>)
      BY <1>1, <2>5, AwakeFields, Zenon DEF WokenEntry
    <3>2. kern'.state[p] = kern.state[p]
      BY <2>4, <3>1, Zenon DEF OnlyWoken, WokenEntry, Slot
    <3> QED BY <2>1, <2>2, <2>3, <2>5, <3>2, Zenon DEF IOWait
  <2>6. CASE WokenEntry(kern, kern', <<p, Block>>) /\ kern'.state[p] = RUNNABLE
    <3>1. /\ kern'.entry[<<p, Block>>].woken
          /\ kern'.entry[<<p, Block>>].queue = kern.entry[<<p, Block>>].queue
          /\ kern'.entry[<<p, Block>>].exclusive = kern.entry[<<p, Block>>].exclusive
      BY <1>1, <2>6, AwakeFields, Zenon DEF WokenEntry
    <3> QED BY <2>1, <2>2, <2>3, <2>6, <3>1, Zenon DEF IOWait
  <2> QED BY <1>1, <2>5, <2>6, Zenon DEF OnlyWoken
<1>4. ASSUME polling[p] # NoPoll PROVE PollWait(p)'
  <2>1. PollWait(p) /\ polling[p] \in Poll
    BY <1>1, <1>4, Zenon DEF ProcInv
  <2>2. kern'.state[p] \in {"POLL", RUNNABLE}
    BY <2>1, Zenon DEF PollWait, OnlyWoken
  <2>3. ASSUME NEW i \in PollSlot, polling[p][i].fd # NoFd
        PROVE  /\ fd'[<<p, polling'[p][i].fd>>] # FREE
               /\ kern'.entry[<<p, i>>].queue = PollQ(PipeOf(p, polling[p][i].fd))'
               /\ kern'.entry[<<p, i>>].linked \/ kern'.state[p] = RUNNABLE
    <3>1. polling[p][i].fd \in Fd
      BY <2>1, <2>3 DEF Poll, Watch, NoWatch
    <3>2. /\ fd'[<<p, polling'[p][i].fd>>] = fd[<<p, polling[p][i].fd>>]
          /\ PollQ(PipeOf(p, polling[p][i].fd))' = PollQ(PipeOf(p, polling[p][i].fd))
      BY <3>1, Zenon DEF PipeOf, PollQ
    <3>3. kern'.entry[<<p, i>>].queue = kern.entry[<<p, i>>].queue
      BY <1>1, AwakeFields, Zenon DEF OnlyWoken, WokenEntry
    <3>4. \/ kern'.state[p] = RUNNABLE
          \/ kern'.state[p] = kern.state[p] /\ kern'.entry[<<p, i>>] = kern.entry[<<p, i>>]
      BY <1>1, Zenon DEF OnlyWoken
    <3> QED BY <2>1, <2>3, <3>2, <3>3, <3>4, Zenon DEF PollWait
  <2>4. ASSUME NEW i \in PollSlot, polling[p][i].fd = NoFd PROVE Free(kern', <<p, i>>)
    BY <1>1, <1>2, <2>1, <2>4, Zenon DEF PollWait
  <2> QED BY <2>2, <2>3, <2>4, Zenon DEF PollWait, Free, PipeOf, PollQ
<1>5. waiting[p] = NoFd /\ polling[p] = NoPoll => kern'.state[p] = RUNNABLE
  BY Zenon DEF ProcInv, OnlyWoken
<1>6. /\ waiting[p] = NoFd => Free(kern', <<p, Block>>)
      /\ polling[p] = NoPoll => \A i \in PollSlot : Free(kern', <<p, i>>)
  BY <1>1, <1>2, Zenon DEF ProcInv
<1> QED BY <1>3, <1>4, <1>5, <1>6, Zenon DEF ProcInv, Free

\* An entry points only at queues of a pipe that its owner has a handle of.
LEMMA QueueNamed ==
  ASSUME TypeOK, NEW p \in Proc, ProcInv(p), NEW i \in Slot,
         kern.entry[<<p, i>>].queue # NoQueue
  PROVE  \E f \in Fd, end \in {"R", "W"} :
           fd[<<p, f>>] = <<kern.entry[<<p, i>>].queue[1], end>>
<1>1. ASSUME NEW f \in Fd, fd[<<p, f>>] # FREE
      PROVE  \E end \in {"R", "W"} : fd[<<p, f>>] = <<PipeOf(p, f), end>>
  BY <1>1 DEF TypeOK, Handle, PipeOf
<1>2. CASE i = Block
  <2>1. waiting[p] \in Fd /\ IOWait(p)
    BY <1>2, Zenon DEF ProcInv, Free, TypeOK
  <2>2. kern.entry[<<p, i>>].queue[1] = PipeOf(p, waiting[p])
    BY <1>2, <2>1 DEF IOWait, IOQueue, ReadQ, WriteQ
  <2> QED BY <1>1, <2>1, <2>2, Zenon DEF IOWait
<1>3. CASE i \in PollSlot
  <2>1. polling[p] \in Poll /\ PollWait(p)
    BY <1>3, Zenon DEF ProcInv, Free, TypeOK
  <2>2. polling[p][i].fd # NoFd
    BY <1>3, <2>1, Zenon DEF PollWait, Free
  <2>3. polling[p][i].fd \in Fd
    BY <1>3, <2>1, <2>2 DEF Poll, Watch, NoWatch
  <2>4. kern.entry[<<p, i>>].queue[1] = PipeOf(p, polling[p][i].fd)
    <3>1. kern.entry[<<p, i>>].queue = PollQ(PipeOf(p, polling[p][i].fd))
      BY <1>3, <2>1, <2>2, Zenon DEF PollWait
    <3> QED BY <3>1 DEF PollQ
  <2> QED BY <1>1, <1>3, <2>1, <2>2, <2>3, <2>4, Zenon DEF PollWait
<1> QED BY <1>2, <1>3, Zenon DEF Slot

\* What a sleeping poller can see of pipe x is the same before and after a step.
SameReady(k, j, x) ==
  /\ j.pipe[x].size = k.pipe[x].size
  /\ j.pipe[x].readers = 0 <=> k.pipe[x].readers = 0
  /\ j.pipe[x].writers = 0 <=> k.pipe[x].writers = 0

\* The step does nothing to process p but, perhaps, wake it.
Bystander(p) ==
  /\ OnlyWoken(kern, kern', p)
  /\ \A f \in Fd : fd'[<<p, f>>] = fd[<<p, f>>]
  /\ waiting'[p] = waiting[p] /\ len'[p] = len[p] /\ polling'[p] = polling[p]
  /\ deadline'[p] = deadline[p]
  /\ p \in alive' <=> p \in alive

\* A process asleep in poll is in the middle of one.
LEMMA PollState ==
  ASSUME TypeOK, NEW p \in Proc, ProcInv(p), kern.state[p] = "POLL"
  PROVE  /\ polling[p] \in Poll /\ waiting[p] = NoFd /\ PollWait(p)
         /\ \A i \in PollSlot : polling[p][i].fd # NoFd =>
              /\ polling[p][i].fd \in Fd /\ fd[<<p, polling[p][i].fd>>] # FREE
              /\ PipeOf(p, polling[p][i].fd) \in Pipe
              /\ Linked(kern, <<p, i>>, PollQ(PipeOf(p, polling[p][i].fd)))
<1>1. polling[p] \in Poll /\ waiting[p] = NoFd /\ PollWait(p)
  BY Zenon DEF ProcInv, IOWait, IOState, RUNNABLE, TypeOK
<1>2. ASSUME NEW i \in PollSlot, polling[p][i].fd # NoFd
      PROVE  /\ polling[p][i].fd \in Fd /\ fd[<<p, polling[p][i].fd>>] # FREE
             /\ PipeOf(p, polling[p][i].fd) \in Pipe
             /\ Linked(kern, <<p, i>>, PollQ(PipeOf(p, polling[p][i].fd)))
  <2>1. polling[p][i].fd \in Fd
    BY <1>1, <1>2 DEF Poll, Watch, NoWatch
  <2>2. fd[<<p, polling[p][i].fd>>] # FREE
    BY <1>1, <1>2, Zenon DEF PollWait
  <2>3. PipeOf(p, polling[p][i].fd) \in Pipe
    BY <2>1, <2>2, Zenon DEF TypeOK, Handle, PipeOf
  <2>4. Linked(kern, <<p, i>>, PollQ(PipeOf(p, polling[p][i].fd)))
    BY <1>1, <1>2, Zenon DEF PollWait, Linked, RUNNABLE
  <2> QED BY <2>1, <2>2, <2>3, <2>4, Zenon
<1> QED BY <1>1, <1>2, Zenon

\* A poller that sleeps through a step misses nothing: whatever changed on a
\* pipe it watches would have woken it.
LEMMA BystanderPoll ==
  ASSUME TypeOK, TypeOK', NEW p \in Proc, ProcInv(p), PollInv(p), ProcInv(p)', Bystander(p),
         \A x \in Pipe : SameReady(kern, kern', x) \/ \A e \in Entry : ~Linked(kern', e, PollQ(x))
  PROVE  PollInv(p)'
<1>1. SUFFICES ASSUME kern'.state[p] = "POLL"
               PROVE  ~PollReady(p, polling[p])' /\ deadline'[p] # "passed"
  BY Zenon DEF PollInv
<1>2. kern.state[p] = "POLL"
  BY <1>1, Zenon DEF Bystander, OnlyWoken, RUNNABLE
<1>3. ~PollReady(p, polling[p]) /\ deadline'[p] # "passed"
  BY <1>2, Zenon DEF PollInv, Bystander
<1>4. ASSUME NEW i \in PollSlot, polling[p][i].fd # NoFd
      PROVE  ~WatchReady(p, polling[p][i])'
  <2> DEFINE f == polling[p][i].fd
             x == PipeOf(p, f)
  <2>1. f \in Fd /\ x \in Pipe /\ fd[<<p, f>>] # FREE
    BY <1>2, <1>4, PollState, Zenon
  <2>2. fd'[<<p, f>>] = fd[<<p, f>>] /\ polling'[p] = polling[p]
    BY <2>1, Zenon DEF Bystander
  <2>3. Linked(kern', <<p, i>>, PollQ(x))
    <3>1. ProcInv(p)' /\ TypeOK' /\ kern'.state[p] = "POLL" /\ polling'[p][i].fd # NoFd
      BY <1>1, <1>4, <2>2, Zenon
    <3>2. kern'.entry[<<p, i>>].linked /\ kern'.entry[<<p, i>>].queue = PollQ(PipeOf(p, f))'
      <4>1. PollWait(p)'
        BY <3>1, Zenon DEF ProcInv, IOWait, IOState, RUNNABLE, TypeOK
      <4> QED BY <1>4, <2>2, <3>1, <4>1, Zenon DEF PollWait, RUNNABLE
    <3>3. PollQ(PipeOf(p, f))' = PollQ(PipeOf(p, f))
      BY <2>2, Zenon DEF PollQ, PipeOf
    <3> QED BY <3>2, <3>3, Zenon DEF Linked
  <2>4. SameReady(kern, kern', x)
    <3>1. <<p, i>> \in Entry
      BY Entries, Zenon DEF Slot
    <3> QED BY <2>1, <2>3, <3>1, Zenon
  <2>5. kern.pipe[x].readers \in Nat /\ kern'.pipe[x].readers \in Nat
    <3>1. kern.pipe[x] \in PipeRec /\ kern'.pipe[x] \in PipeRec
      BY <2>1, Zenon DEF TypeOK, Kernel
    <3> QED BY <3>1, Zenon DEF PipeRec
  <2>6. PipeOf(p, f)' = x
    BY <2>2, Zenon DEF PipeOf
  <2>7. ~WatchReady(p, polling[p][i])
    BY <1>3, <1>4, Zenon DEF PollReady
  <2>8. kern'.pipe[x].readers > 0 <=> kern.pipe[x].readers > 0
    <3>1. kern'.pipe[x].readers = 0 <=> kern.pipe[x].readers = 0
      BY <2>4, Zenon DEF SameReady
    <3> QED BY ONLY <2>5, <3>1
  <2>9. IsEnd(p, f, "R")' = IsEnd(p, f, "R") /\ IsEnd(p, f, "W")' = IsEnd(p, f, "W")
    BY <2>2, Zenon DEF IsEnd
  <2> QED BY <2>2, <2>4, <2>6, <2>7, <2>8, <2>9, Zenon DEF WatchReady, SameReady
<1>5. polling'[p] = polling[p]
  BY Zenon DEF Bystander
<1> QED BY <1>3, <1>4, <1>5, Zenon DEF PollReady

\* How a step that wakes processes and does something to process p only
\* preserves the invariant.
LEMMA StepInv ==
  ASSUME IInv, NEW p \in Proc, TypeOK', RefsCounted', QueueIntegrity',
         ProcInv(p)', PollInv(p)', \A r \in Proc \ {p} : Bystander(r),
         \A x \in Pipe : SameReady(kern, kern', x) \/ \A e \in Entry : ~Linked(kern', e, PollQ(x)),
         CoverInv(kern'), HangupInv(kern')
  PROVE  IInv'
<1>1. ASSUME NEW r \in Proc PROVE ProcInv(r)' /\ PollInv(r)'
  <2>1. CASE r = p
    BY <2>1, Zenon
  <2>2. CASE r # p
    <3>1. Bystander(r) /\ ProcInv(r) /\ PollInv(r) /\ TypeOK /\ kern' \in Kernel
      BY <2>2, Zenon DEF IInv, TypeOK
    <3>2. ProcInv(r)'
      BY <3>1, BystanderProc, Zenon DEF Bystander
    <3> QED BY <3>1, <3>2, BystanderPoll, Zenon
  <2> QED BY <2>1, <2>2, Zenon
<1> QED BY <1>1, Zenon DEF IInv

-----------------------------------------------------------------------------
(* Steps of a process in user mode that only wake others. *)

\* A process that waits for nothing is on no queue.
LEMMA IdleEntries ==
  ASSUME NEW p \in Proc, ProcInv(p), ~Pending(p)
  PROVE  /\ waiting[p] = NoFd /\ polling[p] = NoPoll /\ kern.state[p] = RUNNABLE
         /\ \A i \in Slot : Free(kern, <<p, i>>)
  BY Zenon DEF ProcInv, Pending, Slot

\* Wakes do not touch an entry on no queue.
LEMMA WakesFree ==
  ASSUME NEW k, NEW j, Wakes(k, j), NEW p \in Proc, \A i \in Slot : Free(k, <<p, i>>)
  PROVE  /\ \A i \in Slot : Free(j, <<p, i>>)
         /\ j.state[p] = k.state[p]
<1>1. \A i \in Slot : ~WokenEntry(k, j, <<p, i>>)
  BY Zenon DEF WokenEntry, Free
<1> QED BY <1>1, Zenon DEF Wakes, OnlyWoken, Free

\* A pipe that changes has its sleepers taken care of: those its new size could
\* serve are covered, and a hang-up leaves none asleep.
TakenCare(k, j, x) ==
  /\ \/ j.pipe[x].size = k.pipe[x].size
     \/ /\ j.pipe[x].size > 0 => Covered(j, ReadQ(x))
        /\ j.pipe[x].size < Cap => Covered(j, WriteQ(x))
  /\ \/ j.pipe[x].writers = 0 => k.pipe[x].writers = 0
     \/ \A e \in Entry : ~Linked(j, e, ReadQ(x))
  /\ \/ j.pipe[x].readers = 0 => k.pipe[x].readers = 0
     \/ \A e \in Entry : ~Linked(j, e, WriteQ(x))
  /\ SameReady(k, j, x) \/ \A e \in Entry : ~Linked(j, e, PollQ(x))

\* A step that only wakes and takes care of every pipe keeps the invariants of
\* the pipes.
LEMMA WakesPipes ==
  ASSUME NEW k \in Kernel, NEW j \in Kernel, CoverInv(k), HangupInv(k), Wakes(k, j),
         \A x \in Pipe : TakenCare(k, j, x)
  PROVE  CoverInv(j) /\ HangupInv(j)
<1>1. ASSUME NEW x \in Pipe
      PROVE  /\ j.pipe[x].size > 0 => Covered(j, ReadQ(x))
             /\ j.pipe[x].size < Cap => Covered(j, WriteQ(x))
  BY WakesCover, Zenon DEF CoverInv, TakenCare
<1>2. ASSUME NEW x \in Pipe, NEW e \in Entry
      PROVE  /\ j.pipe[x].writers = 0 => ~Linked(j, e, ReadQ(x))
             /\ j.pipe[x].readers = 0 => ~Linked(j, e, WriteQ(x))
  <2>1. \A q : Linked(j, e, q) => Linked(k, e, q)
    BY WakesKeep, Zenon DEF Linked
  <2> QED BY <2>1, Zenon DEF HangupInv, TakenCare
<1> QED BY <1>1, <1>2, Zenon DEF CoverInv, HangupInv

\* The same for a system call of p that does not block.
LEMMA CallInv ==
  ASSUME IInv, NEW p \in Proc, ~Pending(p), TypeOK', RefsCounted', QueueIntegrity',
         Wakes(kern, kern'), \A x \in Pipe : TakenCare(kern, kern', x),
         UNCHANGED <<waiting, len, polling, deadline>>,
         \A r \in Proc \ {p}, f \in Fd : fd'[<<r, f>>] = fd[<<r, f>>],
         \A r \in Proc \ {p} : r \in alive' <=> r \in alive,
         p \in alive'
  PROVE  IInv'
<1>1. /\ kern \in Kernel /\ kern' \in Kernel /\ ProcInv(p)
      /\ CoverInv(kern) /\ HangupInv(kern)
  BY SMTT(30) DEF IInv, TypeOK
<1>2. /\ waiting[p] = NoFd /\ polling[p] = NoPoll
      /\ kern'.state[p] = RUNNABLE /\ \A i \in Slot : Free(kern', <<p, i>>)
  BY <1>1, IdleEntries, WakesFree, SMTT(30)
<1>3. ProcInv(p)' /\ PollInv(p)'
  BY <1>2, Zenon DEF ProcInv, PollInv, Slot, RUNNABLE, Free
<1>4. ASSUME NEW r \in Proc \ {p} PROVE Bystander(r)
  BY Zenon DEF Bystander, Wakes
<1>5. CoverInv(kern') /\ HangupInv(kern')
  BY <1>1, WakesPipes, Zenon
<1>6. \A x \in Pipe : SameReady(kern, kern', x) \/ \A e \in Entry : ~Linked(kern', e, PollQ(x))
  BY Zenon DEF TakenCare
<1> QED BY <1>3, <1>4, <1>5, <1>6, StepInv, Zenon

\* Moving bytes changes no reference count.
LEMMA ResizedKeeps ==
  ASSUME NEW k \in Kernel, NEW j, NEW x \in Pipe, NEW n \in 0 .. Cap, Resized(k, j, x, n)
  PROVE  /\ Counted(k, fd) => Counted(j, fd)
         /\ j.pipe[x].size = n
         /\ \A y \in Pipe : /\ j.pipe[y].readers = k.pipe[y].readers
                            /\ j.pipe[y].writers = k.pipe[y].writers
                            /\ j.pipe[y].size # k.pipe[y].size => y = x
<1>1. k.pipe \in [Pipe -> PipeRec]
  BY Zenon DEF Kernel
<1>2. ASSUME NEW y \in Pipe
      PROVE  /\ j.pipe[y].readers = k.pipe[y].readers
             /\ j.pipe[y].writers = k.pipe[y].writers
             /\ j.pipe[y].used = k.pipe[y].used
             /\ j.pipe[y].size = IF y = x THEN n ELSE k.pipe[y].size
  BY <1>1 DEF Resized, PipeRec
<1>3. Counted(k, fd) => Counted(j, fd)
  BY <1>2, Zenon DEF Counted
<1> QED BY <1>2, <1>3, Zenon

-----------------------------------------------------------------------------
(* Reads and writes. *)

\* A read that moves bytes takes care of every pipe.
LEMMA ReadCare ==
  ASSUME IInv, NEW x \in Pipe, NEW n \in 1 .. MaxLen, ~ReadBlocks(kern, x, n)
  PROVE  LET m == kernel_pipe_read(kern, x, n)
         IN  /\ m \in Kernel /\ Integrity(m) /\ Counted(m, fd)
             /\ Wakes(kern, m) /\ \A y \in Pipe : TakenCare(kern, m, y)
<1> DEFINE m == kernel_pipe_read(kern, x, n)
<1> SUFFICES /\ m \in Kernel /\ Integrity(m) /\ Counted(m, fd)
             /\ Wakes(kern, m) /\ \A y \in Pipe : TakenCare(kern, m, y)
  BY SMTT(30)
<1>1. /\ kern \in Kernel /\ Integrity(kern) /\ Counted(kern, fd)
      /\ kern.pipe[x].size \in 0 .. Cap /\ kern.pipe[x].writers \in Nat
      /\ Cap \in Nat /\ MaxLen \in Nat
  BY PipeIOAssumption, Zenon DEF IInv, TypeOK, RefsCounted, QueueIntegrity, Kernel, PipeRec
<1>2. CASE kern.pipe[x].size = 0
  <2>1. m = kern
    <3>1. Min2(n, kern.pipe[x].size) = 0
      BY <1>1, <1>2 DEF Min2
    <3> QED BY <3>1, Zenon DEF kernel_pipe_read
  <2>2. Wakes(kern, m)
    BY <2>1, OnlyWokenRefl, Zenon DEF Wakes
  <2> QED BY <1>1, <2>1, <2>2, Zenon DEF TakenCare, SameReady
<1>3. CASE kern.pipe[x].size > 0
  <2>1. PICK left \in 0 .. Cap - 1 :
          /\ m \in Kernel /\ Integrity(m) /\ Resized(kern, m, x, left)
          /\ Wakes(kern, m)
          /\ Covered(m, WriteQ(x)) /\ (left > 0 => Covered(m, ReadQ(x)))
          /\ \A e \in Entry : ~Linked(m, e, PollQ(x))
    BY <1>1, <1>3, ReadEffect, Zenon
  <2>2. left \in 0 .. Cap
    BY <1>1, SMTT(30)
  <2>3. /\ Counted(m, fd) /\ m.pipe[x].size = left
        /\ \A y \in Pipe : /\ m.pipe[y].readers = kern.pipe[y].readers
                           /\ m.pipe[y].writers = kern.pipe[y].writers
                           /\ m.pipe[y].size # kern.pipe[y].size => y = x
    BY <1>1, <2>1, <2>2, ResizedKeeps, SMTT(30)
  <2>4. ASSUME NEW y \in Pipe PROVE TakenCare(kern, m, y)
    BY <2>1, <2>3, Zenon DEF TakenCare, SameReady
  <2> QED BY <2>1, <2>3, <2>4, Zenon
<1>4. kern.pipe[x].size = 0 \/ kern.pipe[x].size > 0
  BY <1>1, SMTT(30)
<1> QED BY <1>2, <1>3, <1>4, Zenon

\* A write that moves bytes, or fails with EPIPE, takes care of every pipe.
LEMMA WriteCare ==
  ASSUME IInv, NEW x \in Pipe, NEW n \in 1 .. MaxLen, ~WriteBlocks(kern, x, n)
  PROVE  LET m == kernel_pipe_write(kern, x, n)
         IN  /\ m \in Kernel /\ Integrity(m) /\ Counted(m, fd)
             /\ Wakes(kern, m) /\ \A y \in Pipe : TakenCare(kern, m, y)
<1> DEFINE m == kernel_pipe_write(kern, x, n)
<1> SUFFICES /\ m \in Kernel /\ Integrity(m) /\ Counted(m, fd)
             /\ Wakes(kern, m) /\ \A y \in Pipe : TakenCare(kern, m, y)
  BY Zenon
<1>1. /\ kern \in Kernel /\ Integrity(kern) /\ Counted(kern, fd)
      /\ kern.pipe[x].size \in 0 .. Cap /\ kern.pipe[x].readers \in Nat
      /\ Cap \in Nat /\ MaxLen \in Nat
  BY PipeIOAssumption, Zenon DEF IInv, TypeOK, RefsCounted, QueueIntegrity, Kernel, PipeRec
<1>2. CASE kern.pipe[x].readers = 0
  <2>1. m = kern
    BY <1>2, Zenon DEF kernel_pipe_write
  <2>2. Wakes(kern, m)
    BY <2>1, OnlyWokenRefl DEF Wakes
  <2> QED BY <1>1, <2>1, <2>2, Zenon DEF TakenCare, SameReady
<1>3. CASE kern.pipe[x].readers > 0
  <2>1. kern.pipe[x].size < Cap
    BY <1>1, <1>3, SMTT(30) DEF WriteBlocks, Min2
  <2>2. PICK size \in 1 .. Cap :
          /\ m \in Kernel /\ Integrity(m) /\ Resized(kern, m, x, size)
          /\ Wakes(kern, m)
          /\ Covered(m, ReadQ(x)) /\ (size < Cap => Covered(m, WriteQ(x)))
          /\ \A e \in Entry : ~Linked(m, e, PollQ(x))
    BY <1>1, <1>3, <2>1, WriteEffect, Zenon
  <2>3. size \in 0 .. Cap
    BY <1>1, SMTT(30)
  <2>4. /\ Counted(m, fd) /\ m.pipe[x].size = size
        /\ \A y \in Pipe : /\ m.pipe[y].readers = kern.pipe[y].readers
                           /\ m.pipe[y].writers = kern.pipe[y].writers
                           /\ m.pipe[y].size # kern.pipe[y].size => y = x
    BY <1>1, <2>2, <2>3, ResizedKeeps, SMTT(30)
  <2>5. ASSUME NEW y \in Pipe PROVE TakenCare(kern, m, y)
    BY <2>2, <2>4, Zenon DEF TakenCare, SameReady
  <2> QED BY <2>2, <2>4, <2>5, Zenon
<1>4. kern.pipe[x].readers = 0 \/ kern.pipe[x].readers > 0
  BY <1>1
<1> QED BY <1>2, <1>3, <1>4, Zenon

WithState(k, p, s) == [k EXCEPT !.state[p] = s]

\* Setting the scheduler state of a process touches nothing else.
LEMMA StateEffect ==
  ASSUME NEW k \in Kernel, Integrity(k), NEW p \in Proc,
         NEW s \in {RUNNABLE} \cup Blocked
  PROVE  LET j == WithState(k, p, s)
         IN  /\ j \in Kernel /\ Integrity(j) /\ j.pipe = k.pipe
             /\ j.entry = k.entry /\ j.state[p] = s
             /\ \A r \in Proc \ {p} : j.state[r] = k.state[r]
<1> DEFINE j == WithState(k, p, s)
           t == [k.state EXCEPT ![p] = s]
<1>1. j = [k EXCEPT !.state = t]
  BY Zenon DEF WithState
<1>2. k.state \in [Proc -> {RUNNABLE} \cup Blocked]
  BY Zenon DEF Kernel
<1>3. /\ t \in [Proc -> {RUNNABLE} \cup Blocked] /\ t[p] = s
      /\ \A r \in Proc \ {p} : t[r] = k.state[r]
  BY <1>2, Zenon
<1> HIDE DEF j, t
<1>4. /\ j.queue = k.queue /\ j.entry = k.entry /\ j.pipe = k.pipe /\ j.state = t
      /\ j = [queue |-> j.queue, entry |-> j.entry, state |-> j.state, pipe |-> j.pipe]
  BY <1>1, Zenon DEF Kernel
<1>5. j \in Kernel
  BY <1>3, <1>4, Zenon DEF Kernel
<1>6. Integrity(j)
  BY <1>4 DEF Integrity
<1> QED BY <1>3, <1>4, <1>5, <1>6, Zenon DEF j

\* A handle that is the given end of a pipe names it.
LEMMA EndNames ==
  ASSUME TypeOK, NEW p \in Proc, NEW f, NEW end \in {"R", "W"}, IsEnd(p, f, end)
  PROVE  f \in Fd /\ PipeOf(p, f) \in Pipe /\ fd[<<p, f>>] = <<PipeOf(p, f), end>>
  BY DEF TypeOK, Handle, IsEnd, PipeOf

\* Blocking on a pipe end: the process joins the queue of the end while there is
\* nothing it could do there.
LEMMA BlockStep ==
  ASSUME IInv, NEW p \in Proc, InUserMode(p), NEW f \in Fd, NEW n \in 1 .. MaxLen,
         NEW x \in Pipe, NEW end \in {"R", "W"}, fd[<<p, f>>] = <<x, end>>,
         NEW q, q = (IF end = "R" THEN ReadQ(x) ELSE WriteQ(x)),
         NEW s, s = (IF end = "R" THEN "PIPE_READ" ELSE "PIPE_WRITE"),
         end = "R" => kern.pipe[x].size = 0 /\ kern.pipe[x].writers > 0,
         end = "W" => kern.pipe[x].size >= Cap /\ kern.pipe[x].readers > 0,
         kern' = [process_wait_block(kern, p, q) EXCEPT !.state[p] = s],
         waiting' = [waiting EXCEPT ![p] = f], len' = [len EXCEPT ![p] = n],
         UNCHANGED <<fd, alive, polling, deadline>>
  PROVE  IInv'
<1> DEFINE k == process_wait_block(kern, p, q)
<1>1. /\ kern \in Kernel /\ Integrity(kern) /\ Counted(kern, fd) /\ TypeOK
      /\ ProcInv(p) /\ CoverInv(kern) /\ HangupInv(kern) /\ p \in alive
      /\ waiting \in [Proc -> Fd \cup {NoFd}] /\ len \in [Proc -> 0 .. MaxLen]
  BY Zenon DEF IInv, TypeOK, RefsCounted, QueueIntegrity, InUserMode
<1>2. /\ waiting[p] = NoFd /\ polling[p] = NoPoll /\ \A i \in Slot : Free(kern, <<p, i>>)
  BY <1>1, IdleEntries, Zenon DEF InUserMode
<1>3. /\ q \in Queue /\ s \in {RUNNABLE} \cup Blocked
      /\ ReadQ(x) # WriteQ(x)
  BY PipeQueues, Zenon DEF Blocked, ReadQ, WriteQ
<1>4. /\ k \in Kernel /\ Integrity(k) /\ k.pipe = kern.pipe /\ k.state = kern.state
      /\ \A r \in Proc \ {p} : OnlyWoken(kern, k, r)
      /\ k.entry[<<p, Block>>].exclusive /\ Queued(k, <<p, Block>>, q)
      /\ \A i \in PollSlot : Free(k, <<p, i>>)
      /\ \A r \in Queue \ {q} : Covered(kern, r) => Covered(k, r)
  BY <1>1, <1>2, <1>3, BlockEffect, Zenon
<1> HIDE DEF k
<1>5. /\ kern' \in Kernel /\ Integrity(kern') /\ kern'.pipe = k.pipe
      /\ kern'.entry = k.entry /\ kern'.state[p] = s
      /\ \A r \in Proc \ {p} : kern'.state[r] = k.state[r]
  <2>1. kern' = WithState(k, p, s)
    BY Zenon DEF k, WithState
  <2> DEFINE j == WithState(k, p, s)
  <2>2. k \in Kernel /\ Integrity(k) /\ s \in {RUNNABLE} \cup Blocked
    BY <1>3, <1>4, Zenon
  <2>3. /\ j \in Kernel /\ Integrity(j) /\ j.pipe = k.pipe
        /\ j.entry = k.entry /\ j.state[p] = s
        /\ \A r \in Proc \ {p} : j.state[r] = k.state[r]
    BY <2>2, StateEffect, Zenon
  <2> HIDE DEF j
  <2>4. kern' = j
    BY <2>1, Zenon DEF j
  <2> QED BY <2>3, <2>4, Zenon
<1>6. waiting'[p] = f /\ len'[p] = n /\ fd' = fd /\ alive' = alive /\ polling' = polling
  BY <1>1, Zenon
<1>7. TypeOK'
  BY <1>1, <1>5 DEF TypeOK
<1>8. RefsCounted' /\ QueueIntegrity'
  <2>1. Counted(kern', fd')
    BY <1>1, <1>4, <1>5, ZenonT(40) DEF Counted
  <2> QED BY <1>5, <2>1, Zenon DEF RefsCounted, QueueIntegrity
<1>9. ProcInv(p)' /\ PollInv(p)'
  <2>1. IOWait(p)'
    <3>1. fd'[<<p, waiting'[p]>>] = <<x, end>> /\ fd'[<<p, waiting'[p]>>] # FREE
      BY <1>6, PipeIOAssumption
    <3>2. IOQueue(p)' = q /\ IOState(p)' = s
      BY <3>1 DEF IOQueue, IOState, IsReading, PipeOf, ReadQ, WriteQ
    <3> QED BY <1>4, <1>5, <1>6, <3>1, <3>2, Zenon DEF IOWait, Queued
  <2>2. \A i \in PollSlot : Free(kern', <<p, i>>)
    BY <1>4, <1>5, Zenon DEF Free
  <2>3. waiting'[p] # NoFd /\ polling'[p] = NoPoll /\ p \in alive'
    BY <1>1, <1>2, <1>6, PipeIOAssumption, SMTT(30)
  <2>4. ProcInv(p)'
    BY <2>1, <2>2, <2>3, Zenon DEF ProcInv, Free
  <2> QED BY <1>5, <2>4 DEF PollInv
<1>10. ASSUME NEW r \in Proc \ {p} PROVE Bystander(r)
  <2>1. OnlyWoken(kern, kern', r)
    BY <1>4, <1>5, SMTT(30) DEF OnlyWoken, WokenEntry
  <2> QED BY <1>1, <1>6, <2>1, Zenon DEF Bystander
<1>11. CoverInv(kern')
  <2>1. ASSUME NEW y \in Pipe
        PROVE  /\ kern'.pipe[y].size > 0 => Covered(kern', ReadQ(y))
               /\ kern'.pipe[y].size < Cap => Covered(kern', WriteQ(y))
    <3>1. ReadQ(y) \in Queue /\ WriteQ(y) \in Queue
      BY PipeQueues, Zenon
    <3>2. \A r \in Queue \ {q} : Covered(kern, r) => Covered(kern', r)
      BY <1>4, <1>5 DEF Covered, Linked
    <3>3. kern'.pipe[y].size > 0 => ReadQ(y) # q
      BY <1>4, <1>5, SMTT(30) DEF ReadQ, WriteQ
    <3>4. kern'.pipe[y].size < Cap => WriteQ(y) # q
      <4>1. kern'.pipe[y].size \in Nat /\ Cap \in Nat
        BY <1>5, PipeIOAssumption, SMTT(30) DEF Kernel, PipeRec
      <4> QED BY <1>4, <1>5, <4>1, SMTT(30) DEF ReadQ, WriteQ
    <3> QED BY <1>1, <1>4, <1>5, <3>1, <3>2, <3>3, <3>4, Zenon DEF CoverInv
  <2> QED BY <2>1, Zenon DEF CoverInv
<1>12. HangupInv(kern')
  <2>1. ASSUME NEW y \in Pipe, NEW e \in Entry
        PROVE  /\ kern'.pipe[y].writers = 0 => ~Linked(kern', e, ReadQ(y))
               /\ kern'.pipe[y].readers = 0 => ~Linked(kern', e, WriteQ(y))
    <3>1. CASE Owner(e) # p
      <4>1. \A r : Linked(kern', e, r) => Linked(kern, e, r)
        <5>1. Owner(e) \in Proc \ {p} /\ e[2] \in Slot /\ e = <<Owner(e), e[2]>>
          BY <3>1, Entries, Zenon
        <5>2. kern'.entry[e] = kern.entry[e] \/ kern'.entry[e] = Awake(kern.entry[e])
          BY <1>4, <1>5, <5>1 DEF OnlyWoken, WokenEntry
        <5>3. kern.entry[e] \in WaitEntry
          BY <1>1, Zenon DEF Kernel
        <5> QED BY <5>2, <5>3, AwakeFields, Zenon DEF Linked
      <4> QED BY <1>1, <1>4, <1>5, <4>1, Zenon DEF HangupInv
    <3>2. CASE Owner(e) = p
      <4>1. e = <<p, Block>> \/ \E i \in PollSlot : e = <<p, i>>
        BY <3>2, Entries, Zenon DEF Slot
      <4>2. ASSUME NEW r, Linked(kern', e, r) PROVE r = q
        BY <1>4, <1>5, <4>1, <4>2, Zenon DEF Linked, Queued, Free
      <4>3. kern.pipe[x].writers \in Nat /\ kern.pipe[x].readers \in Nat
        BY <1>1, Zenon DEF Kernel, PipeRec
      <4> QED BY <1>4, <1>5, <4>2, <4>3, SMTT(30) DEF ReadQ, WriteQ
    <3> QED BY <3>1, <3>2, Zenon
  <2> QED BY <2>1, Zenon DEF HangupInv
<1>13. \A y \in Pipe : SameReady(kern, kern', y)
  BY <1>4, <1>5, Zenon DEF SameReady
<1> QED BY <1>7, <1>8, <1>9, <1>10, <1>11, <1>12, <1>13, StepInv, Zenon

\* SYS_READ on a pipe preserves the invariant.
LEMMA SysReadStep ==
  ASSUME IInv, NEW p \in Proc, SysRead(p)
  PROVE  IInv'
<1>1. PICK f \in Fd, n \in 1 .. MaxLen :
        LET x == PipeOf(p, f)
            k == process_wait_block(kern, p, ReadQ(x))
        IN  /\ InUserMode(p) /\ IsEnd(p, f, "R")
            /\ IF ReadBlocks(kern, x, n)
               THEN /\ kern' = [k EXCEPT !.state[p] = "PIPE_READ"]
                    /\ waiting' = [waiting EXCEPT ![p] = f]
                    /\ len' = [len EXCEPT ![p] = n]
               ELSE /\ kern' = kernel_pipe_read(kern, x, n)
                    /\ UNCHANGED <<waiting, len>>
            /\ UNCHANGED <<fd, alive, polling, deadline>>
  BY Zenon DEF SysRead
<1> DEFINE x == PipeOf(p, f)
<1>2. TypeOK
  BY Zenon DEF IInv
<1>3. x \in Pipe /\ fd[<<p, f>>] = <<x, "R">>
  BY <1>1, <1>2, EndNames, Zenon
<1>4. CASE ReadBlocks(kern, x, n)
  <2>1. kern.pipe[x].size = 0 /\ kern.pipe[x].writers > 0
    <3>1. kern.pipe[x].size \in Nat
      BY <1>2, <1>3, PipeIOAssumption, SMTT(30) DEF TypeOK, Kernel, PipeRec
    <3> QED BY <1>4, <3>1, PipeIOAssumption, SMTT(30) DEF ReadBlocks, Min2
  <2> QED BY <1>1, <1>3, <1>4, <2>1, BlockStep, SMTT(30)
<1>5. CASE ~ReadBlocks(kern, x, n)
  <2>1. kern' = kernel_pipe_read(kern, x, n) /\ UNCHANGED <<fd, alive, waiting, len, polling, deadline>>
    BY <1>1, <1>5, Zenon
  <2>2. /\ kern' \in Kernel /\ Integrity(kern') /\ Counted(kern', fd)
        /\ Wakes(kern, kern') /\ \A y \in Pipe : TakenCare(kern, kern', y)
    BY <1>3, <1>5, <2>1, ReadCare, Zenon
  <2>3. TypeOK' /\ RefsCounted' /\ QueueIntegrity'
    BY <1>2, <2>1, <2>2, Zenon DEF TypeOK, RefsCounted, QueueIntegrity
  <2> QED BY <1>1, <2>1, <2>2, <2>3, CallInv, Zenon DEF InUserMode
<1> QED BY <1>4, <1>5, Zenon

\* SYS_WRITE on a pipe preserves the invariant.
LEMMA SysWriteStep ==
  ASSUME IInv, NEW p \in Proc, SysWrite(p)
  PROVE  IInv'
<1>1. PICK f \in Fd, n \in 1 .. MaxLen :
        LET x == PipeOf(p, f)
            k == process_wait_block(kern, p, WriteQ(x))
        IN  /\ InUserMode(p) /\ IsEnd(p, f, "W")
            /\ IF WriteBlocks(kern, x, n)
               THEN /\ kern' = [k EXCEPT !.state[p] = "PIPE_WRITE"]
                    /\ waiting' = [waiting EXCEPT ![p] = f]
                    /\ len' = [len EXCEPT ![p] = n]
               ELSE /\ kern' = kernel_pipe_write(kern, x, n)
                    /\ UNCHANGED <<waiting, len>>
            /\ UNCHANGED <<fd, alive, polling, deadline>>
  BY Zenon DEF SysWrite
<1> DEFINE x == PipeOf(p, f)
<1>2. TypeOK
  BY DEF IInv
<1>3. x \in Pipe /\ fd[<<p, f>>] = <<x, "W">>
  BY <1>1, <1>2, EndNames, Zenon
<1>4. CASE WriteBlocks(kern, x, n)
  <2>1. kern.pipe[x].size >= Cap /\ kern.pipe[x].readers > 0
    BY <1>4, Zenon DEF WriteBlocks
  <2> QED BY <1>1, <1>3, <1>4, <2>1, BlockStep, SMTT(30)
<1>5. CASE ~WriteBlocks(kern, x, n)
  <2>1. kern' = kernel_pipe_write(kern, x, n) /\ UNCHANGED <<fd, alive, waiting, len, polling, deadline>>
    BY <1>1, <1>5, Zenon
  <2>2. /\ kern' \in Kernel /\ Integrity(kern') /\ Counted(kern', fd)
        /\ Wakes(kern, kern') /\ \A y \in Pipe : TakenCare(kern, kern', y)
    BY <1>3, <1>5, <2>1, WriteCare, Zenon
  <2>3. TypeOK' /\ RefsCounted' /\ QueueIntegrity'
    BY <1>2, <2>1, <2>2 DEF TypeOK, RefsCounted, QueueIntegrity
  <2> QED BY <1>1, <2>1, <2>2, <2>3, CallInv, Zenon DEF InUserMode
<1> QED BY <1>4, <1>5

-----------------------------------------------------------------------------
(* Steps that end a wait. *)

\* Process p is on no queue.
AllFree(k, p) == \A i \in Slot : Free(k, <<p, i>>)

\* Between k and j other processes than p were at most woken.
OthersWoken(k, j, p) == \A r \in Proc \ {p} : OnlyWoken(k, j, r)

\* The tables agree on the handles of other processes than p.
OthersHandles(table, rest, p) ==
  \A r \in Proc \ {p}, f \in Fd : rest[<<r, f>>] = table[<<r, f>>]

\* The variables of other processes than p stay as they are.
OthersVars(p) ==
  \A r \in Proc \ {p} :
    /\ waiting'[r] = waiting[r] /\ len'[r] = len[r] /\ polling'[r] = polling[r]
    /\ deadline'[r] = deadline[r] /\ (r \in alive' <=> r \in alive)

\* A step that leaves p waiting for nothing.
LEMMA IdleInv ==
  ASSUME IInv, NEW p \in Proc, TypeOK', RefsCounted', QueueIntegrity',
         AllFree(kern', p), OthersWoken(kern, kern', p), OthersHandles(fd, fd', p),
         OthersVars(p), waiting'[p] = NoFd, polling'[p] = NoPoll,
         kern'.state[p] = RUNNABLE,
         p \in alive' \/ \A f \in Fd : fd'[<<p, f>>] = FREE,
         CoverInv(kern'), HangupInv(kern'),
         \A x \in Pipe : SameReady(kern, kern', x)
                           \/ \A e \in Entry : ~Linked(kern', e, PollQ(x))
  PROVE  IInv'
<1>1. ProcInv(p)' /\ PollInv(p)'
  BY ZenonT(40) DEF ProcInv, PollInv, AllFree, Slot, RUNNABLE, Free
<1>2. \A r \in Proc \ {p} : Bystander(r)
  BY Zenon DEF Bystander, OthersWoken, OthersHandles, OthersVars
<1> QED BY <1>1, <1>2, StepInv, Zenon

\* Who sleeps after such a step slept before.
LEMMA StillLinked ==
  ASSUME NEW k \in Kernel, NEW j, NEW p \in Proc, AllFree(j, p), OthersWoken(k, j, p),
         NEW e \in Entry, NEW q, Linked(j, e, q)
  PROVE  Linked(k, e, q)
<1>1. Owner(e) \in Proc /\ e[2] \in Slot /\ e = <<Owner(e), e[2]>> /\ k.entry[e] \in WaitEntry
  BY Entries, Zenon DEF Kernel
<1>2. Owner(e) # p
  BY <1>1, Zenon DEF AllFree, Free, Linked
<1>3. j.entry[e] = k.entry[e] \/ j.entry[e] = Awake(k.entry[e])
  BY <1>1, <1>2 DEF OthersWoken, OnlyWoken, WokenEntry
<1> QED BY <1>1, <1>3, AwakeFields, Zenon DEF Linked

\* Poll entries are on poll queues only, the block entry never is.
LEMMA QueueKinds ==
  ASSUME TypeOK, NEW p \in Proc, ProcInv(p), NEW x \in Pipe
  PROVE  \A i \in PollSlot : /\ kern.entry[<<p, i>>].queue # ReadQ(x)
                             /\ kern.entry[<<p, i>>].queue # WriteQ(x)
<1>1. NoQueue # ReadQ(x) /\ NoQueue # WriteQ(x)
  BY PipeQueues, PipeIOAssumption
<1>2. \A y : PollQ(y) # ReadQ(x) /\ PollQ(y) # WriteQ(x)
  BY Zenon DEF PollQ, ReadQ, WriteQ
<1>3. ASSUME NEW i \in PollSlot
      PROVE  \/ kern.entry[<<p, i>>].queue = NoQueue
             \/ \E y : kern.entry[<<p, i>>].queue = PollQ(y)
  BY Zenon DEF ProcInv, PollWait, Free
<1> QED BY <1>1, <1>2, <1>3, Zenon

\* Queues that p is not on are covered by others.
LEMMA CoveredWithout ==
  ASSUME NEW k, NEW p \in Proc, NEW q, Covered(k, q),
         \A i \in Slot : k.entry[<<p, i>>].queue # q
  PROVE  CoveredBut(k, q, p)
<1>1. ASSUME NEW e \in Entry, k.entry[e].queue = q PROVE Owner(e) # p
  BY <1>1, Entries
<1> QED BY <1>1, Zenon DEF Covered, CoveredBut, Linked

\* A process that gives up its wait hands its wake on: the pipes keep their
\* invariants.
LEMMA CancelDone ==
  ASSUME IInv, NEW p \in Proc
  PROVE  LET k == process_wait_detach(kern, p, TRUE)
         IN  /\ k \in Kernel /\ Integrity(k) /\ k.pipe = kern.pipe
             /\ AllFree(k, p) /\ OthersWoken(kern, k, p)
             /\ CoverInv(k) /\ HangupInv(k)
<1> DEFINE cancel == TRUE
           k == process_wait_detach(kern, p, cancel)
<1>1. /\ kern \in Kernel /\ Integrity(kern) /\ TypeOK /\ ProcInv(p)
      /\ CoverInv(kern) /\ HangupInv(kern)
  BY Zenon DEF IInv, TypeOK, QueueIntegrity
<1>2. kern.entry[<<p, Block>>].woken => kern.entry[<<p, Block>>].exclusive
  BY <1>1, Zenon DEF ProcInv, Free, IOWait
<1>3. cancel \in BOOLEAN /\ cancel
  BY Zenon
<1> HIDE DEF cancel
<1>4. /\ k \in Kernel /\ Integrity(k) /\ k.pipe = kern.pipe
      /\ \A i \in Slot : Free(k, <<p, i>>)
      /\ \A q \in Proc \ {p} : OnlyWoken(kern, k, q)
      /\ cancel /\ (kern.entry[<<p, Block>>].woken => kern.entry[<<p, Block>>].exclusive) =>
           \A q \in Queue :
             Covered(kern, q) /\ (\A i \in PollSlot : kern.entry[<<p, i>>].queue # q)
               => Covered(k, q)
  BY <1>1, <1>3, DetachEffect, ZenonT(40)
<1> HIDE DEF k
<1>5. AllFree(k, p) /\ OthersWoken(kern, k, p)
  BY <1>4, Zenon DEF AllFree, OthersWoken
<1>6. \A q \in Queue : Covered(kern, q) /\ (\A i \in PollSlot : kern.entry[<<p, i>>].queue # q)
                         => Covered(k, q)
  BY <1>2, <1>3, <1>4, Zenon
<1>7. ASSUME NEW x \in Pipe
      PROVE  /\ k.pipe[x].size > 0 => Covered(k, ReadQ(x))
             /\ k.pipe[x].size < Cap => Covered(k, WriteQ(x))
  <2>1. \A i \in PollSlot : /\ kern.entry[<<p, i>>].queue # ReadQ(x)
                            /\ kern.entry[<<p, i>>].queue # WriteQ(x)
    BY <1>1, QueueKinds, ZenonT(40)
  <2> QED BY <1>1, <1>4, <1>6, <2>1, PipeQueues, Zenon DEF CoverInv
<1>8. ASSUME NEW x \in Pipe, NEW e \in Entry
      PROVE  /\ k.pipe[x].writers = 0 => ~Linked(k, e, ReadQ(x))
             /\ k.pipe[x].readers = 0 => ~Linked(k, e, WriteQ(x))
  BY <1>1, <1>4, <1>5, StillLinked, ZenonT(40) DEF HangupInv
<1>9. CoverInv(k) /\ HangupInv(k)
  BY <1>7, <1>8, Zenon DEF CoverInv, HangupInv
<1> QED BY <1>4, <1>5, <1>9, ZenonT(40) DEF k, cancel

\* ClearWait() is about one process.
LEMMA ClearWaitEffect ==
  ASSUME TypeOK, NEW p \in Proc, ClearWait(p), UNCHANGED alive
  PROVE  /\ OthersVars(p) /\ waiting'[p] = NoFd /\ polling'[p] = NoPoll
         /\ waiting' \in [Proc -> Fd \cup {NoFd}] /\ len' \in [Proc -> 0 .. MaxLen]
         /\ polling' \in [Proc -> Poll \cup {NoPoll}]
         /\ deadline' \in [Proc -> {"none", "pending", "passed"}]
<1>1. 0 \in 0 .. MaxLen
  BY PipeIOAssumption
<1>2. /\ waiting \in [Proc -> Fd \cup {NoFd}] /\ len \in [Proc -> 0 .. MaxLen]
      /\ polling \in [Proc -> Poll \cup {NoPoll}]
      /\ deadline \in [Proc -> {"none", "pending", "passed"}]
  BY Zenon DEF TypeOK
<1> QED BY <1>1, <1>2, Zenon DEF ClearWait, OthersVars

\* A wait that ends with its condition met: what the woken process leaves for
\* others it passed on before, so its own wake may be dropped.
LEMMA WaitDone ==
  ASSUME IInv, NEW p \in Proc, Resumable(p), NEW m \in Kernel, Integrity(m),
         Counted(m, fd), Wakes(kern, m), \A x \in Pipe : TakenCare(kern, m, x),
         \A x \in Pipe : /\ m.pipe[x].size > 0 => CoveredBut(m, ReadQ(x), p)
                         /\ m.pipe[x].size < Cap => CoveredBut(m, WriteQ(x), p),
         kern' = process_wait_detach(m, p, FALSE), ClearWait(p), UNCHANGED <<fd, alive>>
  PROVE  IInv'
<1> DEFINE cancel == FALSE
<1>1. /\ kern \in Kernel /\ TypeOK /\ CoverInv(kern) /\ HangupInv(kern)
      /\ p \in alive /\ kern.state[p] = RUNNABLE
  BY ZenonT(40) DEF IInv, TypeOK, Resumable
<1>2. cancel \in BOOLEAN /\ ~cancel /\ kern' = process_wait_detach(m, p, cancel)
  BY Zenon
<1> HIDE DEF cancel
<1>3. /\ kern' \in Kernel /\ Integrity(kern') /\ kern'.pipe = m.pipe
      /\ \A i \in Slot : Free(kern', <<p, i>>)
      /\ \A q \in Proc \ {p} : OnlyWoken(m, kern', q)
      /\ kern'.state = m.state
      /\ \A q \in Queue : CoveredBut(m, q, p) => Covered(kern', q)
  BY <1>2, DetachEffect, ZenonT(40)
<1>4. AllFree(kern', p) /\ OthersWoken(m, kern', p) /\ OthersWoken(kern, kern', p)
  <2>1. \A q \in Proc \ {p} : OnlyWoken(kern, kern', q)
    BY <1>1, <1>3, OnlyWokenTrans, ZenonT(40) DEF Wakes
  <2> QED BY <1>3, <2>1, ZenonT(40) DEF AllFree, OthersWoken
<1>5. kern'.state[p] = RUNNABLE
  BY <1>1, <1>3, ZenonT(40) DEF Wakes, OnlyWoken
<1>6. CoverInv(m) /\ HangupInv(m)
  BY <1>1, WakesPipes, ZenonT(40)
<1>7. CoverInv(kern')
  <2>1. ASSUME NEW x \in Pipe
        PROVE  /\ kern'.pipe[x].size > 0 => Covered(kern', ReadQ(x))
               /\ kern'.pipe[x].size < Cap => Covered(kern', WriteQ(x))
    BY <1>3, PipeQueues, ZenonT(40)
  <2> QED BY <2>1, ZenonT(40) DEF CoverInv
<1>8. HangupInv(kern')
  <2>1. ASSUME NEW x \in Pipe, NEW e \in Entry
        PROVE  /\ kern'.pipe[x].writers = 0 => ~Linked(kern', e, ReadQ(x))
               /\ kern'.pipe[x].readers = 0 => ~Linked(kern', e, WriteQ(x))
    BY <1>3, <1>4, <1>6, StillLinked, ZenonT(40) DEF HangupInv
  <2> QED BY <2>1, ZenonT(40) DEF HangupInv
<1>9. ASSUME NEW x \in Pipe
      PROVE  SameReady(kern, kern', x) \/ \A e \in Entry : ~Linked(kern', e, PollQ(x))
  <2>1. \A e \in Entry : Linked(kern', e, PollQ(x)) => Linked(m, e, PollQ(x))
    BY <1>4, StillLinked, ZenonT(40)
  <2>2. SameReady(kern, m, x) => SameReady(kern, kern', x)
    BY <1>3, ZenonT(40) DEF SameReady
  <2> QED BY <2>1, <2>2, ZenonT(40) DEF TakenCare
<1>10. /\ OthersVars(p) /\ waiting'[p] = NoFd /\ polling'[p] = NoPoll
       /\ waiting' \in [Proc -> Fd \cup {NoFd}] /\ len' \in [Proc -> 0 .. MaxLen]
       /\ polling' \in [Proc -> Poll \cup {NoPoll}]
       /\ deadline' \in [Proc -> {"none", "pending", "passed"}]
  BY <1>1, ClearWaitEffect, ZenonT(40)
<1>11. TypeOK'
  BY <1>1, <1>3, <1>10, ZenonT(40) DEF TypeOK
<1>12. RefsCounted' /\ QueueIntegrity'
  <2>1. Counted(kern', fd')
    BY <1>3, ZenonT(40) DEF Counted
  <2> QED BY <1>3, <2>1, ZenonT(40) DEF RefsCounted, QueueIntegrity
<1>13. OthersHandles(fd, fd', p) /\ p \in alive'
  BY <1>1, Zenon DEF OthersHandles
<1> QED BY <1>4, <1>5, <1>7, <1>8, <1>9, <1>10, <1>11, <1>12, <1>13, IdleInv, Zenon

\* The block entry of a process that resumes a read or write was woken, from the
\* queue of the pipe it is about; the process is on no other queue.
LEMMA ResumedEntry ==
  ASSUME IInv, NEW p \in Proc, Resumable(p), NEW end \in {"R", "W"}, IsEnd(p, waiting[p], end)
  PROVE  LET x == PipeOf(p, waiting[p])
             q == IF end = "R" THEN ReadQ(x) ELSE WriteQ(x)
         IN  /\ x \in Pipe /\ waiting[p] \in Fd /\ len[p] \in 1 .. MaxLen
             /\ fd[<<p, waiting[p]>>] = <<x, end>> /\ IOWait(p) /\ polling[p] = NoPoll
             /\ kern.entry[<<p, Block>>].queue = q
             /\ \A i \in Slot : ~kern.entry[<<p, i>>].linked
             /\ \A r \in Queue \ {q}, i \in Slot : kern.entry[<<p, i>>].queue # r
<1> DEFINE x == PipeOf(p, waiting[p])
           q == IF end = "R" THEN ReadQ(x) ELSE WriteQ(x)
<1>1. TypeOK /\ ProcInv(p) /\ Integrity(kern) /\ kern.state[p] = RUNNABLE
  BY Zenon DEF IInv, Resumable, QueueIntegrity
<1>2. waiting[p] \in Fd /\ x \in Pipe /\ fd[<<p, waiting[p]>>] = <<x, end>>
  BY <1>1, EndNames, ZenonT(40)
<1>3. IOWait(p) /\ polling[p] = NoPoll /\ \A i \in PollSlot : Free(kern, <<p, i>>)
  BY <1>1, <1>2, PipeIOAssumption, ZenonT(40) DEF ProcInv
<1>4. kern.entry[<<p, Block>>].queue = q
  BY <1>2, <1>3 DEF IOWait, IOQueue, IsReading
<1>5. kern.entry[<<p, Block>>].woken
  BY <1>1, <1>3, Zenon DEF IOWait, IOState, RUNNABLE
<1>6. ~kern.entry[<<p, Block>>].linked
  BY <1>1, <1>5, Entries, Zenon DEF Integrity, Slot
<1>7. \A i \in Slot : ~kern.entry[<<p, i>>].linked
  BY <1>3, <1>6, Zenon DEF Slot, Free
<1>8. \A r \in Queue \ {q}, i \in Slot : kern.entry[<<p, i>>].queue # r
  BY <1>3, <1>4, PipeIOAssumption DEF Slot, Free
<1>9. len[p] \in 1 .. MaxLen
  BY <1>3, ZenonT(40) DEF IOWait
<1> QED BY <1>2, <1>3, <1>4, <1>7, <1>8, <1>9, Zenon

\* Resuming a read preserves the invariant.
LEMMA ReadDone ==
  ASSUME IInv, NEW p \in Proc, Resumable(p), IsEnd(p, waiting[p], "R"),
         ~ReadBlocks(kern, PipeOf(p, waiting[p]), len[p]),
         kern' = process_wait_detach(kernel_pipe_read(kern, PipeOf(p, waiting[p]), len[p]),
                                     p, FALSE),
         ClearWait(p), UNCHANGED <<fd, alive>>
  PROVE  IInv'
<1> DEFINE x == PipeOf(p, waiting[p])
           m == kernel_pipe_read(kern, x, len[p])
<1>1. /\ x \in Pipe /\ len[p] \in 1 .. MaxLen
      /\ \A i \in Slot : ~kern.entry[<<p, i>>].linked
      /\ \A r \in Queue \ {ReadQ(x)}, i \in Slot : kern.entry[<<p, i>>].queue # r
  BY ResumedEntry, ZenonT(40)
<1>2. /\ kern \in Kernel /\ Integrity(kern) /\ CoverInv(kern)
      /\ kern.pipe[x].size \in 0 .. Cap /\ Cap \in Nat /\ MaxLen \in Nat
  BY <1>1, PipeIOAssumption, ZenonT(40) DEF IInv, TypeOK, QueueIntegrity, Kernel, PipeRec
<1>3. /\ m \in Kernel /\ Integrity(m) /\ Counted(m, fd)
      /\ Wakes(kern, m) /\ \A y \in Pipe : TakenCare(kern, m, y)
  BY <1>1, ReadCare, ZenonT(40)
<1>4. \A q \in Queue \ {ReadQ(x)} : Covered(kern, q) => CoveredBut(m, q, p)
  BY <1>1, <1>2, <1>3, CoveredWithout, WakesCoverBut, Zenon
<1>5. /\ \A y \in Pipe \ {x} : m.pipe[y].size = kern.pipe[y].size
      /\ m.pipe[x].size > 0 => CoveredBut(m, ReadQ(x), p)
      /\ m.pipe[x].size < Cap => CoveredBut(m, WriteQ(x), p)
  <2>1. CASE kern.pipe[x].size = 0
    <3>1. m = kern
      <4>1. Min2(len[p], kern.pipe[x].size) = 0
        BY <1>1, <1>2, <2>1 DEF Min2
      <4> QED BY <4>1, Zenon DEF kernel_pipe_read
    <3>2. WriteQ(x) \in Queue \ {ReadQ(x)}
      BY <1>1, PipeQueues, Zenon DEF ReadQ, WriteQ
    <3>3. m.pipe[x].size < Cap => CoveredBut(m, WriteQ(x), p)
      BY <1>1, <1>2, <1>4, <3>1, <3>2, Zenon DEF CoverInv
    <3> QED BY <2>1, <3>1, <3>3, NatZero, Zenon
  <2>2. CASE kern.pipe[x].size > 0
    <3>1. PICK left \in 0 .. Cap - 1 :
            /\ Resized(kern, m, x, left)
            /\ left > 0 /\ (\A i \in Slot : ~Linked(kern, <<p, i>>, ReadQ(x)))
                 => CoveredBut(m, ReadQ(x), p)
            /\ (\A i \in Slot : ~Linked(kern, <<p, i>>, WriteQ(x)))
                 => CoveredBut(m, WriteQ(x), p)
      BY <1>1, <1>2, <2>2, ReadEffect, ZenonT(40)
    <3>2. left \in 0 .. Cap
      BY <1>2, NatRange, Zenon
    <3> HIDE DEF m
    <3>3. m.pipe[x].size = left /\ \A y \in Pipe : m.pipe[y].size # kern.pipe[y].size => y = x
      BY <1>1, <1>2, <3>1, <3>2, ResizedKeeps, SMTT(30)
    <3>4. /\ \A i \in Slot : ~Linked(kern, <<p, i>>, ReadQ(x))
          /\ \A i \in Slot : ~Linked(kern, <<p, i>>, WriteQ(x))
      BY <1>1, Zenon DEF Linked
    <3> QED BY <3>1, <3>3, <3>4, ZenonT(40)
  <2> QED BY <1>2, <2>1, <2>2, NatZero, NatRange, ZenonT(20)
<1> HIDE DEF m
<1>6. ASSUME NEW y \in Pipe
      PROVE  /\ m.pipe[y].size > 0 => CoveredBut(m, ReadQ(y), p)
             /\ m.pipe[y].size < Cap => CoveredBut(m, WriteQ(y), p)
  <2>1. CASE y = x
    BY <1>5, <2>1, ZenonT(40)
  <2>2. CASE y # x
    <3>1. ReadQ(y) \in Queue \ {ReadQ(x)} /\ WriteQ(y) \in Queue \ {ReadQ(x)}
      BY <2>2, PipeQueues, ZenonT(40) DEF ReadQ, WriteQ
    <3> QED BY <1>2, <1>4, <1>5, <2>2, <3>1, Zenon DEF CoverInv
  <2> QED BY <2>1, <2>2, ZenonT(40)
<1>7. kern' = process_wait_detach(m, p, FALSE)
  BY Zenon DEF m
<1> QED BY <1>3, <1>6, <1>7, WaitDone, ZenonT(40)

\* Resuming a write preserves the invariant.
LEMMA WriteDone ==
  ASSUME IInv, NEW p \in Proc, Resumable(p), IsEnd(p, waiting[p], "W"),
         ~WriteBlocks(kern, PipeOf(p, waiting[p]), len[p]),
         kern' = process_wait_detach(kernel_pipe_write(kern, PipeOf(p, waiting[p]), len[p]),
                                     p, FALSE),
         ClearWait(p), UNCHANGED <<fd, alive>>
  PROVE  IInv'
<1> DEFINE x == PipeOf(p, waiting[p])
           m == kernel_pipe_write(kern, x, len[p])
<1>1. /\ x \in Pipe /\ len[p] \in 1 .. MaxLen
      /\ \A i \in Slot : ~kern.entry[<<p, i>>].linked
      /\ \A r \in Queue \ {WriteQ(x)}, i \in Slot : kern.entry[<<p, i>>].queue # r
  BY ResumedEntry, ZenonT(40)
<1>2. /\ kern \in Kernel /\ Integrity(kern) /\ CoverInv(kern) /\ HangupInv(kern)
      /\ kern.pipe[x].size \in 0 .. Cap /\ kern.pipe[x].readers \in Nat
      /\ Cap \in Nat /\ MaxLen \in Nat
  BY <1>1, PipeIOAssumption, ZenonT(40) DEF IInv, TypeOK, QueueIntegrity, Kernel, PipeRec
<1>3. /\ m \in Kernel /\ Integrity(m) /\ Counted(m, fd)
      /\ Wakes(kern, m) /\ \A y \in Pipe : TakenCare(kern, m, y)
  BY <1>1, WriteCare, ZenonT(40)
<1>4. \A q \in Queue \ {WriteQ(x)} : Covered(kern, q) => CoveredBut(m, q, p)
  BY <1>1, <1>2, <1>3, CoveredWithout, WakesCoverBut, Zenon
<1>5. /\ \A y \in Pipe \ {x} : m.pipe[y].size = kern.pipe[y].size
      /\ m.pipe[x].size > 0 => CoveredBut(m, ReadQ(x), p)
      /\ m.pipe[x].size < Cap => CoveredBut(m, WriteQ(x), p)
  <2>1. CASE kern.pipe[x].readers = 0
    <3>1. m = kern
      BY <2>1, Zenon DEF kernel_pipe_write
    <3>2. ReadQ(x) \in Queue \ {WriteQ(x)}
      BY <1>1, PipeQueues, ZenonT(40) DEF ReadQ, WriteQ
    <3>3. m.pipe[x].size > 0 => CoveredBut(m, ReadQ(x), p)
      BY <1>1, <1>2, <1>4, <3>1, <3>2, Zenon DEF CoverInv
    <3>4. CoveredBut(m, WriteQ(x), p)
      BY <1>1, <1>2, <2>1, <3>1, Zenon DEF HangupInv, CoveredBut
    <3> QED BY <3>1, <3>3, <3>4, Zenon
  <2>2. CASE kern.pipe[x].readers > 0
    <3>1. kern.pipe[x].size < Cap
      BY <1>1, <1>2, <2>2 DEF WriteBlocks, Min2
    <3>2. PICK size \in 1 .. Cap :
            /\ Resized(kern, m, x, size)
            /\ size < Cap /\ (\A i \in Slot : ~Linked(kern, <<p, i>>, WriteQ(x)))
                 => CoveredBut(m, WriteQ(x), p)
            /\ (\A i \in Slot : ~Linked(kern, <<p, i>>, ReadQ(x)))
                 => CoveredBut(m, ReadQ(x), p)
      BY <1>1, <1>2, <2>2, <3>1, WriteEffect, Zenon
    <3>3. size \in 0 .. Cap
      BY <1>2, NatRange, Zenon
    <3> HIDE DEF m
    <3>4. m.pipe[x].size = size /\ \A y \in Pipe : m.pipe[y].size # kern.pipe[y].size => y = x
      BY <1>1, <1>2, <3>2, <3>3, ResizedKeeps, SMTT(30)
    <3>5. /\ \A i \in Slot : ~Linked(kern, <<p, i>>, ReadQ(x))
          /\ \A i \in Slot : ~Linked(kern, <<p, i>>, WriteQ(x))
      BY <1>1, ZenonT(40) DEF Linked
    <3> QED BY <3>2, <3>4, <3>5, ZenonT(40)
  <2>3. kern.pipe[x].readers = 0 \/ kern.pipe[x].readers > 0
    BY <1>2
  <2> QED BY <2>1, <2>2, <2>3, ZenonT(40)
<1> HIDE DEF m
<1>6. ASSUME NEW y \in Pipe
      PROVE  /\ m.pipe[y].size > 0 => CoveredBut(m, ReadQ(y), p)
             /\ m.pipe[y].size < Cap => CoveredBut(m, WriteQ(y), p)
  <2>1. CASE y = x
    BY <1>5, <2>1, ZenonT(40)
  <2>2. CASE y # x
    <3>1. ReadQ(y) \in Queue \ {WriteQ(x)} /\ WriteQ(y) \in Queue \ {WriteQ(x)}
      BY <2>2, PipeQueues, ZenonT(40) DEF ReadQ, WriteQ
    <3> QED BY <1>2, <1>4, <1>5, <2>2, <3>1, Zenon DEF CoverInv
  <2> QED BY <2>1, <2>2, ZenonT(40)
<1>7. kern' = process_wait_detach(m, p, FALSE)
  BY Zenon DEF m
<1> QED BY <1>3, <1>6, <1>7, WaitDone, ZenonT(40)

\* A wake that turns out spurious: p goes back to sleep where it was, on a pipe
\* that has nothing for it.
LEMMA ReblockInv ==
  ASSUME IInv, NEW p \in Proc, Resumable(p), NEW s \in Blocked, Reblock(p, s),
         UNCHANGED <<fd, alive>>,
         \/ /\ waiting[p] # NoFd /\ s = IOState(p)
            /\ IF IsReading(p)
               THEN kern.pipe[PipeOf(p, waiting[p])].size = 0
                      /\ kern.pipe[PipeOf(p, waiting[p])].writers > 0
               ELSE kern.pipe[PipeOf(p, waiting[p])].size >= Cap
                      /\ kern.pipe[PipeOf(p, waiting[p])].readers > 0
         \/ /\ polling[p] # NoPoll /\ s = "POLL"
            /\ ~PollReady(p, polling[p]) /\ deadline[p] # "passed"
  PROVE  IInv'
<1> DEFINE k == process_wait_rearm(kern, p)
           b == <<p, Block>>
<1>1. /\ kern \in Kernel /\ Integrity(kern) /\ Counted(kern, fd) /\ TypeOK
      /\ ProcInv(p) /\ CoverInv(kern) /\ HangupInv(kern) /\ p \in alive
  BY ZenonT(40) DEF IInv, TypeOK, RefsCounted, QueueIntegrity, Resumable
<1>2. /\ k \in Kernel /\ Integrity(k) /\ k.pipe = kern.pipe
      /\ OnlyOf(kern, k, p)
      /\ \A i \in Slot :
           /\ k.entry[<<p, i>>].exclusive = kern.entry[<<p, i>>].exclusive
           /\ kern.entry[<<p, i>>].queue # NoQueue =>
                Queued(k, <<p, i>>, kern.entry[<<p, i>>].queue)
           /\ kern.entry[<<p, i>>].queue = NoQueue =>
                k.entry[<<p, i>>] = kern.entry[<<p, i>>]
  BY <1>1, RearmEffect, Zenon
<1>3. kern' = WithState(k, p, s) /\ s \in {RUNNABLE} \cup Blocked
      /\ UNCHANGED <<waiting, len, polling, deadline>>
  BY Zenon DEF Reblock, WithState
<1> HIDE DEF k
<1>4. /\ kern' \in Kernel /\ Integrity(kern') /\ kern'.pipe = k.pipe
      /\ kern'.entry = k.entry /\ kern'.state[p] = s
      /\ \A r \in Proc \ {p} : kern'.state[r] = k.state[r]
  <2> DEFINE j == WithState(k, p, s)
  <2>1. /\ j \in Kernel /\ Integrity(j) /\ j.pipe = k.pipe
        /\ j.entry = k.entry /\ j.state[p] = s
        /\ \A r \in Proc \ {p} : j.state[r] = k.state[r]
    BY <1>2, <1>3, StateEffect, ZenonT(40)
  <2> HIDE DEF j
  <2>2. kern' = j
    BY <1>3, ZenonT(40) DEF j
  <2> QED BY <2>1, <2>2, ZenonT(40)
<1>5. TypeOK'
  BY <1>1, <1>3, <1>4, ZenonT(40) DEF TypeOK
<1>6. RefsCounted' /\ QueueIntegrity'
  <2>1. Counted(kern', fd')
    BY <1>1, <1>2, <1>4, ZenonT(40) DEF Counted
  <2> QED BY <1>4, <2>1, Zenon DEF RefsCounted, QueueIntegrity
<1>7. ASSUME NEW r \in Proc \ {p} PROVE Bystander(r)
  <2>1. \A i \in Slot : <<r, i>> \in Entry /\ Owner(<<r, i>>) # p
    BY Entries, ZenonT(40)
  <2>2. OnlyWoken(kern, kern', r)
    BY <1>2, <1>4, <2>1, ZenonT(40) DEF OnlyWoken, OnlyOf
  <2> QED BY <1>3, <2>2, ZenonT(40) DEF Bystander
<1>8. \A y \in Pipe : SameReady(kern, kern', y)
  BY <1>2, <1>4, ZenonT(40) DEF SameReady
<1>9. ASSUME NEW e \in Entry
      PROVE  /\ kern'.entry[e].queue = kern.entry[e].queue
             /\ Owner(e) # p => kern'.entry[e] = kern.entry[e]
  <2>1. Owner(e) \in Proc /\ e[2] \in Slot /\ e = <<Owner(e), e[2]>>
    BY Entries, Zenon
  <2> QED BY <1>2, <1>4, <2>1 DEF OnlyOf, Queued
<1>10. ASSUME NEW q, \A i \in Slot : kern.entry[<<p, i>>].queue # q
       PROVE  /\ Covered(kern, q) => Covered(kern', q)
              /\ \A e \in Entry : Linked(kern', e, q) => Linked(kern, e, q)
  <2>1. \A e \in Entry : kern.entry[e].queue = q => Owner(e) # p
    BY <1>10, Entries, ZenonT(40)
  <2> QED BY <1>9, <2>1, ZenonT(40) DEF Covered, Linked
<1>11. \A x \in Pipe, i \in PollSlot : /\ kern.entry[<<p, i>>].queue # ReadQ(x)
                                       /\ kern.entry[<<p, i>>].queue # WriteQ(x)
  BY <1>1, QueueKinds, ZenonT(40)
<1>12. CASE waiting[p] # NoFd
  <2> DEFINE x == PipeOf(p, waiting[p])
  <2>1. /\ IOWait(p) /\ polling[p] = NoPoll /\ \A i \in PollSlot : Free(kern, <<p, i>>)
        /\ waiting[p] \in Fd
    BY <1>1, <1>12, ZenonT(40) DEF ProcInv, TypeOK
  <2>2. /\ s = IOState(p)
        /\ IsReading(p) => kern.pipe[x].size = 0 /\ kern.pipe[x].writers > 0
        /\ ~IsReading(p) => kern.pipe[x].size >= Cap /\ kern.pipe[x].readers > 0
    BY <2>1, ZenonT(40)
  <2>3. /\ kern.entry[b].queue = IOQueue(p) /\ IOQueue(p) \in Queue /\ x \in Pipe
        /\ IOQueue(p) # NoQueue
    <3>1. x \in Pipe
      BY <1>1, <2>1, ZenonT(40) DEF IOWait, TypeOK, Handle, PipeOf
    <3> QED BY <2>1, <3>1, PipeQueues, QueueIsSome, ZenonT(20) DEF IOWait, IOQueue
  <2>4. ProcInv(p)' /\ PollInv(p)'
    <3>1. /\ IOQueue(p)' = IOQueue(p) /\ IOState(p)' = IOState(p)
      BY <1>3, ZenonT(40) DEF IOQueue, IOState, IsReading, PipeOf, ReadQ, WriteQ
    <3>2. Queued(kern', b, IOQueue(p)) /\ kern'.entry[b].exclusive
      BY <1>2, <1>4, <2>1, <2>3, Zenon DEF IOWait, Queued, Slot
    <3>3. IOWait(p)'
      BY <1>3, <1>4, <2>1, <2>2, <3>1, <3>2, Zenon DEF IOWait, Queued
    <3>4. \A i \in PollSlot : Free(kern', <<p, i>>)
      BY <1>2, <1>4, <2>1, ZenonT(40) DEF Free, Slot
    <3>5. ProcInv(p)'
      BY <1>1, <1>3, <1>12, <2>1, <3>3, <3>4, Zenon DEF ProcInv, Free
    <3>6. s # "POLL"
      BY <2>2, ZenonT(40) DEF IOState
    <3> QED BY <1>4, <3>5, <3>6, ZenonT(40) DEF PollInv
  <2>5. ASSUME NEW q \in Queue, q # IOQueue(p), NEW y \in Pipe, q = ReadQ(y) \/ q = WriteQ(y)
        PROVE  /\ Covered(kern, q) => Covered(kern', q)
               /\ \A e \in Entry : Linked(kern', e, q) => Linked(kern, e, q)
    <3>1. \A i \in Slot : kern.entry[<<p, i>>].queue # q
      BY <1>11, <2>3, <2>5, ZenonT(40) DEF Slot
    <3> QED BY <1>10, <3>1, ZenonT(40)
  <2>6. ASSUME NEW y \in Pipe
        PROVE  /\ kern'.pipe[y].size > 0 => Covered(kern', ReadQ(y))
               /\ kern'.pipe[y].size < Cap => Covered(kern', WriteQ(y))
    <3>1. ReadQ(y) \in Queue /\ WriteQ(y) \in Queue
      BY PipeQueues, Zenon
    <3>2. kern.pipe[y].size \in Nat /\ Cap \in Nat
      BY <1>1, PipeIOAssumption, NatRange, ZenonT(20) DEF Kernel, PipeRec
    <3>3. kern.pipe[y].size > 0 => ReadQ(y) # IOQueue(p)
      BY <2>2, <3>2, SMTT(30) DEF IOQueue, ReadQ, WriteQ
    <3>4. kern.pipe[y].size < Cap => WriteQ(y) # IOQueue(p)
      BY <2>2, <3>2 DEF IOQueue, ReadQ, WriteQ
    <3> QED BY <1>1, <1>2, <1>4, <2>5, <3>1, <3>3, <3>4, Zenon DEF CoverInv
  <2>7. ASSUME NEW y \in Pipe, NEW e \in Entry
        PROVE  /\ kern'.pipe[y].writers = 0 => ~Linked(kern', e, ReadQ(y))
               /\ kern'.pipe[y].readers = 0 => ~Linked(kern', e, WriteQ(y))
    <3>1. ReadQ(y) \in Queue /\ WriteQ(y) \in Queue
      BY PipeQueues, ZenonT(40)
    <3>2. kern.pipe[y].readers \in Nat /\ kern.pipe[y].writers \in Nat
      BY <1>1, ZenonT(40) DEF Kernel, PipeRec
    <3>3. kern.pipe[y].writers = 0 => ReadQ(y) # IOQueue(p)
      BY <2>2, <3>2, SMTT(30) DEF IOQueue, ReadQ, WriteQ
    <3>4. kern.pipe[y].readers = 0 => WriteQ(y) # IOQueue(p)
      BY <2>2, <3>2 DEF IOQueue, ReadQ, WriteQ
    <3> QED BY <1>1, <1>2, <1>4, <2>5, <3>1, <3>3, <3>4, Zenon DEF HangupInv
  <2>8. CoverInv(kern') /\ HangupInv(kern')
    BY <2>6, <2>7, ZenonT(40) DEF CoverInv, HangupInv
  <2> QED BY <1>5, <1>6, <1>7, <1>8, <2>4, <2>8, StepInv, Zenon
<1>13. CASE waiting[p] = NoFd
  <2>1. /\ polling[p] # NoPoll /\ s = "POLL" /\ ~PollReady(p, polling[p])
        /\ deadline[p] # "passed" /\ PollWait(p) /\ Free(kern, b)
    BY <1>1, <1>13, ZenonT(40) DEF ProcInv
  <2>2. ASSUME NEW x \in Pipe, NEW q, q = ReadQ(x) \/ q = WriteQ(x)
        PROVE  /\ Covered(kern, q) => Covered(kern', q)
               /\ \A e \in Entry : Linked(kern', e, q) => Linked(kern, e, q)
    <3>1. NoQueue # q
      BY <2>2, PipeQueues, PipeIOAssumption
    <3>2. \A i \in Slot : kern.entry[<<p, i>>].queue # q
      BY <1>11, <2>1, <2>2, <3>1, Zenon DEF Slot, Free
    <3> QED BY <1>10, <3>2, ZenonT(40)
  <2>3. CoverInv(kern') /\ HangupInv(kern')
    <3>1. ASSUME NEW x \in Pipe
          PROVE  /\ kern'.pipe[x].size > 0 => Covered(kern', ReadQ(x))
                 /\ kern'.pipe[x].size < Cap => Covered(kern', WriteQ(x))
      BY <1>1, <1>2, <1>4, <2>2, ZenonT(40) DEF CoverInv
    <3>2. ASSUME NEW x \in Pipe, NEW e \in Entry
          PROVE  /\ kern'.pipe[x].writers = 0 => ~Linked(kern', e, ReadQ(x))
                 /\ kern'.pipe[x].readers = 0 => ~Linked(kern', e, WriteQ(x))
      BY <1>1, <1>2, <1>4, <2>2, Zenon DEF HangupInv
    <3> QED BY <3>1, <3>2, Zenon DEF CoverInv, HangupInv
  <2>4. polling'[p] = polling[p] /\ waiting'[p] = NoFd /\ fd' = fd /\ p \in alive'
        /\ deadline'[p] = deadline[p]
    BY <1>1, <1>3, <1>13, ZenonT(40)
  <2>5. Free(kern', b)
    BY <1>2, <1>4, <2>1, ZenonT(40) DEF Free, Slot
  <2>6. ASSUME NEW i \in PollSlot
        PROVE  IF polling[p][i].fd = NoFd
               THEN Free(kern', <<p, i>>)
               ELSE /\ fd[<<p, polling[p][i].fd>>] # FREE
                    /\ kern'.entry[<<p, i>>].queue = PollQ(PipeOf(p, polling[p][i].fd))
                    /\ kern'.entry[<<p, i>>].linked
    <3>1. CASE polling[p][i].fd = NoFd
      BY <1>2, <1>4, <2>1, <3>1, Zenon DEF PollWait, Free, Slot
    <3>2. CASE polling[p][i].fd # NoFd
      <4>1. /\ fd[<<p, polling[p][i].fd>>] # FREE
            /\ kern.entry[<<p, i>>].queue = PollQ(PipeOf(p, polling[p][i].fd))
        BY <2>1, <3>2, ZenonT(40) DEF PollWait
      <4>2. PollQ(PipeOf(p, polling[p][i].fd)) # NoQueue
        <5>1. polling[p][i].fd \in Fd
          BY <1>1, <2>1, <3>2, SMTT(30) DEF TypeOK, Poll, Watch, NoWatch
        <5>2. PipeOf(p, polling[p][i].fd) \in Pipe
          BY <1>1, <4>1, <5>1, ZenonT(40) DEF TypeOK, Handle, PipeOf
        <5> QED BY <5>2, PipeQueues, QueueIsSome, Zenon
      <4> QED BY <1>2, <1>4, <3>2, <4>1, <4>2, Zenon DEF Queued, Slot
    <3> QED BY <3>1, <3>2, ZenonT(40)
  <2>7. PollWait(p)'
    <3>1. ASSUME NEW i \in PollSlot, polling[p][i].fd # NoFd
          PROVE  PollQ(PipeOf(p, polling[p][i].fd))' = PollQ(PipeOf(p, polling[p][i].fd))
      BY <2>4, ZenonT(40) DEF PipeOf, PollQ
    <3> QED BY <1>4, <2>1, <2>4, <2>6, <3>1, Zenon DEF PollWait, Free
  <2>8. ProcInv(p)'
    BY <2>1, <2>4, <2>5, <2>7, Zenon DEF ProcInv, Free
  <2>9. PollInv(p)'
    <3>1. ASSUME NEW i \in PollSlot, polling[p][i].fd # NoFd
          PROVE  ~WatchReady(p, polling[p][i])'
      <4>1. ~WatchReady(p, polling[p][i]) /\ kern'.pipe = kern.pipe
        BY <1>2, <1>4, <2>1, <3>1, Zenon DEF PollReady
      <4> QED BY <2>4, <4>1, ZenonT(40) DEF WatchReady, IsEnd, PipeOf
    <3> QED BY <2>1, <2>4, <3>1, ZenonT(40) DEF PollInv, PollReady
  <2> QED BY <1>5, <1>6, <1>7, <1>8, <2>3, <2>8, <2>9, StepInv, Zenon
<1> QED BY <1>12, <1>13, Zenon

\* The scheduler resuming a process in a pipe read preserves the invariant.
LEMMA ResumeReadStep ==
  ASSUME IInv, NEW p \in Proc, ResumeRead(p)
  PROVE  IInv'
<1> DEFINE x == PipeOf(p, waiting[p])
<1>1. Resumable(p) /\ IsEnd(p, waiting[p], "R") /\ UNCHANGED <<fd, alive>>
  BY ZenonT(40) DEF ResumeRead
<1>2. /\ x \in Pipe /\ fd[<<p, waiting[p]>>] = <<x, "R">> /\ waiting[p] \in Fd
      /\ len[p] \in 1 .. MaxLen
  BY <1>1, ResumedEntry, ZenonT(40)
<1>3. CASE ReadBlocks(kern, x, len[p])
  <2>1. Reblock(p, "PIPE_READ")
    BY <1>3, ZenonT(40) DEF ResumeRead
  <2>2. IsReading(p) /\ IOState(p) = "PIPE_READ" /\ waiting[p] # NoFd
    BY <1>2, PipeIOAssumption, SMTT(30) DEF IsReading, IOState
  <2>3. kern.pipe[x].size = 0 /\ kern.pipe[x].writers > 0
    <3>1. kern.pipe[x].size \in Nat
      BY <1>2, PipeIOAssumption DEF IInv, TypeOK, Kernel, PipeRec
    <3> QED BY <1>2, <1>3, <3>1, PipeIOAssumption, SMTT(30) DEF ReadBlocks, Min2
  <2>4. "PIPE_READ" \in Blocked
    BY Zenon DEF Blocked
  <2> QED BY <1>1, <2>1, <2>2, <2>3, <2>4, ReblockInv, Zenon
<1>4. CASE ~ReadBlocks(kern, x, len[p])
  <2>1. /\ kern' = process_wait_detach(kernel_pipe_read(kern, x, len[p]), p, FALSE)
        /\ ClearWait(p)
    BY <1>4, ZenonT(40) DEF ResumeRead
  <2> QED BY <1>1, <1>4, <2>1, ReadDone, ZenonT(40)
<1> QED BY <1>3, <1>4, Zenon

\* The scheduler resuming a process in a pipe write preserves the invariant.
LEMMA ResumeWriteStep ==
  ASSUME IInv, NEW p \in Proc, ResumeWrite(p)
  PROVE  IInv'
<1> DEFINE x == PipeOf(p, waiting[p])
<1>1. Resumable(p) /\ IsEnd(p, waiting[p], "W") /\ UNCHANGED <<fd, alive>>
  BY Zenon DEF ResumeWrite
<1>2. x \in Pipe /\ fd[<<p, waiting[p]>>] = <<x, "W">> /\ waiting[p] \in Fd
  BY <1>1, ResumedEntry, ZenonT(40)
<1>3. CASE WriteBlocks(kern, x, len[p])
  <2>1. Reblock(p, "PIPE_WRITE")
    BY <1>3, Zenon DEF ResumeWrite
  <2>2. ~IsReading(p) /\ IOState(p) = "PIPE_WRITE" /\ waiting[p] # NoFd
    BY <1>2, PipeIOAssumption, SMTT(30) DEF IsReading, IOState
  <2>3. kern.pipe[x].size >= Cap /\ kern.pipe[x].readers > 0
    BY <1>3, Zenon DEF WriteBlocks
  <2>4. "PIPE_WRITE" \in Blocked
    BY Zenon DEF Blocked
  <2> QED BY <1>1, <2>1, <2>2, <2>3, <2>4, ReblockInv, Zenon
<1>4. CASE ~WriteBlocks(kern, x, len[p])
  <2>1. /\ kern' = process_wait_detach(kernel_pipe_write(kern, x, len[p]), p, FALSE)
        /\ ClearWait(p)
    BY <1>4, Zenon DEF ResumeWrite
  <2> QED BY <1>1, <1>4, <2>1, WriteDone, ZenonT(40)
<1> QED BY <1>3, <1>4

\* What the invariant says of the entries survives a change of p's own state.
LEMMA SameEntries ==
  ASSUME NEW k, NEW j, NEW b, NEW p \in Proc, j.pipe = k.pipe, j.entry = k.entry,
         \A r \in Proc \ {p} : j.state[r] = k.state[r]
  PROVE  /\ AllFree(k, p) => AllFree(j, p)
         /\ OthersWoken(b, k, p) => OthersWoken(b, j, p)
         /\ CoverInv(k) => CoverInv(j)
         /\ HangupInv(k) => HangupInv(j)
<1>1. AllFree(k, p) => AllFree(j, p)
  BY Zenon DEF AllFree, Free
<1>2. OthersWoken(b, k, p) => OthersWoken(b, j, p)
  BY SMTT(30) DEF OthersWoken, OnlyWoken, WokenEntry
<1>3. CoverInv(k) => CoverInv(j)
  BY DEF CoverInv, Covered, Linked
<1>4. HangupInv(k) => HangupInv(j)
  BY Zenon DEF HangupInv, Linked
<1> QED BY <1>1, <1>2, <1>3, <1>4, Zenon

\* Giving up a wait, with EFAULT or EINTR, preserves the invariant.
LEMMA CancelInv ==
  ASSUME IInv, NEW p \in Proc, p \in alive, NEW k, k = process_wait_detach(kern, p, TRUE),
         kern' \in Kernel, Integrity(kern'), kern'.pipe = k.pipe, kern'.entry = k.entry,
         \A r \in Proc \ {p} : kern'.state[r] = k.state[r],
         kern'.state[p] = RUNNABLE, ClearWait(p), UNCHANGED <<fd, alive>>
  PROVE  IInv'
<1>1. TypeOK /\ kern \in Kernel /\ Counted(kern, fd)
  BY ZenonT(40) DEF IInv, TypeOK, RefsCounted
<1>2. /\ k \in Kernel /\ Integrity(k) /\ k.pipe = kern.pipe
      /\ AllFree(k, p) /\ OthersWoken(kern, k, p)
      /\ CoverInv(k) /\ HangupInv(k)
  BY CancelDone, ZenonT(40)
<1>3. AllFree(kern', p) /\ OthersWoken(kern, kern', p)
  BY <1>2, SameEntries, ZenonT(40)
<1>4. CoverInv(kern') /\ HangupInv(kern')
  BY <1>2, SameEntries, ZenonT(40)
<1>5. \A x \in Pipe : SameReady(kern, kern', x)
  BY <1>2, ZenonT(40) DEF SameReady
<1>6. /\ OthersVars(p) /\ waiting'[p] = NoFd /\ polling'[p] = NoPoll
      /\ waiting' \in [Proc -> Fd \cup {NoFd}] /\ len' \in [Proc -> 0 .. MaxLen]
      /\ polling' \in [Proc -> Poll \cup {NoPoll}]
      /\ deadline' \in [Proc -> {"none", "pending", "passed"}]
  BY <1>1, ClearWaitEffect, ZenonT(40)
<1>7. TypeOK'
  BY <1>1, <1>6, ZenonT(40) DEF TypeOK
<1>8. RefsCounted' /\ QueueIntegrity'
  <2>1. Counted(kern', fd')
    BY <1>1, <1>2, ZenonT(40) DEF Counted
  <2> QED BY <2>1, Zenon DEF RefsCounted, QueueIntegrity
<1>9. OthersHandles(fd, fd', p) /\ p \in alive'
  BY Zenon DEF OthersHandles
<1> QED BY <1>3, <1>4, <1>5, <1>6, <1>7, <1>8, <1>9, IdleInv, Zenon

\* A resumed process whose buffer is gone preserves the invariant.
LEMMA ResumeFaultStep ==
  ASSUME IInv, NEW p \in Proc, ResumeFault(p)
  PROVE  IInv'
<1> DEFINE cancel == TRUE
<1>1. /\ p \in alive /\ kern.state[p] = RUNNABLE /\ kern' = process_wait_detach(kern, p, TRUE)
      /\ ClearWait(p) /\ UNCHANGED <<fd, alive>>
      /\ kern \in Kernel /\ Integrity(kern)
  BY Zenon DEF ResumeFault, Resumable, IInv, TypeOK, QueueIntegrity
<1>2. cancel \in BOOLEAN /\ kern' = process_wait_detach(kern, p, cancel)
  BY <1>1, Zenon
<1> HIDE DEF cancel
<1>3. kern' \in Kernel /\ Integrity(kern') /\ kern'.state[p] \in {kern.state[p], RUNNABLE}
  BY <1>1, <1>2, DetachEffect, Zenon
<1>4. kern'.state[p] = RUNNABLE
  BY <1>1, <1>3, Zenon
<1> QED BY <1>1, <1>3, <1>4, CancelInv, Zenon

\* A signal ending a wait preserves the invariant.
LEMMA InterruptStep ==
  ASSUME IInv, NEW p \in Proc, Interrupt(p)
  PROVE  IInv'
<1> DEFINE k == process_wait_detach(kern, p, TRUE)
           s == RUNNABLE
<1>1. p \in alive /\ kern' = WithState(k, p, s) /\ ClearWait(p) /\ UNCHANGED <<fd, alive>>
  BY Zenon DEF Interrupt, WithState
<1>2. k \in Kernel /\ Integrity(k)
  BY CancelDone, Zenon
<1>3. s \in {RUNNABLE} \cup Blocked
  BY Zenon
<1>4. k = process_wait_detach(kern, p, TRUE) /\ s = RUNNABLE
  BY Zenon
<1> HIDE DEF k, s
<1>5. /\ kern' \in Kernel /\ Integrity(kern') /\ kern'.pipe = k.pipe
      /\ kern'.entry = k.entry /\ kern'.state[p] = s
      /\ \A r \in Proc \ {p} : kern'.state[r] = k.state[r]
  BY <1>1, <1>2, <1>3, StateEffect, SMTT(30)
<1> QED BY <1>1, <1>4, <1>5, CancelInv, Zenon

\* A poll that ends, ready, timed out or failed, takes its entries out of the
\* queues and preserves the invariant: it took nothing from any pipe.
LEMMA PollEnds ==
  ASSUME IInv, NEW p \in Proc, Resumable(p), polling[p] # NoPoll,
         kern' = process_wait_detach(kern, p, FALSE), ClearWait(p), UNCHANGED <<fd, alive>>
  PROVE  IInv'
<1>1. /\ TypeOK /\ kern \in Kernel /\ Integrity(kern) /\ Counted(kern, fd) /\ ProcInv(p)
      /\ CoverInv(kern)
  BY Zenon DEF IInv, TypeOK, RefsCounted, QueueIntegrity
<1>2. Wakes(kern, kern) /\ \A x \in Pipe : TakenCare(kern, kern, x)
  BY OnlyWokenRefl, ZenonT(40) DEF Wakes, TakenCare, SameReady
<1>3. Free(kern, <<p, Block>>)
  BY <1>1, ZenonT(40) DEF ProcInv
<1>4. ASSUME NEW x \in Pipe
      PROVE  /\ kern.pipe[x].size > 0 => CoveredBut(kern, ReadQ(x), p)
             /\ kern.pipe[x].size < Cap => CoveredBut(kern, WriteQ(x), p)
  <2>1. NoQueue # ReadQ(x) /\ NoQueue # WriteQ(x)
    BY PipeQueues, PipeIOAssumption, SMTT(30)
  <2>2. \A i \in Slot : /\ kern.entry[<<p, i>>].queue # ReadQ(x)
                        /\ kern.entry[<<p, i>>].queue # WriteQ(x)
    BY <1>1, <1>3, <2>1, QueueKinds, ZenonT(40) DEF Slot, Free
  <2> QED BY <1>1, <2>2, CoveredWithout, ZenonT(40) DEF CoverInv
<1> QED BY <1>1, <1>2, <1>4, WaitDone, Zenon

\* A resumed poll preserves the invariant, whether it sleeps again or ends.
LEMMA ResumePollStep ==
  ASSUME IInv, NEW p \in Proc, ResumePoll(p) \/ ResumePollFault(p)
  PROVE  IInv'
<1>1. Resumable(p) /\ polling[p] # NoPoll /\ UNCHANGED <<fd, alive>>
  BY Zenon DEF ResumePoll, ResumePollFault
<1>2. CASE Reblock(p, "POLL") /\ ~PollReady(p, polling[p]) /\ deadline[p] # "passed"
  <2>1. "POLL" \in Blocked
    BY Zenon DEF Blocked
  <2> QED BY <1>1, <1>2, <2>1, ReblockInv, Zenon
<1>3. CASE kern' = process_wait_detach(kern, p, FALSE) /\ ClearWait(p)
  BY <1>1, <1>3, PollEnds, Zenon
<1> QED BY <1>2, <1>3, ZenonT(40) DEF ResumePoll, ResumePollFault

\* Starting the next bootstrap process preserves the invariant.
LEMMA RunUserStep ==
  ASSUME IInv, NEW p \in Proc, RunUser(p)
  PROVE  IInv'
<1>1. /\ alive = {} /\ alive' = {p}
      /\ UNCHANGED <<kern, fd, waiting, len, polling, deadline>>
  BY Zenon DEF RunUser
<1>2. TypeOK' /\ RefsCounted' /\ QueueIntegrity' /\ CoverInv(kern') /\ HangupInv(kern')
  BY <1>1, Zenon DEF IInv, TypeOK, RefsCounted, QueueIntegrity
<1>3. ASSUME NEW r \in Proc PROVE ProcInv(r)' /\ PollInv(r)'
  <2>1. /\ ProcInv(r) /\ waiting[r] = NoFd /\ polling[r] = NoPoll
        /\ \A f \in Fd : fd[<<r, f>>] = FREE
    BY <1>1, Zenon DEF IInv, ProcInv
  <2> QED BY <1>1, <2>1, ZenonT(40) DEF ProcInv, PollInv, Free, RUNNABLE
<1> QED BY <1>2, <1>3, Zenon DEF IInv

\* A poll deadline that passes preserves the invariant.
LEMMA PollTimeoutStep ==
  ASSUME IInv, NEW p \in Proc, PollTimeout(p)
  PROVE  IInv'
<1> DEFINE s == IF kern.state[p] = "POLL" THEN RUNNABLE ELSE kern.state[p]
<1>1. /\ p \in alive /\ deadline' = [deadline EXCEPT ![p] = "passed"]
      /\ kern' = WithState(kern, p, s)
      /\ UNCHANGED <<fd, alive, waiting, len, polling>>
  BY Zenon DEF PollTimeout, WithState
<1>2. /\ TypeOK /\ kern \in Kernel /\ Integrity(kern) /\ Counted(kern, fd)
      /\ ProcInv(p) /\ PollInv(p) /\ CoverInv(kern) /\ HangupInv(kern)
      /\ deadline \in [Proc -> {"none", "pending", "passed"}]
  BY Zenon DEF IInv, TypeOK, RefsCounted, QueueIntegrity
<1>3. s \in {RUNNABLE} \cup Blocked
  BY <1>2, Zenon DEF Kernel
<1>4. /\ s # "POLL" /\ (kern.state[p] = "POLL" => s = RUNNABLE)
      /\ (kern.state[p] # "POLL" => s = kern.state[p])
  BY Zenon DEF RUNNABLE
<1> HIDE DEF s
<1>5. /\ kern' \in Kernel /\ Integrity(kern') /\ kern'.pipe = kern.pipe
      /\ kern'.entry = kern.entry /\ kern'.state[p] = s
      /\ \A r \in Proc \ {p} : kern'.state[r] = kern.state[r]
  BY <1>1, <1>2, <1>3, StateEffect, SMTT(30)
<1>6. CoverInv(kern') /\ HangupInv(kern')
  BY <1>2, <1>5, SameEntries, Zenon
<1>7. TypeOK' /\ RefsCounted' /\ QueueIntegrity'
  <2>1. Counted(kern', fd')
    BY <1>1, <1>2, <1>5, ZenonT(40) DEF Counted
  <2>2. TypeOK'
    BY <1>1, <1>2, <1>5, Zenon DEF TypeOK
  <2> QED BY <1>5, <2>1, <2>2, Zenon DEF RefsCounted, QueueIntegrity
<1>8. ASSUME NEW r \in Proc \ {p} PROVE Bystander(r)
  <2>1. deadline'[r] = deadline[r]
    BY <1>1, <1>2, Zenon
  <2> QED BY <1>1, <1>5, <2>1, ZenonT(40) DEF Bystander, OnlyWoken
<1>9. PollInv(p)'
  BY <1>4, <1>5, ZenonT(40) DEF PollInv
<1>10. ProcInv(p)'
  <2>1. CASE kern.state[p] = "POLL"
    <3>1. polling[p] \in Poll /\ waiting[p] = NoFd /\ PollWait(p) /\ NoPoll \notin Poll
      BY <1>2, <2>1, PollState, PipeIOAssumption, ZenonT(40)
    <3>2. kern'.state[p] = RUNNABLE
      BY <1>4, <1>5, <2>1, Zenon
    <3>3. PollWait(p)'
      BY <1>1, <1>5, <3>1, <3>2, Zenon DEF PollWait, Free, PipeOf
    <3> QED BY <1>1, <1>2, <1>5, <3>1, <3>2, <3>3, Zenon DEF ProcInv, Free
  <2>2. CASE kern.state[p] # "POLL"
    <3>1. kern'.state[p] = kern.state[p]
      BY <1>4, <1>5, <2>2, Zenon
    <3>2. waiting[p] # NoFd => IOWait(p)'
      BY <1>1, <1>2, <1>5, <3>1, Zenon DEF ProcInv, IOWait, IOQueue, IOState, IsReading, PipeOf
    <3>3. polling[p] # NoPoll => PollWait(p)'
      BY <1>1, <1>2, <1>5, <3>1, ZenonT(40) DEF ProcInv, PollWait, Free, PipeOf
    <3> QED BY <1>1, <1>2, <1>5, <3>1, <3>2, <3>3, Zenon DEF ProcInv, Free
  <2> QED BY <2>1, <2>2, Zenon
<1>11. \A x \in Pipe : SameReady(kern, kern', x)
  BY <1>5, Zenon DEF SameReady
<1> QED BY <1>6, <1>7, <1>8, <1>9, <1>10, <1>11, StepInv, Zenon

-----------------------------------------------------------------------------
(* Poll. *)

\* Poll entry i of p is on the poll queue of the pipe it watches, if any.
WatchSet(k, p, i, watch) ==
  IF watch[i].fd = NoFd
  THEN Free(k, <<p, i>>)
  ELSE k.entry[<<p, i>>].linked /\ k.entry[<<p, i>>].queue = PollQ(PipeOf(p, watch[i].fd))

\* process_poll_watch_entry() touches the one entry.
LEMMA WatchEffect ==
  ASSUME TypeOK, NEW k \in Kernel, Integrity(k), NEW p \in Proc, NEW i \in PollSlot,
         Free(k, <<p, i>>), NEW watch \in Poll,
         watch[i].fd # NoFd => fd[<<p, watch[i].fd>>] # FREE
  PROVE  LET j == process_poll_watch_entry(k, p, i, watch)
         IN  /\ j \in Kernel /\ Integrity(j) /\ j.pipe = k.pipe /\ j.state = k.state
             /\ \A e \in Entry \ {<<p, i>>} : j.entry[e] = k.entry[e]
             /\ WatchSet(j, p, i, watch)
<1> DEFINE j == process_poll_watch_entry(k, p, i, watch)
           e == <<p, i>>
           exclusive == FALSE
<1>1. CASE watch[i].fd = NoFd
  BY <1>1, ZenonT(40) DEF process_poll_watch_entry, WatchSet
<1>2. CASE watch[i].fd # NoFd
  <2> DEFINE q == PollQ(PipeOf(p, watch[i].fd))
  <2>1. watch[i].fd \in Fd
    BY <1>2 DEF Poll, Watch, NoWatch
  <2>2. q \in Queue
    BY <1>2, <2>1, PipeQueues, Zenon DEF TypeOK, Handle, PipeOf
  <2>3. j = wait_queue_add(wait_entry_init(k, e, exclusive), q, e)
    BY <1>2, ZenonT(40) DEF process_poll_watch_entry
  <2>4. e \in Entry /\ exclusive \in BOOLEAN /\ Free(k, e)
    BY Entries, Zenon DEF Slot
  <2> HIDE DEF j, e, exclusive, q
  <2>5. /\ j \in Kernel /\ Integrity(j) /\ j.pipe = k.pipe /\ j.state = k.state
        /\ \A f \in Entry \ {e} : j.entry[f] = k.entry[f]
        /\ Queued(j, e, q)
    BY <2>2, <2>3, <2>4, EnqueueEffect, SMTT(30)
  <2> QED BY <1>2, <2>5, ZenonT(40) DEF j, e, q, WatchSet, Queued
<1> QED BY <1>1, <1>2, ZenonT(40)

\* Detaching a process that is on no queue and queueing it for poll keeps the
\* invariants of the pipes.
LEMMA PollQueued ==
  ASSUME IInv, NEW p \in Proc, ~Pending(p), NEW watch \in Poll,
         \A i \in PollSlot : watch[i].fd # NoFd => fd[<<p, watch[i].fd>>] # FREE
  PROVE  LET c == process_poll_watch_entry(
                    process_poll_watch_entry(process_wait_detach(kern, p, FALSE), p, 1, watch),
                    p, 2, watch)
         IN  /\ c \in Kernel /\ Integrity(c) /\ c.pipe = kern.pipe
             /\ OthersWoken(kern, c, p) /\ Free(c, <<p, Block>>)
             /\ WatchSet(c, p, 1, watch) /\ WatchSet(c, p, 2, watch)
             /\ CoverInv(c) /\ HangupInv(c)
<1> DEFINE cancel == FALSE
           a == process_wait_detach(kern, p, cancel)
           b == process_poll_watch_entry(a, p, 1, watch)
           c == process_poll_watch_entry(b, p, 2, watch)
<1>1. /\ TypeOK /\ kern \in Kernel /\ Integrity(kern) /\ ProcInv(p)
      /\ CoverInv(kern) /\ HangupInv(kern)
  BY ZenonT(40) DEF IInv, TypeOK, QueueIntegrity
<1>2. \A i \in Slot : Free(kern, <<p, i>>)
  BY <1>1, IdleEntries, ZenonT(40)
<1>3. cancel \in BOOLEAN /\ ~cancel
  BY ZenonT(40)
<1> HIDE DEF cancel
<1>4. /\ a \in Kernel /\ Integrity(a) /\ a.pipe = kern.pipe
      /\ \A i \in Slot : Free(a, <<p, i>>)
      /\ \A r \in Proc \ {p} : OnlyWoken(kern, a, r)
      /\ \A q \in Queue : CoveredBut(kern, q, p) => Covered(a, q)
  BY <1>1, <1>3, DetachEffect, ZenonT(40)
<1> HIDE DEF a
<1>5. AllFree(a, p) /\ OthersWoken(kern, a, p)
  BY <1>4, ZenonT(40) DEF AllFree, OthersWoken
<1>6. CoverInv(a)
  <2>1. ASSUME NEW x \in Pipe
        PROVE  /\ Covered(kern, ReadQ(x)) => Covered(a, ReadQ(x))
               /\ Covered(kern, WriteQ(x)) => Covered(a, WriteQ(x))
    <3>1. ReadQ(x) \in Queue /\ WriteQ(x) \in Queue /\ NoQueue # ReadQ(x) /\ NoQueue # WriteQ(x)
      BY PipeQueues, PipeIOAssumption
    <3>2. \A i \in Slot : /\ kern.entry[<<p, i>>].queue # ReadQ(x)
                          /\ kern.entry[<<p, i>>].queue # WriteQ(x)
      BY <1>2, <3>1, ZenonT(40) DEF Free
    <3> QED BY <1>1, <1>4, <3>1, <3>2, CoveredWithout, Zenon
  <2> QED BY <1>1, <1>4, <2>1, ZenonT(40) DEF CoverInv
<1>7. HangupInv(a)
  <2>1. ASSUME NEW x \in Pipe, NEW e \in Entry
        PROVE  /\ a.pipe[x].writers = 0 => ~Linked(a, e, ReadQ(x))
               /\ a.pipe[x].readers = 0 => ~Linked(a, e, WriteQ(x))
    BY <1>1, <1>4, <1>5, StillLinked, Zenon DEF HangupInv
  <2> QED BY <2>1, Zenon DEF HangupInv
<1>8. /\ b \in Kernel /\ Integrity(b) /\ b.pipe = a.pipe /\ b.state = a.state
      /\ \A e \in Entry \ {<<p, 1>>} : b.entry[e] = a.entry[e]
      /\ WatchSet(b, p, 1, watch)
  <2>1. 1 \in PollSlot /\ Free(a, <<p, 1>>)
    BY <1>4 DEF PollSlot, PollWidth, Slot
  <2> QED BY <1>1, <1>4, <2>1, WatchEffect, Zenon
<1> HIDE DEF b
<1>9. /\ c \in Kernel /\ Integrity(c) /\ c.pipe = b.pipe /\ c.state = b.state
      /\ \A e \in Entry \ {<<p, 2>>} : c.entry[e] = b.entry[e]
      /\ WatchSet(c, p, 2, watch)
  <2>1. 2 \in PollSlot /\ Free(a, <<p, 2>>) /\ <<p, 2>> \in Entry /\ <<p, 2>> # <<p, 1>>
    BY <1>4, Entries DEF PollSlot, PollWidth, Slot
  <2>2. Free(b, <<p, 2>>)
    BY <1>8, <2>1, Zenon DEF Free
  <2> QED BY <1>1, <1>8, <2>1, <2>2, WatchEffect, Zenon
<1> HIDE DEF c
<1>10. WatchSet(c, p, 1, watch)
  <2>1. <<p, 1>> \in Entry /\ <<p, 1>> # <<p, 2>>
    <3>1. 1 \in Slot
      BY DEF PollSlot, PollWidth, Slot
    <3> QED BY <3>1, Entries
  <2>2. c.entry[<<p, 1>>] = b.entry[<<p, 1>>]
    BY <1>9, <2>1, Zenon
  <2> QED BY <1>8, <2>2, ZenonT(40) DEF WatchSet, Free
<1>11. \A e \in Entry : Owner(e) # p => c.entry[e] = a.entry[e]
  BY <1>8, <1>9, Entries DEF PollSlot, PollWidth, Slot
<1>12. c.entry[<<p, Block>>] = a.entry[<<p, Block>>]
  <2>1. <<p, Block>> \in Entry /\ <<p, Block>> # <<p, 1>> /\ <<p, Block>> # <<p, 2>>
    BY Entries, SMTT(30) DEF Slot, Block
  <2> QED BY <1>8, <1>9, <2>1, Zenon
<1>13. Free(c, <<p, Block>>)
  BY <1>4, <1>12, Zenon DEF Free, Slot
<1>14. OthersWoken(kern, c, p)
  <2>1. \A r \in Proc \ {p}, i \in Slot : c.entry[<<r, i>>] = a.entry[<<r, i>>]
    BY <1>11, Entries, Zenon
  <2> QED BY <1>5, <1>8, <1>9, <2>1, SMTT(30) DEF OthersWoken, OnlyWoken, WokenEntry
<1>15. ASSUME NEW e \in Entry, NEW x \in Pipe, NEW q \in {ReadQ(x), WriteQ(x)},
              Linked(c, e, q)
       PROVE  Owner(e) # p /\ Linked(a, e, q)
  <2>1. SUFFICES ASSUME Owner(e) = p PROVE FALSE
    BY <1>11, <1>15, Zenon DEF Linked
  <2>2. e = <<p, e[2]>> /\ e[2] \in {Block, 1, 2}
    BY <2>1, Entries DEF Slot, PollSlot, PollWidth
  <2>3. \A y : q # PollQ(y)
    BY DEF ReadQ, WriteQ, PollQ
  <2> QED BY <1>9, <1>10, <1>13, <1>15, <2>2, <2>3, ZenonT(40) DEF WatchSet, Free, Linked
<1>16. ASSUME NEW x \in Pipe, NEW q \in {ReadQ(x), WriteQ(x)}, Covered(a, q)
       PROVE  Covered(c, q)
  <2>1. SUFFICES ASSUME \E e \in Entry : Linked(c, e, q)
                 PROVE  \E e \in Entry : c.entry[e].woken /\ c.entry[e].queue = q
    BY Zenon DEF Covered
  <2>2. PICK e \in Entry : a.entry[e].woken /\ a.entry[e].queue = q
    BY <1>15, <1>16, <2>1, Zenon DEF Covered
  <2>3. Owner(e) # p
    BY <1>4, <2>2, Entries, ZenonT(40) DEF Free
  <2> QED BY <1>11, <2>2, <2>3, Zenon
<1>17. CoverInv(c)
  BY <1>6, <1>8, <1>9, <1>16, Zenon DEF CoverInv
<1>18. HangupInv(c)
  BY <1>7, <1>8, <1>9, <1>15, Zenon DEF HangupInv
<1> QED BY <1>4, <1>8, <1>9, <1>10, <1>13, <1>14, <1>17, <1>18, Zenon DEF a, b, c, cancel

\* A poll that blocks preserves the invariant.
LEMMA SysPollStep ==
  ASSUME IInv, NEW p \in Proc, SysPoll(p)
  PROVE  IInv'
<1>1. PICK watch \in Poll, d \in {"none", "pending"} :
        LET a == process_wait_detach(kern, p, FALSE)
            b == process_poll_watch_entry(a, p, 1, watch)
            c == process_poll_watch_entry(b, p, 2, watch)
        IN  /\ InUserMode(p) /\ ~PollReady(p, watch)
            /\ kern' = [c EXCEPT !.state[p] = "POLL"]
            /\ polling' = [polling EXCEPT ![p] = watch]
            /\ deadline' = [deadline EXCEPT ![p] = d]
            /\ UNCHANGED <<fd, alive, waiting, len>>
  BY ZenonT(40) DEF SysPoll
<1> DEFINE c == process_poll_watch_entry(
                  process_poll_watch_entry(process_wait_detach(kern, p, FALSE), p, 1, watch),
                  p, 2, watch)
           s == "POLL"
<1>2. /\ TypeOK /\ Counted(kern, fd) /\ ProcInv(p)
      /\ polling \in [Proc -> Poll \cup {NoPoll}]
      /\ deadline \in [Proc -> {"none", "pending", "passed"}]
      /\ p \in alive /\ ~Pending(p) /\ waiting[p] = NoFd
  BY <1>1, Zenon DEF IInv, TypeOK, RefsCounted, InUserMode, Pending
<1>3. \A i \in PollSlot : watch[i].fd # NoFd => fd[<<p, watch[i].fd>>] # FREE
  BY <1>1, Zenon DEF PollReady, WatchReady
<1>4. /\ c \in Kernel /\ Integrity(c) /\ c.pipe = kern.pipe
      /\ OthersWoken(kern, c, p) /\ Free(c, <<p, Block>>)
      /\ WatchSet(c, p, 1, watch) /\ WatchSet(c, p, 2, watch)
      /\ CoverInv(c) /\ HangupInv(c)
  BY <1>2, <1>3, PollQueued, Zenon
<1>5. kern' = WithState(c, p, s)
  BY <1>1, Zenon DEF WithState
<1>6. s \in {RUNNABLE} \cup Blocked /\ s = "POLL"
  BY Zenon DEF Blocked
<1> HIDE DEF c, s
<1>7. /\ kern' \in Kernel /\ Integrity(kern') /\ kern'.pipe = c.pipe
      /\ kern'.entry = c.entry /\ kern'.state[p] = s
      /\ \A r \in Proc \ {p} : kern'.state[r] = c.state[r]
  BY <1>4, <1>5, <1>6, StateEffect, ZenonT(40)
<1>8. OthersWoken(kern, kern', p) /\ CoverInv(kern') /\ HangupInv(kern')
  BY <1>4, <1>7, SameEntries, Zenon
<1>9. /\ polling'[p] = watch /\ deadline'[p] = d
      /\ polling' \in [Proc -> Poll \cup {NoPoll}]
      /\ deadline' \in [Proc -> {"none", "pending", "passed"}]
      /\ \A r \in Proc \ {p} : polling'[r] = polling[r] /\ deadline'[r] = deadline[r]
      /\ UNCHANGED <<fd, alive, waiting, len>>
  BY <1>1, <1>2, Zenon
<1>10. TypeOK' /\ RefsCounted' /\ QueueIntegrity'
  <2>1. Counted(kern', fd')
    BY <1>2, <1>4, <1>7, <1>9, Zenon DEF Counted
  <2>2. TypeOK'
    BY <1>2, <1>7, <1>9, Zenon DEF TypeOK
  <2> QED BY <1>7, <2>1, <2>2, Zenon DEF RefsCounted, QueueIntegrity
<1>11. ASSUME NEW r \in Proc \ {p} PROVE Bystander(r)
  BY <1>8, <1>9, ZenonT(40) DEF Bystander, OthersWoken
<1>12. PollWait(p)'
  <2>1. ASSUME NEW i \in PollSlot PROVE WatchSet(c, p, i, watch)
    BY <1>4 DEF PollSlot, PollWidth
  <2>2. ASSUME NEW i \in PollSlot, polling'[p][i].fd = NoFd
        PROVE  Free(kern', <<p, i>>)
    BY <1>7, <1>9, <2>1, <2>2, Zenon DEF WatchSet, Free
  <2>3. ASSUME NEW i \in PollSlot, polling'[p][i].fd # NoFd
        PROVE  /\ fd'[<<p, polling'[p][i].fd>>] # FREE
               /\ kern'.entry[<<p, i>>].queue = PollQ(fd'[<<p, polling'[p][i].fd>>][1])
               /\ kern'.entry[<<p, i>>].linked
    <3>1. polling'[p] = watch /\ fd' = fd /\ kern'.entry = c.entry
      BY <1>7, <1>9, Zenon
    <3>2. watch[i].fd # NoFd
      BY <2>3, <3>1, Zenon
    <3>3. /\ fd[<<p, watch[i].fd>>] # FREE /\ c.entry[<<p, i>>].linked
          /\ c.entry[<<p, i>>].queue = PollQ(fd[<<p, watch[i].fd>>][1])
      BY <1>3, <2>1, <3>2, Zenon DEF WatchSet, PipeOf
    <3> QED BY <3>1, <3>3, Zenon
  <2>4. kern'.state[p] = "POLL"
    BY <1>6, <1>7, Zenon
  <2> QED BY <2>2, <2>3, <2>4, Zenon DEF PollWait, Free, PipeOf, PollQ
<1>13. ProcInv(p)'
  <2>1. watch # NoPoll
    BY PipeIOAssumption, Zenon
  <2>2. Free(kern', <<p, Block>>)
    BY <1>4, <1>7, Zenon DEF Free
  <2> QED BY <1>2, <1>9, <1>12, <2>1, <2>2, Zenon DEF ProcInv, Free
<1>14. PollInv(p)'
  <2>1. ASSUME NEW i \in PollSlot PROVE WatchReady(p, watch[i])' <=> WatchReady(p, watch[i])
    BY <1>4, <1>7, <1>9, ZenonT(40) DEF WatchReady, IsEnd, PipeOf
  <2> QED BY <1>1, <1>9, <2>1, Zenon DEF PollInv, PollReady
<1>15. \A x \in Pipe : SameReady(kern, kern', x)
  BY <1>4, <1>7, Zenon DEF SameReady
<1> QED BY <1>8, <1>10, <1>11, <1>13, <1>14, <1>15, StepInv, Zenon

=============================================================================
