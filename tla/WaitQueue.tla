------------------------------ MODULE WaitQueue ------------------------------
(***************************************************************************)
(* Wait queues (kernel/core/waitq.c): FIFO lists of wait entries that an   *)
(* event source wakes without knowing who they are.                        *)
(*                                                                         *)
(* Every function of waitq.c runs with interrupts masked on the only CPU,  *)
(* so it is a function from kernel state to kernel state here.  The state  *)
(* k is a record with (at least) the fields                                *)
(*                                                                         *)
(*   k.queue  [Queue -> Seq(Entry)]  the list hanging off each queue head, *)
(*   k.entry  [Entry -> WaitEntry]   the fields of each struct WaitEntry,  *)
(*   k.state  [Proc -> STRING]       the scheduler state of each process,  *)
(*                                                                         *)
(* the last because the wake function of an entry makes its owner          *)
(* runnable (process_wake_blocked).  Several calls of one system call are  *)
(* chained by nesting the operators.                                       *)
(***************************************************************************)
EXTENDS Naturals, Sequences

CONSTANTS Queue,     \* the queue heads of the system
          Entry,     \* the entries: pairs <<owner, slot>>
          NoQueue    \* the null queue pointer

RUNNABLE == "RUNNABLE"

\* struct WaitEntry; the list links are the position in k.queue.
WaitEntry == [queue : Queue \cup {NoQueue}, linked : BOOLEAN,
              woken : BOOLEAN, exclusive : BOOLEAN]

Owner(e) == e[1]

Elements(s) == {s[i] : i \in DOMAIN s}

wait_entry_init(k, e, exclusive) ==
  [k EXCEPT !.entry[e] = [queue |-> NoQueue, linked |-> FALSE,
                          woken |-> FALSE, exclusive |-> exclusive]]

\* The list s without its element e.
Without(s, e) ==
  LET i == CHOOSE i \in DOMAIN s : s[i] = e
  IN  [j \in 1 .. Len(s) - 1 |-> IF j < i THEN s[j] ELSE s[j + 1]]

waitq_unlink(k, e) ==
  [k EXCEPT !.queue[k.entry[e].queue] = Without(@, e),
            !.entry[e].linked = FALSE]

Unlinked(k, e) == IF k.entry[e].linked THEN waitq_unlink(k, e) ELSE k

\* The woken entry leaves the list but keeps its queue pointer.
waitq_wake_head(k, q) ==
  IF k.queue[q] = << >>
  THEN k
  ELSE LET e == Head(k.queue[q])
       IN  [k EXCEPT !.queue[q] = Tail(@),
                     !.entry[e] = [@ EXCEPT !.linked = FALSE, !.woken = TRUE],
                     !.state[Owner(e)] = RUNNABLE]

wait_queue_add(k, q, e) ==
  LET u == Unlinked(k, e)
  IN  [u EXCEPT !.queue[q] = Append(@, e),
                !.entry[e] = [@ EXCEPT !.queue = q, !.linked = TRUE, !.woken = FALSE]]

wait_queue_remove(k, e) ==
  [Unlinked(k, e) EXCEPT !.entry[e] = [@ EXCEPT !.queue = NoQueue, !.woken = FALSE]]

\* A woken exclusive waiter that gives up hands its wake on to the next one.
wait_queue_cancel(k, e) ==
  LET r == wait_queue_remove(k, e)
  IN  IF k.entry[e].woken /\ k.entry[e].exclusive
      THEN waitq_wake_head(r, k.entry[e].queue)
      ELSE r

wait_queue_wake_one(k, q) == waitq_wake_head(k, q)

\* wait_queue_wake_all() on every queue of Q; one call has a singleton Q.
WakeAll(k, Q) ==
  LET woken == UNION {Elements(k.queue[q]) : q \in Q}
  IN  [k EXCEPT !.queue = [q \in Queue |-> IF q \in Q THEN << >> ELSE @[q]],
                !.entry = [e \in Entry |->
                             IF e \in woken
                             THEN [@[e] EXCEPT !.linked = FALSE, !.woken = TRUE]
                             ELSE @[e]],
                !.state = [p \in DOMAIN @ |->
                             IF \E e \in woken : Owner(e) = p THEN RUNNABLE
                                                              ELSE @[p]]]

=============================================================================
