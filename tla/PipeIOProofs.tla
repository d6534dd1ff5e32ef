---------------------------- MODULE PipeIOProofs ----------------------------
(***************************************************************************)
(* The safety properties of PipeIO, proved for any number of processes,    *)
(* pipes and handles and any pipe capacity.                                *)
(***************************************************************************)
EXTENDS PipeIOSteps

-----------------------------------------------------------------------------
(* Handles and the pipe ends they count for. *)

Handles == Proc \X Fd

\* What the proofs need of finite sets of handles and descriptors: a lowest
\* descriptor, and how handles are counted.
HandleFacts ==
  /\ \A F \in SUBSET Fd : F # {} => \E n \in F : \A m \in F : n <= m
  /\ \A S \in SUBSET Handles : Cardinality(S) \in Nat /\ (Cardinality(S) = 0 <=> S = {})
  /\ \A S, T \in SUBSET Handles : S \cap T = {} =>
       Cardinality(S \cup T) = Cardinality(S) + Cardinality(T)
  /\ \A h \in Handles : Cardinality({h}) = 1

\* Some handle of the table is an end of pipe x.
Named(table, x) == \E h \in Handles, end \in {"R", "W"} : table[h] = <<x, end>>

\* Of a count that is the sum of two.
LEMMA SumIsZero ==
  ASSUME NEW r \in Nat, NEW a \in Nat, NEW n, n = r + a
  PROVE  (r = 0 <=> n = 0) \/ (r = 0 /\ a # 0)
  OBVIOUS

\* The ends of a pipe in a set of handles can be counted.
LEMMA EndsFinite ==
  ASSUME HandleFacts, NEW table, NEW H \in SUBSET Handles, NEW x, NEW end
  PROVE  /\ Cardinality(Ends(table, H, x, end)) \in Nat
         /\ Cardinality(Ends(table, H, x, end)) = 0 <=> Ends(table, H, x, end) = {}
<1>1. Ends(table, H, x, end) \in SUBSET Handles
  BY Zenon DEF Ends
<1> QED BY <1>1, Zenon DEF HandleFacts

\* The table extends the base by the handles H, which are free in the base.
Extends(table, base, H) ==
  /\ \A h \in Handles \ H : table[h] = base[h]
  /\ \A h \in H : base[h] = FREE

\* Handles added to a table add to the number of ends of a pipe.
LEMMA EndsSplit ==
  ASSUME HandleFacts, NEW table, NEW base, NEW H \in SUBSET Handles, Extends(table, base, H),
         NEW x \in Pipe, NEW end \in {"R", "W"}
  PROVE  Cardinality(Ends(table, Handles, x, end))
           = Cardinality(Ends(base, Handles, x, end)) + Cardinality(Ends(table, H, x, end))
<1> DEFINE S == Ends(base, Handles, x, end)
           T == Ends(table, H, x, end)
<1>1. <<x, end>> # FREE
  BY PipeIOAssumption
<1>2. Ends(table, Handles, x, end) = S \cup T /\ S \cap T = {}
  BY <1>1 DEF Ends, Extends
<1>3. S \in SUBSET Handles /\ T \in SUBSET Handles
  BY Zenon DEF Ends
<1> HIDE DEF S, T
<1>4. Cardinality(S \cup T) = Cardinality(S) + Cardinality(T)
  BY <1>2, <1>3, Zenon DEF HandleFacts
<1> QED BY <1>2, <1>4, Zenon DEF S, T

\* Cloning handles takes a reference for each: process_handle_clone().
LEMMA AcquireEffect ==
  ASSUME HandleFacts, NEW k \in Kernel, Integrity(k), NEW base, Counted(k, base),
         NEW table, NEW H \in SUBSET Handles, Extends(table, base, H),
         \A h \in H : table[h] # FREE => \E g \in Handles : base[g] = table[h]
  PROVE  LET j == AcquireEnds(k, table, H)
         IN  /\ j \in Kernel /\ Integrity(j) /\ Wakes(k, j) /\ Counted(j, table)
             /\ j.entry = k.entry /\ j.state = k.state
             /\ \A x \in Pipe : /\ j.pipe[x].size = k.pipe[x].size
                                /\ j.pipe[x].readers = 0 <=> k.pipe[x].readers = 0
                                /\ j.pipe[x].writers = 0 <=> k.pipe[x].writers = 0
<1> DEFINE j == AcquireEnds(k, table, H)
           r(x) == Cardinality(Ends(table, H, x, "R"))
           w(x) == Cardinality(Ends(table, H, x, "W"))
           new(x) == [k.pipe[x] EXCEPT !.readers = k.pipe[x].readers + r(x),
                                       !.writers = k.pipe[x].writers + w(x)]
<1>1. j = [k EXCEPT !.pipe = [x \in Pipe |-> new(x)]]
  BY Zenon DEF AcquireEnds
<1>2. \A x \in Pipe : r(x) \in Nat /\ w(x) \in Nat
  BY EndsFinite, Zenon
<1>3. k.pipe \in [Pipe -> PipeRec]
  BY Zenon DEF Kernel
<1> HIDE DEF r, w
<1>4. ASSUME NEW x \in Pipe
      PROVE  /\ new(x) \in PipeRec
             /\ new(x).size = k.pipe[x].size /\ new(x).used = k.pipe[x].used
             /\ new(x).readers = k.pipe[x].readers + r(x)
             /\ new(x).writers = k.pipe[x].writers + w(x)
  <2>1. k.pipe[x] \in PipeRec /\ r(x) \in Nat /\ w(x) \in Nat
    BY <1>2, <1>3, Zenon
  <2>2. k.pipe[x].readers + r(x) \in Nat /\ k.pipe[x].writers + w(x) \in Nat
    BY <2>1 DEF PipeRec
  <2> QED BY <2>1, <2>2, Zenon DEF PipeRec
<1> HIDE DEF j, new
<1>5. /\ j.entry = k.entry /\ j.state = k.state /\ j.queue = k.queue
      /\ j.pipe = [x \in Pipe |-> new(x)]
      /\ j = [queue |-> j.queue, entry |-> j.entry, state |-> j.state, pipe |-> j.pipe]
  BY <1>1, ZenonT(40) DEF Kernel
<1>6. j.pipe \in [Pipe -> PipeRec]
  BY <1>4, <1>5, Zenon
<1>7. j \in Kernel
  BY <1>5, <1>6, Zenon DEF Kernel
<1>8. Integrity(j)
  BY <1>5 DEF Integrity
<1>9. Wakes(k, j)
  BY <1>5, OnlyWokenRefl, Zenon DEF Wakes
<1>10. ASSUME NEW x \in Pipe
       PROVE  /\ j.pipe[x].readers = Cardinality(Ends(table, Handles, x, "R"))
              /\ j.pipe[x].writers = Cardinality(Ends(table, Handles, x, "W"))
              /\ j.pipe[x].used <=> Cardinality(Ends(table, Handles, x, "R"))
                                      + Cardinality(Ends(table, Handles, x, "W")) > 0
              /\ j.pipe[x].readers = 0 <=> k.pipe[x].readers = 0
              /\ j.pipe[x].writers = 0 <=> k.pipe[x].writers = 0
  <2> DEFINE R == Cardinality(Ends(base, Handles, x, "R"))
             V == Cardinality(Ends(base, Handles, x, "W"))
  <2>1. /\ Cardinality(Ends(table, Handles, x, "R")) = R + r(x)
        /\ Cardinality(Ends(table, Handles, x, "W")) = V + w(x)
    BY EndsSplit, Zenon DEF r, w
  <2>2. R \in Nat /\ V \in Nat
    BY EndsFinite, Zenon
  <2>3. k.pipe[x].readers = R /\ k.pipe[x].writers = V /\ (k.pipe[x].used <=> R + V > 0)
    BY Zenon DEF Counted, Handles
  <2>4. ASSUME NEW end \in {"R", "W"}, Cardinality(Ends(table, H, x, end)) # 0
        PROVE  Cardinality(Ends(base, Handles, x, end)) # 0
    <3>1. Ends(table, H, x, end) # {}
      BY <2>4, EndsFinite, Zenon
    <3>2. PICK h \in H : table[h] = <<x, end>>
      BY <3>1, Zenon DEF Ends
    <3>3. table[h] # FREE
      BY <3>2, PipeIOAssumption
    <3>4. PICK g \in Handles : base[g] = <<x, end>>
      BY <3>2, <3>3, Zenon
    <3>5. Ends(base, Handles, x, end) # {}
      BY <3>4, Zenon DEF Ends
    <3> QED BY <3>5, EndsFinite, Zenon
  <2>5. (r(x) # 0 => R # 0) /\ (w(x) # 0 => V # 0)
    BY <2>4, Zenon DEF r, w
  <2> HIDE DEF R, V
  <2>6. /\ j.pipe[x].readers = R + r(x) /\ j.pipe[x].writers = V + w(x)
        /\ j.pipe[x].used = k.pipe[x].used
    BY <1>4, <1>5, <2>3, SMTT(30)
  <2>7. r(x) \in Nat /\ w(x) \in Nat
    BY <1>2, Zenon
  <2>8. R + V > 0 <=> (R + r(x)) + (V + w(x)) > 0
    BY ONLY <2>2, <2>5, <2>7, SMTT(30)
  <2>9. (R + r(x) = 0 <=> R = 0) /\ (V + w(x) = 0 <=> V = 0)
    BY ONLY <2>2, <2>5, <2>7, SMTT(30)
  <2> QED BY ONLY <2>1, <2>3, <2>6, <2>8, <2>9, Zenon
<1>11. Counted(j, table)
  BY <1>10, ZenonT(40) DEF Counted, Handles
<1>12. \A x \in Pipe : j.pipe[x].size = k.pipe[x].size
  BY <1>4, <1>5, Zenon
<1> QED BY <1>5, <1>7, <1>8, <1>9, <1>10, <1>11, <1>12, Zenon DEF j

\* Releasing the handles H, for the handle table left over: nobody sleeps on
\* a pipe whose last handle goes (its waiters hold one), the counts stay right,
\* and where the last reader or writer goes all who sleep on that are woken.
LEMMA CloseEffect ==
  ASSUME HandleFacts, NEW k \in Kernel, Integrity(k), Counted(k, fd),
         NEW H \in SUBSET Handles, NEW rest, Extends(fd, rest, H),
         \A e \in Entry : k.entry[e].linked => Named(rest, k.entry[e].queue[1])
  PROVE  LET j == CloseEnds(k, H)
         IN  /\ j \in Kernel /\ Integrity(j) /\ Wakes(k, j) /\ Counted(j, rest)
             /\ \A x \in Pipe :
                  /\ j.pipe[x].size # k.pipe[x].size =>
                       /\ j.pipe[x].size = 0
                       /\ \A e \in Entry : ~Linked(j, e, WriteQ(x)) /\ ~Linked(j, e, PollQ(x))
                  /\ \/ j.pipe[x].writers = 0 <=> k.pipe[x].writers = 0
                     \/ \A e \in Entry : ~Linked(j, e, ReadQ(x)) /\ ~Linked(j, e, PollQ(x))
                  /\ \/ j.pipe[x].readers = 0 <=> k.pipe[x].readers = 0
                     \/ \A e \in Entry : ~Linked(j, e, WriteQ(x)) /\ ~Linked(j, e, PollQ(x))
<1> DEFINE j == CloseEnds(k, H)
           Q == HangupQueues(k, H)
           u == WakeAll(k, Q)
           gone == Released(k, H)
           new(x) == IF x \in gone THEN EmptyPipe
                     ELSE [k.pipe[x] EXCEPT !.readers = ReadersLeft(k, H, x),
                                            !.writers = WritersLeft(k, H, x)]
<1>1. Q \in SUBSET Queue
  BY PipeQueues, Zenon DEF HangupQueues, NoReader, NoWriter
<1>2. /\ u \in Kernel /\ Integrity(u) /\ u.pipe = k.pipe /\ Wakes(k, u)
      /\ \A e \in Entry, q \in Q : ~Linked(u, e, q)
  BY <1>1, WakeAllWakes, Zenon
<1>3. j = [u EXCEPT !.pipe = [x \in Pipe |-> new(x)],
                    !.queue = [q \in Queue |-> IF q[1] \in gone THEN << >> ELSE u.queue[q]]]
  BY Zenon DEF CloseEnds
<1>4. ASSUME NEW x \in Pipe
      PROVE  /\ Cardinality(Ends(rest, Handles, x, "R")) \in Nat
             /\ Cardinality(Ends(rest, Handles, x, "W")) \in Nat
             /\ ReadersLeft(k, H, x) = Cardinality(Ends(rest, Handles, x, "R"))
             /\ WritersLeft(k, H, x) = Cardinality(Ends(rest, Handles, x, "W"))
             /\ k.pipe[x].readers = ReadersLeft(k, H, x) + Cardinality(Ends(fd, H, x, "R"))
             /\ k.pipe[x].writers = WritersLeft(k, H, x) + Cardinality(Ends(fd, H, x, "W"))
  <2> DEFINE R == Cardinality(Ends(rest, Handles, x, "R"))
             V == Cardinality(Ends(rest, Handles, x, "W"))
             r == Cardinality(Ends(fd, H, x, "R"))
             w == Cardinality(Ends(fd, H, x, "W"))
  <2>1. R \in Nat /\ V \in Nat /\ r \in Nat /\ w \in Nat
    BY EndsFinite, ZenonT(40)
  <2>2. /\ Cardinality(Ends(fd, Handles, x, "R")) = R + r
        /\ Cardinality(Ends(fd, Handles, x, "W")) = V + w
    BY EndsSplit, ZenonT(40)
  <2>3. k.pipe[x].readers = R + r /\ k.pipe[x].writers = V + w
    BY <2>2, ZenonT(40) DEF Counted, Handles
  <2>4. ReadersLeft(k, H, x) = k.pipe[x].readers - r /\ WritersLeft(k, H, x) = k.pipe[x].writers - w
    BY Zenon DEF ReadersLeft, WritersLeft
  <2> HIDE DEF R, V, r, w
  <2>5. /\ ReadersLeft(k, H, x) = R /\ WritersLeft(k, H, x) = V
        /\ k.pipe[x].readers = ReadersLeft(k, H, x) + r
        /\ k.pipe[x].writers = WritersLeft(k, H, x) + w
    BY <2>1, <2>3, <2>4, SMTT(30)
  <2> QED BY <2>1, <2>5, ZenonT(40) DEF R, V, r, w
<1>5. \A x \in gone : Ends(rest, Handles, x, "R") = {} /\ Ends(rest, Handles, x, "W") = {}
  BY <1>4, EndsFinite, ZenonT(40) DEF Released, NoReader, NoWriter
<1>6. gone \subseteq Pipe
  BY ZenonT(40) DEF Released, NoReader, NoWriter
<1> HIDE DEF j, u, Q, gone
<1>7. ASSUME NEW q \in Queue, q[1] \in gone, NEW e \in Entry PROVE ~Linked(u, e, q)
  <2>1. SUFFICES ASSUME Linked(u, e, q) PROVE FALSE
    BY Zenon
  <2>2. k.entry[e].linked /\ k.entry[e].queue = q
    <3>1. u \in Kernel /\ Wakes(k, u) /\ u.entry[e].linked /\ u.entry[e].queue = q
      BY <1>2, <2>1, Zenon DEF Linked
    <3> QED BY <3>1, WakesKeep, Zenon
  <2>3. PICK h \in Handles, end \in {"R", "W"} : rest[h] = <<q[1], end>>
    BY <2>2, Zenon DEF Named
  <2>4. Ends(rest, Handles, q[1], end) # {}
    BY <2>3, Zenon DEF Ends
  <2> QED BY <1>5, <1>7, <2>4, Zenon
<1>8. ASSUME NEW q \in Queue, q[1] \in gone PROVE u.queue[q] = << >>
  <2>1. \A e \in Entry : ~Linked(u, e, q)
    BY <1>7, <1>8, Zenon
  <2>2. u.queue[q] \in Seq(Entry)
    BY <1>2, Zenon DEF Kernel
  <2>3. Elements(u.queue[q]) \subseteq Entry
    BY <2>2 DEF Elements
  <2>4. Elements(u.queue[q]) = {}
    BY <1>2, <2>1, <2>3, ZenonT(40) DEF Integrity, Linked
  <2> QED BY <2>2, <2>4, NoElements, Zenon
<1>9. k.pipe \in [Pipe -> PipeRec] /\ u.queue \in [Queue -> Seq(Entry)]
  BY <1>2, Zenon DEF Kernel
<1>10. ASSUME NEW x \in Pipe
      PROVE  /\ new(x) \in PipeRec
             /\ new(x).readers = ReadersLeft(k, H, x)
             /\ new(x).writers = WritersLeft(k, H, x)
             /\ new(x).used <=> ReadersLeft(k, H, x) + WritersLeft(k, H, x) > 0
             /\ new(x).size # k.pipe[x].size => x \in gone /\ new(x).size = 0
  <2>1. ReadersLeft(k, H, x) \in Nat /\ WritersLeft(k, H, x) \in Nat /\ k.pipe[x] \in PipeRec
    BY <1>4, <1>9, Zenon
  <2>2. CASE x \in gone
    <3>1. ReadersLeft(k, H, x) = 0 /\ WritersLeft(k, H, x) = 0
      BY <2>2, Zenon DEF gone, Released
    <3> QED BY <2>2, <3>1, PipeIOAssumption, SMTT(30) DEF EmptyPipe, PipeRec
  <2>3. CASE x \notin gone
    <3>1. /\ new(x) \in PipeRec /\ new(x).used = k.pipe[x].used /\ new(x).size = k.pipe[x].size
          /\ new(x).readers = ReadersLeft(k, H, x) /\ new(x).writers = WritersLeft(k, H, x)
      BY <2>1, <2>3, ZenonT(40) DEF PipeRec
    <3>2. /\ k.pipe[x].used <=> k.pipe[x].readers + k.pipe[x].writers > 0
          /\ k.pipe[x].readers = ReadersLeft(k, H, x) + Cardinality(Ends(fd, H, x, "R"))
          /\ k.pipe[x].writers = WritersLeft(k, H, x) + Cardinality(Ends(fd, H, x, "W"))
      BY <1>4, Zenon DEF Counted
    <3>3. /\ Cardinality(Ends(fd, H, x, "R")) \in Nat /\ Cardinality(Ends(fd, H, x, "W")) \in Nat
          /\ Cardinality(Ends(fd, H, x, "R")) # 0 => Ends(fd, H, x, "R") # {}
          /\ Cardinality(Ends(fd, H, x, "W")) # 0 => Ends(fd, H, x, "W") # {}
      BY EndsFinite, ZenonT(40)
    <3>4. k.pipe[x].used <=> ReadersLeft(k, H, x) + WritersLeft(k, H, x) > 0
      <4> DEFINE r == ReadersLeft(k, H, x)
                 w == WritersLeft(k, H, x)
                 a == Cardinality(Ends(fd, H, x, "R"))
                 b == Cardinality(Ends(fd, H, x, "W"))
      <4>1. r \in Nat /\ w \in Nat /\ a \in Nat /\ b \in Nat
        BY <2>1, <3>3, Zenon
      <4>2. k.pipe[x].used <=> (r + a) + (w + b) > 0
        BY <3>2, ZenonT(40)
      <4>3. r = 0 /\ w = 0 => a = 0 /\ b = 0
        <5>1. r = 0 /\ w = 0 => Ends(fd, H, x, "R") = {} /\ Ends(fd, H, x, "W") = {}
          BY <2>3, ZenonT(40) DEF gone, Released, NoReader, NoWriter
        <5> QED BY <3>3, <5>1, ZenonT(40)
      <4> HIDE DEF r, w, a, b
      <4>4. (r + a) + (w + b) > 0 <=> r + w > 0
        BY <4>1, <4>3, SMTT(30)
      <4> QED BY <4>2, <4>4, Zenon DEF r, w
    <3> QED BY <3>1, <3>4, Zenon
  <2> QED BY <2>2, <2>3, Zenon
<1> HIDE DEF new
<1>11. /\ j.entry = u.entry /\ j.state = u.state
       /\ j.pipe = [x \in Pipe |-> new(x)]
       /\ j.queue = [q \in Queue |-> IF q[1] \in gone THEN << >> ELSE u.queue[q]]
       /\ j = [queue |-> j.queue, entry |-> j.entry, state |-> j.state, pipe |-> j.pipe]
  BY <1>2, <1>3, ZenonT(40) DEF Kernel
<1>12. j.queue = u.queue
  BY <1>8, <1>9, <1>11, Zenon
<1>13. j.pipe \in [Pipe -> PipeRec]
  BY <1>10, <1>11, SMTT(30)
<1>14. j \in Kernel
  BY <1>2, <1>11, <1>12, <1>13, Zenon DEF Kernel
<1>15. Integrity(j)
  BY <1>2, <1>11, <1>12, SMTT(30) DEF Integrity
<1>16. Wakes(k, j)
  BY <1>2, <1>11, WakesSame, Zenon
<1>17. Counted(j, rest)
  <2>1. ASSUME NEW x \in Pipe
        PROVE  /\ j.pipe[x].readers = Cardinality(Ends(rest, Handles, x, "R"))
               /\ j.pipe[x].writers = Cardinality(Ends(rest, Handles, x, "W"))
               /\ j.pipe[x].used <=> Cardinality(Ends(rest, Handles, x, "R"))
                                       + Cardinality(Ends(rest, Handles, x, "W")) > 0
    BY <1>4, <1>10, <1>11, SMTT(30)
  <2> QED BY <2>1, ZenonT(40) DEF Counted, Handles
<1>18. ASSUME NEW x \in Pipe
       PROVE  /\ j.pipe[x].size # k.pipe[x].size =>
                   /\ j.pipe[x].size = 0
                   /\ \A e \in Entry : ~Linked(j, e, WriteQ(x)) /\ ~Linked(j, e, PollQ(x))
              /\ \/ j.pipe[x].writers = 0 <=> k.pipe[x].writers = 0
                 \/ \A e \in Entry : ~Linked(j, e, ReadQ(x)) /\ ~Linked(j, e, PollQ(x))
              /\ \/ j.pipe[x].readers = 0 <=> k.pipe[x].readers = 0
                 \/ \A e \in Entry : ~Linked(j, e, WriteQ(x)) /\ ~Linked(j, e, PollQ(x))
  <2>1. j.pipe[x] = new(x)
    BY <1>11, Zenon
  <2>2. /\ Cardinality(Ends(fd, H, x, "R")) \in Nat /\ Cardinality(Ends(fd, H, x, "W")) \in Nat
        /\ Cardinality(Ends(fd, H, x, "R")) # 0 => Ends(fd, H, x, "R") # {}
        /\ Cardinality(Ends(fd, H, x, "W")) # 0 => Ends(fd, H, x, "W") # {}
    BY EndsFinite, Zenon
  <2>3. \A q \in Q, e \in Entry : ~Linked(j, e, q)
    BY <1>2, <1>11 DEF Linked
  <2>4. /\ j.pipe[x].readers = ReadersLeft(k, H, x) /\ ReadersLeft(k, H, x) \in Nat
        /\ j.pipe[x].writers = WritersLeft(k, H, x) /\ WritersLeft(k, H, x) \in Nat
        /\ k.pipe[x].readers = ReadersLeft(k, H, x) + Cardinality(Ends(fd, H, x, "R"))
        /\ k.pipe[x].writers = WritersLeft(k, H, x) + Cardinality(Ends(fd, H, x, "W"))
    BY <1>4, <1>10, <2>1, ZenonT(40)
  <2>5. \/ j.pipe[x].writers = 0 <=> k.pipe[x].writers = 0
        \/ x \in NoWriter(k, H)
    <3>1. \/ WritersLeft(k, H, x) = 0 <=> k.pipe[x].writers = 0
          \/ WritersLeft(k, H, x) = 0 /\ Cardinality(Ends(fd, H, x, "W")) # 0
      BY <2>2, <2>4, SumIsZero, Zenon
    <3> QED BY <2>2, <2>4, <3>1, Zenon DEF NoWriter
  <2>6. \/ j.pipe[x].readers = 0 <=> k.pipe[x].readers = 0
        \/ x \in NoReader(k, H)
    <3>1. \/ ReadersLeft(k, H, x) = 0 <=> k.pipe[x].readers = 0
          \/ ReadersLeft(k, H, x) = 0 /\ Cardinality(Ends(fd, H, x, "R")) # 0
      BY <2>2, <2>4, SumIsZero, Zenon
    <3> QED BY <2>2, <2>4, <3>1, Zenon DEF NoReader
  <2>7. /\ x \in NoWriter(k, H) => ReadQ(x) \in Q /\ PollQ(x) \in Q
        /\ x \in NoReader(k, H) => WriteQ(x) \in Q /\ PollQ(x) \in Q
    BY Zenon DEF Q, HangupQueues
  <2>8. x \in gone => \A e \in Entry : ~Linked(j, e, WriteQ(x)) /\ ~Linked(j, e, PollQ(x))
    <3>1. /\ PollQ(x) \in Queue /\ PollQ(x)[1] = x
          /\ WriteQ(x) \in Queue /\ WriteQ(x)[1] = x
      BY PipeQueues, Zenon DEF PollQ, WriteQ
    <3> QED BY <1>7, <1>11, <3>1, SMTT(30) DEF Linked
  <2> QED BY <1>10, <2>1, <2>3, <2>5, <2>6, <2>7, <2>8, ZenonT(40)
<1> QED BY <1>14, <1>15, <1>16, <1>17, <1>18, Zenon DEF j

-----------------------------------------------------------------------------
(* Calls on the handle table, and exit. *)

\* The lowest free slot is a free slot.
LEMMA LowestIn ==
  ASSUME HandleFacts, NEW F \in SUBSET Fd, F # {}
  PROVE  Lowest(F) \in F
<1>1. \E n \in F : \A m \in F : n <= m
  BY Zenon DEF HandleFacts
<1> QED BY <1>1, Zenon DEF Lowest

\* Entries still linked after the handles of p changed are named by the handles
\* of other processes.
LEMMA OthersNamed ==
  ASSUME TypeOK, \A r \in Proc : ProcInv(r), NEW p \in Proc, NEW k, AllFree(k, p),
         OthersWoken(kern, k, p), NEW rest, OthersHandles(fd, rest, p),
         Integrity(kern), NEW e \in Entry, k.entry[e].linked
  PROVE  Named(rest, k.entry[e].queue[1])
<1> DEFINE r == Owner(e)
           i == e[2]
<1>1. r \in Proc /\ i \in Slot /\ e = <<r, i>>
  BY Entries, Zenon
<1>2. r # p
  BY <1>1, Zenon DEF AllFree, Free
<1>3. kern.entry[e] \in WaitEntry
  BY Zenon DEF TypeOK, Kernel
<1>4. k.entry[e] = kern.entry[e]
  <2>1. ~WokenEntry(kern, k, <<r, i>>)
    BY <1>1, <1>3, AwakeFields, Zenon DEF WokenEntry
  <2> QED BY <1>1, <1>2, <2>1, Zenon DEF OthersWoken, OnlyWoken
<1>5. kern.entry[<<r, i>>].queue # NoQueue
  BY <1>1, <1>4, Zenon DEF Integrity
<1>6. PICK f \in Fd, end \in {"R", "W"} : fd[<<r, f>>] = <<kern.entry[<<r, i>>].queue[1], end>>
  BY <1>1, <1>5, QueueNamed, Zenon
<1>7. rest[<<r, f>>] = <<k.entry[e].queue[1], end>> /\ <<r, f>> \in Handles
  BY <1>1, <1>2, <1>4, <1>6, Zenon DEF Handles, OthersHandles
<1> QED BY <1>7, Zenon DEF Named

\* Closing handles takes care of every pipe: with the last end of a kind all
\* who wait for it are woken, and a pipe that is released has no sleepers.
LEMMA CloseCare ==
  ASSUME HandleFacts, NEW k \in Kernel, Integrity(k), Counted(k, fd), 
         NEW H \in SUBSET Handles, NEW rest, Extends(fd, rest, H),
         \A e \in Entry : k.entry[e].linked => Named(rest, k.entry[e].queue[1])
  PROVE  LET j == CloseEnds(k, H)
         IN  /\ j \in Kernel /\ Integrity(j) /\ Wakes(k, j) /\ Counted(j, rest)
             /\ \A x \in Pipe : TakenCare(k, j, x)
<1> DEFINE j == CloseEnds(k, H)
<1>1. /\ j \in Kernel /\ Integrity(j) /\ Wakes(k, j) /\ Counted(j, rest)
      /\ \A x \in Pipe :
           /\ j.pipe[x].size # k.pipe[x].size =>
                /\ j.pipe[x].size = 0
                /\ \A e \in Entry : ~Linked(j, e, WriteQ(x)) /\ ~Linked(j, e, PollQ(x))
           /\ \/ j.pipe[x].writers = 0 <=> k.pipe[x].writers = 0
              \/ \A e \in Entry : ~Linked(j, e, ReadQ(x)) /\ ~Linked(j, e, PollQ(x))
           /\ \/ j.pipe[x].readers = 0 <=> k.pipe[x].readers = 0
              \/ \A e \in Entry : ~Linked(j, e, WriteQ(x)) /\ ~Linked(j, e, PollQ(x))
  BY CloseEffect, ZenonT(40)
<1> HIDE DEF j
<1>2. ASSUME NEW x \in Pipe PROVE TakenCare(k, j, x)
  <2>1. \/ j.pipe[x].size = k.pipe[x].size
        \/ /\ j.pipe[x].size > 0 => Covered(j, ReadQ(x))
           /\ j.pipe[x].size < Cap => Covered(j, WriteQ(x))
    BY <1>1, SMTT(30) DEF Covered
  <2>2. SameReady(k, j, x) \/ \A e \in Entry : ~Linked(j, e, PollQ(x))
    BY <1>1, ZenonT(40) DEF SameReady
  <2> QED BY <1>1, <2>1, <2>2, ZenonT(40) DEF TakenCare
<1> QED BY <1>1, <1>2, ZenonT(40) DEF j

\* SYS_CLOSE preserves the invariant.
LEMMA SysCloseStep ==
  ASSUME HandleFacts, IInv, NEW p \in Proc, SysClose(p)
  PROVE  IInv'
<1>1. PICK f \in Fd :
        /\ InUserMode(p) /\ fd[<<p, f>>] # FREE
        /\ kern' = CloseEnds(kern, {<<p, f>>})
        /\ fd' = [fd EXCEPT ![<<p, f>>] = FREE]
        /\ UNCHANGED <<alive, waiting, len, polling, deadline>>
  BY Zenon DEF SysClose
<1>2. /\ TypeOK /\ kern \in Kernel /\ Integrity(kern) /\ Counted(kern, fd)
      /\ \A r \in Proc : ProcInv(r)
      /\ fd \in [Proc \X Fd -> Handle]
  BY Zenon DEF IInv, TypeOK, RefsCounted, QueueIntegrity
<1>3. \A i \in Slot : Free(kern, <<p, i>>)
  BY <1>1, <1>2, IdleEntries, Zenon DEF InUserMode
<1>4. \A r \in Proc \ {p} : OnlyWoken(kern, kern, r)
  BY OnlyWokenRefl, Zenon
<1>5. /\ \A r \in Proc \ {p}, g \in Fd : fd'[<<r, g>>] = fd[<<r, g>>]
      /\ Extends(fd, fd', {<<p, f>>}) /\ {<<p, f>>} \in SUBSET Handles
      /\ fd' \in [Proc \X Fd -> Handle]
  BY <1>1, <1>2, Zenon DEF Extends, Handles, Handle
<1>6. ASSUME NEW e \in Entry, kern.entry[e].linked
      PROVE  Named(fd', kern.entry[e].queue[1])
  <2>1. AllFree(kern, p) /\ OthersWoken(kern, kern, p) /\ OthersHandles(fd, fd', p)
    BY <1>3, <1>4, <1>5, Zenon DEF AllFree, OthersWoken, OthersHandles
  <2> QED BY <1>2, <1>6, <2>1, OthersNamed, Zenon
<1> DEFINE H == {<<p, f>>}
<1>7. kern' = CloseEnds(kern, H) /\ H \in SUBSET Handles /\ Extends(fd, fd', H)
  BY <1>1, <1>5, Zenon
<1> HIDE DEF H
<1>8. /\ kern' \in Kernel /\ Integrity(kern') /\ Wakes(kern, kern') /\ Counted(kern', fd')
      /\ \A x \in Pipe : TakenCare(kern, kern', x)
  BY <1>2, <1>6, <1>7, CloseCare, ZenonT(40)
<1>9. TypeOK' /\ RefsCounted' /\ QueueIntegrity'
  BY <1>1, <1>2, <1>5, <1>8, Zenon DEF TypeOK, RefsCounted, QueueIntegrity
<1> QED BY <1>1, <1>5, <1>8, <1>9, CallInv, Zenon DEF InUserMode

\* The handles of H in the table are copies of handles of base.
Copied(table, base, H) ==
  \A h \in H : table[h] # FREE => \E g \in Handles : base[g] = table[h]

\* Taking references to ends that are open takes care of every pipe.
LEMMA AcquireCare ==
  ASSUME HandleFacts, NEW k \in Kernel, Integrity(k), NEW base, Counted(k, base),
         NEW table, NEW H \in SUBSET Handles, Extends(table, base, H),
         Copied(table, base, H)
  PROVE  LET j == AcquireEnds(k, table, H)
         IN  /\ j \in Kernel /\ Integrity(j) /\ Wakes(k, j) /\ Counted(j, table)
             /\ j.entry = k.entry /\ j.state = k.state
             /\ \A x \in Pipe : SameReady(k, j, x)
  BY AcquireEffect DEF SameReady, Copied

\* SYS_DUP preserves the invariant.
LEMMA SysDupStep ==
  ASSUME HandleFacts, IInv, NEW p \in Proc, SysDup(p)
  PROVE  IInv'
<1>1. PICK f \in Fd :
        LET g == Lowest(FreeSlots(p))
            table == [fd EXCEPT ![<<p, g>>] = fd[<<p, f>>]]
        IN  /\ InUserMode(p) /\ fd[<<p, f>>] # FREE /\ FreeSlots(p) # {}
            /\ kern' = AcquireEnds(kern, table, {<<p, g>>})
            /\ fd' = table
            /\ UNCHANGED <<alive, waiting, len, polling, deadline>>
  BY Zenon DEF SysDup
<1> DEFINE g == Lowest(FreeSlots(p))
<1>2. /\ TypeOK /\ kern \in Kernel /\ Integrity(kern) /\ Counted(kern, fd)
      /\ fd \in [Proc \X Fd -> Handle]
  BY Zenon DEF IInv, TypeOK, RefsCounted, QueueIntegrity
<1>3. g \in Fd /\ fd[<<p, g>>] = FREE
  <2>1. g \in FreeSlots(p)
    BY <1>1, LowestIn, Zenon DEF FreeSlots
  <2> QED BY <2>1, Zenon DEF FreeSlots
<1>4. /\ kern' = AcquireEnds(kern, fd', {<<p, g>>})
      /\ fd' = [fd EXCEPT ![<<p, g>>] = fd[<<p, f>>]]
  BY <1>1, Zenon
<1> HIDE DEF g
<1>5. /\ \A r \in Proc \ {p}, h \in Fd : fd'[<<r, h>>] = fd[<<r, h>>]
      /\ Extends(fd', fd, {<<p, g>>}) /\ {<<p, g>>} \in SUBSET Handles
      /\ fd' \in [Proc \X Fd -> Handle]
      /\ \A h \in {<<p, g>>} : fd'[h] = fd[<<p, f>>] /\ <<p, f>> \in Handles
  BY <1>2, <1>3, <1>4, Zenon DEF Extends, Handles
<1> DEFINE H == {<<p, g>>}
<1>6. /\ kern' = AcquireEnds(kern, fd', H) /\ H \in SUBSET Handles /\ Extends(fd', fd, H)
      /\ Copied(fd', fd, H)
  BY <1>4, <1>5, Zenon DEF Copied
<1> HIDE DEF H
<1>7. /\ kern' \in Kernel /\ Integrity(kern') /\ Wakes(kern, kern') /\ Counted(kern', fd')
      /\ \A x \in Pipe : SameReady(kern, kern', x)
  BY <1>2, <1>6, AcquireCare, Zenon
<1>8. \A x \in Pipe : TakenCare(kern, kern', x)
  BY <1>7, Zenon DEF TakenCare, SameReady
<1>9. TypeOK' /\ RefsCounted' /\ QueueIntegrity'
  BY <1>1, <1>2, <1>5, <1>7, Zenon DEF TypeOK, RefsCounted, QueueIntegrity
<1> QED BY <1>1, <1>5, <1>7, <1>8, <1>9, CallInv, Zenon DEF InUserMode

\* SYS_DUP2 and SYS_DUP3 preserve the invariant.
LEMMA SysDup2Step ==
  ASSUME HandleFacts, IInv, NEW p \in Proc, SysDup2(p)
  PROVE  IInv'
<1>1. PICK f \in Fd, g \in Fd :
        LET table == [fd EXCEPT ![<<p, g>>] = fd[<<p, f>>]]
        IN  /\ InUserMode(p) /\ fd[<<p, f>>] # FREE /\ f # g
            /\ kern' = AcquireEnds(CloseEnds(kern, {<<p, g>>}), table, {<<p, g>>})
            /\ fd' = table
            /\ UNCHANGED <<alive, waiting, len, polling, deadline>>
  BY Zenon DEF SysDup2
<1> DEFINE H == {<<p, g>>}
           k == CloseEnds(kern, H)
           rest == [fd EXCEPT ![<<p, g>>] = FREE]
<1>2. /\ TypeOK /\ kern \in Kernel /\ Integrity(kern) /\ Counted(kern, fd)
      /\ \A r \in Proc : ProcInv(r)
      /\ fd \in [Proc \X Fd -> Handle]
  BY SMTT(30) DEF IInv, TypeOK, RefsCounted, QueueIntegrity
<1>3. AllFree(kern, p) /\ OthersWoken(kern, kern, p)
  BY <1>1, <1>2, IdleEntries, OnlyWokenRefl, Zenon DEF InUserMode, AllFree, OthersWoken
<1>4. kern' = AcquireEnds(k, fd', H) /\ fd' = [fd EXCEPT ![<<p, g>>] = fd[<<p, f>>]]
  BY <1>1, Zenon
<1>5. /\ OthersHandles(fd, rest, p) /\ H \in SUBSET Handles /\ Extends(fd, rest, H)
      /\ \A r \in Proc \ {p}, h \in Fd : fd'[<<r, h>>] = fd[<<r, h>>]
      /\ fd' \in [Proc \X Fd -> Handle]
      /\ Extends(fd', rest, H)
  BY <1>2, <1>4, Zenon DEF OthersHandles, Handles, Extends
<1>6. Copied(fd', rest, H) /\ kern' = AcquireEnds(k, fd', H)
  <2>1. \A h \in H : <<p, f>> \in Handles /\ rest[<<p, f>>] = fd'[h]
    BY <1>1, <1>2, <1>4, Zenon DEF Handles
  <2> QED BY <1>4, <2>1, Zenon DEF Copied
<1> HIDE DEF H, rest
<1>7. ASSUME NEW e \in Entry, kern.entry[e].linked PROVE Named(rest, kern.entry[e].queue[1])
  BY <1>2, <1>3, <1>5, <1>7, OthersNamed, ZenonT(40)
<1>8. /\ k \in Kernel /\ Integrity(k) /\ Wakes(kern, k) /\ Counted(k, rest)
      /\ \A x \in Pipe : TakenCare(kern, k, x)
  BY <1>2, <1>5, <1>7, CloseCare, Zenon
<1> HIDE DEF k
<1>9. /\ kern' \in Kernel /\ Integrity(kern') /\ Wakes(k, kern') /\ Counted(kern', fd')
      /\ kern'.entry = k.entry /\ \A x \in Pipe : SameReady(k, kern', x)
  BY <1>5, <1>6, <1>8, AcquireCare, Zenon
<1>10. Wakes(kern, kern')
  BY <1>2, <1>8, <1>9, WakesTrans, Zenon
<1>11. ASSUME NEW x \in Pipe PROVE TakenCare(kern, kern', x)
  <2>1. TakenCare(kern, k, x) /\ SameReady(k, kern', x)
    BY <1>8, <1>9, Zenon
  <2>2. /\ \A e, q : Linked(kern', e, q) <=> Linked(k, e, q)
        /\ \A q : Covered(kern', q) <=> Covered(k, q)
    BY <1>9, Zenon DEF Linked, Covered
  <2> QED BY <2>1, <2>2, Zenon DEF TakenCare, SameReady
<1>12. TypeOK' /\ RefsCounted' /\ QueueIntegrity'
  BY <1>1, <1>2, <1>5, <1>9, ZenonT(40) DEF TypeOK, RefsCounted, QueueIntegrity
<1> QED BY <1>1, <1>5, <1>10, <1>11, <1>12, CallInv, Zenon DEF InUserMode

\* SYS_SPAWN preserves the invariant.
LEMMA SysSpawnStep ==
  ASSUME HandleFacts, IInv, NEW p \in Proc, SysSpawn(p)
  PROVE  IInv'
<1>1. PICK c \in Proc \ alive, S \in SUBSET Fd :
        LET table == [h \in Proc \X Fd |->
                        IF h[1] = c THEN IF h[2] \in S THEN fd[<<p, h[2]>>] ELSE FREE
                                    ELSE fd[h]]
        IN  /\ InUserMode(p)
            /\ kern' = AcquireEnds(kern, table, {c} \X S)
            /\ fd' = table
            /\ alive' = alive \cup {c}
            /\ UNCHANGED <<waiting, len, polling, deadline>>
  BY Zenon DEF SysSpawn
<1> DEFINE H == {c} \X S
<1>2. /\ TypeOK /\ kern \in Kernel /\ Integrity(kern) /\ Counted(kern, fd)
      /\ ProcInv(c) /\ fd \in [Proc \X Fd -> Handle]
  BY SMTT(30) DEF IInv, TypeOK, RefsCounted, QueueIntegrity
<1>3. ~Pending(c) /\ \A f \in Fd : fd[<<c, f>>] = FREE
  BY <1>2, Zenon DEF ProcInv, Pending
<1>4. /\ kern' = AcquireEnds(kern, fd', H)
      /\ fd' = [h \in Proc \X Fd |->
                  IF h[1] = c THEN IF h[2] \in S THEN fd[<<p, h[2]>>] ELSE FREE ELSE fd[h]]
  BY <1>1, Zenon
<1>5. /\ H \in SUBSET Handles
      /\ \A r \in Proc \ {c}, h \in Fd : fd'[<<r, h>>] = fd[<<r, h>>]
  BY <1>4, Zenon DEF Handles
<1>6. fd' \in [Proc \X Fd -> Handle]
  BY <1>2, <1>4, Zenon DEF Handle
<1>7. Extends(fd', fd, H)
  BY <1>3, <1>4, SMTT(30) DEF Extends, Handles
<1>8. Copied(fd', fd, H) /\ kern' = AcquireEnds(kern, fd', H)
  <2>1. \A h \in H : fd'[h] = fd[<<p, h[2]>>] /\ <<p, h[2]>> \in Handles
    BY <1>4, Zenon DEF Handles
  <2> QED BY <1>4, <2>1, ZenonT(40) DEF Copied
<1> HIDE DEF H
<1>9. /\ kern' \in Kernel /\ Integrity(kern') /\ Wakes(kern, kern') /\ Counted(kern', fd')
      /\ \A x \in Pipe : SameReady(kern, kern', x)
  BY <1>2, <1>5, <1>7, <1>8, AcquireCare, Zenon
<1>10. \A x \in Pipe : TakenCare(kern, kern', x)
  BY <1>9, Zenon DEF TakenCare, SameReady
<1>11. TypeOK' /\ RefsCounted' /\ QueueIntegrity'
  BY <1>1, <1>2, <1>6, <1>9, Zenon DEF TypeOK, RefsCounted, QueueIntegrity
<1>12. c \in alive' /\ \A r \in Proc \ {c} : r \in alive' <=> r \in alive
  BY <1>1, Zenon
<1> QED BY <1>1, <1>3, <1>5, <1>9, <1>10, <1>11, <1>12, CallInv, Zenon

\* SYS_PIPE preserves the invariant: nobody can be on a queue of a free slot.
LEMMA SysPipeStep ==
  ASSUME HandleFacts, IInv, NEW p \in Proc, SysPipe(p)
  PROVE  IInv'
<1>1. PICK x \in Pipe :
        LET f == Lowest(FreeSlots(p))
            g == Lowest(FreeSlots(p) \ {f})
        IN  /\ InUserMode(p)
            /\ ~kern.pipe[x].used
            /\ FreeSlots(p) # {} /\ FreeSlots(p) \ {f} # {}
            /\ kern' = [kern EXCEPT
                 !.pipe[x] = [used |-> TRUE, readers |-> 1, writers |-> 1, size |-> 0],
                 !.queue = [q \in Queue |-> IF q[1] = x THEN << >> ELSE @[q]]]
            /\ fd' = [fd EXCEPT ![<<p, f>>] = <<x, "R">>, ![<<p, g>>] = <<x, "W">>]
            /\ UNCHANGED <<alive, waiting, len, polling, deadline>>
  BY Zenon DEF SysPipe
<1> DEFINE f == Lowest(FreeSlots(p))
           g == Lowest(FreeSlots(p) \ {f})
           new == [used |-> TRUE, readers |-> 1, writers |-> 1, size |-> 0]
           pipes == [kern.pipe EXCEPT ![x] = new]
           queues == [q \in Queue |-> IF q[1] = x THEN << >> ELSE kern.queue[q]]
<1>2. /\ TypeOK /\ kern \in Kernel /\ Integrity(kern) /\ Counted(kern, fd)
      /\ \A r \in Proc : ProcInv(r)
      /\ fd \in [Proc \X Fd -> Handle]
  BY SMTT(30) DEF IInv, TypeOK, RefsCounted, QueueIntegrity
<1>3. f \in Fd /\ g \in Fd /\ f # g /\ fd[<<p, f>>] = FREE /\ fd[<<p, g>>] = FREE
  <2>1. f \in FreeSlots(p) /\ g \in FreeSlots(p) \ {f}
    BY <1>1, LowestIn, Zenon DEF FreeSlots
  <2> QED BY <2>1, Zenon DEF FreeSlots
<1>4. /\ kern' = [kern EXCEPT !.pipe = pipes, !.queue = queues]
      /\ fd' = [fd EXCEPT ![<<p, f>>] = <<x, "R">>, ![<<p, g>>] = <<x, "W">>]
  BY <1>1, Zenon
<1> HIDE DEF f, g
<1>5. \A h \in Handles, end \in {"R", "W"} : fd[h] # <<x, end>>
  <2>1. /\ Cardinality(Ends(fd, Handles, x, "R")) = 0
        /\ Cardinality(Ends(fd, Handles, x, "W")) = 0
    <3>1. /\ Cardinality(Ends(fd, Handles, x, "R")) \in Nat
          /\ Cardinality(Ends(fd, Handles, x, "W")) \in Nat
      BY EndsFinite, Zenon
    <3>2. ~(Cardinality(Ends(fd, Handles, x, "R")) + Cardinality(Ends(fd, Handles, x, "W")) > 0)
      BY <1>1, <1>2, Zenon DEF Counted, Handles
    <3> QED BY <3>1, <3>2, SMTT(30)
  <2>2. Ends(fd, Handles, x, "R") = {} /\ Ends(fd, Handles, x, "W") = {}
    BY <2>1, EndsFinite, Zenon
  <2> QED BY <2>2, Zenon DEF Ends
<1>6. ASSUME NEW e \in Entry, NEW q \in Queue, q[1] = x PROVE ~Linked(kern, e, q)
  <2>1. SUFFICES ASSUME Linked(kern, e, q) PROVE FALSE
    BY Zenon
  <2>2. Owner(e) \in Proc /\ e[2] \in Slot /\ e = <<Owner(e), e[2]>>
    BY Entries, Zenon
  <2>3. kern.entry[e].queue # NoQueue
    BY <2>1, PipeIOAssumption, Zenon DEF Linked
  <2>4. PICK h \in Fd, end \in {"R", "W"} : fd[<<Owner(e), h>>] = <<kern.entry[e].queue[1], end>>
    BY <1>2, <2>2, <2>3, QueueNamed, SMTT(30)
  <2>5. <<Owner(e), h>> \in Handles
    BY <2>2, Zenon DEF Handles
  <2> QED BY <1>5, <1>6, <2>1, <2>4, <2>5, Zenon DEF Linked
<1>7. ASSUME NEW q \in Queue, q[1] = x PROVE kern.queue[q] = << >>
  <2>1. kern.queue[q] \in Seq(Entry)
    BY <1>2, Zenon DEF Kernel
  <2>2. Elements(kern.queue[q]) \subseteq Entry
    BY <2>1, SMTT(30) DEF Elements
  <2>3. Elements(kern.queue[q]) = {}
    BY <1>2, <1>6, <1>7, <2>2, SMTT(30) DEF Integrity, Linked
  <2> QED BY <2>1, <2>3, NoElements, Zenon
<1>8. queues = kern.queue
  BY <1>2, <1>7, Zenon DEF Kernel
<1>9. /\ pipes \in [Pipe -> PipeRec] /\ pipes[x] = new
      /\ \A y \in Pipe \ {x} : pipes[y] = kern.pipe[y]
  <2>1. new \in PipeRec
    BY PipeIOAssumption DEF PipeRec
  <2> QED BY <1>2, <2>1, Zenon DEF Kernel
<1> HIDE DEF pipes, queues
<1>10. /\ kern'.queue = kern.queue /\ kern'.entry = kern.entry /\ kern'.state = kern.state
       /\ kern'.pipe = pipes
       /\ kern' = [queue |-> kern'.queue, entry |-> kern'.entry,
                   state |-> kern'.state, pipe |-> kern'.pipe]
  BY <1>2, <1>4, <1>8, ZenonT(40) DEF Kernel
<1>11. kern' \in Kernel /\ Integrity(kern')
  BY <1>2, <1>9, <1>10, SMTT(30) DEF Kernel, Integrity
<1>12. Wakes(kern, kern')
  BY <1>10, OnlyWokenRefl, Zenon DEF Wakes
<1>13. /\ fd' \in [Proc \X Fd -> Handle]
       /\ \A r \in Proc \ {p}, h \in Fd : fd'[<<r, h>>] = fd[<<r, h>>]
  BY <1>2, <1>3, <1>4, Zenon DEF Handle
<1>14. Counted(kern', fd')
  <2> DEFINE a == <<p, f>>
             b == <<p, g>>
             N(y, end) == Cardinality(Ends(fd', Handles, y, end))
  <2>1. /\ a \in Handles /\ b \in Handles /\ a # b /\ fd[a] = FREE /\ fd[b] = FREE
        /\ fd'[a] = <<x, "R">> /\ fd'[b] = <<x, "W">>
        /\ \A h \in Handles \ {a, b} : fd'[h] = fd[h]
    BY <1>2, <1>3, <1>4, Zenon DEF Handles
  <2>2. Cardinality({a}) = 1 /\ Cardinality({b}) = 1
    BY <2>1, Zenon DEF HandleFacts
  <2> HIDE DEF a, b
  <2>3. N(x, "R") = 1 /\ N(x, "W") = 1
    <3>1. Ends(fd', Handles, x, "R") = {a} /\ Ends(fd', Handles, x, "W") = {b}
      BY <1>5, <2>1, SMTT(30) DEF Ends
    <3> QED BY <2>2, <3>1, Zenon
  <2>4. ASSUME NEW y \in Pipe \ {x}, NEW end \in {"R", "W"}
        PROVE  N(y, end) = Cardinality(Ends(fd, Handles, y, end))
    <3>1. FREE # <<y, end>>
      BY PipeIOAssumption, SMTT(30)
    <3>2. Ends(fd', Handles, y, end) = Ends(fd, Handles, y, end)
      BY <2>1, <3>1, SMTT(30) DEF Ends
    <3> QED BY <3>2, Zenon
  <2> HIDE DEF N
  <2>5. ASSUME NEW y \in Pipe
        PROVE  /\ kern'.pipe[y].readers = N(y, "R")
               /\ kern'.pipe[y].writers = N(y, "W")
               /\ kern'.pipe[y].used <=> N(y, "R") + N(y, "W") > 0
    <3>1. CASE y = x
      BY <1>9, <1>10, <2>3, <3>1, SMTT(30)
    <3>2. CASE y # x
      BY <1>2, <1>9, <1>10, <2>4, <3>2, ZenonT(40) DEF Counted, Handles
    <3> QED BY <3>1, <3>2, Zenon
  <2> QED BY <2>5, Zenon DEF Counted, Handles, N
<1>15. ASSUME NEW y \in Pipe PROVE TakenCare(kern, kern', y)
  <2>1. CASE y = x
    <3>1. /\ ReadQ(x) \in Queue /\ WriteQ(x) \in Queue /\ PollQ(x) \in Queue
          /\ ReadQ(x)[1] = x /\ WriteQ(x)[1] = x /\ PollQ(x)[1] = x
      BY PipeQueues, Zenon DEF ReadQ, WriteQ, PollQ
    <3>2. \A e \in Entry : /\ ~Linked(kern', e, ReadQ(x)) /\ ~Linked(kern', e, WriteQ(x))
                           /\ ~Linked(kern', e, PollQ(x))
      BY <1>6, <1>10, <3>1, Zenon DEF Linked
    <3> QED BY <2>1, <3>2, Zenon DEF TakenCare, Covered
  <2>2. CASE y # x
    BY <1>9, <1>10, <2>2, Zenon DEF TakenCare, SameReady
  <2> QED BY <2>1, <2>2, Zenon
<1>16. TypeOK' /\ RefsCounted' /\ QueueIntegrity'
  BY <1>1, <1>2, <1>11, <1>13, <1>14, ZenonT(40) DEF TypeOK, RefsCounted, QueueIntegrity
<1> QED BY <1>1, <1>12, <1>13, <1>15, <1>16, CallInv, Zenon DEF InUserMode

\* The death of a process, at any point of a call, preserves the invariant.
LEMMA ExitStep ==
  ASSUME HandleFacts, IInv, NEW p \in Proc, Exit(p)
  PROVE  IInv'
<1> DEFINE k == process_wait_detach(kern, p, TRUE)
           H == {p} \X Fd
           j == CloseEnds(k, H)
           s == RUNNABLE
<1>1. /\ p \in alive /\ kern' = WithState(j, p, s)
      /\ fd' = [h \in Proc \X Fd |-> IF h[1] = p THEN FREE ELSE fd[h]]
      /\ alive' = alive \ {p}
      /\ waiting' = [waiting EXCEPT ![p] = NoFd]
      /\ len' = [len EXCEPT ![p] = 0]
      /\ polling' = [polling EXCEPT ![p] = NoPoll]
      /\ deadline' = [deadline EXCEPT ![p] = "none"]
  BY SMTT(30) DEF Exit, WithState
<1>2. /\ TypeOK /\ kern \in Kernel /\ Integrity(kern) /\ Counted(kern, fd)
      /\ fd \in [Proc \X Fd -> Handle] /\ \A r \in Proc : ProcInv(r)
  BY Zenon DEF IInv, TypeOK, RefsCounted, QueueIntegrity
<1>3. /\ k \in Kernel /\ Integrity(k) /\ k.pipe = kern.pipe
      /\ AllFree(k, p) /\ OthersWoken(kern, k, p) /\ CoverInv(k) /\ HangupInv(k)
  BY CancelDone, Zenon
<1>4. H \in SUBSET Handles /\ Extends(fd, fd', H)
  BY <1>1, Zenon DEF Handles, Extends
<1>5. /\ fd' \in [Proc \X Fd -> Handle] /\ OthersHandles(fd, fd', p)
      /\ \A f \in Fd : fd'[<<p, f>>] = FREE
  BY <1>1, <1>2, Zenon DEF Handle, OthersHandles
<1>6. s \in {RUNNABLE} \cup Blocked /\ s = RUNNABLE
  BY Zenon
<1> HIDE DEF k, H, s
<1>7. Counted(k, fd)
  BY <1>2, <1>3, ZenonT(40) DEF Counted
<1>8. \A e \in Entry : k.entry[e].linked => Named(fd', k.entry[e].queue[1])
  BY <1>2, <1>3, <1>5, OthersNamed, ZenonT(40)
<1>9. /\ j \in Kernel /\ Integrity(j) /\ Wakes(k, j) /\ Counted(j, fd')
      /\ \A x \in Pipe : TakenCare(k, j, x)
  BY <1>3, <1>4, <1>7, <1>8, CloseCare, Zenon
<1> HIDE DEF j
<1>10. CoverInv(j) /\ HangupInv(j)
  BY <1>3, <1>9, WakesPipes, ZenonT(40)
<1>11. AllFree(j, p)
  BY <1>3, <1>9, WakesFree, ZenonT(40) DEF AllFree
<1>12. OthersWoken(kern, j, p)
  BY <1>2, <1>3, <1>9, OnlyWokenTrans, Zenon DEF OthersWoken, Wakes
<1>13. /\ kern' \in Kernel /\ Integrity(kern') /\ kern'.pipe = j.pipe
       /\ kern'.entry = j.entry /\ kern'.state[p] = s
       /\ \A r \in Proc \ {p} : kern'.state[r] = j.state[r]
  BY <1>1, <1>6, <1>9, StateEffect, ZenonT(40)
<1>14. /\ AllFree(kern', p) /\ OthersWoken(kern, kern', p)
       /\ CoverInv(kern') /\ HangupInv(kern')
  BY <1>10, <1>11, <1>12, <1>13, SameEntries, Zenon
<1>15. ASSUME NEW x \in Pipe
       PROVE  SameReady(kern, kern', x) \/ \A e \in Entry : ~Linked(kern', e, PollQ(x))
  BY <1>3, <1>9, <1>13, ZenonT(40) DEF TakenCare, SameReady, Linked
<1>16. /\ waiting' \in [Proc -> Fd \cup {NoFd}] /\ len' \in [Proc -> 0 .. MaxLen]
       /\ polling' \in [Proc -> Poll \cup {NoPoll}]
       /\ deadline' \in [Proc -> {"none", "pending", "passed"}]
       /\ alive' \subseteq Proc
       /\ waiting'[p] = NoFd /\ polling'[p] = NoPoll
  BY <1>1, <1>2, PipeIOAssumption, SMTT(30) DEF TypeOK
<1>17. OthersVars(p)
  BY <1>1, <1>2, Zenon DEF OthersVars, TypeOK
<1>18. TypeOK'
  BY <1>5, <1>13, <1>16, Zenon DEF TypeOK
<1>19. RefsCounted' /\ QueueIntegrity'
  <2>1. Counted(kern', fd')
    BY <1>9, <1>13, ZenonT(40) DEF Counted
  <2> QED BY <1>13, <2>1, ZenonT(40) DEF RefsCounted, QueueIntegrity
<1> QED BY <1>5, <1>6, <1>13, <1>14, <1>15, <1>16, <1>17, <1>18, <1>19, IdleInv, Zenon

-----------------------------------------------------------------------------
(* The invariant holds, and with it every safety property. *)

\* The invariant holds initially.
LEMMA InitInv ==
  ASSUME HandleFacts, Init
  PROVE  IInv
<1> DEFINE none == [queue |-> NoQueue, linked |-> FALSE, woken |-> FALSE, exclusive |-> FALSE]
<1>1. PICK p \in Proc :
        /\ kern = [queue |-> [q \in Queue |-> << >>], entry |-> [e \in Entry |-> none],
                   state |-> [q \in Proc |-> RUNNABLE], pipe |-> [x \in Pipe |-> EmptyPipe]]
        /\ fd = [h \in Proc \X Fd |-> FREE]
        /\ alive = {p}
        /\ waiting = [q \in Proc |-> NoFd]
        /\ len = [q \in Proc |-> 0]
        /\ polling = [q \in Proc |-> NoPoll]
        /\ deadline = [q \in Proc |-> "none"]
  BY SMTT(30) DEF Init
<1>2. /\ kern.queue = [q \in Queue |-> << >>] /\ kern.entry = [e \in Entry |-> none]
      /\ kern.state = [q \in Proc |-> RUNNABLE] /\ kern.pipe = [x \in Pipe |-> EmptyPipe]
      /\ kern = [queue |-> kern.queue, entry |-> kern.entry, state |-> kern.state,
                 pipe |-> kern.pipe]
  BY <1>1, Zenon
<1>3. /\ none \in WaitEntry /\ ~none.linked /\ ~none.woken /\ none.queue = NoQueue
      /\ EmptyPipe \in PipeRec
  BY PipeIOAssumption DEF WaitEntry, EmptyPipe, PipeRec
<1> HIDE DEF none
<1>4. kern \in Kernel
  <2>1. << >> \in Seq(Entry)
    OBVIOUS
  <2>2. kern.queue \in [Queue -> Seq(Entry)]
    BY <1>2, <2>1, Zenon
  <2>3. /\ kern.entry \in [Entry -> WaitEntry] /\ kern.pipe \in [Pipe -> PipeRec]
        /\ kern.state \in [Proc -> {RUNNABLE} \cup Blocked]
    BY <1>2, <1>3, Zenon
  <2> QED BY <1>2, <2>2, <2>3, ZenonT(40) DEF Kernel
<1>5. TypeOK
  BY <1>1, <1>4, PipeIOAssumption, SMTT(30) DEF TypeOK, Handle
<1>6. RefsCounted
  <2>1. ASSUME NEW x \in Pipe, NEW end \in {"R", "W"}
        PROVE  Cardinality(Ends(fd, Handles, x, end)) = 0
    <3>1. Ends(fd, Handles, x, end) = {}
      BY <1>1, PipeIOAssumption, SMTT(30) DEF Ends, Handles
    <3>2. Ends(fd, Handles, x, end) \in SUBSET Handles
      BY Zenon DEF Ends
    <3> QED BY <3>1, <3>2, Zenon DEF HandleFacts
  <2>2. ASSUME NEW x \in Pipe PROVE kern.pipe[x] = EmptyPipe
    BY <1>2, Zenon
  <2> QED BY <2>1, <2>2, SMTT(30) DEF RefsCounted, Counted, Handles, EmptyPipe
<1>7. \A e \in Entry : ~kern.entry[e].linked /\ ~kern.entry[e].woken
                         /\ kern.entry[e].queue = NoQueue
  BY <1>2, <1>3, Zenon
<1>8. QueueIntegrity
  <2>1. \A q \in Queue : kern.queue[q] = << >>
    BY <1>2, Zenon
  <2>2. Elements(<< >>) = {} /\ NoRepeats(<< >>)
    BY DEF Elements, NoRepeats
  <2> QED BY <1>7, <2>1, <2>2, Zenon DEF QueueIntegrity, Integrity
<1>9. ASSUME NEW r \in Proc PROVE ProcInv(r) /\ PollInv(r)
  <2>1. /\ waiting[r] = NoFd /\ polling[r] = NoPoll /\ kern.state[r] = RUNNABLE
        /\ \A f \in Fd : fd[<<r, f>>] = FREE
    BY <1>1, <1>2, Zenon
  <2>2. \A i \in Slot : Free(kern, <<r, i>>)
    BY <1>7, Entries, Zenon DEF Free
  <2> QED BY <2>1, <2>2, ZenonT(40) DEF ProcInv, PollInv, Slot, RUNNABLE
<1>10. CoverInv(kern) /\ HangupInv(kern)
  BY <1>7, Zenon DEF CoverInv, HangupInv, Covered, Linked
<1> QED BY <1>5, <1>6, <1>8, <1>9, <1>10, Zenon DEF IInv

\* Every step preserves the invariant.
LEMMA NextInv ==
  ASSUME HandleFacts, IInv, [Next]_vars
  PROVE  IInv'
<1>1. CASE UNCHANGED vars
  <2>1. /\ TypeOK' /\ RefsCounted' /\ QueueIntegrity'
        /\ CoverInv(kern') /\ HangupInv(kern') /\ TypeOK /\ kern' \in Kernel
    BY <1>1, Zenon DEF vars, IInv, TypeOK, RefsCounted, QueueIntegrity
  <2>2. ASSUME NEW p \in Proc PROVE ProcInv(p)' /\ PollInv(p)'
    <3>1. Bystander(p)
      BY <1>1, OnlyWokenRefl, ZenonT(40) DEF vars, Bystander
    <3>2. ProcInv(p) /\ PollInv(p) /\ \A x \in Pipe : SameReady(kern, kern', x)
      BY <1>1, Zenon DEF vars, IInv, SameReady
    <3>3. ProcInv(p)'
      BY <2>1, <3>1, <3>2, BystanderProc, ZenonT(40) DEF Bystander
    <3> QED BY <2>1, <3>1, <3>2, <3>3, BystanderPoll, Zenon
  <2> QED BY <2>1, <2>2, Zenon DEF IInv
<1>2. ASSUME NEW p \in Proc, Syscall(p) PROVE IInv'
  BY <1>2, SysPipeStep, SysReadStep, SysWriteStep, SysPollStep, SysCloseStep, SysDupStep,
     SysDup2Step, SysSpawnStep, SMTT(30) DEF Syscall
<1>3. ASSUME NEW p \in Proc, Resume(p) PROVE IInv'
  BY <1>3, ResumeReadStep, ResumeWriteStep, ResumeFaultStep, ResumePollStep, Zenon DEF Resume
<1>4. ASSUME NEW p \in Proc, Exit(p) \/ RunUser(p) \/ Interrupt(p) \/ PollTimeout(p)
      PROVE  IInv'
  BY <1>4, ExitStep, RunUserStep, InterruptStep, PollTimeoutStep, Zenon
<1> QED BY <1>1, <1>2, <1>3, <1>4, Zenon DEF Next

\* An entry is on a queue of a pipe that some handle of its process names, so
\* the pipe has a reference.
LEMMA NoneDangling ==
  ASSUME HandleFacts, IInv
  PROVE  NoDanglingEntry
<1>1. ASSUME NEW e \in Entry, kern.entry[e].queue # NoQueue
      PROVE  kern.pipe[kern.entry[e].queue[1]].used
  <2> DEFINE x == kern.entry[e].queue[1]
  <2>1. TypeOK /\ \A r \in Proc : ProcInv(r)
    BY Zenon DEF IInv
  <2>2. Owner(e) \in Proc /\ e[2] \in Slot /\ e = <<Owner(e), e[2]>>
    BY Entries, Zenon
  <2>3. PICK f \in Fd, end \in {"R", "W"} : fd[<<Owner(e), f>>] = <<x, end>>
    BY <1>1, <2>1, <2>2, QueueNamed, SMTT(30)
  <2>4. x \in Pipe
    <3>1. kern.entry[e].queue \in Queue
      BY <1>1, <2>1, Zenon DEF TypeOK, Kernel, WaitEntry
    <3> QED BY <3>1, PipeIOAssumption, Zenon
  <2>5. <<Owner(e), f>> \in Ends(fd, Handles, x, end)
    BY <2>2, <2>3, Zenon DEF Ends, Handles
  <2>6. /\ Cardinality(Ends(fd, Handles, x, "R")) \in Nat
        /\ Cardinality(Ends(fd, Handles, x, "W")) \in Nat
        /\ Cardinality(Ends(fd, Handles, x, end)) # 0
    BY <2>5, EndsFinite, Zenon
  <2>7. Cardinality(Ends(fd, Handles, x, "R")) + Cardinality(Ends(fd, Handles, x, "W")) > 0
    BY <2>6, SMTT(30)
  <2> QED BY <1>1, <2>4, <2>7, Zenon DEF IInv, RefsCounted, Counted, Handles
<1> QED BY <1>1, Zenon DEF NoDanglingEntry

\* Sleepers are on the queue their handle names.
LEMMA SleepersOnQueue ==
  ASSUME IInv
  PROVE  BlockedIsQueued
<1>1. ASSUME NEW p \in Proc
      PROVE  /\ kern.state[p] = "PIPE_READ" =>
                  /\ IsEnd(p, waiting[p], "R") /\ kern.entry[<<p, Block>>].linked
                  /\ kern.entry[<<p, Block>>].queue = ReadQ(PipeOf(p, waiting[p]))
             /\ kern.state[p] = "PIPE_WRITE" =>
                  /\ IsEnd(p, waiting[p], "W") /\ kern.entry[<<p, Block>>].linked
                  /\ kern.entry[<<p, Block>>].queue = WriteQ(PipeOf(p, waiting[p]))
  <2>1. TypeOK /\ ProcInv(p) /\ waiting[p] \in Fd \cup {NoFd}
    BY Zenon DEF IInv, TypeOK
  <2>2. ASSUME kern.state[p] \in {"PIPE_READ", "PIPE_WRITE"}
        PROVE  /\ waiting[p] \in Fd /\ IOWait(p) /\ kern.entry[<<p, Block>>].linked
               /\ kern.state[p] = IOState(p)
    BY <2>1, <2>2, Zenon DEF ProcInv, PollWait, IOWait, RUNNABLE
  <2>3. waiting[p] \in Fd /\ fd[<<p, waiting[p]>>] # FREE =>
          fd[<<p, waiting[p]>>][2] \in {"R", "W"}
    BY <2>1, Zenon DEF TypeOK, Handle
  <2> QED BY <2>2, <2>3, Zenon DEF IOWait, IOState, IOQueue, IsReading, IsEnd
<1>2. ASSUME NEW p \in Proc, kern.state[p] = "POLL"
      PROVE  \A i \in PollSlot : polling[p][i].fd # NoFd =>
               /\ kern.entry[<<p, i>>].linked
               /\ kern.entry[<<p, i>>].queue = PollQ(PipeOf(p, polling[p][i].fd))
  BY <1>2, PollState, ZenonT(40) DEF IInv, Linked
<1>3. ASSUME NEW p \in Proc, p \notin alive \/ ~Pending(p)
      PROVE  \A i \in Slot : kern.entry[<<p, i>>].queue = NoQueue
  BY <1>3, ZenonT(40) DEF IInv, ProcInv, Pending, Free, Slot
<1> QED BY <1>1, <1>2, <1>3, Zenon DEF BlockedIsQueued

\* A list that is not empty has an entry linked on it.
LEMMA SomeoneLinked ==
  ASSUME kern \in Kernel, Integrity(kern), NEW q \in Queue, kern.queue[q] # << >>
  PROVE  \E e \in Entry : Linked(kern, e, q)
<1>1. kern.queue[q] \in Seq(Entry)
  BY Zenon DEF Kernel
<1>2. PICK e : e \in Elements(kern.queue[q])
  BY <1>1, NoElements, Zenon
<1>3. e \in Entry
  BY <1>1, <1>2, SMTT(30) DEF Elements
<1> QED BY <1>2, <1>3, Zenon DEF Integrity, Linked

\* A sleeper beside bytes or room is covered by a wake.
LEMMA SleepersCovered ==
  ASSUME IInv
  PROVE  NoLostWakeup
<1>1. ASSUME NEW x \in Pipe
      PROVE  /\ kern.pipe[x].size > 0 /\ kern.queue[ReadQ(x)] # << >> => WokenOn(ReadQ(x))
             /\ kern.pipe[x].size < Cap /\ kern.queue[WriteQ(x)] # << >> => WokenOn(WriteQ(x))
  <2>1. kern \in Kernel /\ Integrity(kern) /\ CoverInv(kern)
    BY SMTT(30) DEF IInv, TypeOK, QueueIntegrity
  <2> QED BY <2>1, SomeoneLinked, PipeQueues, Zenon DEF CoverInv, Covered, WokenOn
<1> QED BY <1>1, Zenon DEF NoLostWakeup

\* A hangup leaves no sleepers.
LEMMA NoneOnHungup ==
  ASSUME IInv
  PROVE  NoWaitOnHungupPipe
<1>1. ASSUME NEW x \in Pipe
      PROVE  /\ kern.pipe[x].writers = 0 => kern.queue[ReadQ(x)] = << >>
             /\ kern.pipe[x].readers = 0 => kern.queue[WriteQ(x)] = << >>
  <2>1. kern \in Kernel /\ Integrity(kern) /\ HangupInv(kern)
    BY SMTT(30) DEF IInv, TypeOK, QueueIntegrity
  <2> QED BY <2>1, SomeoneLinked, PipeQueues, Zenon DEF HangupInv
<1> QED BY <1>1, Zenon DEF NoWaitOnHungupPipe

-----------------------------------------------------------------------------
(* Finite sets of handles. *)

INSTANCE FiniteSetTheorems

\* The handles are finitely many, and so are the descriptors.
LEMMA HandlesCounted == HandleFacts
<1>1. IsFiniteSet(Handles)
  BY FS_Product, PipeIOAssumption, Zenon DEF Handles
<1>2. ASSUME NEW S \in SUBSET Handles
      PROVE  IsFiniteSet(S) /\ Cardinality(S) \in Nat /\ (Cardinality(S) = 0 <=> S = {})
  <2>1. IsFiniteSet(S)
    BY <1>1, FS_Subset, Zenon
  <2> QED BY <2>1, FS_CardinalityType, FS_EmptySet, SMTT(30)
<1>3. ASSUME NEW S \in SUBSET Handles, NEW T \in SUBSET Handles, S \cap T = {}
      PROVE  Cardinality(S \cup T) = Cardinality(S) + Cardinality(T)
  <2>1. Cardinality(S \cup T) = Cardinality(S) + Cardinality(T) - Cardinality(S \cap T)
    BY <1>2, FS_Union, Zenon
  <2>2. Cardinality(S \cap T) = 0
    BY <1>3, FS_EmptySet, Zenon
  <2> QED BY <1>2, <2>1, <2>2, SMTT(30)
<1>4. ASSUME NEW h \in Handles PROVE Cardinality({h}) = 1
  BY FS_Singleton, Zenon
<1>5. ASSUME NEW F \in SUBSET Fd, F # {} PROVE \E n \in F : \A m \in F : n <= m
  <2> DEFINE less == {s \in Nat \X Nat : s[1] < s[2]}
  <2>1. F \subseteq Nat
    BY PipeIOAssumption, Zenon
  <2>2. IsWellFoundedOn(less, Nat)
    BY NatLessThanWellFounded, Zenon DEF OpToRel
  <2>3. PICK n \in F : \A m \in F : <<m, n>> \notin less
    BY <1>5, <2>1, <2>2, WFMin, Zenon
  <2>4. ASSUME NEW m \in F PROVE n <= m
    <3>1. <<m, n>> \in Nat \X Nat /\ ~(m < n)
      BY <2>1, <2>3, Zenon
    <3> QED BY <2>1, <3>1, SMTT(30)
  <2> QED BY <2>4, Zenon
<1>6. \A S, T \in SUBSET Handles : S \cap T = {} =>
        Cardinality(S \cup T) = Cardinality(S) + Cardinality(T)
  BY <1>3, Zenon
<1> QED BY <1>2, <1>4, <1>5, <1>6, SMTT(30) DEF HandleFacts

-----------------------------------------------------------------------------
(* The theorems. *)

\* The invariant holds in every reachable state.
LEMMA Inductive == Spec => []IInv
<1>1. Init => IInv
  BY HandlesCounted, InitInv, Zenon
<1>2. IInv /\ [Next]_vars => IInv'
  BY HandlesCounted, NextInv, Zenon
<1> QED BY <1>1, <1>2, PTL DEF Spec

\* Every variable keeps its type: in particular no pipe overflows its buffer
\* and no reference count goes below zero, whatever the order of the calls.
THEOREM TypeCorrect == Spec => []TypeOK
<1>1. IInv => TypeOK
  BY SMTT(30) DEF IInv
<1> QED BY <1>1, Inductive, PTL

\* The reader and writer counts of every pipe are the numbers of handles that
\* refer to it (process_handle_clone, process_handle_release, pipe.c).
THEOREM ReferencesCounted == Spec => []RefsCounted
<1>1. IInv => RefsCounted
  BY SMTT(30) DEF IInv
<1> QED BY <1>1, Inductive, PTL

\* The wait queues and the wait entries agree (waitq.c).
THEOREM QueuesIntact == Spec => []QueueIntegrity
<1>1. IInv => QueueIntegrity
  BY SMTT(30) DEF IInv
<1> QED BY <1>1, Inductive, PTL

\* The lifetime rule of waitq.h: no entry points at a queue of a pipe slot that
\* is free and may be reused.
THEOREM LifetimeRule == Spec => []NoDanglingEntry
<1>1. IInv => NoDanglingEntry
  BY HandlesCounted, NoneDangling, SMTT(30)
<1> QED BY <1>1, Inductive, PTL

\* Whoever sleeps is on the queue that will wake them, and nobody else is on a
\* queue (process_wait_block, process_wait_rearm, process_wait_detach).
THEOREM SleepersQueued == Spec => []BlockedIsQueued
<1>1. IInv => BlockedIsQueued
  BY SleepersOnQueue, SMTT(30)
<1> QED BY <1>1, Inductive, PTL

\* No lost wakeup: bytes and sleeping readers, or room and sleeping writers,
\* always come with a wake that somebody has still to act on.
THEOREM WakeupsNotLost == Spec => []NoLostWakeup
<1>1. IInv => NoLostWakeup
  BY SleepersCovered, SMTT(30)
<1> QED BY <1>1, Inductive, PTL

\* A pipe without writers has no sleeping readers, one without readers no
\* sleeping writers (kernel_pipe_close_writer, kernel_pipe_close_reader).
THEOREM HangupLeavesNoSleeper == Spec => []NoWaitOnHungupPipe
<1>1. IInv => NoWaitOnHungupPipe
  BY NoneOnHungup
<1> QED BY <1>1, Inductive, PTL

\* Nobody sleeps in poll beside something ready (process_begin_poll_many_wait,
\* process_resume_blocked_poll, process_update_poll_timeouts).
THEOREM PollersNotMissed == Spec => []PollNotMissed
<1>1. IInv => PollNotMissed
  BY Zenon DEF IInv, PollInv, PollNotMissed
<1> QED BY <1>1, Inductive, PTL

\* The wait queues are sound in every reachable state: lists and entries agree,
\* none points at a released pipe, and sleepers are on the queue that wakes them.
THEOREM QueuesAreSound == Spec => []QueuesSound
<1>1. QueueIntegrity /\ NoDanglingEntry /\ BlockedIsQueued => QueuesSound
  BY SMTT(30) DEF QueuesSound
<1> QED BY <1>1, QueuesIntact, LifetimeRule, SleepersQueued, PTL

\* No wakeup is missed, for any number of processes and pipes: nobody sleeps
\* beside bytes, room, a hangup, a polled event or a passed deadline unless a
\* wake for it is under way.
THEOREM WakeupsNotMissed == Spec => []NoMissedWakeup
<1>1. NoLostWakeup /\ NoWaitOnHungupPipe /\ PollNotMissed => NoMissedWakeup
  BY Zenon DEF NoMissedWakeup
<1> QED BY <1>1, WakeupsNotLost, HangupLeavesNoSleeper, PollersNotMissed, PTL
=============================================================================
