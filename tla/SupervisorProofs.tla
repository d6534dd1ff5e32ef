-------------------------- MODULE SupervisorProofs --------------------------
(***************************************************************************)
(* Proofs about init as the reader of its configuration and as the service *)
(* manager, for every configuration, any number of services, streams and   *)
(* failing spawns.                                                         *)
(***************************************************************************)
EXTENDS Supervisor, TLAPS

-----------------------------------------------------------------------------
(* The table                                                               *)

Service ==
  [type : ServiceType, policy : Policy, retries : Nat, timeout : BOOLEAN,
   deps : SUBSET Nat, mode : [Fd -> Mode], to : [Fd -> Stream \cup {NoStream}],
   server : BOOLEAN]
TableType ==
  [svc : Seq(Service), known : [Kind -> SUBSET Stream],
   writers : [Kind -> [Stream -> Nat]], reader : [Stream -> Nat],
   sources : SUBSET Nat, server : Nat]

\* A binding names its stream.
Binds(v) == \A f \in Fd : v.mode[f] \in Kind => v.to[f] \in Stream

\* What parse_service_line has checked of the service it puts at place i.
RowInv(t, i, v) ==
  /\ Binds(v)
  /\ v.deps \subseteq 1 .. i - 1
  /\ v.server => /\ t.server = i /\ v.type = "daemon" /\ v.policy = "never"
                 /\ \A f \in Fd : v.mode[f] = "inherit"
  /\ i \in t.sources <=> \E f \in Output : v.mode[f] = "syslog"

\* The services that hold references in table t, the one being read, l, included.
Last(t, l) == IF l = <<>> THEN Len(t.svc) ELSE Len(t.svc) + 1
Row(t, l, i) == IF i <= Len(t.svc) THEN t.svc[i] ELSE l
BoundTo(v, f, k, s) == v.mode[f] = k /\ v.to[f] = s
Refs(t, l, k, s) == {b \in (1 .. Last(t, l)) \X Output : BoundTo(Row(t, l, b[1]), b[2], k, s)}

\* The references the streams count are those the services hold.
WritersMatch(t, l) ==
  \A k \in Kind, s \in Stream : t.writers[k][s] = Cardinality(Refs(t, l, k, s))
ReadersMatch(t, l) ==
  \A s \in Stream :
    /\ t.reader[s] \in 0 .. Last(t, l)
    /\ \A i \in 1 .. Last(t, l) :
         BoundTo(Row(t, l, i), "in", "channel", s) <=> t.reader[s] = i

\* What parse_service_line has read of the current line.
LineInv ==
  line # <<>> => /\ line \in Service /\ Binds(line)
                 /\ line.deps \subseteq 1 .. Len(table.svc)
                 /\ Len(table.svc) < MaxServices /\ Reading
TableInv ==
  /\ lines \in Text /\ from \in {"file", "builtin", "none"} /\ table \in TableType
  /\ Len(table.svc) <= MaxServices
  /\ LineInv
  /\ \A i \in 1 .. Len(table.svc) : RowInv(table, i, table.svc[i])
  /\ table.sources \subseteq 1 .. Len(table.svc)
  /\ ~Reading => validate_syslog_topology(table)
  /\ WritersMatch(table, line) /\ ReadersMatch(table, line)

\* Sets of output bindings of n services: how they are counted.
PairFacts ==
  \A n \in Nat : \A A \in SUBSET ((1 .. n) \X Output) :
    /\ Cardinality(A) \in 0 .. 2 * n
    /\ A # {} => Cardinality(A) > 0
    /\ A = {} => Cardinality(A) = 0
    /\ \A x \in (1 .. n) \X Output :
         /\ Cardinality(A \cup {x}) = IF x \in A THEN Cardinality(A) ELSE Cardinality(A) + 1
         /\ Cardinality(A \ {x}) = IF x \in A THEN Cardinality(A) - 1 ELSE Cardinality(A)

-----------------------------------------------------------------------------
(* How the table is read                                                   *)

\* The same for one set.
LEMMA PairCount ==
  ASSUME PairFacts, NEW n \in Nat, NEW A \in SUBSET ((1 .. n) \X Output),
         NEW x \in (1 .. n) \X Output
  PROVE  /\ Cardinality(A) \in Nat /\ Cardinality(A) <= 2 * n
         /\ x \in A => Cardinality(A \ {x}) = Cardinality(A) - 1
         /\ x \notin A => Cardinality(A \ {x}) = Cardinality(A)
         /\ x \notin A => Cardinality(A \cup {x}) = Cardinality(A) + 1
<1>1. /\ Cardinality(A) \in 0 .. 2 * n
      /\ Cardinality(A \cup {x}) = IF x \in A THEN Cardinality(A) ELSE Cardinality(A) + 1
      /\ Cardinality(A \ {x}) = IF x \in A THEN Cardinality(A) - 1 ELSE Cardinality(A)
  BY DEF PairFacts
<1> QED BY <1>1

\* The fields of a table have their types.
LEMMA TableFields ==
  \A t \in TableType :
    /\ t.svc \in Seq(Service) /\ t.known \in [Kind -> SUBSET Stream]
    /\ t.writers \in [Kind -> [Stream -> Nat]] /\ t.reader \in [Stream -> Nat]
    /\ t.sources \in SUBSET Nat /\ t.server \in Nat
BY ZenonT(20) DEF TableType

\* A service is not the absence of one.
LEMMA ServiceIsSome == \A v \in Service : v # <<>>
BY DEF Service

\* Sequences: what is first and what is left.
LEMMA SeqFacts ==
  ASSUME NEW S
  PROVE  /\ <<>> \in Seq(S)
         /\ \A x \in Seq(S) :
              /\ Len(x) \in Nat
              /\ x # <<>> => /\ Head(x) \in S /\ Tail(x) \in Seq(S) /\ Head(x) = x[1]
                             /\ Tail(x) = <<>> <=> Len(x) = 1
<1> SUFFICES ASSUME NEW x \in Seq(S), x # <<>>
             PROVE  /\ Head(x) \in S /\ Tail(x) \in Seq(S) /\ Head(x) = x[1]
                    /\ Tail(x) = <<>> <=> Len(x) = 1
  OBVIOUS
<1>0. Len(x) \in Nat \ {0} /\ x \in [1 .. Len(x) -> S]
  OBVIOUS
<1>1. Head(x) \in S /\ Tail(x) \in Seq(S) /\ Head(x) = x[1]
  <2>1. Head(x) = x[1]
    BY <1>0
  <2>2. x[1] \in S
    BY <1>0
  <2>3. Tail(x) \in Seq(S)
    BY <1>0
  <2> QED BY <2>1, <2>2, <2>3
<1>2. Tail(x) = <<>> <=> Len(x) = 1
  <2>1. Tail(x) \in Seq(S) /\ Len(Tail(x)) = Len(x) - 1
    BY <1>0
  <2>2. \A y \in Seq(S) : y = <<>> <=> Len(y) = 0
    OBVIOUS
  <2> QED BY <1>0, <2>1, <2>2
<1> QED BY <1>1, <1>2, Zenon

\* The lines of a text and what is left of it.
LEMMA TextFields ==
  /\ <<>> \in Text
  /\ \A x \in Text : x # <<>> =>
       /\ Head(x).type \in ServiceType /\ Head(x).options \in Seq(Option)
       /\ Tail(x) \in Text
       /\ Tail(x) = <<>> <=> Len(x) = 1
<1>1. \A h \in LineText : h.type \in ServiceType /\ h.options \in Seq(Option)
  BY Zenon DEF LineText
<1> QED BY <1>1, SeqFacts, Zenon DEF Text

\* The empty table.
LEMMA EmptyIsTable ==
  /\ EmptyTable \in TableType
  /\ EmptyTable.svc = <<>> /\ EmptyTable.sources = {} /\ EmptyTable.server = 0
  /\ \A k \in Kind, s \in Stream : EmptyTable.writers[k][s] = 0
  /\ \A s \in Stream : EmptyTable.reader[s] = 0
<1>1. <<>> \in Seq(Service)
  OBVIOUS
<1> QED BY <1>1, ZenonT(20) DEF EmptyTable, TableType

\* Nothing is bound in an empty table.
LEMMA EmptyMatches ==
  ASSUME PairFacts
  PROVE  WritersMatch(EmptyTable, <<>>) /\ ReadersMatch(EmptyTable, <<>>)
<1>1. Last(EmptyTable, <<>>) = 0
  BY EmptyIsTable DEF Last
<1>2. \A k \in Kind, s \in Stream : Refs(EmptyTable, <<>>, k, s) = {}
  BY <1>1 DEF Refs
<1>3. Cardinality({}) = 0
  BY DEF PairFacts
<1>4. \A s \in Stream : 0 \in 0 .. 0 /\ \A i \in 1 .. 0 : FALSE
  OBVIOUS
<1> QED BY <1>1, <1>2, <1>3, <1>4, EmptyIsTable, Zenon DEF WritersMatch, ReadersMatch

\* The table is empty at the start and after a configuration was refused.
LEMMA ConfigInitHolds == ASSUME PairFacts, ConfigInit PROVE TableInv
<1>1. /\ lines \in Text /\ from \in {"file", "builtin"} /\ from # "none"
      /\ table = EmptyTable /\ line = <<>>
  BY ConfigAssumption DEF ConfigInit
<1>2. Len(table.svc) = 0
  BY <1>1, EmptyIsTable
<1> QED BY <1>1, <1>2, EmptyIsTable, EmptyMatches, ConfigAssumption
        DEF TableInv, LineInv, validate_syslog_topology

\* load_service_table falls back on an empty table.
LEMMA RefuseStep ==
  ASSUME PairFacts, TableInv, Refuse
  PROVE  TableInv'
<1>1. /\ table' = EmptyTable /\ line' = <<>> /\ lines' \in Text
      /\ from' \in {"file", "builtin", "none"}
  BY ConfigAssumption, TextFields, Zenon DEF Refuse
<1>2. Len(table'.svc) = 0
  BY <1>1, EmptyIsTable
<1>3. 0 <= MaxServices /\ \A i \in 1 .. 0 : FALSE
  BY ConfigAssumption
<1> QED BY <1>1, <1>2, <1>3, EmptyIsTable, EmptyMatches, Zenon
        DEF TableInv, LineInv, validate_syslog_topology

\* parse_service_line begins a line.
LEMMA BeginLineStep ==
  ASSUME PairFacts, TableInv, BeginLine
  PROVE  TableInv'
\* A new line begins with a service that is bound to nothing.
<1>NewServiceType. \A type \in ServiceType :
                     /\ NewService(type) \in Service
                     /\ NewService(type).deps = {}
                     /\ \A f \in Fd : NewService(type).mode[f] = "inherit"
  BY ConfigAssumption, ZenonT(20)
     DEF NewService, Service, ServiceType, Policy, Mode
<1>1. CASE Refuse
  BY <1>1, RefuseStep, Zenon
<1>2. CASE /\ Len(table.svc) < MaxServices /\ line' = NewService(Head(lines).type)
           /\ UNCHANGED <<lines, table, from>>
  <2> DEFINE v == NewService(Head(lines).type)
             n == Len(table.svc)
  <2>1. /\ v \in Service /\ v.deps = {} /\ \A f \in Fd : v.mode[f] = "inherit"
    BY <1>NewServiceType, TextFields, Zenon DEF BeginLine, Reading, TableInv
  <2>2. line' = v /\ v # <<>> /\ line = <<>> /\ Reading'
    BY <1>2, <2>1, ServiceIsSome, Zenon DEF BeginLine, Reading
  <2>3. n \in Nat
    BY TableFields DEF TableInv
  <2> HIDE DEF v
  <2>4. /\ Last(table, <<>>) = n /\ Last(table, v) = n + 1
        /\ \A i \in 1 .. n : Row(table, v, i) = Row(table, <<>>, i)
        /\ Row(table, v, n + 1) = v
    BY <2>2, <2>3 DEF Last, Row
  <2> HIDE DEF n
  <2>5. \A i \in 1 .. n + 1 : i \in 1 .. n \/ i = n + 1
    BY <2>3
  <2>6. \A f \in Fd : \A k \in Kind, s \in Stream : ~BoundTo(v, f, k, s)
    BY <2>1 DEF BoundTo, Kind
  <2>7. WritersMatch(table, v)
    <3>1. \A k \in Kind, s \in Stream : Refs(table, v, k, s) = Refs(table, <<>>, k, s)
      <4> SUFFICES ASSUME NEW k \in Kind, NEW s \in Stream
                   PROVE  Refs(table, v, k, s) = Refs(table, <<>>, k, s)
        OBVIOUS
      <4>1. \A i \in 1 .. n + 1, f \in Output :
              BoundTo(Row(table, v, i), f, k, s) <=>
                i \in 1 .. n /\ BoundTo(Row(table, <<>>, i), f, k, s)
        BY <2>3, <2>4, <2>5, <2>6 DEF Fd, Output
      <4> QED BY <2>3, <2>4, <4>1 DEF Refs
    <3> QED BY <2>2, <3>1, Zenon DEF TableInv, WritersMatch
  <2>8. ReadersMatch(table, v)
    <3> SUFFICES ASSUME NEW s \in Stream
                 PROVE  /\ table.reader[s] \in 0 .. n + 1
                        /\ \A i \in 1 .. n + 1 :
                             BoundTo(Row(table, v, i), "in", "channel", s) <=> table.reader[s] = i
      BY <2>4, Zenon DEF ReadersMatch
    <3>1. /\ table.reader[s] \in 0 .. n
          /\ \A i \in 1 .. n :
               BoundTo(Row(table, <<>>, i), "in", "channel", s) <=> table.reader[s] = i
      BY <2>2, <2>4, Zenon DEF TableInv, ReadersMatch
    <3>2. ~BoundTo(v, "in", "channel", s)
      BY <2>6, Zenon DEF Fd, Kind
    <3> QED BY <2>3, <2>4, <2>5, <3>1, <3>2
  <2>9. LineInv'
    <3>1. \A f \in Fd : v.mode[f] \notin Kind
      BY <2>1 DEF Kind
    <3> QED BY <1>2, <2>1, <2>2, <3>1, Zenon DEF LineInv, Binds
  <2>10. table' = table /\ lines' = lines /\ from' = from
    BY <1>2, Zenon
  <2>11. /\ lines \in Text /\ from \in {"file", "builtin", "none"} /\ table \in TableType
         /\ Len(table.svc) <= MaxServices
         /\ \A i \in 1 .. Len(table.svc) : RowInv(table, i, table.svc[i])
         /\ table.sources \subseteq 1 .. Len(table.svc)
    BY Zenon DEF TableInv
  <2> QED BY <2>2, <2>7, <2>8, <2>9, <2>10, <2>11, Zenon DEF TableInv
<1> QED BY <1>1, <1>2, Zenon DEF BeginLine

\* A line that is complete becomes a row of the table.
LEMMA EndLineStep ==
  ASSUME PairFacts, TableInv, EndLine
  PROVE  TableInv'
\* The references stay the same when the modes and streams of all rows do.
<1>MatchKept. ASSUME NEW t, NEW l, NEW u, NEW m, WritersMatch(t, l), ReadersMatch(t, l),
                     Last(u, m) = Last(t, l), u.writers = t.writers, u.reader = t.reader,
                     \A i \in 1 .. Last(t, l) : /\ Row(u, m, i).mode = Row(t, l, i).mode
                                                /\ Row(u, m, i).to = Row(t, l, i).to
              PROVE  WritersMatch(u, m) /\ ReadersMatch(u, m)
  <2> USE <1>MatchKept
  <2>1. \A k \in Kind, s \in Stream : Refs(u, m, k, s) = Refs(t, l, k, s)
    BY DEF Refs, BoundTo
  <2>2. \A i \in 1 .. Last(t, l), s \in Stream :
          BoundTo(Row(u, m, i), "in", "channel", s) <=> BoundTo(Row(t, l, i), "in", "channel", s)
    BY Zenon DEF BoundTo
  <2>3. WritersMatch(u, m)
    BY <2>1, Zenon DEF WritersMatch
  <2>4. ReadersMatch(u, m)
    BY <2>2, Zenon DEF ReadersMatch
  <2> QED BY <2>3, <2>4
<1> DEFINE v == Finished(line)
           n == Len(table.svc)
           t == [table EXCEPT
                   !.svc = Append(table.svc, v),
                   !.server = IF v.server THEN This ELSE table.server,
                   !.sources = IF "syslog" \in Bindings(v)
                                 THEN table.sources \cup {This} ELSE table.sources]
<1>1. CASE Refuse
  BY <1>1, RefuseStep, Zenon
<1>2. CASE /\ Consistent(line) /\ (Len(lines) = 1 => validate_syslog_topology(t))
           /\ table' = t /\ line' = <<>> /\ lines' = Tail(lines) /\ UNCHANGED from
  <2>1. /\ line # <<>> /\ Reading /\ line \in Service /\ Binds(line)
        /\ line.deps \subseteq 1 .. n /\ n < MaxServices /\ table \in TableType
        /\ lines \in Text /\ lines # <<>>
    BY Zenon DEF EndLine, TableInv, LineInv, Reading
  <2>2. n \in Nat /\ This = n + 1 /\ n + 1 <= MaxServices
    BY <2>1, TableFields, ConfigAssumption DEF This
  <2>3. /\ v \in Service /\ v.mode = line.mode /\ v.to = line.to /\ v.deps = line.deps
        /\ v.type = line.type /\ v.server = line.server
        /\ v.server => v.policy = "never"
    BY <2>1, ZenonT(20) DEF Finished, Service, Policy
  <2> HIDE DEF v, n
  <2>4. /\ t \in TableType
        /\ t.svc = Append(table.svc, v) /\ t.writers = table.writers /\ t.reader = table.reader
        /\ t.server = IF v.server THEN n + 1 ELSE table.server
        /\ t.sources = IF "syslog" \in Bindings(v)
                         THEN table.sources \cup {n + 1} ELSE table.sources
    <3>1. Append(table.svc, v) \in Seq(Service)
      BY <2>1, <2>3, TableFields
    <3>2. n + 1 \in Nat
      BY <2>2
    <3> QED BY <2>1, <2>2, <3>1, <3>2, ZenonT(20) DEF TableType
  <2>5. /\ Len(t.svc) = n + 1 /\ t.svc[n + 1] = v
        /\ \A i \in 1 .. n : t.svc[i] = table.svc[i]
    BY <2>1, <2>4, TableFields DEF n
  <2> HIDE DEF t
  <2>6. WritersMatch(t, <<>>) /\ ReadersMatch(t, <<>>)
    <3>1. Last(t, <<>>) = n + 1 /\ Last(table, line) = n + 1
      BY <2>1, <2>5, Zenon DEF Last, n
    <3>2. ASSUME NEW i \in 1 .. n + 1
          PROVE  /\ Row(t, <<>>, i).mode = Row(table, line, i).mode
                 /\ Row(t, <<>>, i).to = Row(table, line, i).to
      <4>1. i <= n + 1 /\ (i <= n => i \in 1 .. n) /\ (~(i <= n) => i = n + 1)
        BY <2>2
      <4> QED BY <2>3, <2>5, <4>1, Zenon DEF Row, n
    <3> QED BY <2>4, <3>1, <3>2, <1>MatchKept, Zenon DEF TableInv
  <2>7. \A f \in Output : v.mode[f] = "syslog" => "syslog" \in Bindings(v)
    BY Zenon DEF Bindings
  <2>8. "syslog" \in Bindings(v) => \E f \in Output : v.mode[f] = "syslog"
    BY Zenon DEF Bindings
  <2>9. /\ table.sources \subseteq 1 .. n
        /\ \A i \in 1 .. n : RowInv(table, i, table.svc[i])
    BY Zenon DEF TableInv, n
  <2>10. ASSUME NEW i \in 1 .. n + 1 PROVE RowInv(t, i, t.svc[i])
    <3>1. CASE i \in 1 .. n
      <4>1. i # n + 1 /\ i # 0
        BY <2>2, <3>1
      <4>2. v.server => table.server = 0
        BY <1>2, <2>3, Zenon DEF Consistent
      <4>3. i \in t.sources <=> i \in table.sources
        BY <2>4, <4>1, Zenon
      <4>4. RowInv(table, i, table.svc[i]) /\ t.svc[i] = table.svc[i]
        BY <2>5, <2>9, <3>1, Zenon
      <4>5. table.svc[i].server => t.server = i
        BY <2>4, <4>1, <4>2, <4>4, Zenon DEF RowInv
      <4> QED BY <4>3, <4>4, <4>5, Zenon DEF RowInv
    <3>2. CASE i = n + 1
      <4>1. n + 1 \notin table.sources /\ (n + 1) - 1 = n
        BY <2>2, <2>9
      <4>2. n + 1 \in t.sources <=> \E f \in Output : v.mode[f] = "syslog"
        BY <2>4, <2>7, <2>8, <4>1, Zenon
      <4>3. v.server => /\ t.server = n + 1 /\ v.type = "daemon" /\ v.policy = "never"
                        /\ \A f \in Fd : v.mode[f] = "inherit"
        BY <1>2, <2>3, <2>4, Zenon DEF Consistent
      <4>4. Binds(v) /\ v.deps \subseteq 1 .. n
        BY <2>1, <2>3, Zenon DEF Binds
      <4> QED BY <2>5, <3>2, <4>1, <4>2, <4>3, <4>4, Zenon DEF RowInv
    <3> QED BY <2>2, <3>1, <3>2
  <2>11. t.sources \subseteq 1 .. n + 1
    BY <2>2, <2>4, <2>9
  <2>12. lines' \in Text /\ (~Reading' => validate_syslog_topology(t))
    BY <1>2, <2>1, TextFields, Zenon DEF Reading
  <2> QED BY <1>2, <2>2, <2>4, <2>5, <2>6, <2>10, <2>11, <2>12, Zenon DEF TableInv, LineInv
<1> QED BY <1>1, <1>2, Zenon DEF EndLine

\* The writers that stream s of kind k has besides output f of service v.
Others(t, v, f, k, s) ==
  IF BoundTo(v, f, k, s) THEN t.writers[k][s] - 1 ELSE t.writers[k][s]

\* An option of a line: whatever it binds again, the references stay counted.
LEMMA ReadOptionStep ==
  ASSUME PairFacts, TableInv, ReadOption
  PROVE  TableInv'
\* The fields of a service and of a table have their types.
<1>ServiceFields. \A v \in Service :
                    /\ v.type \in ServiceType /\ v.policy \in Policy /\ v.retries \in Nat
                    /\ v.timeout \in BOOLEAN /\ v.deps \in SUBSET Nat /\ v.mode \in [Fd -> Mode]
                    /\ v.to \in [Fd -> Stream \cup {NoStream}] /\ v.server \in BOOLEAN
  BY ZenonT(20) DEF Service
\* The six kinds of option.
<1>OptionKinds. ASSUME NEW o \in Option
                PROVE  \/ /\ o.opt = "stdio" /\ o.fd \in Fd /\ o.mode \in Mode
                          /\ o.to \in Stream \cup {NoStream}
                          /\ o.mode \in Kind => o.to \in Stream
                       \/ o.opt = "restart" /\ o.policy \in Policy
                       \/ o.opt = "retries" /\ o.retries \in Nat
                       \/ o.opt = "timeout" /\ o.timeout \in BOOLEAN
                       \/ o.opt = "server"
                       \/ o.opt = "dep" /\ o.on \in Nat
  BY ZenonT(20) DEF Option, Mode
\* A sequence with its first element replaced is one of the same length.
<1>SeqReplaced. ASSUME NEW S, NEW x \in Seq(S), x # <<>>, NEW y \in S
                PROVE  [x EXCEPT ![1] = y] \in Seq(S) /\ [x EXCEPT ![1] = y] # <<>>
  BY <1>SeqReplaced
\* What is left of the text when an option is read.
<1>OptionsLeft. ASSUME NEW x \in Text, x # <<>>, Head(x).options # <<>>
                PROVE  /\ Head(Head(x).options) \in Option
                       /\ [x EXCEPT ![1].options = Tail(Head(x).options)] \in Text
                       /\ [x EXCEPT ![1].options = Tail(Head(x).options)] # <<>>
  <2> USE <1>OptionsLeft
  <2> DEFINE h == Head(x)
             y == [h EXCEPT !.options = Tail(h.options)]
  <2>1. x \in Seq(LineText) /\ h = x[1] /\ h \in LineText
    BY SeqFacts, Zenon DEF Text
  <2>2. h.options \in Seq(Option)
    BY <2>1, Zenon DEF LineText
  <2>3. Tail(h.options) \in Seq(Option) /\ Head(h.options) \in Option
    BY <2>2, SeqFacts, Zenon
  <2>4. y \in LineText
    BY <2>1, <2>3, Zenon DEF LineText
  <2>5. [x EXCEPT ![1].options = Tail(h.options)] = [x EXCEPT ![1] = y]
    <3>1. y = [x[1] EXCEPT !.options = Tail(h.options)]
      BY <2>1
    <3> HIDE DEF y, h
    <3> QED BY <3>1
  <2> HIDE DEF y
  <2>6. [x EXCEPT ![1] = y] \in Seq(LineText) /\ [x EXCEPT ![1] = y] # <<>>
    BY <2>1, <2>4, <1>SeqReplaced, Zenon
  <2> QED BY <2>3, <2>5, <2>6, Zenon DEF Text
\* An option that is not about a stream leaves the streams of the line alone.
<1>PlainOption. ASSUME NEW o \in Option, o.opt # "stdio", Takes(o), LineInv, line # <<>>,
                       table \in TableType
                PROVE  LET v == LineWith(o) IN
                       /\ v \in Service /\ v.mode = line.mode /\ v.to = line.to
                       /\ v.deps \subseteq 1 .. Len(table.svc)
  <2> USE <1>PlainOption
  <2>1. line \in Service /\ line.deps \subseteq 1 .. Len(table.svc)
    BY Zenon DEF LineInv
  <2>2. CASE o.opt = "restart" /\ o.policy \in Policy
    <3>1. LineWith(o) = [line EXCEPT !.policy = o.policy]
      BY <2>2 DEF LineWith
    <3> QED BY <2>1, <2>2, <3>1, ZenonT(20) DEF Service
  <2>3. CASE o.opt = "retries" /\ o.retries \in Nat
    <3>1. LineWith(o) = [line EXCEPT !.retries = o.retries]
      BY <2>3 DEF LineWith
    <3> QED BY <2>1, <2>3, <3>1, ZenonT(20) DEF Service
  <2>4. CASE o.opt = "timeout" /\ o.timeout \in BOOLEAN
    <3>1. LineWith(o) = [line EXCEPT !.timeout = o.timeout]
      BY <2>4 DEF LineWith
    <3> QED BY <2>1, <2>4, <3>1, ZenonT(20) DEF Service
  <2>5. CASE o.opt = "server"
    <3>1. LineWith(o) = [line EXCEPT !.server = TRUE]
      BY <2>5 DEF LineWith
    <3> QED BY <2>1, <2>5, <3>1, ZenonT(20) DEF Service
  <2>6. CASE o.opt = "dep" /\ o.on \in Nat
    <3>1. LineWith(o) = [line EXCEPT !.deps = line.deps \cup {o.on}]
      BY <2>6 DEF LineWith
    <3>2. o.on \in DOMAIN table.svc
      BY <2>6 DEF Takes
    <3>3. DOMAIN table.svc = 1 .. Len(table.svc)
      BY TableFields
    <3>4. line.deps \cup {o.on} \in SUBSET Nat
      BY <2>1, <2>6, <1>ServiceFields, Zenon
    <3>5. /\ LineWith(o) \in Service /\ LineWith(o).mode = line.mode
          /\ LineWith(o).to = line.to /\ LineWith(o).deps = line.deps \cup {o.on}
      BY <2>1, <3>1, <3>4, ZenonT(20) DEF Service
    <3> QED BY <2>1, <3>2, <3>3, <3>5, Zenon
  <2> QED BY <2>2, <2>3, <2>4, <2>5, <2>6, <1>OptionKinds, Zenon
\* An option that binds a handle changes that handle of the line.
<1>StdioLineFacts. ASSUME NEW o \in Option, o.opt = "stdio", LineInv, line # <<>>
                   PROVE  LET v == StdioLine(o) IN
                          /\ v \in Service /\ Binds(v) /\ v.deps = line.deps
                          /\ v.mode[o.fd] = o.mode
                          /\ o.mode \in Kind => v.to[o.fd] = o.to
                          /\ \A f \in Fd \ {o.fd} : v.mode[f] = line.mode[f] /\ v.to[f] = line.to[f]
  <2> USE <1>StdioLineFacts
  <2> DEFINE v == StdioLine(o)
             to == IF o.mode \in Kind THEN o.to ELSE NoStream
  <2>1. /\ o.fd \in Fd /\ o.mode \in Mode /\ to \in Stream \cup {NoStream}
        /\ o.mode \in Kind => o.to \in Stream /\ to = o.to
    BY <1>OptionKinds
  <2>2. line \in Service /\ Binds(line) /\ line.mode \in [Fd -> Mode]
        /\ line.to \in [Fd -> Stream \cup {NoStream}]
    BY <1>ServiceFields, Zenon DEF LineInv
  <2>3. /\ v \in Service /\ v.deps = line.deps
        /\ v.mode = [line.mode EXCEPT ![o.fd] = o.mode] /\ v.to = [line.to EXCEPT ![o.fd] = to]
    BY <2>1, <2>2, ZenonT(20) DEF StdioLine, Service
  <2> HIDE DEF v, to
  <2>4. /\ v.mode[o.fd] = o.mode /\ (o.mode \in Kind => v.to[o.fd] = o.to)
        /\ \A f \in Fd \ {o.fd} : v.mode[f] = line.mode[f] /\ v.to[f] = line.to[f]
    BY <2>1, <2>2, <2>3, Zenon
  <2>5. Binds(v)
    BY <2>1, <2>2, <2>4, Zenon DEF Binds
  <2> QED BY <2>3, <2>4, <2>5, Zenon DEF v
\* The rows before the line and after the option are the same but for the handle.
<1>RowsAfter. ASSUME table \in TableType, line # <<>>, NEW v, v # <<>>, NEW u, u.svc = table.svc
              PROVE  LET n == Len(table.svc) + 1 IN
                     /\ n \in Nat \ {0} /\ Last(table, line) = n /\ Last(u, v) = n
                     /\ Row(table, line, n) = line /\ Row(u, v, n) = v
                     /\ \A i \in 1 .. n : i # n => Row(u, v, i) = Row(table, line, i)
  <2> USE <1>RowsAfter
  <2>1. Len(table.svc) \in Nat
    BY TableFields
  <2> QED BY <2>1 DEF Last, Row
\* The writers of a stream when output f of the line is bound to another one.
<1>WritersRebound. ASSUME PairFacts, table \in TableType, WritersMatch(table, line), line # <<>>,
                          NEW f \in Output, NEW u, u.svc = table.svc,
                          NEW v, v # <<>>, \A g \in Output \ {f} : v.mode[g] = line.mode[g] /\ v.to[g] = line.to[g],
                          NEW k \in Kind, NEW s \in Stream
                   PROVE  /\ Others(table, line, f, k, s) \in Nat
                          /\ Cardinality(Refs(u, v, k, s)) =
                               IF BoundTo(v, f, k, s) THEN Others(table, line, f, k, s) + 1
                                                      ELSE Others(table, line, f, k, s)
  <2> USE <1>WritersRebound
  <2> DEFINE n == Len(table.svc) + 1
             A == Refs(table, line, k, s)
             x == <<n, f>>
             m == Others(table, line, f, k, s)
  <2>1. /\ n \in Nat \ {0} /\ Last(table, line) = n /\ Last(u, v) = n
        /\ Row(table, line, n) = line /\ Row(u, v, n) = v
        /\ \A i \in 1 .. n : i # n => Row(u, v, i) = Row(table, line, i)
    BY <1>RowsAfter
  <2> HIDE DEF n
  <2>2. A \in SUBSET ((1 .. n) \X Output) /\ x \in (1 .. n) \X Output
    BY <2>1 DEF Refs
  <2>3. x \in A <=> BoundTo(line, f, k, s)
    BY <2>1, <2>2 DEF Refs
  <2>4. table.writers[k][s] = Cardinality(A)
    BY Zenon DEF WritersMatch
  <2>5. A \ {x} \in SUBSET ((1 .. n) \X Output) /\ (A \ {x}) \cup {x} \in SUBSET ((1 .. n) \X Output)
    BY <2>2
  <2>6. /\ Cardinality(A \ {x}) = IF x \in A THEN Cardinality(A) - 1 ELSE Cardinality(A)
        /\ Cardinality((A \ {x}) \cup {x}) = Cardinality(A \ {x}) + 1
        /\ Cardinality(A \ {x}) \in Nat
    <3> DEFINE B == A \ {x}
    <3>1. x \notin B /\ B \in SUBSET ((1 .. n) \X Output)
      BY <2>5, Zenon
    <3> HIDE DEF A, x, B
    <3>2. n \in Nat
      BY <2>1
    <3>3. /\ Cardinality(A \ {x}) = IF x \in A THEN Cardinality(A) - 1 ELSE Cardinality(A)
      BY <2>2, <3>2, PairCount, Zenon
    <3>4. Cardinality(B \cup {x}) = Cardinality(B) + 1 /\ Cardinality(B) \in Nat
      BY <2>2, <3>1, <3>2, PairCount, ZenonT(30)
    <3> QED BY <3>3, <3>4, Zenon DEF B
  <2>7. Refs(u, v, k, s) = IF BoundTo(v, f, k, s) THEN (A \ {x}) \cup {x} ELSE A \ {x}
    <3>1. ASSUME NEW i \in 1 .. n, NEW g \in Output
          PROVE  BoundTo(Row(u, v, i), g, k, s) <=>
                   IF <<i, g>> = x THEN BoundTo(v, f, k, s) ELSE BoundTo(Row(table, line, i), g, k, s)
      <4>1. <<i, g>> = x <=> i = n /\ g = f
        OBVIOUS
      <4> QED BY <2>1, <4>1, Zenon DEF BoundTo
    <3>2. \A b \in (1 .. n) \X Output : b[1] \in 1 .. n /\ b[2] \in Output /\ b = <<b[1], b[2]>>
      OBVIOUS
    <3>3. \A b \in (1 .. n) \X Output : b \in Refs(u, v, k, s) <=> BoundTo(Row(u, v, b[1]), b[2], k, s)
      BY <2>1, Zenon DEF Refs
    <3>4. \A b \in (1 .. n) \X Output : b \in A <=> BoundTo(Row(table, line, b[1]), b[2], k, s)
      BY <2>1, Zenon DEF Refs
    <3>5. Refs(u, v, k, s) \subseteq (1 .. n) \X Output
      BY <2>1, Zenon DEF Refs
    <3> HIDE DEF A, x
    <3>6. \A b \in (1 .. n) \X Output :
            b \in Refs(u, v, k, s) <=> IF b = x THEN BoundTo(v, f, k, s) ELSE b \in A
      <4> SUFFICES ASSUME NEW b \in (1 .. n) \X Output
                   PROVE  b \in Refs(u, v, k, s) <=> IF b = x THEN BoundTo(v, f, k, s) ELSE b \in A
        OBVIOUS
      <4>1. b[1] \in 1 .. n /\ b[2] \in Output /\ b = <<b[1], b[2]>>
        BY <3>2, Zenon
      <4>2. BoundTo(Row(u, v, b[1]), b[2], k, s) <=>
              IF b = x THEN BoundTo(v, f, k, s) ELSE BoundTo(Row(table, line, b[1]), b[2], k, s)
        BY <3>1, <4>1, ZenonT(30)
      <4> QED BY <3>3, <3>4, <4>2, Zenon
    <3> QED BY <2>2, <3>5, <3>6, Zenon
  <2> HIDE DEF A, x
  <2>8. m = Cardinality(A \ {x}) /\ m \in Nat
    BY <2>1, <2>3, <2>4, <2>6 DEF Others
  <2>9. Cardinality(Refs(u, v, k, s)) = IF BoundTo(v, f, k, s) THEN m + 1 ELSE m
    BY <2>6, <2>7, <2>8, Zenon
  <2> QED BY <2>8, <2>9, Zenon
\* An option that binds an output of the line.
<1>OutputBound. ASSUME PairFacts, TableInv, line # <<>>, NEW o \in Option, o.opt = "stdio",
                       o.fd \in Output
                PROVE  LET u == StdioTable(o)
                           v == StdioLine(o)
                       IN  /\ u \in TableType /\ u.svc = table.svc /\ u.reader = table.reader
                           /\ u.sources = table.sources /\ u.server = table.server
                           /\ WritersMatch(u, v)
  <2> USE <1>OutputBound
  <2> DEFINE f == o.fd
             v == StdioLine(o)
             t == release_output_binding(table, line, f)
             u == StdioTable(o)
  <2>1. /\ table \in TableType /\ WritersMatch(table, line) /\ Binds(line) /\ line \in Service
        /\ LineInv /\ table.writers \in [Kind -> [Stream -> Nat]]
        /\ table.known \in [Kind -> SUBSET Stream]
    BY TableFields, Zenon DEF TableInv, LineInv
  <2>2. /\ v \in Service /\ v.mode[f] = o.mode /\ (o.mode \in Kind => v.to[f] = o.to)
        /\ \A g \in Fd \ {f} : v.mode[g] = line.mode[g] /\ v.to[g] = line.to[g]
    BY <2>1, <1>StdioLineFacts, Zenon
  <2>3. v # <<>> /\ f \in Fd /\ f # "in" /\ \A g \in Output : g \in Fd
    BY <2>2, ServiceIsSome DEF Output, Fd
  <2>4. o.mode \in Mode /\ (o.mode \in Kind => o.to \in Stream)
    BY <1>OptionKinds
  <2> DEFINE m(k, s) == Others(table, line, f, k, s)
  <2>5. \A k \in Kind, s \in Stream : m(k, s) \in Nat
    BY <2>1, <2>2, <2>3, <1>WritersRebound, Zenon
  <2>6. /\ t \in TableType /\ t.svc = table.svc /\ t.reader = table.reader
        /\ t.sources = table.sources /\ t.server = table.server /\ t.known = table.known
        /\ \A k \in Kind, s \in Stream : t.writers[k][s] = m(k, s)
    <3>1. CASE line.mode[f] \in Kind
      <4>1. line.to[f] \in Stream
        BY <2>1, <2>3, <3>1, Zenon DEF Binds
      <4> DEFINE k == line.mode[f]
                 s == line.to[f]
                 w == [table.writers EXCEPT ![k] = [table.writers[k] EXCEPT ![s] = table.writers[k][s] - 1]]
      <4>2. t = [table EXCEPT !.writers = w]
        BY <3>1, Zenon DEF release_output_binding, output_mode_uses_binding
      <4>3. table.writers[k][s] - 1 \in Nat
        BY <2>5, <3>1, <4>1, Zenon DEF Others, BoundTo
      <4>4. w \in [Kind -> [Stream -> Nat]]
        BY <2>1, <3>1, <4>1, <4>3, Zenon
      <4>5. \A j \in Kind, r \in Stream : w[j][r] = m(j, r)
        BY <2>1, <3>1, <4>1, Zenon DEF Others, BoundTo
      <4> HIDE DEF w
      <4>6. /\ t \in TableType /\ t.svc = table.svc /\ t.reader = table.reader
            /\ t.sources = table.sources /\ t.server = table.server /\ t.known = table.known
            /\ t.writers = w
        BY <2>1, <4>2, <4>4, ZenonT(20) DEF TableType
      <4> QED BY <4>5, <4>6, Zenon
    <3>2. CASE line.mode[f] \notin Kind
      <4>1. t = table
        BY <3>2, Zenon DEF release_output_binding, output_mode_uses_binding
      <4> QED BY <2>1, <3>2, <4>1, Zenon DEF Others, BoundTo
    <3> QED BY <3>1, <3>2
  <2> HIDE DEF t
  <2>7. Released(table, line, f) = t
    BY <2>3, Zenon DEF Released, t
  <2>8. /\ u \in TableType /\ u.svc = table.svc /\ u.reader = table.reader
        /\ u.sources = table.sources /\ u.server = table.server
        /\ \A k \in Kind, s \in Stream :
             u.writers[k][s] = IF BoundTo(v, f, k, s) THEN m(k, s) + 1 ELSE m(k, s)
    <3>1. CASE o.mode \in Kind
      <4> DEFINE k == o.mode
                 s == o.to
                 K == [table.known EXCEPT ![k] = table.known[k] \cup {s}]
                 w == [t.writers EXCEPT ![k] = [t.writers[k] EXCEPT ![s] = t.writers[k][s] + 1]]
      <4>1. u = [[t EXCEPT !.known = K] EXCEPT !.writers = w]
        <5>1. FindOrAdd(t, k, s) = [t EXCEPT !.known = K]
          BY <2>6, Zenon DEF FindOrAdd
        <5>2. FindOrAdd(t, k, s).writers = t.writers
          BY <2>6, <5>1, Zenon DEF TableType
        <5> QED BY <2>3, <2>7, <3>1, <5>1, <5>2, Zenon
                DEF StdioTable, Bound, add_output_binding_ref
      <4>2. t.writers[k][s] + 1 \in Nat /\ s \in Stream /\ t.writers \in [Kind -> [Stream -> Nat]]
        BY <2>4, <2>5, <2>6, <3>1, TableFields
      <4>3. w \in [Kind -> [Stream -> Nat]] /\ K \in [Kind -> SUBSET Stream]
        BY <2>1, <3>1, <4>2, Zenon
      <4>4. \A j \in Kind, r \in Stream :
              w[j][r] = IF BoundTo(v, f, j, r) THEN t.writers[j][r] + 1 ELSE t.writers[j][r]
        BY <2>2, <3>1, <4>2, Zenon DEF BoundTo
      <4> HIDE DEF w, K
      <4>5. /\ u \in TableType /\ u.svc = t.svc /\ u.reader = t.reader
            /\ u.sources = t.sources /\ u.server = t.server /\ u.writers = w
        BY <2>6, <4>1, <4>3, ZenonT(20) DEF TableType
      <4> QED BY <2>6, <4>4, <4>5, Zenon
    <3>2. CASE o.mode \notin Kind
      <4>1. u = t
        BY <2>7, <3>2, Zenon DEF StdioTable
      <4>2. \A k \in Kind, s \in Stream : ~BoundTo(v, f, k, s)
        BY <2>2, <3>2, Zenon DEF BoundTo
      <4> QED BY <2>6, <4>1, <4>2, Zenon
    <3> QED BY <3>1, <3>2
  <2> HIDE DEF u, v
  <2>9. ASSUME NEW k \in Kind, NEW s \in Stream
        PROVE  u.writers[k][s] = Cardinality(Refs(u, v, k, s))
    <3>1. \A g \in Output \ {f} : v.mode[g] = line.mode[g] /\ v.to[g] = line.to[g]
      BY <2>2, <2>3, Zenon
    <3>2. Cardinality(Refs(u, v, k, s)) = IF BoundTo(v, f, k, s) THEN m(k, s) + 1 ELSE m(k, s)
      BY <2>1, <2>3, <2>8, <3>1, <1>WritersRebound, ZenonT(30)
    <3> QED BY <2>8, <3>2, Zenon
  <2> QED BY <2>8, <2>9, Zenon DEF WritersMatch, u, v
\* An option that binds the input of the line.
<1>InputBound. ASSUME PairFacts, TableInv, line # <<>>, NEW o \in Option, o.opt = "stdio",
                      o.fd = "in", StdioFits(o)
               PROVE  LET u == StdioTable(o)
                          v == StdioLine(o)
                      IN  /\ u \in TableType /\ u.svc = table.svc /\ u.writers = table.writers
                          /\ u.sources = table.sources /\ u.server = table.server
                          /\ ReadersMatch(u, v)
  <2> USE <1>InputBound
  <2> DEFINE n == Len(table.svc) + 1
             v == StdioLine(o)
             t == clear_input_binding(table, line)
             u == StdioTable(o)
             reader(s) == IF BoundTo(v, "in", "channel", s) THEN n
                          ELSE IF BoundTo(line, "in", "channel", s) THEN 0
                          ELSE table.reader[s]
  <2>1. /\ table \in TableType /\ ReadersMatch(table, line) /\ Binds(line) /\ line \in Service
        /\ LineInv /\ table.reader \in [Stream -> Nat] /\ table.known \in [Kind -> SUBSET Stream]
    BY TableFields, Zenon DEF TableInv, LineInv
  <2>2. /\ v \in Service /\ v.mode["in"] = o.mode /\ (o.mode \in Kind => v.to["in"] = o.to)
    BY <2>1, <1>StdioLineFacts, Zenon
  <2>3. v # <<>> /\ "in" \in Fd /\ "channel" \in Kind
    BY <2>2, ServiceIsSome DEF Fd, Kind
  <2>4. o.mode \in Mode /\ (o.mode \in Kind => o.to \in Stream)
    BY <1>OptionKinds
  <2>5. n \in Nat /\ This = n
    BY <2>1, TableFields DEF This
  <2> HIDE DEF n
  <2>6. /\ t \in TableType /\ t.svc = table.svc /\ t.writers = table.writers
        /\ t.sources = table.sources /\ t.server = table.server /\ t.known = table.known
        /\ \A s \in Stream : t.reader[s] = IF BoundTo(line, "in", "channel", s) THEN 0
                                           ELSE table.reader[s]
    <3>1. CASE line.mode["in"] = "channel"
      <4> DEFINE R == [table.reader EXCEPT ![line.to["in"]] = 0]
      <4>1. line.to["in"] \in Stream
        BY <2>1, <2>3, <3>1, Zenon DEF Binds
      <4>2. t = [table EXCEPT !.reader = R]
        BY <3>1, Zenon DEF clear_input_binding
      <4>3. 0 \in Nat
        OBVIOUS
      <4>4. R \in [Stream -> Nat]
        BY <2>1, <4>1, <4>3, Zenon
      <4>5. \A s \in Stream : R[s] = IF BoundTo(line, "in", "channel", s) THEN 0 ELSE table.reader[s]
        BY <2>1, <3>1, <4>1, Zenon DEF BoundTo
      <4> HIDE DEF R
      <4>6. /\ t \in TableType /\ t.svc = table.svc /\ t.writers = table.writers
            /\ t.sources = table.sources /\ t.server = table.server /\ t.known = table.known
            /\ t.reader = R
        BY <2>1, <4>2, <4>4, ZenonT(20) DEF TableType
      <4> QED BY <4>5, <4>6, Zenon
    <3>2. CASE line.mode["in"] # "channel"
      <4>1. t = table
        BY <3>2, Zenon DEF clear_input_binding
      <4>2. \A s \in Stream : ~BoundTo(line, "in", "channel", s)
        BY <3>2, Zenon DEF BoundTo
      <4> QED BY <2>1, <4>1, <4>2, Zenon
    <3> QED BY <3>1, <3>2
  <2> HIDE DEF t
  <2>7. Released(table, line, "in") = t
    BY Zenon DEF Released, t
  <2>8. /\ u \in TableType /\ u.svc = table.svc /\ u.writers = table.writers
        /\ u.sources = table.sources /\ u.server = table.server
        /\ \A s \in Stream : u.reader[s] = reader(s)
    <3>1. CASE o.mode \in Kind
      <4> DEFINE K == [table.known EXCEPT ![o.mode] = table.known[o.mode] \cup {o.to}]
                 w == [t EXCEPT !.known = K]
                 R == [t.reader EXCEPT ![o.to] = n]
      <4>1. w = FindOrAdd(t, o.mode, o.to)
        BY <2>6, Zenon DEF FindOrAdd
      <4>2. K \in [Kind -> SUBSET Stream]
        BY <2>1, <2>4, <3>1, Zenon
      <4> HIDE DEF K
      <4>3. /\ w \in TableType /\ w.svc = t.svc /\ w.writers = t.writers
            /\ w.sources = t.sources /\ w.server = t.server /\ w.reader = t.reader
        BY <2>6, <4>2, ZenonT(20) DEF TableType
      <4> HIDE DEF w
      <4>4. u = IF o.mode = "channel" THEN [w EXCEPT !.reader = R] ELSE w
        BY <2>5, <2>7, <3>1, <4>1, <4>3, Zenon DEF StdioTable, Bound
      <4>5. CASE o.mode = "channel"
        <5>1. t.reader \in [Stream -> Nat]
          BY <2>6, TableFields, Zenon
        <5>2. R \in [Stream -> Nat]
          BY <2>4, <2>5, <3>1, <5>1, Zenon
        <5>3. \A s \in Stream : R[s] = reader(s)
          BY <2>2, <2>4, <2>6, <3>1, <4>5, <5>1, Zenon DEF BoundTo
        <5> HIDE DEF R
        <5>4. /\ u \in TableType /\ u.svc = w.svc /\ u.writers = w.writers
              /\ u.sources = w.sources /\ u.server = w.server /\ u.reader = R
          BY <4>3, <4>4, <4>5, <5>2, ZenonT(20) DEF TableType
        <5> QED BY <2>6, <4>3, <5>3, <5>4, Zenon
      <4>6. CASE o.mode # "channel"
        <5>1. \A s \in Stream : ~BoundTo(v, "in", "channel", s)
          BY <2>2, <4>6, Zenon DEF BoundTo
        <5> QED BY <2>6, <4>3, <4>4, <4>6, <5>1, Zenon
      <4> QED BY <4>5, <4>6
    <3>2. CASE o.mode \notin Kind
      <4>1. u = t
        BY <2>7, <3>2, Zenon DEF StdioTable
      <4>2. \A s \in Stream : ~BoundTo(v, "in", "channel", s)
        BY <2>2, <2>3, <3>2, Zenon DEF BoundTo
      <4> QED BY <2>6, <4>1, <4>2, Zenon
    <3> QED BY <3>1, <3>2
  <2> HIDE DEF u, v
  <2>9. /\ n \in Nat \ {0} /\ Last(table, line) = n /\ Last(u, v) = n
        /\ Row(table, line, n) = line /\ Row(u, v, n) = v
        /\ \A i \in 1 .. n : i # n => Row(u, v, i) = Row(table, line, i)
    BY <2>1, <2>3, <2>8, <1>RowsAfter DEF n
  <2>10. ASSUME NEW s \in Stream
         PROVE  /\ u.reader[s] \in 0 .. n
                /\ \A i \in 1 .. n : BoundTo(Row(u, v, i), "in", "channel", s) <=> u.reader[s] = i
    <3>1. /\ table.reader[s] \in 0 .. n
          /\ \A i \in 1 .. n :
               BoundTo(Row(table, line, i), "in", "channel", s) <=> table.reader[s] = i
      BY <2>1, <2>9, Zenon DEF ReadersMatch
    <3>2. BoundTo(line, "in", "channel", s) <=> table.reader[s] = n
      BY <2>9, <3>1
    <3>3. BoundTo(v, "in", "channel", s) => table.reader[s] \in {0, n}
      BY <2>2, <2>3, <2>5, Zenon DEF StdioFits, BoundTo
    <3>4. u.reader[s] = reader(s)
      BY <2>8, Zenon
    <3> QED BY <2>9, <3>1, <3>2, <3>3, <3>4
  <2> QED BY <2>8, <2>9, <2>10, Zenon DEF ReadersMatch, u, v
\* The writers do not change with the input, nor the reader with an output.
<1>OtherHandle. ASSUME table \in TableType, line # <<>>, NEW v, v # <<>>, NEW u, u.svc = table.svc
                PROVE  /\ /\ WritersMatch(table, line) /\ u.writers = table.writers
                          /\ \A f \in Output : v.mode[f] = line.mode[f] /\ v.to[f] = line.to[f]
                          => WritersMatch(u, v)
                       /\ /\ ReadersMatch(table, line) /\ u.reader = table.reader
                          /\ v.mode["in"] = line.mode["in"] /\ v.to["in"] = line.to["in"]
                          => ReadersMatch(u, v)
  <2> USE <1>OtherHandle
  <2> DEFINE n == Len(table.svc) + 1
  <2>1. /\ Last(table, line) = n /\ Last(u, v) = n
        /\ Row(table, line, n) = line /\ Row(u, v, n) = v
        /\ \A i \in 1 .. n : i # n => Row(u, v, i) = Row(table, line, i)
    BY <1>RowsAfter
  <2> HIDE DEF n
  <2>2. ASSUME \A f \in Output : v.mode[f] = line.mode[f] /\ v.to[f] = line.to[f],
               WritersMatch(table, line), u.writers = table.writers
        PROVE  WritersMatch(u, v)
    <3>1. ASSUME NEW k \in Kind, NEW s \in Stream
          PROVE  Refs(u, v, k, s) = Refs(table, line, k, s)
      <4>1. \A i \in 1 .. n, f \in Output :
              BoundTo(Row(u, v, i), f, k, s) <=> BoundTo(Row(table, line, i), f, k, s)
        BY <2>1, <2>2, Zenon DEF BoundTo
      <4> QED BY <2>1, <4>1 DEF Refs
    <3> QED BY <2>2, <3>1, Zenon DEF WritersMatch
  <2>3. ASSUME ReadersMatch(table, line), u.reader = table.reader,
               v.mode["in"] = line.mode["in"], v.to["in"] = line.to["in"]
        PROVE  ReadersMatch(u, v)
    <3>1. \A i \in 1 .. n, s \in Stream :
            BoundTo(Row(u, v, i), "in", "channel", s) <=>
            BoundTo(Row(table, line, i), "in", "channel", s)
      BY <2>1, <2>3, Zenon DEF BoundTo
    <3> QED BY <2>1, <2>3, <3>1, Zenon DEF ReadersMatch
  <2> QED BY <2>2, <2>3, Zenon
<1> DEFINE o == Head(Head(lines).options)
           v == LineWith(o)
           u == IF o.opt = "stdio" THEN StdioTable(o) ELSE table
<1>1. CASE Refuse
  BY <1>1, RefuseStep, Zenon
<1>2. CASE /\ Takes(o) /\ line' = v /\ table' = u
           /\ lines' = [lines EXCEPT ![1].options = Tail(Head(lines).options)]
           /\ UNCHANGED from
  <2>1. /\ line # <<>> /\ lines \in Text /\ lines # <<>> /\ Head(lines).options # <<>>
        /\ from # "none" /\ LineInv /\ table \in TableType /\ line \in Service /\ Binds(line)
        /\ line.deps \subseteq 1 .. Len(table.svc) /\ Len(table.svc) < MaxServices
        /\ WritersMatch(table, line) /\ ReadersMatch(table, line)
    BY Zenon DEF ReadOption, Reading, TableInv, LineInv
  <2>2. o \in Option /\ lines' \in Text /\ lines' # <<>>
    BY <1>2, <2>1, <1>OptionsLeft, Zenon
  <2> HIDE DEF o
  <2>3. /\ v \in Service /\ Binds(v) /\ v.deps \subseteq 1 .. Len(table.svc)
        /\ u \in TableType /\ u.svc = table.svc
        /\ u.sources = table.sources /\ u.server = table.server
        /\ WritersMatch(u, v) /\ ReadersMatch(u, v)
    <3>1. CASE o.opt # "stdio"
      <4>1. /\ v \in Service /\ v.mode = line.mode /\ v.to = line.to
            /\ v.deps \subseteq 1 .. Len(table.svc)
        BY <1>2, <2>1, <2>2, <3>1, <1>PlainOption, Zenon
      <4>2. u = table /\ v # <<>>
        BY <3>1, <4>1, ServiceIsSome, Zenon
      <4> HIDE DEF u, v
      <4>3. WritersMatch(u, v) /\ ReadersMatch(u, v)
        BY <2>1, <4>1, <4>2, <1>OtherHandle, Zenon
      <4> QED BY <2>1, <4>1, <4>2, <4>3, Zenon DEF Binds
    <3>2. CASE o.opt = "stdio"
      <4>1. u = StdioTable(o) /\ v = StdioLine(o) /\ StdioFits(o) /\ o.fd \in Fd
        BY <1>2, <2>2, <3>2, <1>OptionKinds DEF LineWith, Takes
      <4> HIDE DEF u, v
      <4>2. /\ v \in Service /\ Binds(v) /\ v.deps = line.deps
            /\ \A f \in Fd \ {o.fd} : v.mode[f] = line.mode[f] /\ v.to[f] = line.to[f]
        BY <2>1, <2>2, <3>2, <4>1, <1>StdioLineFacts, Zenon
      <4>3. v # <<>>
        BY <4>2, ServiceIsSome, Zenon
      <4>4. CASE o.fd = "in"
        <5>1. /\ u \in TableType /\ u.svc = table.svc /\ u.writers = table.writers
              /\ u.sources = table.sources /\ u.server = table.server
              /\ ReadersMatch(u, v)
          BY <2>1, <2>2, <3>2, <4>1, <4>4, <1>InputBound, Zenon
        <5>2. \A f \in Output : f \in Fd \ {o.fd}
          BY <4>4 DEF Output, Fd
        <5>3. WritersMatch(u, v)
          BY <2>1, <4>2, <4>3, <5>1, <5>2, <1>OtherHandle, ZenonT(30)
        <5> QED BY <2>1, <4>2, <5>1, <5>3, Zenon
      <4>5. CASE o.fd \in Output
        <5>1. /\ u \in TableType /\ u.svc = table.svc /\ u.reader = table.reader
              /\ u.sources = table.sources /\ u.server = table.server
              /\ WritersMatch(u, v)
          BY <2>1, <2>2, <3>2, <4>1, <4>5, <1>OutputBound, Zenon
        <5>2. "in" \in Fd \ {o.fd}
          BY <4>5 DEF Output, Fd
        <5>3. ReadersMatch(u, v)
          BY <2>1, <4>2, <4>3, <5>1, <5>2, <1>OtherHandle, Zenon
        <5> QED BY <2>1, <4>2, <5>1, <5>3, Zenon
      <4> QED BY <4>1, <4>4, <4>5 DEF Fd, Output
    <3> QED BY <3>1, <3>2
  <2> HIDE DEF u, v
  <2>4. v # <<>>
    BY <2>3, ServiceIsSome, Zenon
  <2>5. Reading' /\ from' = from /\ line' = v /\ table' = u
    BY <1>2, <2>1, <2>2, Zenon DEF Reading
  <2>6. \A i \in 1 .. Len(u.svc) : RowInv(u, i, u.svc[i])
    <3>1. \A i \in 1 .. Len(table.svc) : RowInv(table, i, table.svc[i])
      BY Zenon DEF TableInv
    <3>2. ASSUME NEW i, NEW w, RowInv(table, i, w)
          PROVE  RowInv(u, i, w)
      BY <2>3, <3>2, Zenon DEF RowInv
    <3> QED BY <2>3, <3>1, <3>2
  <2> QED BY <2>1, <2>2, <2>3, <2>4, <2>5, <2>6, Zenon DEF TableInv, LineInv
<1> QED BY <1>1, <1>2, Zenon DEF ReadOption

\* Reading the configuration keeps the table right.
LEMMA ReadConfigStep == ASSUME PairFacts, TableInv, ReadConfig PROVE TableInv'
BY BeginLineStep, ReadOptionStep, EndLineStep, RefuseStep, Zenon DEF ReadConfig, RefuseEmpty

\* Between two lines the counts are those of the services in the table.
LEMMA BindingsCountedHolds == ASSUME TableInv PROVE BindingsCounted
<1> SUFFICES ASSUME line = <<>>, NEW s \in Stream
             PROVE  /\ \A k \in Kind :
                         table.writers[k][s] =
                           Cardinality({b \in (DOMAIN table.svc) \X Output :
                                          /\ table.svc[b[1]].mode[b[2]] = k
                                          /\ table.svc[b[1]].to[b[2]] = s})
                    /\ table.reader[s] =
                         LET R == {i \in DOMAIN table.svc :
                                     table.svc[i].mode["in"] = "channel" /\ table.svc[i].to["in"] = s}
                         IN  IF R = {} THEN 0 ELSE CHOOSE i \in R : R = {i}
  BY Zenon DEF BindingsCounted
<1> DEFINE n == Len(table.svc)
           R == {i \in DOMAIN table.svc :
                   table.svc[i].mode["in"] = "channel" /\ table.svc[i].to["in"] = s}
<1>1. n \in Nat /\ DOMAIN table.svc = 1 .. n
  BY TableFields DEF TableInv
<1>2. Last(table, <<>>) = n /\ \A i \in 1 .. n : Row(table, <<>>, i) = table.svc[i]
  BY <1>1 DEF Last, Row
<1>3. ASSUME NEW k \in Kind
      PROVE  Refs(table, <<>>, k, s) = {b \in (DOMAIN table.svc) \X Output :
                                          /\ table.svc[b[1]].mode[b[2]] = k
                                          /\ table.svc[b[1]].to[b[2]] = s}
  <2>1. \A b \in (1 .. n) \X Output : b[1] \in 1 .. n
    OBVIOUS
  <2> QED BY <1>1, <1>2, <2>1, Zenon DEF Refs, BoundTo
<1>4. /\ table.reader[s] \in 0 .. n
      /\ \A i \in 1 .. n : i \in R <=> table.reader[s] = i
  <2>1. ReadersMatch(table, <<>>)
    BY Zenon DEF TableInv
  <2>2. \A i \in 1 .. n : i \in R <=> BoundTo(Row(table, <<>>, i), "in", "channel", s)
    BY <1>1, <1>2, Zenon DEF BoundTo
  <2> HIDE DEF R, n
  <2> QED BY <1>2, <2>1, <2>2, Zenon DEF ReadersMatch
<1>5. R \subseteq 1 .. n
  BY <1>1, Zenon
<1> HIDE DEF R
<1>6. table.reader[s] = IF R = {} THEN 0 ELSE CHOOSE i \in R : R = {i}
  <2>1. CASE R = {}
    BY <1>1, <1>4, <2>1
  <2>2. CASE R # {}
    <3>1. R = {table.reader[s]}
      BY <1>4, <1>5, <2>2, Zenon
    <3>2. \A i \in R : R = {i} => i = table.reader[s]
      BY <3>1, Zenon
    <3> QED BY <2>2, <3>1, <3>2, Zenon
  <2> QED BY <2>1, <2>2
<1> QED BY <1>3, <1>6, ZenonT(30) DEF TableInv, WritersMatch, R

-----------------------------------------------------------------------------
(* The services and the streams                                            *)

End == [r : BOOLEAN, w : BOOLEAN, pipe : Nat, writers : Nat, spawned : Nat]
RunTypes ==
  /\ at \in 1 .. N + 1 /\ pc \in {"boot", "start", "wait", "sleep", "loop", "ended"}
  /\ fails \in Nat /\ spawned \in BOOLEAN
  /\ ready \subseteq 0 .. MaskBits - 1 /\ started \subseteq 1 .. N
  /\ daemon \in [Places -> [phase : {"none", "running", "backoff", "stopped"},
                            failures : Nat]]
  /\ inst \in [Places -> {"none", "run", "ok", "bad"}]
  /\ chan \in [Stream -> End]
  /\ source \subseteq table.sources
  /\ hold \subseteq (1 .. N) \X {"r", "w"} \X Stream \X Nat
  /\ starts \in [Places -> 0 .. 2] /\ spawnFails \in 0 .. MaxSpawnFails

\* Nothing has run while the configuration is read.
BootInv ==
  IF pc = "boot"
    THEN /\ at = 1 /\ ~spawned /\ started = {} /\ ready = {} /\ hold = {} /\ source = {}
         /\ \A i \in Places : /\ inst[i] = "none" /\ starts[i] = 0
                              /\ daemon[i].phase = "none"
         /\ \A s \in Stream : /\ ~chan[s].r /\ ~chan[s].w
                              /\ chan[s].writers = 0 /\ chan[s].spawned = 0
    ELSE ~Reading
InRound == pc \in {"wait", "sleep"}

\* The processes init knows of, and when they were started.
ProcInv ==
  /\ ready = {Bit(i) : i \in started}
  /\ InRound => at <= N /\ svc[at].type # "daemon" /\ Met(at)
  /\ InRound => (spawned <=> starts[at] > 0)
  /\ pc = "wait" => spawned
  /\ pc = "start" => ~spawned
  /\ \A i \in Places :
       /\ inst[i] # "none" <=> daemon[i].phase = "running" \/ (pc = "wait" /\ at = i)
       /\ daemon[i].phase # "none" =>
            i \in 1 .. N /\ svc[i].type = "daemon" /\ i < at /\ starts[i] > 0
       /\ starts[i] > 0 => /\ i \in 1 .. N /\ Met(i)
                           /\ i < at \/ (i = at /\ InRound)
  /\ \A i \in started : i < at
HoldInv ==
  /\ \A h \in hold : inst[h[1]] = "run"
  /\ \A g, h \in hold : g[1] = h[1] /\ g[2] = h[2] /\ g[3] = h[3] => g = h

\* The output bindings to s of the services main has not got past or started.
Pending(s) ==
  {b \in (1 .. N) \X Output :
     /\ OnChannel(svc[b[1]], b[2]) /\ svc[b[1]].to[b[2]] = s
     /\ b[1] >= at /\ starts[b[1]] = 0}

\* Channel c of stream s, with m bindings pending and the ends H held, counts at
\* most the writers that were started or may still be, and has its write end
\* closed in init when none may be and its reader runs.
Count(c, m, H, s) ==
  /\ c.spawned <= 2 * MaxServices /\ c.writers <= 2 * MaxServices
  /\ c.writers <= c.spawned + m
  /\ c.w /\ (\E h \in H : h[2] = "r" /\ h[3] = s /\ h[4] = c.pipe)
       => c.spawned < c.writers
CountInv(s) == Count(chan[s], Cardinality(Pending(s)), hold, s)

\* As long as the reader i of channel c and its writers W are started once at
\* most, the channel has one pipe, and init keeps the ends that are still to be
\* handed out.
OnPipe(c, m, H, I, S, W, i, s, p) ==
  /\ I[i] = "run" => <<i, "r", s, p>> \in H
  /\ \A j \in W : I[j] = "run" => <<j, "w", s, p>> \in H
  /\ S[i] = 0 => c.r /\ c.pipe = p
  /\ m > 0 => c.w /\ c.pipe = p
Unused(c, S, W, i) == S[i] = 0 /\ (\A j \in W : S[j] = 0) /\ ~c.r /\ ~c.w
Once(S, W, i) == S[i] <= 1 /\ \A j \in W : S[j] <= 1
Link(c, m, H, I, S, W, i, s) ==
  Once(S, W, i) => /\ c.writers = c.spawned + m
                   /\ Unused(c, S, W, i) \/ \E p \in Nat : OnPipe(c, m, H, I, S, W, i, s, p)
LinkInv(i, s) == Link(chan[s], Cardinality(Pending(s)), hold, inst, starts, Writers(s), i, s)
StreamInv ==
  pc # "boot" =>
    /\ \A s \in Stream : CountInv(s)
    /\ \A i \in 1 .. N, s \in Stream : BoundTo(svc[i], "in", "channel", s) => LinkInv(i, s)
IInv ==
  /\ TableInv /\ RunTypes /\ BootInv /\ ProcInv /\ HoldInv /\ StreamInv /\ LogPipeKept

\* The service whose time is over is the one main waits for; the services with
\* a process that is not waited for are one-shot or supervised with a timeout.
Timed == {i \in 1 .. N : svc[i].type # "daemon" /\ svc[i].timeout}
LeftInv ==
  /\ expired \in BOOLEAN
  /\ expired => pc = "wait" /\ at \in Timed
  /\ left # {} => pc # "boot"
  /\ left \subseteq Timed

-----------------------------------------------------------------------------
(* The table once it is read, and the bindings that are pending            *)

\* What the table says of the services in it.
LEMMA Services ==
  ASSUME TableInv
  PROVE  /\ N \in Nat /\ MaxServices \in Nat /\ N <= MaxServices
         /\ \A i \in 1 .. N : /\ i \in Places /\ svc[i] \in Service
                              /\ Binds(svc[i]) /\ RowInv(table, i, svc[i])
<1>1. svc \in Seq(Service)
  BY TableFields, Zenon DEF TableInv, svc
<1>2. N \in Nat /\ \A i \in 1 .. N : svc[i] \in Service
  BY <1>1 DEF N
<1>3. MaxServices \in Nat /\ N <= MaxServices
  BY ConfigAssumption, Zenon DEF TableInv, N, svc
<1>4. \A i \in 1 .. N : i \in Places
  BY <1>2, <1>3 DEF Places
<1>5. \A i \in 1 .. N : RowInv(table, i, svc[i])
  BY Zenon DEF TableInv, N, svc
<1> QED BY <1>2, <1>3, <1>4, <1>5, Zenon DEF RowInv

\* What is pending is a set of output bindings.
LEMMA PendingSet ==
  ASSUME PairFacts, TableInv, NEW s
  PROVE  /\ Pending(s) \in SUBSET ((1 .. N) \X Output)
         /\ Cardinality(Pending(s)) \in Nat
         /\ Cardinality(Pending(s)) <= 2 * MaxServices
         /\ Pending(s) # {} => Cardinality(Pending(s)) > 0
<1>1. N \in Nat /\ MaxServices \in Nat /\ N <= MaxServices
  BY Services, Zenon
<1>2. Pending(s) \in SUBSET ((1 .. N) \X Output)
  BY Zenon DEF Pending
<1> DEFINE A == Pending(s)
<1> HIDE DEF A
<1>3. A \in SUBSET ((1 .. N) \X Output)
  BY <1>2, Zenon DEF A
<1>4. Cardinality(A) \in 0 .. 2 * N /\ (A # {} => Cardinality(A) > 0)
  BY <1>1, <1>3 DEF PairFacts
<1>5. Cardinality(A) \in Nat /\ Cardinality(A) <= 2 * MaxServices
  BY <1>1, <1>4
<1> QED BY <1>2, <1>4, <1>5, Zenon DEF A

-----------------------------------------------------------------------------
(* What the invariant says of the properties                               *)

\* As long as there are no more services than bits, each has a bit of its own.
LEMMA OwnBit ==
  ASSUME NEW n \in Nat, n <= MaskBits, NEW i \in 1 .. n, NEW j \in 1 .. n, Bit(i) = Bit(j)
  PROVE  i = j
<1>1. MaskBits \in Nat /\ MaskBits > 0
  BY SupervisorAssumption
<1>2. \A k \in 1 .. n : Bit(k) = k - 1
  BY <1>1, SMTT(30) DEF Bit
<1> QED BY <1>2

\* The fields of a channel have their types, and records of that kind are made.
LEMMA EndFields ==
  \A a \in End : /\ a.r \in BOOLEAN /\ a.w \in BOOLEAN
                 /\ a.pipe \in Nat /\ a.writers \in Nat /\ a.spawned \in Nat
BY Zenon DEF End

\* init's view of its services.
LEMMA Tracked == ASSUME IInv, LeftInv PROVE ServicesTracked
<1>1. TableInv /\ RunTypes /\ ProcInv
  BY Zenon DEF IInv
<1>2. /\ N \in Nat /\ MaxServices \in Nat /\ N <= MaxServices
      /\ \A i \in 1 .. N : i \in Places /\ RowInv(table, i, svc[i])
  BY <1>1, Services, Zenon
<1>3. TypeOK
  <2>1. N \in 0 .. MaxServices
    BY <1>2
  <2>2. \A h \in hold : h[1] \in 1 .. N /\ h[2] \in {"r", "w"} /\ h[3] \in Stream
    BY <1>1 DEF RunTypes
  <2>3. \A s \in Stream : chan[s].writers \in Nat /\ chan[s].spawned \in Nat
    BY <1>1, EndFields, Zenon DEF RunTypes
  <2>4. expired \in BOOLEAN /\ left \subseteq 1 .. N
    BY Zenon DEF LeftInv, Timed
  <2> QED BY <1>1, <2>1, <2>2, <2>3, <2>4, Zenon DEF TypeOK, RunTypes, TableInv
<1>4. NoneLeftBehind
  <2>1. ASSUME NEW i \in 1 .. N
        PROVE  IF svc[i].type = "daemon"
                 THEN inst[i] # "none" <=> daemon[i].phase = "running"
                 ELSE inst[i] # "none" <=> pc = "wait" /\ at = i
    <3>1. /\ inst[i] # "none" <=> daemon[i].phase = "running" \/ (pc = "wait" /\ at = i)
          /\ daemon[i].phase # "none" => svc[i].type = "daemon"
      BY <1>1, <1>2, Zenon DEF ProcInv
    <3>2. pc = "wait" /\ at = i => svc[i].type # "daemon"
      <4>1. pc = "wait" => InRound
        BY DEF InRound
      <4> QED BY <1>1, <4>1, Zenon DEF ProcInv
    <3>3. daemon[i].phase = "running" => daemon[i].phase # "none"
      OBVIOUS
    <3> QED BY <3>1, <3>2, <3>3, Zenon
  <2>2. \A i \in left : svc[i].type # "daemon" /\ svc[i].timeout
    BY Zenon DEF LeftInv, Timed
  <2> QED BY <2>1, <2>2, Zenon DEF NoneLeftBehind
<1>5. DepsStarted
  <2>1. ASSUME N <= MaskBits, NEW i \in 1 .. N, starts[i] > 0, NEW d \in svc[i].deps
        PROVE  d \in started
    <3>1. Bit(d) \in ready
      BY <1>1, <1>2, <2>1, Zenon DEF ProcInv, Met
    <3>2. PICK j \in started : Bit(d) = Bit(j)
      BY <1>1, <3>1, Zenon DEF ProcInv
    <3>3. j \in 1 .. N
      BY <1>1, Zenon DEF RunTypes
    <3>4. d \in 1 .. i - 1
      BY <1>2, <2>1, Zenon DEF RowInv
    <3>5. d \in 1 .. N
      BY <1>2, <3>4
    <3> QED BY <1>2, <2>1, <3>2, <3>3, <3>5, OwnBit, Zenon
  <2> QED BY <2>1, Zenon DEF DepsStarted
<1> QED BY <1>3, <1>4, <1>5, Zenon DEF ServicesTracked

\* A reader whose writers are all past reads its end of file.
LEMMA EofReached == ASSUME PairFacts, IInv PROVE EofComes
<1>1. TableInv /\ RunTypes /\ BootInv /\ HoldInv /\ StreamInv
  BY Zenon DEF IInv
<1>2. ASSUME NEW h \in hold, h[2] = "r", \A i \in Writers(h[3]) : Past(i),
             ~\E g \in hold : g[2] = "w" /\ g[3] = h[3] /\ g[4] = h[4],
             chan[h[3]].w, chan[h[3]].pipe = h[4]
      PROVE  FALSE
  <2> DEFINE s == h[3]
             m == Cardinality(Pending(s))
  <2>1. s \in Stream /\ pc # "boot"
    <3>1. h \in (1 .. N) \X {"r", "w"} \X Stream \X Nat
      BY <1>1, Zenon DEF RunTypes
    <3>2. s \in Stream
      BY <3>1
    <3> QED BY <1>1, <3>2, Zenon DEF BootInv
  <2>2. Count(chan[s], m, hold, s)
    BY <1>1, <2>1, Zenon DEF StreamInv, CountInv
  <2>3. chan[s].spawned < chan[s].writers /\ chan[s].writers <= chan[s].spawned + m
    BY <1>2, <2>2, Zenon DEF Count
  <2>4. chan[s] \in End
    BY <1>1, <2>1, Zenon DEF RunTypes
  <2>5. chan[s].writers \in Nat /\ chan[s].spawned \in Nat
    BY <2>4, EndFields, Zenon
  <2>6. m \in Nat /\ (Pending(s) = {} => m = 0)
    <3>1. Cardinality({}) = 0
      <4>1. 0 \in Nat /\ {} \in SUBSET ((1 .. 0) \X Output)
        OBVIOUS
      <4> QED BY <4>1 DEF PairFacts
    <3> QED BY <1>1, <3>1, PendingSet, Zenon
  <2>7. Pending(s) # {}
    <3> HIDE DEF m, s
    <3> QED BY <2>3, <2>5, <2>6
  <2>8. PICK b \in (1 .. N) \X Output :
               /\ OnChannel(svc[b[1]], b[2]) /\ svc[b[1]].to[b[2]] = s /\ b[1] >= at
    BY <2>7, Zenon DEF Pending
  <2>9. b[1] \in 1 .. N /\ b[2] \in Output
    OBVIOUS
  <2>10. b[1] \in Writers(s)
    BY <2>8, <2>9, Zenon DEF Writers
  <2>11. b[1] < at
    BY <1>2, <2>10, Zenon DEF Past
  <2>12. N \in Nat /\ at \in 1 .. N + 1
    BY <1>1, Services, Zenon DEF RunTypes
  <2> QED BY <2>8, <2>9, <2>11, <2>12
<1> QED BY <1>2, Zenon DEF EofComes, AtEof

\* The ends of a channel are those of one pipe.
LEMMA EndsMeet == ASSUME PairFacts, IInv PROVE Connected
<1>1. TableInv /\ RunTypes /\ BootInv /\ HoldInv /\ StreamInv /\ ProcInv
  BY Zenon DEF IInv
<1>2. ASSUME NEW i \in 1 .. N, NEW j \in 1 .. N, NEW s, inst[i] = "run", inst[j] = "run",
             OnChannel(svc[i], "in"), s = svc[i].to["in"], j \in Writers(s),
             starts[i] = 1, \A w \in Writers(s) : starts[w] <= 1
      PROVE  \E p \in {h[4] : h \in hold} :
               <<i, "r", s, p>> \in hold /\ <<j, "w", s, p>> \in hold
  <2>1. BoundTo(svc[i], "in", "channel", s)
    BY <1>2, Zenon DEF OnChannel, BoundTo
  <2>2. i \in Places /\ "in" \in Fd /\ "channel" \in Kind /\ Binds(svc[i])
    BY <1>1, Services DEF Fd, Kind
  <2>3. s \in Stream
    BY <1>2, <2>2, Zenon DEF Binds, OnChannel
  <2>4. pc # "boot"
    <3>1. "run" # "none"
      OBVIOUS
    <3> QED BY <1>1, <1>2, <2>2, <3>1, Zenon DEF BootInv
  <2> DEFINE c == chan[s]
             m == Cardinality(Pending(s))
             W == Writers(s)
  <2>5. Link(c, m, hold, inst, starts, W, i, s)
    BY <1>1, <2>1, <2>3, <2>4, Zenon DEF StreamInv, LinkInv
  <2>6. starts[i] <= 1 /\ starts[i] # 0
    <3>1. 1 <= 1 /\ 1 # 0
      OBVIOUS
    <3> QED BY <1>2, <3>1, Zenon
  <2>7. PICK p \in Nat : OnPipe(c, m, hold, inst, starts, W, i, s, p)
    <3>1. Once(starts, W, i)
      BY <1>2, <2>6, Zenon DEF Once
    <3>2. ~Unused(c, starts, W, i)
      BY <2>6, Zenon DEF Unused
    <3> QED BY <2>5, <3>1, <3>2, Zenon DEF Link
  <2>8. <<i, "r", s, p>> \in hold /\ <<j, "w", s, p>> \in hold
    BY <1>2, <2>7, Zenon DEF OnPipe
  <2>9. <<i, "r", s, p>>[4] = p
    OBVIOUS
  <2> QED BY <2>8, <2>9, Zenon
<1> QED BY <1>2, Zenon DEF Connected

\* The streams between services.
LEMMA Works == ASSUME PairFacts, IInv PROVE StreamsWork
BY EofReached, EndsMeet, Zenon DEF StreamsWork, IInv

-----------------------------------------------------------------------------
(* Before main runs                                                        *)

\* Nothing has been started.
Rest ==
  /\ at = 1 /\ ~spawned /\ started = {} /\ ready = {} /\ hold = {} /\ source = {}
  /\ \A i \in Places : inst[i] = "none" /\ starts[i] = 0 /\ daemon[i].phase = "none"
RestTypes ==
  /\ fails \in Nat /\ spawned \in BOOLEAN /\ spawnFails \in 0 .. MaxSpawnFails
  /\ daemon \in [Places -> [phase : {"none", "running", "backoff", "stopped"},
                            failures : Nat]]
  /\ inst \in [Places -> {"none", "run", "ok", "bad"}]
  /\ starts \in [Places -> 0 .. 2] /\ chan \in [Stream -> End]
Unopened ==
  \A s \in Stream : ~chan[s].r /\ ~chan[s].w /\ chan[s].writers = 0 /\ chan[s].spawned = 0

\* The services that log, and the log server.
LEMMA LogFacts ==
  ASSUME TableInv
  PROVE  /\ table.sources \subseteq 1 .. N /\ table.sources \subseteq Places
         /\ \A i \in 1 .. N : i \in table.sources <=> UsesSyslog(svc[i])
         /\ ~Reading => \A i \in table.sources : i > table.server
         /\ \A i \in 1 .. N : svc[i].server => table.server = i /\ svc[i].policy = "never"
<1>1. table.sources \subseteq 1 .. N
  BY Zenon DEF TableInv, N, svc
<1>2. table.sources \subseteq Places
  BY <1>1, Services, Zenon
<1>3. ~Reading => \A i \in table.sources : i > table.server
  BY Zenon DEF TableInv, validate_syslog_topology
<1> QED BY <1>1, <1>2, <1>3, Services, Zenon DEF RowInv, UsesSyslog

\* Then all is well but for the channels, whatever the table.
LEMMA RestIsFine ==
  TableInv /\ Rest /\ RestTypes /\ pc \in {"boot", "start", "ended"}
    => RunTypes /\ ProcInv /\ HoldInv /\ LogPipeKept
<1> SUFFICES ASSUME TableInv, Rest, RestTypes, pc \in {"boot", "start", "ended"}
             PROVE  RunTypes /\ ProcInv /\ HoldInv /\ LogPipeKept
  OBVIOUS
<1>1. N \in Nat /\ table.sources \subseteq Places
  BY Services, LogFacts, Zenon
<1>2. at \in 1 .. N + 1
  BY <1>1 DEF Rest
<1>3. /\ pc \in {"boot", "start", "wait", "sleep", "loop", "ended"} /\ ~InRound /\ pc # "wait"
      /\ pc \notin {"wait", "sleep"}
  BY DEF InRound
<1>4. RunTypes
  BY <1>2, <1>3, Zenon DEF RunTypes, Rest, RestTypes
<1>5. /\ "none" # "running" /\ ~(0 > 0)
      /\ "none" \notin {"running", "backoff"} /\ "none" # "stopped"
  OBVIOUS
<1>6. ready = {Bit(i) : i \in started}
  BY Zenon DEF Rest
<1>7. ProcInv
  BY <1>3, <1>5, <1>6, Zenon DEF ProcInv, Rest
<1>8. HoldInv /\ LogPipeKept
  BY <1>1, <1>3, <1>5, Zenon DEF HoldInv, LogPipeKept, Rest
<1> QED BY <1>4, <1>7, <1>8, Zenon

\* What is read of the invariant while the configuration is read.
LEMMA BootIs ==
  pc = "boot" => (IInv <=> TableInv /\ Rest /\ RestTypes /\ Unopened)
<1> SUFFICES ASSUME pc = "boot"
             PROVE  IInv <=> TableInv /\ Rest /\ RestTypes /\ Unopened
  OBVIOUS
<1>1. pc \in {"boot", "start", "ended"}
  OBVIOUS
<1>2. StreamInv
  BY Zenon DEF StreamInv
<1> QED BY <1>1, <1>2, RestIsFine, ZenonT(20) DEF IInv, RunTypes, BootInv, Rest, RestTypes, Unopened

\* The table does not change once it is read.
LEMMA TableKept == ASSUME TableInv, UNCHANGED config PROVE TableInv' /\ (Reading' <=> Reading)
<1>1. lines' = lines /\ line' = line /\ table' = table /\ from' = from
  BY DEF config
<1>2. Reading' <=> Reading
  BY <1>1, Zenon DEF Reading
<1>3. LineInv'
  BY <1>1, <1>2, Zenon DEF TableInv, LineInv
<1> QED BY <1>1, <1>2, <1>3, Zenon DEF TableInv

\* The channels when main begins: every output bound to them is awaited.
LEMMA BootStep == ASSUME PairFacts, IInv, Boot PROVE IInv'
<1>1. /\ pc = "boot" /\ ~Reading /\ pc' = (IF from = "none" THEN "ended" ELSE "start")
      /\ chan' = [s \in Stream |->
                    [chan[s] EXCEPT !.writers = table.writers["channel"][s]]]
      /\ UNCHANGED config /\ table' = table /\ at' = at /\ fails' = fails
      /\ spawned' = spawned /\ ready' = ready /\ daemon' = daemon /\ inst' = inst
      /\ source' = source /\ hold' = hold /\ started' = started /\ starts' = starts
      /\ spawnFails' = spawnFails
  BY DEF Boot, config
<1>2. TableInv /\ Rest /\ RestTypes /\ Unopened
  BY <1>1, BootIs, Zenon
<1>3. TableInv' /\ ~Reading'
  BY <1>1, <1>2, TableKept, Zenon
<1>4. pc' \in {"boot", "start", "ended"} /\ pc' # "boot"
  BY <1>1
<1>5. /\ N \in Nat /\ svc' = svc /\ N' = N /\ \A i \in 1 .. N : i \in Places
  BY <1>1, <1>2, Services, Zenon DEF svc, N
<1>6. ASSUME NEW s \in Stream
      PROVE  /\ table.writers["channel"][s] = Cardinality(Pending(s)')
             /\ Cardinality(Pending(s)') \in Nat
             /\ Cardinality(Pending(s)') <= 2 * MaxServices
  <2>1. line = <<>> /\ WritersMatch(table, <<>>)
    BY <1>1, <1>2, Zenon DEF TableInv, LineInv
  <2>2. Last(table, <<>>) = N /\ \A k \in 1 .. N : Row(table, <<>>, k) = svc[k]
    BY <1>5 DEF Last, Row, N, svc
  <2>3. \A b \in (1 .. N) \X Output : b[1] \in 1 .. N
    OBVIOUS
  <2>4. \A k \in 1 .. N : k >= at' /\ starts'[k] = 0
    <3>1. \A k \in 1 .. N : k >= 1
      BY <1>5
    <3> QED BY <1>1, <1>2, <1>5, <3>1, Zenon DEF Rest
  <2>5. Pending(s)' = Refs(table, <<>>, "channel", s)
    BY <1>5, <2>2, <2>3, <2>4, ZenonT(20) DEF Pending, Refs, BoundTo, OnChannel
  <2>6. "channel" \in Kind
    BY DEF Kind
  <2>7. table.writers["channel"][s] = Cardinality(Pending(s)')
    BY <2>1, <2>5, <2>6, Zenon DEF WritersMatch
  <2>8. Pending(s)' = Pending(s)
    BY <1>1, <1>5, Zenon DEF Pending
  <2> QED BY <1>2, <2>7, <2>8, PendingSet, Zenon
<1>7. ASSUME NEW s \in Stream
      PROVE  /\ chan'[s] \in End /\ ~chan'[s].r /\ ~chan'[s].w
             /\ chan'[s].spawned = 0 /\ chan'[s].writers = Cardinality(Pending(s)')
  <2> DEFINE w == table.writers["channel"][s]
             c == chan[s]
  <2>1. w \in Nat /\ w = Cardinality(Pending(s)')
    BY <1>6, Zenon
  <2>2. c \in End /\ ~c.r /\ ~c.w /\ c.spawned = 0
    BY <1>2, Zenon DEF RestTypes, Unopened
  <2>3. chan'[s] = [c EXCEPT !.writers = w]
    BY <1>1, Zenon
  <2> HIDE DEF w, c
  <2>4. /\ [c EXCEPT !.writers = w] \in End /\ ~[c EXCEPT !.writers = w].r
        /\ ~[c EXCEPT !.writers = w].w /\ [c EXCEPT !.writers = w].spawned = 0
        /\ [c EXCEPT !.writers = w].writers = w
    BY <2>1, <2>2 DEF End
  <2> QED BY <2>1, <2>3, <2>4, Zenon
<1>8. chan' \in [Stream -> End]
  BY <1>1, <1>7, Zenon
<1>9. Rest' /\ RestTypes'
  BY <1>1, <1>2, <1>8, Zenon DEF Rest, RestTypes
<1>10. RunTypes' /\ ProcInv' /\ HoldInv' /\ LogPipeKept'
  <2>1. (TableInv /\ Rest /\ RestTypes /\ pc \in {"boot", "start", "ended"}
           => RunTypes /\ ProcInv /\ HoldInv /\ LogPipeKept)'
    BY RestIsFine, PTL
  <2> QED BY <1>3, <1>4, <1>9, <2>1, Zenon
<1>11. ASSUME NEW s \in Stream
       PROVE  CountInv(s)'
  <2> DEFINE c == chan'[s]
             m == Cardinality(Pending(s)')
  <2>1. /\ m \in Nat /\ m <= 2 * MaxServices /\ ~c.w /\ c.spawned = 0 /\ c.writers = m
    BY <1>6, <1>7, Zenon
  <2>2. MaxServices \in Nat
    BY ConfigAssumption
  <2> HIDE DEF c, m
  <2>3. 0 <= 2 * MaxServices /\ m <= 0 + m
    BY <2>1, <2>2
  <2>4. Count(c, m, hold', s)
    BY <2>1, <2>3, Zenon DEF Count
  <2> QED BY <2>4, Zenon DEF CountInv, c, m
<1>12. ASSUME NEW i \in 1 .. N, NEW s \in Stream
       PROVE  LinkInv(i, s)'
  <2> DEFINE c == chan'[s]
             m == Cardinality(Pending(s)')
  <2>1. m \in Nat /\ ~c.w /\ ~c.r /\ c.spawned = 0 /\ c.writers = m
    BY <1>6, <1>7, Zenon
  <2>2. Writers(s)' \subseteq 1 .. N
    BY <1>5, Zenon DEF Writers
  <2>3. Unused(c, starts', Writers(s)', i)
    BY <1>1, <1>2, <1>5, <2>1, <2>2, Zenon DEF Unused, Rest
  <2> HIDE DEF c, m
  <2>4. m = 0 + m
    BY <2>1
  <2>5. Link(c, m, hold', inst', starts', Writers(s)', i, s)
    BY <2>1, <2>3, <2>4, Zenon DEF Link
  <2> QED BY <2>5, Zenon DEF LinkInv, c, m
<1>13. StreamInv'
  BY <1>5, <1>11, <1>12, Zenon DEF StreamInv
<1> QED BY <1>3, <1>4, <1>10, <1>13, Zenon DEF IInv, BootInv

\* Where init starts.
LEMMA InitHolds == ASSUME PairFacts, Init PROVE IInv
<1>1. TableInv
  BY ConfigInitHolds, Zenon DEF Init
<1>2. MaxSpawnFails \in Nat
  BY SupervisorAssumption
<1>3. Rest
  BY Zenon DEF Init, Rest
<1>4. RestTypes
  <2>1. /\ 0 \in Nat /\ FALSE \in BOOLEAN /\ 0 \in 0 .. MaxSpawnFails /\ 0 \in 0 .. 2
        /\ "none" \in {"none", "run", "ok", "bad"}
        /\ "none" \in {"none", "running", "backoff", "stopped"}
    BY <1>2
  <2> QED BY <2>1, ZenonT(20) DEF Init, RestTypes, End
<1>5. Unopened
  BY Zenon DEF Init, Unopened
<1> QED BY <1>1, <1>3, <1>4, <1>5, BootIs, Zenon DEF Init

\* A step of reading the configuration.
LEMMA ReadStepStep == ASSUME PairFacts, IInv, ReadStep PROVE IInv'
<1>1. pc = "boot" /\ ReadConfig
  BY Zenon DEF ReadStep
<1>2. /\ at' = at /\ pc' = pc /\ fails' = fails /\ spawned' = spawned /\ ready' = ready
      /\ daemon' = daemon /\ inst' = inst /\ chan' = chan /\ source' = source
      /\ hold' = hold /\ started' = started /\ starts' = starts
      /\ spawnFails' = spawnFails
  BY DEF ReadStep, run
<1>3. TableInv /\ Rest /\ RestTypes /\ Unopened
  BY <1>1, BootIs, Zenon
<1>4. TableInv'
  BY <1>1, <1>3, ReadConfigStep, Zenon
<1>5. Rest' /\ RestTypes' /\ Unopened'
  BY <1>2, <1>3, Zenon DEF Rest, RestTypes, Unopened
<1>6. (pc = "boot" => (IInv <=> TableInv /\ Rest /\ RestTypes /\ Unopened))'
  BY BootIs, PTL
<1> QED BY <1>1, <1>2, <1>3, <1>4, <1>5, <1>6, Zenon

-----------------------------------------------------------------------------
(* The state main and daemons_tick start from                              *)

\* Service v reads s.
ReadsFrom(v, s) == BoundTo(v, "in", "channel", s)

\* Every number a process may know a pipe of s by leaves one unused.
Fresh == \A s \in Stream : \E n \in 1 .. 2 * MaxServices + 1 :
                             \A h \in hold : h[3] = s => h[4] # n

\* The invariant of the streams while main runs.
StreamBody ==
  /\ \A s \in Stream : CountInv(s)
  /\ \A i \in 1 .. N, s \in Stream : ReadsFrom(svc[i], s) => LinkInv(i, s)

\* It is the invariant of the streams.
LEMMA StreamBodyIs == StreamInv <=> (pc # "boot" => StreamBody)
BY Zenon DEF StreamInv, StreamBody, ReadsFrom

\* The state the lemmas about the streams start from.
Base ==
  /\ PairFacts /\ Fresh /\ TableInv /\ RunTypes /\ BootInv /\ ProcInv /\ StreamBody
  /\ ~Reading

\* The types of what main does not decide alone.
ServiceTypes ==
  /\ daemon \in [Places -> [phase : {"none", "running", "backoff", "stopped"},
                            failures : Nat]]
  /\ inst \in [Places -> {"none", "run", "ok", "bad"}]
  /\ source \subseteq table.sources
  /\ starts \in [Places -> 0 .. 2] /\ spawnFails \in 0 .. MaxSpawnFails
HoldType == hold \subseteq (1 .. N) \X {"r", "w"} \X Stream \X Nat

\* What main and the services may do to the streams.
Passes == at' = at \/ (at' = at + 1 /\ starts[at] # 0)
QuietStep ==
  /\ table' = table /\ chan' = chan /\ starts' = starts /\ Passes /\ hold' \subseteq hold
  /\ \A j \in 1 .. N : inst'[j] = "run" =>
       inst[j] = "run" /\ \A h \in hold : h[1] = j => h \in hold'
BrokenStep(x) ==
  /\ table' = table /\ chan' \in Broken(x) /\ starts' = starts /\ Passes
  /\ hold' = hold /\ inst' = inst
DroppedStep(c) ==
  /\ at \in 1 .. N /\ table' = table /\ starts' = starts /\ hold' = hold /\ inst' = inst
  /\ chan' = release_unspawned_channel_writers(c, svc[at])
  /\ at' = at + 1 /\ starts[at] = 0
StartedStep(x) ==
  /\ SpawnWorks(x) /\ table' = table
  /\ at' = at \/ (at' = at + 1 /\ x = at)
  /\ starts[x] = 0 => x >= at

\* That the streams stand all of it is shown below; the steps of init rest on it.
StreamSteps ==
  Base =>
    /\ QuietStep => StreamBody'
    /\ \A x \in 1 .. N : BrokenStep(x) \/ StartedStep(x)
         => chan' \in [Stream -> End] /\ StreamBody'
    /\ \A c \in Broken(at) \cup {chan} : DroppedStep(c)
         => chan' \in [Stream -> End] /\ StreamBody'
    /\ \A x \in 1 .. N : HoldInv /\ SpawnWorks(x) /\ inst[x] # "run"
         => HoldInv' /\ hold' \subseteq (1 .. N) \X {"r", "w"} \X Stream \X Nat
Running == Base /\ StreamSteps

-----------------------------------------------------------------------------
(* The streams stand every step                                            *)

\* The streams stand what main and the services do. The first steps say what
\* Prepared does to the record of one channel; then come the steps that start a
\* service, those that give one up (StreamsDropped), those in which a spawn fails
\* and those in which init only waits.
LEMMA StreamStepsHold == StreamSteps
\* Service v writes to s, and has so many outputs bound to s.
<1> DEFINE WritesTo(v, s) == \E f \in Output : BoundTo(v, f, "channel", s)
<1> DEFINE Outs(v, s) ==
             (IF BoundTo(v, "out", "channel", s) THEN 1 ELSE 0) +
             (IF BoundTo(v, "err", "channel", s) THEN 1 ELSE 0)
\* Record a of a channel becomes b when a pipe p is made if there is none.
<1> DEFINE EnsureRel(a, b, p) ==
             IF a.r \/ a.w THEN b = a
             ELSE b.r /\ b.w /\ b.pipe = p /\ b.writers = a.writers /\ b.spawned = a.spawned
\* The write end is closed when all writers are started.
<1> DEFINE CloseRel(a, b) ==
             /\ b.r = a.r /\ b.pipe = a.pipe /\ b.writers = a.writers /\ b.spawned = a.spawned
             /\ b.w <=> a.w /\ a.spawned < a.writers
\* The handles of v are chosen: the channel keeps its pipe or gets pipe p.
<1> DEFINE PrepRel(v, s, a, b, p) ==
             /\ b.writers = a.writers /\ b.spawned = a.spawned
             /\ \/ /\ b.pipe = a.pipe /\ b.r = a.r /\ (b.w => a.w)
                   /\ a.w /\ ~b.w => a.spawned >= a.writers
                \/ /\ ReadsFrom(v, s) \/ WritesTo(v, s)
                   /\ ~a.r /\ (a.w => a.spawned >= a.writers)
                   /\ b.pipe = p /\ b.r /\ (~b.w => a.spawned >= a.writers)
\* The same when that has worked.
<1> DEFINE DoneRel(v, s, a, b) ==
             /\ ReadsFrom(v, s) \/ WritesTo(v, s) => a.r \/ a.w \/ b.r
             /\ ReadsFrom(v, s) /\ ~WritesTo(v, s) /\ b.w => a.spawned < a.writers
             /\ ~ReadsFrom(v, s) /\ ~WritesTo(v, s) => b = a
<1> HIDE DEF WritesTo, Outs, EnsureRel, CloseRel, PrepRel, DoneRel
\* The write end is closed or kept: only the record of that channel changes.
<1>CloseEffect. ASSUME NEW c \in [Stream -> End], NEW s \in Stream
                PROVE  /\ CloseIfAllSpawned(c, s) \in [Stream -> End]
                       /\ \A z \in Stream : z # s => CloseIfAllSpawned(c, s)[z] = c[z]
                       /\ CloseRel(c[s], CloseIfAllSpawned(c, s)[s])
  <2> DEFINE d == [c[s] EXCEPT !.w = FALSE]
  <2>0. c[s].spawned \in Nat /\ c[s].writers \in Nat
    BY EndFields, Zenon
  <2>1. /\ d \in End /\ ~d.w /\ d.r = c[s].r /\ d.pipe = c[s].pipe
        /\ d.writers = c[s].writers /\ d.spawned = c[s].spawned
    BY ZenonT(20) DEF End
  <2>2. close_channel_write(c, s) = [c EXCEPT ![s] = d]
    BY Zenon DEF close_channel_write
  <2> HIDE DEF d
  <2>3. /\ [c EXCEPT ![s] = d] \in [Stream -> End] /\ [c EXCEPT ![s] = d][s] = d
        /\ \A z \in Stream : z # s => [c EXCEPT ![s] = d][z] = c[z]
    BY <2>1, Zenon
  <2>4. CASE c[s].spawned >= c[s].writers
    <3>1. ~(c[s].spawned < c[s].writers)
      BY <2>0, <2>4
    <3> QED BY <2>1, <2>2, <2>3, <2>4, <3>1, Zenon DEF CloseIfAllSpawned, CloseRel
  <2>5. CASE ~(c[s].spawned >= c[s].writers)
    <3>1. c[s].spawned < c[s].writers
      BY <2>0, <2>5
    <3>2. CloseIfAllSpawned(c, s) = c
      BY <2>5, Zenon DEF CloseIfAllSpawned
    <3> QED BY <3>1, <3>2, Zenon DEF CloseRel
  <2> QED BY <2>4, <2>5, Zenon
\* The handles of a service are chosen.
<1>PreparedEffect. ASSUME chan \in [Stream -> End], NEW v, Binds(v),
                          \A s \in Stream : FreshPipe(s) \in Nat
                   PROVE  /\ Prepared(v) \in [Stream -> End]
                          /\ \A s \in Stream : /\ PrepRel(v, s, chan[s], Prepared(v)[s], FreshPipe(s))
                                               /\ DoneRel(v, s, chan[s], Prepared(v)[s])
  <2> USE <1>PreparedEffect
  \* A channel is chosen: only its own record changes.
  <2>EnsureEffect. ASSUME NEW c \in [Stream -> End], NEW s \in Stream, FreshPipe(s) \in Nat
                   PROVE  /\ ensure_channel_pipe(c, s) \in [Stream -> End]
                          /\ \A z \in Stream : z # s => ensure_channel_pipe(c, s)[z] = c[z]
                          /\ EnsureRel(c[s], ensure_channel_pipe(c, s)[s], FreshPipe(s))
    <3> USE <2>EnsureEffect
    <3> DEFINE p == FreshPipe(s)
               d == [c[s] EXCEPT !.r = TRUE, !.w = TRUE, !.pipe = p]
    <3>1. /\ d \in End /\ d.r /\ d.w /\ d.pipe = p
          /\ d.writers = c[s].writers /\ d.spawned = c[s].spawned
      BY ZenonT(20) DEF End
    <3> HIDE DEF d
    <3>2. CASE c[s].r \/ c[s].w
      BY <3>2, Zenon DEF ensure_channel_pipe, EnsureRel
    <3>3. CASE ~(c[s].r \/ c[s].w)
      <4>1. ensure_channel_pipe(c, s) = [c EXCEPT ![s] = d]
        BY <3>3, Zenon DEF ensure_channel_pipe, d
      <4> HIDE DEF p
      <4>2. /\ [c EXCEPT ![s] = d] \in [Stream -> End] /\ [c EXCEPT ![s] = d][s] = d
            /\ \A z \in Stream : z # s => [c EXCEPT ![s] = d][z] = c[z]
        BY <3>1, Zenon
      <4> QED BY <3>1, <3>3, <4>1, <4>2, Zenon DEF EnsureRel, p
    <3> QED BY <3>2, <3>3, Zenon
  \* A second output finds the pipe the first one has made.
  <2>EnsureTwice. ASSUME NEW a, NEW b, NEW c, NEW p, EnsureRel(a, b, p), EnsureRel(b, c, p)
                  PROVE  EnsureRel(a, c, p)
    <3> USE <2>EnsureTwice
    <3>1. CASE a.r \/ a.w
      <4>1. b = a
        BY <3>1, Zenon DEF EnsureRel
      <4> QED BY <4>1, Zenon
    <3>2. CASE ~(a.r \/ a.w)
      <4>1. b.r
        BY <3>2, Zenon DEF EnsureRel
      <4>2. c = b
        BY <4>1, Zenon DEF EnsureRel
      <4> QED BY <4>2, Zenon
    <3> QED BY <3>1, <3>2, Zenon
  \* The pipe of a channel once the outputs of a service are chosen.
  <2>EnsureOutputs. ASSUME NEW b, NEW c, NEW d, NEW p, NEW X \in BOOLEAN, NEW Y \in BOOLEAN,
                           IF X THEN EnsureRel(b, c, p) ELSE c = b,
                           IF Y THEN EnsureRel(c, d, p) ELSE d = c
                    PROVE  IF X \/ Y THEN EnsureRel(b, d, p) ELSE d = b
    <3> USE <2>EnsureOutputs
    <3>1. CASE X /\ Y
      BY <3>1, <2>EnsureTwice, Zenon
    <3>2. CASE ~(X /\ Y)
      BY <3>2, Zenon
    <3> QED BY <3>1, <3>2, Zenon
  <2> DEFINE si == v.to["in"]
             so == v.to["out"]
             se == v.to["err"]
             e0 == ensure_channel_pipe(chan, si)
             c1 == IF OnChannel(v, "in") THEN CloseIfAllSpawned(e0, si) ELSE chan
             c2 == IF OnChannel(v, "out") THEN ensure_channel_pipe(c1, so) ELSE c1
             c3 == IF OnChannel(v, "err") THEN ensure_channel_pipe(c2, se) ELSE c2
  <2>0. Prepared(v) = c3
    BY Zenon DEF Prepared
  <2>1. /\ OnChannel(v, "in") => si \in Stream
        /\ OnChannel(v, "out") => so \in Stream
        /\ OnChannel(v, "err") => se \in Stream
    BY DEF Binds, OnChannel, Kind, Fd
  <2>2. /\ \A s : BoundTo(v, "in", "channel", s) <=> OnChannel(v, "in") /\ si = s
        /\ \A s : BoundTo(v, "out", "channel", s) <=> OnChannel(v, "out") /\ so = s
        /\ \A s : BoundTo(v, "err", "channel", s) <=> OnChannel(v, "err") /\ se = s
    BY Zenon DEF BoundTo, OnChannel
  <2> HIDE DEF si, so, se
  <2>3. /\ c1 \in [Stream -> End]
        /\ \A s \in Stream :
             IF BoundTo(v, "in", "channel", s)
               THEN \E e \in End : EnsureRel(chan[s], e, FreshPipe(s)) /\ CloseRel(e, c1[s])
               ELSE c1[s] = chan[s]
    <3>1. CASE OnChannel(v, "in")
      <4>1. /\ e0 \in [Stream -> End] /\ EnsureRel(chan[si], e0[si], FreshPipe(si))
            /\ \A z \in Stream : z # si => e0[z] = chan[z]
        BY <2>1, <3>1, <2>EnsureEffect, Zenon
      <4> HIDE DEF e0
      <4>2. /\ c1 \in [Stream -> End] /\ CloseRel(e0[si], c1[si])
            /\ \A z \in Stream : z # si => c1[z] = e0[z]
        BY <2>1, <3>1, <4>1, <1>CloseEffect, Zenon
      <4> HIDE DEF c1
      <4>3. e0[si] \in End
        BY <2>1, <3>1, <4>1, Zenon
      <4> QED BY <2>2, <3>1, <4>1, <4>2, <4>3, Zenon
    <3>2. CASE ~OnChannel(v, "in")
      BY <2>2, <3>2, Zenon
    <3> QED BY <3>1, <3>2, Zenon
  <2> HIDE DEF c1
  <2>4. /\ c2 \in [Stream -> End]
        /\ \A s \in Stream :
             IF BoundTo(v, "out", "channel", s) THEN EnsureRel(c1[s], c2[s], FreshPipe(s))
                                                ELSE c2[s] = c1[s]
    BY <2>1, <2>2, <2>3, <2>EnsureEffect, Zenon
  <2> HIDE DEF c2
  <2>5. /\ c3 \in [Stream -> End]
        /\ \A s \in Stream :
             IF BoundTo(v, "err", "channel", s) THEN EnsureRel(c2[s], c3[s], FreshPipe(s))
                                                ELSE c3[s] = c2[s]
    BY <2>1, <2>2, <2>4, <2>EnsureEffect, Zenon
  <2> HIDE DEF c3
  <2>6. ASSUME NEW s \in Stream
        PROVE  PrepRel(v, s, chan[s], c3[s], FreshPipe(s)) /\ DoneRel(v, s, chan[s], c3[s])
    <3>1. /\ chan[s] \in End /\ c1[s] \in End /\ c2[s] \in End /\ c3[s] \in End
      BY <2>3, <2>4, <2>5, Zenon
    <3>2. WritesTo(v, s) <=> \/ BoundTo(v, "out", "channel", s)
                             \/ BoundTo(v, "err", "channel", s)
      BY DEF WritesTo, Output
    <3> DEFINE a == chan[s]
               b == c1[s]
               c == c2[s]
               d == c3[s]
               p == FreshPipe(s)
    <3>3. /\ IF BoundTo(v, "in", "channel", s)
               THEN \E e \in End : EnsureRel(a, e, p) /\ CloseRel(e, b)
               ELSE b = a
          /\ IF BoundTo(v, "out", "channel", s) THEN EnsureRel(b, c, p) ELSE c = b
          /\ IF BoundTo(v, "err", "channel", s) THEN EnsureRel(c, d, p) ELSE d = c
      BY <2>3, <2>4, <2>5, Zenon
    <3>4. a \in End /\ b \in End /\ c \in End /\ d \in End
      BY <3>1, Zenon
    <3> SUFFICES PrepRel(v, s, a, d, p) /\ DoneRel(v, s, a, d)
      OBVIOUS
    <3> HIDE DEF a, b, c, d, p
    <3>5. /\ a.writers \in Nat /\ a.spawned \in Nat
          /\ a.spawned < a.writers <=> ~(a.spawned >= a.writers)
      <4>1. a.writers \in Nat /\ a.spawned \in Nat
        BY <3>4, EndFields, Zenon
      <4> QED BY <4>1
    <3>6. IF WritesTo(v, s) THEN EnsureRel(b, d, p) ELSE d = b
      <4>1. /\ BoundTo(v, "out", "channel", s) \in BOOLEAN
            /\ BoundTo(v, "err", "channel", s) \in BOOLEAN
        BY Zenon DEF BoundTo
      <4>2. IF BoundTo(v, "out", "channel", s) \/ BoundTo(v, "err", "channel", s)
              THEN EnsureRel(b, d, p) ELSE d = b
        BY <3>3, <4>1, <2>EnsureOutputs, Zenon
      <4> QED BY <3>2, <4>2, Zenon
    <3>7. IF ReadsFrom(v, s)
            THEN \E e \in End : EnsureRel(a, e, p) /\ CloseRel(e, b) ELSE b = a
      BY <3>3, Zenon DEF ReadsFrom
    <3>8. CASE ~ReadsFrom(v, s)
      <4>1. b = a
        BY <3>7, <3>8, Zenon
      <4>2. CASE ~WritesTo(v, s)
        BY <3>6, <3>8, <4>1, <4>2, Zenon DEF PrepRel, DoneRel
      <4>3. CASE WritesTo(v, s)
        <5>1. CASE a.r \/ a.w
          <6>1. d = a
            BY <3>6, <4>1, <4>3, <5>1, Zenon DEF EnsureRel
          <6> QED BY <3>8, <4>3, <5>1, <6>1, Zenon DEF PrepRel, DoneRel
        <5>2. CASE ~(a.r \/ a.w)
          <6>1. d.r /\ d.w /\ d.pipe = p /\ d.writers = a.writers /\ d.spawned = a.spawned
            BY <3>6, <4>1, <4>3, <5>2, Zenon DEF EnsureRel
          <6> QED BY <3>8, <4>3, <5>2, <6>1, Zenon DEF PrepRel, DoneRel
        <5> QED BY <5>1, <5>2, Zenon
      <4> QED BY <4>2, <4>3, Zenon
    <3>9. CASE ReadsFrom(v, s)
      <4>1. PICK e \in End : EnsureRel(a, e, p) /\ CloseRel(e, b)
        BY <3>7, <3>9, Zenon
      <4>2. /\ b.writers = a.writers /\ b.spawned = a.spawned
            /\ a.r \/ a.w => b.pipe = a.pipe /\ b.r = a.r /\ (b.w <=> a.w /\ a.spawned < a.writers)
            /\ ~(a.r \/ a.w) => b.pipe = p /\ b.r /\ (b.w <=> a.spawned < a.writers)
        BY <4>1, Zenon DEF EnsureRel, CloseRel
      <4>3. CASE ~WritesTo(v, s)
        <5>1. d = b
          BY <3>6, <4>3, Zenon
        <5>2. DoneRel(v, s, a, d)
          BY <3>5, <3>9, <4>2, <4>3, <5>1, Zenon DEF DoneRel
        <5>3. PrepRel(v, s, a, d, p)
          <6>1. CASE a.r \/ a.w
            BY <3>5, <3>9, <4>2, <5>1, <6>1, Zenon DEF PrepRel
          <6>2. CASE ~(a.r \/ a.w)
            BY <3>5, <3>9, <4>2, <5>1, <6>2, Zenon DEF PrepRel
          <6> QED BY <6>1, <6>2, Zenon
        <5> QED BY <5>2, <5>3, Zenon
      <4>4. CASE WritesTo(v, s)
        <5>1. CASE b.r \/ b.w
          <6>1. d = b
            BY <3>6, <4>4, <5>1, Zenon DEF EnsureRel
          <6>2. CASE a.r \/ a.w
            BY <3>5, <3>9, <4>2, <4>4, <6>1, <6>2, Zenon DEF PrepRel, DoneRel
          <6>3. CASE ~(a.r \/ a.w)
            BY <3>5, <3>9, <4>2, <4>4, <6>1, <6>3, Zenon DEF PrepRel, DoneRel
          <6> QED BY <6>2, <6>3, Zenon
        <5>2. CASE ~(b.r \/ b.w)
          <6>1. d.r /\ d.w /\ d.pipe = p /\ d.writers = b.writers /\ d.spawned = b.spawned
            BY <3>6, <4>4, <5>2, Zenon DEF EnsureRel
          <6>2. ~a.r /\ a.w /\ ~(a.spawned < a.writers)
            BY <4>2, <5>2, Zenon
          <6> QED BY <3>5, <3>9, <4>2, <4>4, <6>1, <6>2, Zenon DEF PrepRel, DoneRel
        <5> QED BY <5>1, <5>2, Zenon
      <4> QED BY <4>3, <4>4, Zenon
    <3> QED BY <3>8, <3>9, Zenon
  <2> QED BY <2>0, <2>5, <2>6, Zenon
\* Where the streams are between two steps of main.
<1>StreamFacts. ASSUME PairFacts, TableInv, RunTypes, BootInv, ProcInv, Fresh
                PROVE  /\ chan \in [Stream -> End] /\ MaxServices \in Nat
                       /\ \A s \in Stream : /\ FreshPipe(s) \in Nat
                                            /\ \A h \in hold : h[3] = s => h[4] # FreshPipe(s)
                                            /\ Cardinality(Pending(s)) \in Nat
                       /\ \A j \in 1 .. N : starts[j] = 0 => inst[j] # "run"
  <2> USE <1>StreamFacts
  <2>1. chan \in [Stream -> End] /\ MaxServices \in Nat
    BY Services, Zenon DEF RunTypes
  <2>2. ASSUME NEW s \in Stream
        PROVE  /\ FreshPipe(s) \in Nat
               /\ \A h \in hold : h[3] = s => h[4] # FreshPipe(s)
    <3>1. /\ FreshPipe(s) \in 1 .. 2 * MaxServices + 1
          /\ \A h \in hold : h[3] = s => h[4] # FreshPipe(s)
      BY Zenon DEF FreshPipe, Fresh
    <3> QED BY <2>1, <3>1
  <2>3. ASSUME NEW j \in 1 .. N, inst[j] = "run"
        PROVE  starts[j] # 0
    <3>1. j \in Places /\ inst[j] # "none"
      BY <2>3, Services
    <3>2. CASE daemon[j].phase = "running"
      <4>1. daemon[j].phase # "none"
        BY <3>2
      <4>2. starts[j] > 0
        BY <3>1, <4>1, Zenon DEF ProcInv
      <4> QED BY <4>2
    <3>3. CASE pc = "wait" /\ at = j
      <4>1. InRound
        BY <3>3 DEF InRound
      <4>2. starts[j] > 0
        BY <3>3, <4>1, Zenon DEF ProcInv
      <4> QED BY <4>2
    <3> QED BY <3>1, <3>2, <3>3, Zenon DEF ProcInv
  <2> QED BY <2>1, <2>2, <2>3, PendingSet, Zenon
\* The writers of a channel.
<1>WritersOf. ASSUME NEW s
              PROVE  /\ Writers(s) \subseteq 1 .. N
                     /\ \A i \in 1 .. N : i \in Writers(s) <=> WritesTo(svc[i], s)
  BY Zenon DEF Writers, WritesTo, BoundTo, OnChannel
\* The numbers of a channel: with all writers started none is pending.
<1>AllSpawned. ASSUME NEW a \in End, NEW m \in Nat, a.writers = a.spawned + m
               PROVE  a.spawned >= a.writers => ~(m > 0)
  <2> USE <1>AllSpawned
  <2>1. a.writers \in Nat /\ a.spawned \in Nat
    BY EndFields, Zenon
  <2> QED BY <2>1
\* End h is one the new process i of service v may get.
<1> DEFINE EndOf(h, i, v, c) ==
             \E e \in {"r", "w"}, s \in Stream : /\ h = <<i, e, s, c[s].pipe>>
                                                 /\ e = "r" => ReadsFrom(v, s) /\ c[s].r
                                                 /\ e = "w" => WritesTo(v, s) /\ c[s].w
<1> HIDE DEF EndOf
\* The ends a new process gets are the open ones of the channels it is bound to.
<1>GivenEnds. ASSUME NEW i, NEW v, NEW c, Binds(v)
              PROVE  /\ \A h \in Given(i, v, c) : EndOf(h, i, v, c)
                     /\ \A s \in Stream :
                          /\ ReadsFrom(v, s) /\ c[s].r => <<i, "r", s, c[s].pipe>> \in Given(i, v, c)
                          /\ WritesTo(v, s) /\ c[s].w => <<i, "w", s, c[s].pipe>> \in Given(i, v, c)
  <2> USE <1>GivenEnds
  <2>1. \A f \in Fd : OnChannel(v, f) => v.to[f] \in Stream
    BY DEF Binds, OnChannel, Kind
  <2>2. "in" \in Fd /\ Output \subseteq Fd
    BY DEF Fd, Output
  <2>3. \A f, s : BoundTo(v, f, "channel", s) <=> OnChannel(v, f) /\ v.to[f] = s
    BY Zenon DEF BoundTo, OnChannel
  <2>4. ASSUME NEW h \in Given(i, v, c)
        PROVE  EndOf(h, i, v, c)
    <3>1. CASE /\ OnChannel(v, "in") /\ c[v.to["in"]].r
               /\ h = <<i, "r", v.to["in"], c[v.to["in"]].pipe>>
      <4>1. "r" # "w"
        OBVIOUS
      <4>2. v.to["in"] \in Stream /\ ReadsFrom(v, v.to["in"])
        BY <2>1, <2>2, <2>3, <3>1, Zenon DEF ReadsFrom
      <4> QED BY <3>1, <4>1, <4>2, Zenon DEF EndOf
    <3>2. ASSUME NEW f \in Output, OnChannel(v, f) /\ c[v.to[f]].w,
                 h = <<i, "w", v.to[f], c[v.to[f]].pipe>>
          PROVE  EndOf(h, i, v, c)
      <4>1. "r" # "w" /\ f \in Fd
        BY <2>2
      <4>2. v.to[f] \in Stream /\ WritesTo(v, v.to[f])
        BY <2>1, <2>3, <3>2, <4>1, Zenon DEF WritesTo
      <4> QED BY <3>2, <4>1, <4>2, Zenon DEF EndOf
    <3> QED BY <3>1, <3>2, Zenon DEF Given
  <2>5. ASSUME NEW s \in Stream
        PROVE  /\ ReadsFrom(v, s) /\ c[s].r => <<i, "r", s, c[s].pipe>> \in Given(i, v, c)
               /\ WritesTo(v, s) /\ c[s].w => <<i, "w", s, c[s].pipe>> \in Given(i, v, c)
    BY <2>3, Zenon DEF Given, ReadsFrom, WritesTo
  <2> QED BY <2>4, <2>5, Zenon
\* A process starts: it had nothing, and gets one pipe for an end of a channel.
<1>HoldSpawned. ASSUME Base, HoldInv, NEW x \in 1 .. N, SpawnWorks(x), inst[x] # "run"
                PROVE  /\ hold' \subseteq (1 .. N) \X {"r", "w"} \X Stream \X Nat
                       /\ HoldInv'
  <2> USE <1>HoldSpawned
  <2> DEFINE v == svc[x]
             c == Prepared(v)
             G == Given(x, v, c)
  <2>1. /\ Binds(v) /\ x \in Places /\ \A k \in 1 .. N : k \in Places
        /\ hold \subseteq (1 .. N) \X {"r", "w"} \X Stream \X Nat
        /\ inst \in [Places -> {"none", "run", "ok", "bad"}]
    BY Services, Zenon DEF Base, RunTypes
  <2>2. hold' = hold \cup G /\ inst' = [inst EXCEPT ![x] = "run"]
    BY Zenon DEF SpawnWorks
  <2> HIDE DEF v
  <2>3. c \in [Stream -> End]
    BY <2>1, <1>PreparedEffect, <1>StreamFacts, Zenon DEF Base
  <2> HIDE DEF c
  <2>4. \A h \in G : EndOf(h, x, v, c)
    BY <2>1, <1>GivenEnds, Zenon
  <2> HIDE DEF G
  <2>5. \A s \in Stream : c[s].pipe \in Nat
    BY <2>3, EndFields, Zenon
  <2>6. ASSUME NEW h \in G
        PROVE  /\ h \in (1 .. N) \X {"r", "w"} \X Stream \X Nat
               /\ h[1] = x /\ h = <<x, h[2], h[3], c[h[3]].pipe>>
    <3>1. PICK e \in {"r", "w"}, s \in Stream : h = <<x, e, s, c[s].pipe>>
      BY <2>4, Zenon DEF EndOf
    <3> QED BY <2>5, <3>1
  <2>7. \A h \in hold : h[1] \in 1 .. N /\ h[1] # x
    <3>1. \A h \in hold : h[1] \in 1 .. N
      BY <2>1
    <3> QED BY <3>1, Zenon DEF HoldInv
  <2>8. hold' \subseteq (1 .. N) \X {"r", "w"} \X Stream \X Nat
    BY <2>1, <2>2, <2>6, Zenon
  <2>9. \A h \in hold' : inst'[h[1]] = "run"
    <3>1. \A k \in 1 .. N : inst'[k] = IF k = x THEN "run" ELSE inst[k]
      BY <2>1, <2>2, Zenon
    <3> QED BY <2>2, <2>6, <2>7, <3>1, Zenon DEF HoldInv
  <2>10. ASSUME NEW g \in hold', NEW h \in hold',
                g[1] = h[1] /\ g[2] = h[2] /\ g[3] = h[3]
         PROVE  g = h
    <3>1. CASE g \in hold
      <4>1. h \in hold
        BY <2>2, <2>6, <2>7, <2>10, <3>1, Zenon
      <4> QED BY <2>10, <3>1, <4>1, Zenon DEF HoldInv
    <3>2. CASE g \in G
      <4>1. h \in G
        BY <2>2, <2>6, <2>7, <2>10, <3>2, Zenon
      <4>2. g = <<x, g[2], g[3], c[g[3]].pipe>> /\ h = <<x, h[2], h[3], c[h[3]].pipe>>
        BY <2>6, <3>2, <4>1, Zenon
      <4> QED BY <2>10, <4>2, Zenon
    <3> QED BY <2>2, <3>1, <3>2, Zenon
  <2> QED BY <2>8, <2>9, <2>10, Zenon DEF HoldInv
\* A channel has one reader.
<1>OneReader. ASSUME TableInv, ~Reading, NEW s \in Stream, NEW i \in 1 .. N, NEW j \in 1 .. N,
                     ReadsFrom(svc[i], s), ReadsFrom(svc[j], s)
              PROVE  i = j
  <2> USE <1>OneReader
  <2>1. line = <<>> /\ ReadersMatch(table, line)
    BY Zenon DEF TableInv, LineInv
  <2>2. N \in Nat
    BY Services, Zenon
  <2>3. Last(table, <<>>) = N /\ \A k \in 1 .. N : Row(table, <<>>, k) = svc[k]
    BY <2>2 DEF Last, Row, N, svc
  <2> QED BY <2>1, <2>3, ZenonT(30) DEF ReadersMatch, ReadsFrom
\* Without the bindings of one service there are fewer by as many as it has.
<1>PendingLess. ASSUME PairFacts, TableInv, NEW s, NEW x \in 1 .. N, x >= at, starts[x] = 0
                PROVE  /\ Cardinality({b \in Pending(s) : b[1] # x}) \in Nat
                       /\ Cardinality(Pending(s)) =
                            Cardinality({b \in Pending(s) : b[1] # x}) + Outs(svc[x], s)
  <2> USE <1>PendingLess
  <2> DEFINE A == Pending(s)
             o == <<x, "out">>
             e == <<x, "err">>
             B == A \ {o}
             C == B \ {e}
             X == BoundTo(svc[x], "out", "channel", s)
             Y == BoundTo(svc[x], "err", "channel", s)
  <2>1. N \in Nat
    BY Services, Zenon
  <2>2. A \in SUBSET ((1 .. N) \X Output)
    BY PendingSet, Zenon
  <2>3. o \in (1 .. N) \X Output /\ e \in (1 .. N) \X Output /\ o # e
    BY DEF Output
  <2>4. (o \in A <=> X) /\ (e \in A <=> Y)
    <3>1. o[1] = x /\ e[1] = x /\ o[2] = "out" /\ e[2] = "err"
      OBVIOUS
    <3> HIDE DEF o, e
    <3> QED BY <2>3, <3>1, Zenon DEF Pending, BoundTo, OnChannel
  <2>5. C = {b \in A : b[1] # x}
    <3>1. ASSUME NEW b \in A
          PROVE  b = o \/ b = e <=> b[1] = x
      BY <2>2, <3>1 DEF Output
    <3> HIDE DEF A, o, e
    <3> QED BY <3>1, Zenon
  <2> HIDE DEF A, o, e
  <2>6. B \in SUBSET ((1 .. N) \X Output) /\ (e \in B <=> Y)
    BY <2>2, <2>3, <2>4, Zenon
  <2>7. /\ Cardinality(A) \in Nat
        /\ X => Cardinality(B) = Cardinality(A) - 1
        /\ ~X => Cardinality(B) = Cardinality(A)
    BY <2>1, <2>2, <2>3, <2>4, PairCount, Zenon
  <2> HIDE DEF B
  <2>8. /\ Cardinality(B) \in Nat
        /\ Y => Cardinality(C) = Cardinality(B) - 1
        /\ ~Y => Cardinality(C) = Cardinality(B)
    BY <2>1, <2>3, <2>6, PairCount, Zenon
  <2>9. Outs(svc[x], s) = (IF X THEN 1 ELSE 0) + (IF Y THEN 1 ELSE 0)
    BY Zenon DEF Outs
  <2>10. Cardinality(C) \in Nat
    <3>1. C \in SUBSET ((1 .. N) \X Output)
      BY <2>6, Zenon
    <3> HIDE DEF C
    <3> QED BY <2>1, <2>3, <3>1, PairCount, Zenon
  <2> HIDE DEF C, X, Y
  <2>11. Cardinality(A) = Cardinality(C) + Outs(svc[x], s)
    BY <2>7, <2>8, <2>9
  <2> QED BY <2>5, <2>10, <2>11, Zenon DEF A
\* A service is started, for the first time or again.
<1>StreamsStarted. Base => \A x \in 1 .. N : StartedStep(x) => chan' \in [Stream -> End] /\ StreamBody'
  \* The process has its ends and init keeps those it needs.
  <2> DEFINE HandRel(v, s, a, b) ==
               /\ b.pipe = a.pipe /\ b.writers = a.writers
               /\ b.r <=> a.r /\ ~ReadsFrom(v, s)
               /\ b.spawned = IF a.spawned + Outs(v, s) > 2 * MaxServices
                                THEN 2 * MaxServices ELSE a.spawned + Outs(v, s)
               /\ b.w <=> a.w /\ (WritesTo(v, s) => b.spawned < b.writers)
  \* One more writer is counted.
  <2> DEFINE CountRel(a, b) ==
               /\ b.r = a.r /\ b.pipe = a.pipe /\ b.writers = a.writers
               /\ b.spawned = IF a.spawned < 2 * MaxServices THEN a.spawned + 1 ELSE a.spawned
               /\ b.w <=> a.w /\ b.spawned < b.writers
  <2> HIDE DEF HandRel, CountRel
  \* A writer is counted: only the record of its channel changes.
  <2>CountEffect. ASSUME NEW c \in [Stream -> End], NEW s \in Stream
                  PROVE  /\ CountWriter(c, s) \in [Stream -> End]
                         /\ \A z \in Stream : z # s => CountWriter(c, s)[z] = c[z]
                         /\ CountRel(c[s], CountWriter(c, s)[s])
    <3> DEFINE n == IF c[s].spawned < 2 * MaxServices THEN c[s].spawned + 1 ELSE c[s].spawned
               d == [c[s] EXCEPT !.spawned = n]
               e == [c EXCEPT ![s] = d]
    <3>0. c[s] \in End /\ c[s].spawned \in Nat
      BY EndFields, Zenon
    <3>1. n \in Nat
      BY <3>0
    <3>2. CountWriter(c, s) = CloseIfAllSpawned(e, s)
      BY Zenon DEF CountWriter
    <3>3. /\ d \in End /\ d.r = c[s].r /\ d.w = c[s].w /\ d.pipe = c[s].pipe
          /\ d.writers = c[s].writers /\ d.spawned = n
      <4> HIDE DEF n
      <4> QED BY <3>0, <3>1, ZenonT(20) DEF End
    <3> HIDE DEF d
    <3>4. e \in [Stream -> End] /\ e[s] = d /\ \A z \in Stream : z # s => e[z] = c[z]
      BY <3>3, Zenon
    <3> HIDE DEF e
    <3>5. /\ CloseIfAllSpawned(e, s) \in [Stream -> End]
          /\ \A z \in Stream : z # s => CloseIfAllSpawned(e, s)[z] = e[z]
          /\ CloseRel(e[s], CloseIfAllSpawned(e, s)[s])
      BY <3>4, <1>CloseEffect, Zenon
    <3> QED BY <3>2, <3>3, <3>4, <3>5, ZenonT(20) DEF CloseRel, CountRel
  \* The ends are handed to the new process.
  <2>HandedEffect. ASSUME NEW h \in [Stream -> End], NEW v, Binds(v), MaxServices \in Nat,
                          \A s \in Stream : h[s].spawned <= 2 * MaxServices
                   PROVE  /\ Handed(v, h) \in [Stream -> End]
                          /\ \A s \in Stream : HandRel(v, s, h[s], Handed(v, h)[s])
    <3> USE <2>HandedEffect
    <3> DEFINE si == v.to["in"]
               so == v.to["out"]
               se == v.to["err"]
               c1 == IF OnChannel(v, "in") THEN [h EXCEPT ![si].r = FALSE] ELSE h
               c2 == IF OnChannel(v, "out") THEN CountWriter(c1, so) ELSE c1
               c3 == IF OnChannel(v, "err") THEN CountWriter(c2, se) ELSE c2
    <3>0. Handed(v, h) = c3
      BY Zenon DEF Handed
    <3>1. /\ OnChannel(v, "in") => si \in Stream
          /\ OnChannel(v, "out") => so \in Stream
          /\ OnChannel(v, "err") => se \in Stream
      BY DEF Binds, OnChannel, Kind, Fd
    <3>2. /\ \A s : BoundTo(v, "in", "channel", s) <=> OnChannel(v, "in") /\ si = s
          /\ \A s : BoundTo(v, "out", "channel", s) <=> OnChannel(v, "out") /\ so = s
          /\ \A s : BoundTo(v, "err", "channel", s) <=> OnChannel(v, "err") /\ se = s
      BY Zenon DEF BoundTo, OnChannel
    <3> HIDE DEF si, so, se
    <3>3. /\ c1 \in [Stream -> End]
          /\ \A s \in Stream :
               /\ c1[s].w = h[s].w /\ c1[s].pipe = h[s].pipe
               /\ c1[s].writers = h[s].writers /\ c1[s].spawned = h[s].spawned
               /\ c1[s].r <=> h[s].r /\ ~BoundTo(v, "in", "channel", s)
      <4>1. CASE OnChannel(v, "in")
        <5> DEFINE d == [h[si] EXCEPT !.r = FALSE]
        <5>1. /\ d \in End /\ ~d.r /\ d.w = h[si].w /\ d.pipe = h[si].pipe
              /\ d.writers = h[si].writers /\ d.spawned = h[si].spawned
          BY <3>1, <4>1, ZenonT(20) DEF End
        <5>2. c1 = [h EXCEPT ![si] = d]
          BY <4>1, Zenon
        <5> HIDE DEF d, c1
        <5>3. c1 \in [Stream -> End] /\ c1[si] = d /\ \A z \in Stream : z # si => c1[z] = h[z]
          BY <3>1, <4>1, <5>1, <5>2, Zenon
        <5> QED BY <3>2, <4>1, <5>1, <5>3, ZenonT(20)
      <4>2. CASE ~OnChannel(v, "in")
        BY <3>2, <4>2, Zenon
      <4> QED BY <4>1, <4>2, Zenon
    <3> HIDE DEF c1
    <3>4. /\ c2 \in [Stream -> End]
          /\ \A s \in Stream :
               IF BoundTo(v, "out", "channel", s) THEN CountRel(c1[s], c2[s]) ELSE c2[s] = c1[s]
      BY <3>1, <3>2, <3>3, <2>CountEffect, ZenonT(30)
    <3> HIDE DEF c2
    <3>5. /\ c3 \in [Stream -> End]
          /\ \A s \in Stream :
               IF BoundTo(v, "err", "channel", s) THEN CountRel(c2[s], c3[s]) ELSE c3[s] = c2[s]
      BY <3>1, <3>2, <3>4, <2>CountEffect, Zenon
    <3> HIDE DEF c3
    <3>6. ASSUME NEW s \in Stream
          PROVE  HandRel(v, s, h[s], c3[s])
      <4> DEFINE a == h[s]
                 b == c1[s]
                 c == c2[s]
                 d == c3[s]
                 X == BoundTo(v, "out", "channel", s)
                 Y == BoundTo(v, "err", "channel", s)
      <4>1. WritesTo(v, s) <=> X \/ Y
        BY DEF WritesTo, Output
      <4>2. Outs(v, s) = (IF X THEN 1 ELSE 0) + (IF Y THEN 1 ELSE 0)
        BY Zenon DEF Outs
      <4>3. /\ b.w = a.w /\ b.pipe = a.pipe /\ b.writers = a.writers /\ b.spawned = a.spawned
            /\ b.r <=> a.r /\ ~ReadsFrom(v, s)
            /\ IF X THEN CountRel(b, c) ELSE c = b
            /\ IF Y THEN CountRel(c, d) ELSE d = c
        BY <3>3, <3>4, <3>5, Zenon DEF ReadsFrom
      <4>4. /\ a \in End /\ a.writers \in Nat /\ a.spawned \in Nat /\ a.spawned <= 2 * MaxServices
        BY EndFields, Zenon
      <4> SUFFICES HandRel(v, s, a, d)
        OBVIOUS
      <4> HIDE DEF a, b, c, d, X, Y
      <4>5. d.pipe = a.pipe /\ d.writers = a.writers /\ (d.r <=> a.r /\ ~ReadsFrom(v, s))
        BY <4>3, Zenon DEF CountRel
      <4>6. /\ c.spawned = IF X /\ a.spawned < 2 * MaxServices THEN a.spawned + 1 ELSE a.spawned
            /\ c.w <=> a.w /\ (X => c.spawned < a.writers)
            /\ c.writers = a.writers
        BY <4>3, Zenon DEF CountRel
      <4>7. /\ d.spawned = IF Y /\ c.spawned < 2 * MaxServices THEN c.spawned + 1 ELSE c.spawned
            /\ d.w <=> c.w /\ (Y => d.spawned < a.writers)
        BY <4>3, <4>6, Zenon DEF CountRel
      <4>8. /\ d.spawned = IF a.spawned + Outs(v, s) > 2 * MaxServices
                             THEN 2 * MaxServices ELSE a.spawned + Outs(v, s)
            /\ c.spawned <= d.spawned /\ c.spawned \in Nat /\ d.spawned \in Nat
            /\ ~Y => d.spawned = c.spawned
        BY <4>2, <4>4, <4>6, <4>7
      <4>9. d.w <=> a.w /\ (X \/ Y => d.spawned < a.writers)
        <5>1. d.spawned < a.writers => c.spawned < a.writers
          BY <4>4, <4>8
        <5> QED BY <4>6, <4>7, <4>8, <5>1, Zenon
      <4> QED BY <4>1, <4>5, <4>8, <4>9, Zenon DEF HandRel
    <3> QED BY <3>0, <3>5, <3>6, Zenon
  \* A service is started: the numbers of a channel.
  <2>HandNumbers. ASSUME NEW a \in End, NEW b \in End, NEW d \in End, NEW m \in Nat, NEW n \in Nat,
                         NEW s, NEW v, NEW p, MaxServices \in Nat,
                         PrepRel(v, s, a, b, p), HandRel(v, s, b, d),
                         a.spawned <= 2 * MaxServices, a.writers <= 2 * MaxServices,
                         m \in {n, n + Outs(v, s)}
                  PROVE  /\ d.writers = a.writers /\ d.spawned <= 2 * MaxServices
                         /\ a.writers <= a.spawned + m => d.writers <= d.spawned + n
                         /\ m = n + Outs(v, s) /\ a.writers = a.spawned + m => d.writers = d.spawned + n
                         /\ ~WritesTo(v, s) => d.spawned = a.spawned /\ m = n
                         /\ m = n + Outs(v, s) /\ (WritesTo(v, s) \/ n > 0) => m > 0
                         /\ d.writers = d.spawned + n /\ n > 0 => d.spawned < d.writers
    <3> USE <2>HandNumbers
    <3>1. a.writers \in Nat /\ a.spawned \in Nat /\ d.writers \in Nat /\ d.spawned \in Nat
      BY EndFields, Zenon
    <3>2. /\ Outs(v, s) \in 0 .. 2
          /\ ~WritesTo(v, s) => Outs(v, s) = 0
          /\ WritesTo(v, s) => Outs(v, s) > 0
      BY DEF Outs, WritesTo, Output
    <3>3. /\ d.writers = a.writers
          /\ d.spawned = IF a.spawned + Outs(v, s) > 2 * MaxServices
                           THEN 2 * MaxServices ELSE a.spawned + Outs(v, s)
      BY Zenon DEF PrepRel, HandRel
    <3> QED BY <3>1, <3>2, <3>3
  \* The same, with what is counted.
  <2>CountHanded. ASSUME NEW a \in End, NEW b \in End, NEW d \in End, NEW m \in Nat, NEW n \in Nat,
                         NEW H, NEW G, NEW s, NEW v, NEW p, MaxServices \in Nat, Count(a, m, H, s),
                         PrepRel(v, s, a, b, p), DoneRel(v, s, a, b), HandRel(v, s, b, d),
                         m \in {n, n + Outs(v, s)},
                         \A h \in H : h[3] = s => h[4] # p,
                         \A h \in G : h[2] = "r" /\ h[3] = s => ReadsFrom(v, s)
                  PROVE  Count(d, n, H \cup G, s)
    <3> USE <2>CountHanded
    <3>1. /\ d.writers = a.writers /\ d.spawned <= 2 * MaxServices
          /\ a.writers <= a.spawned + m => d.writers <= d.spawned + n
          /\ ~WritesTo(v, s) => d.spawned = a.spawned
      <4>1. a.spawned <= 2 * MaxServices /\ a.writers <= 2 * MaxServices
        BY Zenon DEF Count
      <4> QED BY <4>1, <2>HandNumbers
    <3>2. ASSUME d.w, NEW h \in H \cup G, h[2] = "r" /\ h[3] = s /\ h[4] = d.pipe
          PROVE  d.spawned < d.writers
      <4>1. b.w /\ d.pipe = b.pipe /\ (WritesTo(v, s) => d.spawned < d.writers)
        BY <3>2, Zenon DEF HandRel
      <4>2. CASE WritesTo(v, s)
        BY <4>1, <4>2, Zenon
      <4>3. CASE ~WritesTo(v, s) /\ h \in G
        BY <3>1, <3>2, <4>1, <4>3, Zenon DEF DoneRel
      <4>4. CASE ~WritesTo(v, s) /\ h \in H
        <5>1. b.pipe # p
          BY <3>2, <4>1, <4>4, Zenon
        <5>2. b.pipe = a.pipe /\ a.w
          BY <4>1, <5>1, Zenon DEF PrepRel
        <5>3. a.spawned < a.writers
          BY <3>2, <4>1, <4>4, <5>2, Zenon DEF Count
        <5> QED BY <3>1, <4>4, <5>3, Zenon
      <4> QED BY <4>2, <4>3, <4>4, Zenon
    <3> QED BY <3>1, <3>2, Zenon DEF Count
  \* Service x, v in the table, is started and gets the ends G of the pipes; its
  \* channel s goes from a to b to d.
  <2> DEFINE StartsOn(a, b, d, m, n, H, G, I, J, S, T, W, i, x, s, v, p) ==
               /\ Count(a, m, H, s) /\ Link(a, m, H, I, S, W, i, s)
               /\ PrepRel(v, s, a, b, p) /\ DoneRel(v, s, a, b) /\ HandRel(v, s, b, d)
               /\ \A j \in W \cup {i} : S[j] = 0 => I[j] # "run"
               /\ \A j \in W \cup {i} : j # x => J[j] = I[j] /\ T[j] = S[j]
               /\ \A j \in W \cup {i} : S[j] <= 1 \/ ~(T[j] <= 1)
               /\ x \in W \cup {i} => T[x] # 0 /\ (S[x] = 0 \/ ~(T[x] <= 1))
               /\ WritesTo(v, s) <=> x \in W
               /\ ReadsFrom(v, s) <=> x = i
               /\ IF S[x] = 0 THEN m = n + Outs(v, s) ELSE m = n
               /\ ReadsFrom(v, s) /\ b.r => <<x, "r", s, b.pipe>> \in G
               /\ WritesTo(v, s) /\ b.w => <<x, "w", s, b.pipe>> \in G
  <2> HIDE DEF StartsOn
  \* The same, with the one pipe.
  <2>LinkHanded. ASSUME NEW a \in End, NEW b \in End, NEW d \in End, NEW m \in Nat, NEW n \in Nat,
                        NEW H, NEW G, NEW I, NEW J, NEW S, NEW T, NEW W, NEW i, NEW x,
                        NEW s, NEW v, NEW p \in Nat, MaxServices \in Nat,
                        StartsOn(a, b, d, m, n, H, G, I, J, S, T, W, i, x, s, v, p)
                 PROVE  Link(d, n, H \cup G, J, T, W, i, s)
    <3> USE <2>LinkHanded
    <3> USE DEF StartsOn
    <3> SUFFICES ASSUME Once(T, W, i)
                 PROVE  /\ d.writers = d.spawned + n
                        /\ \/ Unused(d, T, W, i)
                           \/ \E q \in Nat : OnPipe(d, n, H \cup G, J, T, W, i, s, q)
      BY Zenon DEF Link
    <3>0. /\ d.writers = a.writers
          /\ m = n + Outs(v, s) /\ a.writers = a.spawned + m => d.writers = d.spawned + n
          /\ ~WritesTo(v, s) => d.spawned = a.spawned /\ m = n
          /\ m = n + Outs(v, s) /\ (WritesTo(v, s) \/ n > 0) => m > 0
          /\ d.writers = d.spawned + n /\ n > 0 => d.spawned < d.writers
      <4>1. /\ a.spawned <= 2 * MaxServices /\ a.writers <= 2 * MaxServices
            /\ PrepRel(v, s, a, b, p) /\ HandRel(v, s, b, d)
            /\ m \in {n, n + Outs(v, s)}
        BY Zenon DEF Count
      <4> HIDE DEF StartsOn
      <4> QED BY <4>1, <2>HandNumbers
    <3>1. Once(S, W, i)
      BY Zenon DEF Once
    <3>2. a.writers = a.spawned + m
      BY <3>1, Zenon DEF Link
    <3>3. a.spawned >= a.writers => ~(m > 0)
      BY <3>2, <1>AllSpawned, Zenon
    <3>4. CASE ~ReadsFrom(v, s) /\ ~WritesTo(v, s)
      <4>1. b = a /\ x \notin W \cup {i}
        BY <3>4, Zenon DEF DoneRel
      <4>3. m = n
        BY <3>0, <3>4, Zenon
      <4>4. d.pipe = a.pipe /\ d.writers = a.writers /\ (d.r <=> a.r) /\ (d.w <=> a.w)
        BY <3>4, <4>1, Zenon DEF HandRel
      <4>5. d.spawned = a.spawned
        BY <3>0, <3>4, Zenon
      <4>6. CASE Unused(a, S, W, i)
        BY <3>2, <4>1, <4>3, <4>4, <4>5, <4>6, Zenon DEF Unused
      <4>7. CASE \E q \in Nat : OnPipe(a, m, H, I, S, W, i, s, q)
        <5>1. PICK q \in Nat : OnPipe(a, m, H, I, S, W, i, s, q)
          BY <4>7, Zenon
        <5>2. \A j \in W \cup {i} : J[j] = I[j] /\ T[j] = S[j]
          BY <4>1, Zenon
        <5>3. OnPipe(d, n, H \cup G, J, T, W, i, s, q)
          BY <4>3, <4>4, <5>1, <5>2, ZenonT(20) DEF OnPipe
        <5> QED BY <3>2, <4>3, <4>4, <4>5, <5>3, Zenon
      <4> QED BY <3>1, <4>6, <4>7, Zenon DEF Link
    <3>5. CASE ReadsFrom(v, s) \/ WritesTo(v, s)
      <4>1. x \in W \cup {i} /\ S[x] = 0 /\ T[x] # 0 /\ m = n + Outs(v, s)
        BY <3>5, Zenon DEF Once
      <4>2. d.writers = d.spawned + n
        BY <3>0, <3>2, <4>1, Zenon
      <4>3. (WritesTo(v, s) => m > 0) /\ (n > 0 => m > 0) /\ (n > 0 => d.spawned < d.writers)
        BY <3>0, <4>1, <4>2, Zenon
      <4>4. /\ d.pipe = b.pipe /\ (d.r <=> b.r /\ ~ReadsFrom(v, s))
            /\ n > 0 /\ b.w => d.w
        BY <4>3, Zenon DEF HandRel
      <4>5. b.pipe \in Nat
        BY EndFields, Zenon
      <4>6. CASE Unused(a, S, W, i)
        <5>1. b.r
          BY <3>5, <4>6, Zenon DEF Unused, DoneRel
        <5>2. m > 0 => b.w
          BY <3>3, <4>6, <5>1, Zenon DEF Unused, PrepRel
        <5>3. \A j \in W \cup {i} : J[j] = "run" => j = x
          BY <4>6, Zenon DEF Unused
        <5>4. OnPipe(d, n, H \cup G, J, T, W, i, s, b.pipe)
          <6>1. J[i] = "run" => <<i, "r", s, b.pipe>> \in H \cup G
            BY <5>1, <5>3, Zenon
          <6>2. \A j \in W : J[j] = "run" => <<j, "w", s, b.pipe>> \in H \cup G
            BY <4>3, <5>2, <5>3, Zenon
          <6>3. T[i] = 0 => d.r /\ d.pipe = b.pipe
            BY <4>1, <4>4, <5>1, Zenon
          <6>4. n > 0 => d.w /\ d.pipe = b.pipe
            BY <4>3, <4>4, <5>2, Zenon
          <6> QED BY <6>1, <6>2, <6>3, <6>4, Zenon DEF OnPipe
        <5> QED BY <4>2, <4>5, <5>4, Zenon
      <4>7. CASE \E q \in Nat : OnPipe(a, m, H, I, S, W, i, s, q)
        <5>1. PICK q \in Nat : OnPipe(a, m, H, I, S, W, i, s, q)
          BY <4>7, Zenon
        <5>2. ReadsFrom(v, s) => a.r /\ a.pipe = q
          BY <4>1, <5>1, Zenon DEF OnPipe
        <5>3. m > 0 => a.w /\ a.pipe = q
          BY <5>1, Zenon DEF OnPipe
        <5>4. a.pipe = q /\ b.pipe = q /\ b.r = a.r /\ (a.w /\ ~b.w => a.spawned >= a.writers)
          BY <3>3, <3>5, <4>3, <5>2, <5>3, Zenon DEF PrepRel
        <5>5. m > 0 => b.w
          BY <3>3, <5>3, <5>4, Zenon
        <5>6. OnPipe(d, n, H \cup G, J, T, W, i, s, q)
          <6>1. J[i] = "run" => <<i, "r", s, q>> \in H \cup G
            <7>1. CASE i = x
              BY <5>2, <5>4, <7>1, Zenon
            <7>2. CASE i # x
              BY <5>1, <7>2, Zenon DEF OnPipe
            <7> QED BY <7>1, <7>2, Zenon
          <6>2. \A j \in W : J[j] = "run" => <<j, "w", s, q>> \in H \cup G
            <7> SUFFICES ASSUME NEW j \in W, J[j] = "run"
                         PROVE  <<j, "w", s, q>> \in H \cup G
              BY Zenon
            <7>1. CASE j = x
              BY <4>3, <5>4, <5>5, <7>1, Zenon
            <7>2. CASE j # x
              BY <5>1, <7>2, Zenon DEF OnPipe
            <7> QED BY <7>1, <7>2, Zenon
          <6>3. T[i] = 0 => d.r /\ d.pipe = q
            BY <4>1, <4>4, <5>1, <5>4, Zenon DEF OnPipe
          <6>4. n > 0 => d.w /\ d.pipe = q
            BY <4>3, <4>4, <5>4, <5>5, Zenon
          <6> QED BY <6>1, <6>2, <6>3, <6>4, Zenon DEF OnPipe
        <5> QED BY <4>2, <5>6, Zenon
      <4> QED BY <3>1, <4>6, <4>7, Zenon DEF Link
    <3> QED BY <3>4, <3>5, Zenon
  \* A step that starts service x and may pass it.
  <2>PendingStarted. ASSUME PairFacts, TableInv, NEW s, table' = table, starts \in [Places -> 0 .. 2],
                            NEW x \in 1 .. N, NEW n, n # 0, starts' = [starts EXCEPT ![x] = n],
                            at \in Nat, at' = at \/ (at' = at + 1 /\ x = at), starts[x] = 0 => x >= at
                     PROVE  /\ Cardinality(Pending(s)') \in Nat
                            /\ IF starts[x] = 0
                                 THEN Cardinality(Pending(s)) = Cardinality(Pending(s)') + Outs(svc[x], s)
                                 ELSE Cardinality(Pending(s)) = Cardinality(Pending(s)')
    <3> USE <2>PendingStarted
    <3>1. \A b \in (1 .. N) \X Output : b[1] \in 1 .. N
      OBVIOUS
    <3>2. N \in Nat /\ svc' = svc /\ N' = N /\ \A k \in 1 .. N : k \in Places
      BY Services, Zenon DEF svc, N
    <3>3. \A k \in 1 .. N : starts'[k] = IF k = x THEN n ELSE starts[k]
      BY <3>2, Zenon
    <3>4. ASSUME NEW k \in 1 .. N
          PROVE  k >= at' /\ starts'[k] = 0 <=> k >= at /\ starts[k] = 0 /\ k # x
      BY <3>2, <3>3
    <3>5. Pending(s)' = {b \in Pending(s) : b[1] # x}
      BY <3>1, <3>2, <3>4, Zenon DEF Pending
    <3>6. CASE starts[x] = 0
      BY <3>5, <3>6, <1>PendingLess, Zenon
    <3>7. CASE starts[x] # 0
      <4>1. \A b \in Pending(s) : b[1] # x
        BY <3>7, Zenon DEF Pending
      <4>2. Pending(s)' = Pending(s)
        BY <3>5, <4>1, Zenon
      <4> QED BY <3>7, <4>2, PendingSet, Zenon
    <3> QED BY <3>6, <3>7, Zenon
  <2> SUFFICES ASSUME Base, NEW x \in 1 .. N, SpawnWorks(x), table' = table,
                      at' = at \/ (at' = at + 1 /\ x = at), starts[x] = 0 => x >= at
               PROVE  chan' \in [Stream -> End] /\ StreamBody'
    BY Zenon DEF StartedStep
  <2> DEFINE v == svc[x]
             c == Prepared(v)
             G == Given(x, v, c)
             n == IF starts[x] < 2 THEN starts[x] + 1 ELSE 2
  <2>1. /\ svc' = svc /\ N' = N /\ TableInv /\ PairFacts /\ MaxServices \in Nat
        /\ Binds(v) /\ ~Reading
        /\ \A k \in 1 .. N : k \in Places
    BY Services, Zenon DEF svc, N, Base
  <2>2. /\ hold' = hold \cup G /\ chan' = Handed(v, c)
        /\ inst' = [inst EXCEPT ![x] = "run"] /\ starts' = [starts EXCEPT ![x] = n]
    BY Zenon DEF SpawnWorks
  <2>3. /\ starts \in [Places -> 0 .. 2] /\ inst \in [Places -> {"none", "run", "ok", "bad"}]
        /\ at \in Nat
    <3>1. N \in Nat /\ at \in 1 .. N + 1
      BY Services, Zenon DEF Base, RunTypes
    <3> QED BY <3>1 DEF Base, RunTypes
  <2>4. n # 0 /\ (starts[x] = 0 \/ ~(n <= 1)) /\ (starts[x] <= 1 \/ ~(n <= 1))
    <3>1. starts[x] \in 0 .. 2
      BY <2>1, <2>3, Zenon
    <3> QED BY <3>1
  <2> HIDE DEF n
  <2>5. \A s \in Stream : /\ Cardinality(Pending(s)') \in Nat
                          /\ IF starts[x] = 0
                               THEN Cardinality(Pending(s)) =
                                      Cardinality(Pending(s)') + Outs(v, s)
                               ELSE Cardinality(Pending(s)) = Cardinality(Pending(s)')
    BY <2>1, <2>2, <2>3, <2>4, <2>PendingStarted, Zenon
  <2>6. \A s \in Stream : /\ Writers(s)' = Writers(s) /\ Writers(s) \subseteq 1 .. N
                          /\ x \in Writers(s) <=> WritesTo(v, s)
    BY <2>1, <1>WritersOf, Zenon DEF Writers
  <2>7. /\ chan \in [Stream -> End]
        /\ \A s \in Stream : /\ FreshPipe(s) \in Nat
                             /\ \A h \in hold : h[3] = s => h[4] # FreshPipe(s)
                             /\ Cardinality(Pending(s)) \in Nat
        /\ \A j \in 1 .. N : starts[j] = 0 => inst[j] # "run"
    BY <1>StreamFacts, Zenon DEF Base
  <2> HIDE DEF v
  <2>8. /\ c \in [Stream -> End]
        /\ \A s \in Stream : /\ PrepRel(v, s, chan[s], c[s], FreshPipe(s))
                             /\ DoneRel(v, s, chan[s], c[s])
    BY <2>1, <2>7, <1>PreparedEffect, Zenon
  <2> HIDE DEF c
  <2>9. /\ chan' \in [Stream -> End]
        /\ \A s \in Stream : HandRel(v, s, c[s], chan'[s])
    <3>1. \A s \in Stream : c[s].spawned <= 2 * MaxServices
      BY <2>8, Zenon DEF Base, StreamBody, CountInv, Count, PrepRel
    <3> QED BY <2>1, <2>2, <2>8, <3>1, <2>HandedEffect, Zenon
  <2>10. \A s \in Stream :
           /\ \A h \in G : h[2] = "r" /\ h[3] = s => ReadsFrom(v, s)
           /\ ReadsFrom(v, s) /\ c[s].r => <<x, "r", s, c[s].pipe>> \in G
           /\ WritesTo(v, s) /\ c[s].w => <<x, "w", s, c[s].pipe>> \in G
    <3>1. \A h \in G : EndOf(h, x, v, c)
      BY <2>1, <1>GivenEnds, Zenon
    <3> HIDE DEF G
    <3>2. ASSUME NEW h \in G, h[2] = "r" PROVE ReadsFrom(v, h[3])
      BY <3>1, <3>2 DEF EndOf
    <3> QED BY <2>1, <3>2, <1>GivenEnds, Zenon DEF G
  <2> HIDE DEF G
  <2>11. ASSUME NEW s \in Stream
         PROVE  CountInv(s)'
    <3>1. Count(chan[s], Cardinality(Pending(s)), hold, s)
      BY Zenon DEF Base, StreamBody, CountInv
    <3>2. chan[s] \in End /\ c[s] \in End /\ chan'[s] \in End
      BY <2>7, <2>8, <2>9, Zenon
    <3>3. Cardinality(Pending(s)) \in {Cardinality(Pending(s)'), Cardinality(Pending(s)') + Outs(v, s)}
      BY <2>5, Zenon
    <3>4. Count(chan'[s], Cardinality(Pending(s)'), hold \cup G, s)
      BY <2>1, <2>5, <2>7, <2>8, <2>9, <2>10, <3>1, <3>2, <3>3, <2>CountHanded, ZenonT(20)
    <3> QED BY <2>2, <3>4, Zenon DEF CountInv
  <2>12. ASSUME NEW i \in 1 .. N, NEW s \in Stream, ReadsFrom(svc[i], s)
         PROVE  LinkInv(i, s)'
    <3> DEFINE m == Cardinality(Pending(s))
               k == Cardinality(Pending(s)')
               W == Writers(s)
    <3>1. /\ Link(chan[s], m, hold, inst, starts, W, i, s)
          /\ Count(chan[s], m, hold, s)
      BY <2>12, Zenon DEF Base, StreamBody, LinkInv, CountInv
    <3>2. chan[s] \in End /\ c[s] \in End /\ chan'[s] \in End
      BY <2>7, <2>8, <2>9, Zenon
    <3>3. W \cup {i} \subseteq 1 .. N
      BY <2>6, Zenon
    <3>4. \A j \in 1 .. N : /\ starts'[j] = IF j = x THEN n ELSE starts[j]
                            /\ inst'[j] = IF j = x THEN "run" ELSE inst[j]
      BY <2>1, <2>2, <2>3, Zenon
    <3>5. /\ \A j \in W \cup {i} : starts[j] = 0 => inst[j] # "run"
          /\ \A j \in W \cup {i} : j # x => inst'[j] = inst[j] /\ starts'[j] = starts[j]
          /\ \A j \in W \cup {i} : starts[j] <= 1 \/ ~(starts'[j] <= 1)
          /\ x \in W \cup {i} => starts'[x] # 0 /\ (starts[x] = 0 \/ ~(starts'[x] <= 1))
      BY <2>4, <2>7, <3>3, <3>4, Zenon
    <3>6. (WritesTo(v, s) <=> x \in W) /\ (ReadsFrom(v, s) <=> x = i)
      <4>1. ReadsFrom(v, s) => x = i
        BY <2>1, <2>12, <1>OneReader, Zenon DEF v
      <4> QED BY <2>6, <2>12, <4>1, Zenon DEF v
    <3>7. m \in Nat /\ k \in Nat /\ IF starts[x] = 0 THEN m = k + Outs(v, s) ELSE m = k
      BY <2>5, <2>7, Zenon
    <3> HIDE DEF m, k, W
    <3>8. StartsOn(chan[s], c[s], chan'[s], m, k, hold, G, inst, inst', starts, starts',
                   W, i, x, s, v, FreshPipe(s))
      BY <2>8, <2>9, <2>10, <3>1, <3>5, <3>6, <3>7, Zenon DEF StartsOn
    <3>9. Link(chan'[s], k, hold \cup G, inst', starts', W, i, s)
      BY <2>1, <2>7, <3>2, <3>7, <3>8, <2>LinkHanded, Zenon
    <3> QED BY <2>2, <2>6, <3>9, Zenon DEF LinkInv, k, W
  <2> QED BY <2>1, <2>9, <2>11, <2>12, Zenon DEF StreamBody
\* The handles of a service are chosen: what is counted stays right.
<1>CountPrepared. ASSUME NEW a \in End, NEW b \in End, NEW m \in Nat, NEW H, NEW s, NEW v, NEW p,
                         Count(a, m, H, s), PrepRel(v, s, a, b, p),
                         \A h \in H : h[3] = s => h[4] # p
                  PROVE  Count(b, m, H, s)
  <2> USE <1>CountPrepared
  <2>1. b.writers = a.writers /\ b.spawned = a.spawned
    BY Zenon DEF PrepRel
  <2>2. ASSUME b.w, NEW h \in H, h[2] = "r" /\ h[3] = s /\ h[4] = b.pipe
        PROVE  b.spawned < b.writers
    <3>1. b.pipe # p
      BY <2>2, Zenon
    <3>2. b.pipe = a.pipe /\ a.w
      BY <2>2, <3>1, Zenon DEF PrepRel
    <3> QED BY <2>1, <2>2, <3>2, Zenon DEF Count
  <2> QED BY <2>1, <2>2, Zenon DEF Count
\* The handles of a service are chosen: the channel keeps its one pipe.
<1>LinkPrepared. ASSUME NEW a \in End, NEW b \in End, NEW m \in Nat, NEW H, NEW I, NEW S, NEW W, NEW i,
                        NEW s, NEW v, NEW p \in Nat,
                        Link(a, m, H, I, S, W, i, s), PrepRel(v, s, a, b, p),
                        \A j \in W \cup {i} : S[j] = 0 => I[j] # "run"
                 PROVE  Link(b, m, H, I, S, W, i, s)
  <2> USE <1>LinkPrepared
  <2> SUFFICES ASSUME Once(S, W, i)
               PROVE  /\ b.writers = b.spawned + m
                      /\ Unused(b, S, W, i) \/ \E q \in Nat : OnPipe(b, m, H, I, S, W, i, s, q)
    BY Zenon DEF Link
  <2>1. b.writers = a.writers /\ b.spawned = a.spawned /\ a.writers = a.spawned + m
    BY Zenon DEF PrepRel, Link
  <2>2. a.spawned >= a.writers => ~(m > 0)
    BY <2>1, <1>AllSpawned, Zenon
  <2>3. CASE Unused(a, S, W, i)
    <3>1. CASE b.r = a.r /\ (b.w => a.w)
      BY <2>1, <2>3, <3>1, Zenon DEF Unused
    <3>2. CASE ~(b.r = a.r /\ (b.w => a.w))
      <4>1. b.pipe = p /\ b.r /\ (~b.w => a.spawned >= a.writers)
        BY <3>2, Zenon DEF PrepRel
      <4>2. OnPipe(b, m, H, I, S, W, i, s, p)
        BY <2>2, <2>3, <4>1, Zenon DEF OnPipe, Unused
      <4> QED BY <2>1, <4>2, Zenon
    <3> QED BY <3>1, <3>2, Zenon
  <2>4. CASE \E q \in Nat : OnPipe(a, m, H, I, S, W, i, s, q)
    <3>1. PICK q \in Nat : OnPipe(a, m, H, I, S, W, i, s, q)
      BY <2>4, Zenon
    <3>2. S[i] = 0 => b.r /\ b.pipe = q
      BY <3>1, Zenon DEF PrepRel, OnPipe
    <3>3. m > 0 => b.w /\ b.pipe = q
      BY <2>2, <3>1, Zenon DEF PrepRel, OnPipe
    <3>4. OnPipe(b, m, H, I, S, W, i, s, q)
      BY <3>1, <3>2, <3>3, Zenon DEF OnPipe
    <3> QED BY <2>1, <3>4, Zenon
  <2> QED BY <2>3, <2>4, Zenon DEF Link
\* The channels after a spawn that fails, before anything else happens to them.
<1>BrokenEffect. ASSUME Base, NEW x \in 1 .. N, NEW c \in Broken(x)
                 PROVE  /\ c \in [Stream -> End]
                        /\ \A s \in Stream : PrepRel(svc[x], s, chan[s], c[s], FreshPipe(s))
  <2> USE <1>BrokenEffect
  <2>1. /\ chan \in [Stream -> End] /\ \A s \in Stream : FreshPipe(s) \in Nat
    BY <1>StreamFacts, Zenon DEF Base
  <2>2. Binds(svc[x])
    BY Services, Zenon DEF Base
  <2>3. CASE c = chan
    BY <2>1, <2>3, Zenon DEF PrepRel
  <2>4. ASSUME NEW F, c = Prepared(Upto(svc[x], F))
        PROVE  /\ c \in [Stream -> End]
               /\ \A s \in Stream : PrepRel(svc[x], s, chan[s], c[s], FreshPipe(s))
    <3> DEFINE u == Upto(svc[x], F)
    <3>1. \A f \in Fd : /\ u.to[f] = svc[x].to[f]
                        /\ u.mode[f] = svc[x].mode[f] \/ u.mode[f] = "inherit"
      <4>1. svc[x] \in Service
        BY Services, Zenon DEF Base, RowInv
      <4> DEFINE m == [f \in Fd |-> IF f \in F THEN svc[x].mode[f] ELSE "inherit"]
      <4>2. u = [svc[x] EXCEPT !.mode = m]
        BY Zenon DEF Upto
      <4>3. \A f \in Fd : m[f] = svc[x].mode[f] \/ m[f] = "inherit"
        BY Zenon
      <4> HIDE DEF m, u
      <4>4. u.mode = m /\ u.to = svc[x].to
        BY <4>1, <4>2, ZenonT(20) DEF Service
      <4> QED BY <4>3, <4>4, Zenon
    <3> HIDE DEF u
    <3>2. "inherit" \notin Kind /\ "inherit" # "channel" /\ "in" \in Fd /\ Output \subseteq Fd
      BY DEF Kind, Fd, Output
    <3>3. Binds(u)
      BY <2>2, <3>1, <3>2, Zenon DEF Binds
    <3>4. \A s \in Stream : /\ ReadsFrom(u, s) => ReadsFrom(svc[x], s)
                            /\ WritesTo(u, s) => WritesTo(svc[x], s)
      BY <3>1, <3>2, Zenon DEF ReadsFrom, WritesTo, BoundTo
    <3>5. /\ c \in [Stream -> End]
          /\ \A s \in Stream : PrepRel(u, s, chan[s], c[s], FreshPipe(s))
      BY <2>1, <2>4, <3>3, <1>PreparedEffect, Zenon DEF u
    <3> QED BY <3>4, <3>5, Zenon DEF PrepRel
  <2> QED BY <2>3, <2>4, Zenon DEF Broken
\* A service is passed that never ran: it is skipped, or its spawn has failed.
<1>StreamsDropped. Base => \A c \in Broken(at) \cup {chan} :
                             DroppedStep(c) => chan' \in [Stream -> End] /\ StreamBody'
  \* A writer is no longer awaited.
  <2> DEFINE LoseRel(a, b) ==
               /\ b.r = a.r /\ b.pipe = a.pipe /\ b.spawned = a.spawned
               /\ a.writers = 0 => b = a
               /\ a.writers > 0 => /\ b.writers = a.writers - 1
                                   /\ b.w <=> a.w /\ b.spawned < b.writers
  \* The outputs of v are no longer awaited.
  <2> DEFINE DropRel(v, s, a, b) ==
               /\ b.pipe = a.pipe /\ b.r = a.r /\ b.spawned = a.spawned
               /\ b.writers = IF a.writers >= Outs(v, s) THEN a.writers - Outs(v, s) ELSE 0
               /\ b.w => a.w
               /\ a.w /\ ~b.w => b.spawned >= b.writers
               /\ b.w /\ a.writers > 0 /\ WritesTo(v, s) => b.spawned < b.writers
  <2> DEFINE Dropped(v, f, c, d) ==
               \A s \in Stream : IF BoundTo(v, f, "channel", s) THEN LoseRel(c[s], d[s]) ELSE d[s] = c[s]
  <2> HIDE DEF LoseRel, DropRel, Dropped
  \* An output of a service that never ran: only its channel changes.
  <2>DropEffect. ASSUME NEW c \in [Stream -> End], NEW v, NEW f,
                        OnChannel(v, f) => v.to[f] \in Stream
                 PROVE  DropWriter(c, v, f) \in [Stream -> End] /\ Dropped(v, f, c, DropWriter(c, v, f))
    <3> USE <2>DropEffect
    <3> DEFINE s == v.to[f]
               d == [c[s] EXCEPT !.writers = c[s].writers - 1]
               e == [c EXCEPT ![s] = d]
    <3>0. \A z : BoundTo(v, f, "channel", z) <=> OnChannel(v, f) /\ z = s
      BY Zenon DEF BoundTo, OnChannel
    <3>1. CASE ~OnChannel(v, f)
      <4>1. DropWriter(c, v, f) = c
        BY <3>1, Zenon DEF DropWriter
      <4> QED BY <3>0, <3>1, <4>1, Zenon DEF Dropped
    <3>2. CASE OnChannel(v, f)
      <4>0. s \in Stream /\ c[s] \in End /\ c[s].writers \in Nat
        BY <3>2, EndFields, Zenon
      <4>1. CASE ~(c[s].writers > 0)
        <5>1. c[s].writers = 0 /\ DropWriter(c, v, f) = c
          BY <4>0, <4>1 DEF DropWriter
        <5> QED BY <3>0, <4>0, <4>1, <5>1, Zenon DEF LoseRel, Dropped
      <4>2. CASE c[s].writers > 0
        <5>1. DropWriter(c, v, f) = CloseIfAllSpawned(e, s)
          BY <3>2, <4>2, Zenon DEF DropWriter
        <5>2. c[s].writers - 1 \in Nat /\ c[s].writers # 0
          BY <4>0, <4>2
        <5>3. /\ d \in End /\ d.r = c[s].r /\ d.w = c[s].w /\ d.pipe = c[s].pipe
              /\ d.writers = c[s].writers - 1 /\ d.spawned = c[s].spawned
          BY <4>0, <5>2, ZenonT(20) DEF End
        <5> HIDE DEF d
        <5>4. e \in [Stream -> End] /\ e[s] = d /\ \A z \in Stream : z # s => e[z] = c[z]
          BY <4>0, <5>3, Zenon
        <5> HIDE DEF e
        <5>5. /\ CloseIfAllSpawned(e, s) \in [Stream -> End]
              /\ \A z \in Stream : z # s => CloseIfAllSpawned(e, s)[z] = e[z]
              /\ CloseRel(e[s], CloseIfAllSpawned(e, s)[s])
          BY <4>0, <5>4, <1>CloseEffect, Zenon
        <5>6. LoseRel(c[s], CloseIfAllSpawned(e, s)[s])
          BY <4>2, <5>2, <5>3, <5>4, <5>5, ZenonT(20) DEF CloseRel, LoseRel
        <5> DEFINE k == DropWriter(c, v, f)
        <5>7. /\ k \in [Stream -> End] /\ LoseRel(c[s], k[s])
              /\ \A z \in Stream : z # s => k[z] = c[z]
          BY <5>1, <5>4, <5>5, <5>6, Zenon
        <5> HIDE DEF s, k
        <5>8. \A z \in Stream : IF BoundTo(v, f, "channel", z) THEN LoseRel(c[z], k[z])
                                                               ELSE k[z] = c[z]
          <6> SUFFICES ASSUME NEW z \in Stream
                       PROVE  IF BoundTo(v, f, "channel", z) THEN LoseRel(c[z], k[z])
                                                             ELSE k[z] = c[z]
            OBVIOUS
          <6>1. CASE z = s
            BY <3>0, <3>2, <5>7, <6>1, Zenon
          <6>2. CASE z # s
            BY <3>0, <5>7, <6>2, Zenon
          <6> QED BY <6>1, <6>2, Zenon
        <5> QED BY <5>7, <5>8, Zenon DEF k, Dropped
      <4> QED BY <4>1, <4>2, Zenon
    <3> QED BY <3>1, <3>2, Zenon
  \* The outputs of a service that never ran.
  <2>ReleaseEffect. ASSUME NEW h \in [Stream -> End], NEW v, Binds(v)
                    PROVE  /\ release_unspawned_channel_writers(h, v) \in [Stream -> End]
                           /\ \A s \in Stream :
                                DropRel(v, s, h[s], release_unspawned_channel_writers(h, v)[s])
    <3> USE <2>ReleaseEffect
    <3> DEFINE g == DropWriter(h, v, "out")
               k == DropWriter(g, v, "err")
    <3>1. /\ OnChannel(v, "out") => v.to["out"] \in Stream
          /\ OnChannel(v, "err") => v.to["err"] \in Stream
      BY DEF Binds, OnChannel, Kind, Fd
    <3>2. g \in [Stream -> End] /\ Dropped(v, "out", h, g)
      BY <3>1, <2>DropEffect, Zenon
    <3> HIDE DEF g
    <3>3. k \in [Stream -> End] /\ Dropped(v, "err", g, k)
      BY <3>1, <3>2, <2>DropEffect, Zenon
    <3> HIDE DEF k
    <3>4. release_unspawned_channel_writers(h, v) = k
      BY Zenon DEF release_unspawned_channel_writers, g, k
    <3>5. ASSUME NEW s \in Stream
          PROVE  DropRel(v, s, h[s], k[s])
      <4> DEFINE a == h[s]
                 b == g[s]
                 c == k[s]
                 X == BoundTo(v, "out", "channel", s)
                 Y == BoundTo(v, "err", "channel", s)
      <4>1. WritesTo(v, s) <=> X \/ Y
        BY DEF WritesTo, Output
      <4>2. Outs(v, s) = (IF X THEN 1 ELSE 0) + (IF Y THEN 1 ELSE 0)
        BY Zenon DEF Outs
      <4>3. /\ IF X THEN LoseRel(a, b) ELSE b = a
            /\ IF Y THEN LoseRel(b, c) ELSE c = b
        BY <3>2, <3>3, Zenon DEF Dropped
      <4>4. /\ a.writers \in Nat /\ a.spawned \in Nat /\ b.writers \in Nat /\ b.spawned \in Nat
            /\ c.writers \in Nat
        BY <3>2, <3>3, EndFields, Zenon
      <4> SUFFICES DropRel(v, s, a, c)
        OBVIOUS
      <4> HIDE DEF a, b, c, X, Y
      <4>5. c.pipe = a.pipe /\ c.r = a.r /\ c.spawned = a.spawned /\ b.spawned = a.spawned
        BY <4>3, Zenon DEF LoseRel
      <4>6. /\ b.writers = IF X /\ a.writers > 0 THEN a.writers - 1 ELSE a.writers
            /\ IF X /\ a.writers > 0 THEN b.w <=> a.w /\ a.spawned < b.writers ELSE b.w = a.w
        BY <4>3, <4>4, <4>5 DEF LoseRel
      <4>7. /\ c.writers = IF Y /\ b.writers > 0 THEN b.writers - 1 ELSE b.writers
            /\ IF Y /\ b.writers > 0 THEN c.w <=> b.w /\ a.spawned < c.writers ELSE c.w = b.w
        BY <4>3, <4>4, <4>5 DEF LoseRel
      <4>8. c.writers = IF a.writers >= Outs(v, s) THEN a.writers - Outs(v, s) ELSE 0
        BY <4>2, <4>4, <4>6, <4>7
      <4>9. /\ c.w => a.w
            /\ a.w /\ ~c.w => a.spawned >= c.writers
            /\ c.w /\ a.writers > 0 /\ (X \/ Y) => a.spawned < c.writers
        BY <4>4, <4>6, <4>7
      <4> QED BY <4>1, <4>5, <4>8, <4>9, Zenon DEF DropRel
    <3> QED BY <3>3, <3>4, <3>5, Zenon
  \* The outputs of a service that never ran are no longer awaited: the numbers.
  <2>DropNumbers. ASSUME NEW b \in End, NEW d \in End, NEW m \in Nat, NEW n \in Nat, NEW s, NEW v,
                         DropRel(v, s, b, d), m = n + Outs(v, s)
                  PROVE  /\ b.writers <= b.spawned + m => d.writers <= d.spawned + n
                         /\ b.writers = b.spawned + m => d.writers = d.spawned + n
                         /\ d.writers <= b.writers
                         /\ ~WritesTo(v, s) => d.writers = b.writers
                         /\ m > 0 \/ ~(n > 0)
    <3> USE <2>DropNumbers
    <3>1. b.writers \in Nat /\ b.spawned \in Nat
      BY EndFields, Zenon
    <3>2. Outs(v, s) \in 0 .. 2 /\ (~WritesTo(v, s) => Outs(v, s) = 0)
      BY DEF Outs, WritesTo, Output
    <3>3. /\ d.writers = IF b.writers >= Outs(v, s) THEN b.writers - Outs(v, s) ELSE 0
          /\ d.spawned = b.spawned
      BY Zenon DEF DropRel
    <3> QED BY <3>1, <3>2, <3>3
  \* The same, with what is counted.
  <2>CountDropped. ASSUME NEW b \in End, NEW d \in End, NEW m \in Nat, NEW n \in Nat, NEW H, NEW s, NEW v,
                          MaxServices \in Nat, Count(b, m, H, s), DropRel(v, s, b, d), m = n + Outs(v, s)
                   PROVE  Count(d, n, H, s)
    <3> USE <2>CountDropped
    <3>1. /\ d.spawned = b.spawned /\ d.pipe = b.pipe /\ (d.w => b.w)
          /\ d.w /\ b.writers > 0 /\ WritesTo(v, s) => d.spawned < d.writers
      BY Zenon DEF DropRel
    <3>2. /\ d.writers <= d.spawned + n /\ d.writers <= b.writers
          /\ ~WritesTo(v, s) => d.writers = b.writers
      <4>1. b.writers <= b.spawned + m
        BY Zenon DEF Count
      <4> QED BY <4>1, <2>DropNumbers
    <3>3. b.writers \in Nat /\ b.spawned \in Nat /\ d.writers \in Nat
      BY EndFields, Zenon
    <3>4. d.spawned <= 2 * MaxServices /\ d.writers <= 2 * MaxServices
      <4>1. b.spawned <= 2 * MaxServices /\ b.writers <= 2 * MaxServices
        BY Zenon DEF Count
      <4> QED BY <3>1, <3>2, <3>3, <4>1
    <3>5. ASSUME d.w, \E h \in H : h[2] = "r" /\ h[3] = s /\ h[4] = d.pipe
          PROVE  d.spawned < d.writers
      <4>1. b.spawned < b.writers
        BY <3>1, <3>5, Zenon DEF Count
      <4>2. b.writers > 0
        BY <3>3, <4>1
      <4> QED BY <3>1, <3>2, <3>5, <4>1, <4>2, Zenon
    <3> QED BY <3>2, <3>4, <3>5, Zenon DEF Count
  \* The same, with the one pipe.
  <2>LinkDropped. ASSUME NEW b \in End, NEW d \in End, NEW m \in Nat, NEW n \in Nat, NEW H, NEW I, NEW S,
                         NEW W, NEW i, NEW s, NEW v,
                         Link(b, m, H, I, S, W, i, s), DropRel(v, s, b, d), m = n + Outs(v, s)
                  PROVE  Link(d, n, H, I, S, W, i, s)
    <3> USE <2>LinkDropped
    <3> SUFFICES ASSUME Once(S, W, i)
                 PROVE  /\ d.writers = d.spawned + n
                        /\ Unused(d, S, W, i) \/ \E q \in Nat : OnPipe(d, n, H, I, S, W, i, s, q)
      BY Zenon DEF Link
    <3>1. d.writers = d.spawned + n /\ (m > 0 \/ ~(n > 0))
      BY <2>DropNumbers, ZenonT(30) DEF Link
    <3>2. d.spawned >= d.writers => ~(n > 0)
      BY <3>1, <1>AllSpawned, Zenon
    <3>3. /\ d.pipe = b.pipe /\ d.r = b.r /\ (d.w => b.w)
          /\ b.w /\ ~d.w => d.spawned >= d.writers
      BY Zenon DEF DropRel
    <3>4. CASE Unused(b, S, W, i)
      BY <3>1, <3>3, <3>4, Zenon DEF Unused
    <3>5. CASE \E q \in Nat : OnPipe(b, m, H, I, S, W, i, s, q)
      <4>1. PICK q \in Nat : OnPipe(b, m, H, I, S, W, i, s, q)
        BY <3>5, Zenon
      <4>2. OnPipe(d, n, H, I, S, W, i, s, q)
        BY <3>1, <3>2, <3>3, <4>1, Zenon DEF OnPipe
      <4> QED BY <3>1, <4>2, Zenon
    <3> QED BY <3>4, <3>5, Zenon DEF Link
  \* A step that passes a service that never ran.
  <2>PendingPassed. ASSUME PairFacts, TableInv, NEW s, table' = table, starts' = starts, at \in 1 .. N,
                           at' = at + 1, starts[at] = 0
                    PROVE  /\ Cardinality(Pending(s)') \in Nat
                           /\ Cardinality(Pending(s)) = Cardinality(Pending(s)') + Outs(svc[at], s)
    <3> USE <2>PendingPassed
    <3>1. \A b \in (1 .. N) \X Output : b[1] \in 1 .. N
      OBVIOUS
    <3>2. N \in Nat /\ svc' = svc /\ N' = N
      BY Services, Zenon DEF svc, N
    <3>3. ASSUME NEW k \in 1 .. N
          PROVE  k >= at' <=> k >= at /\ k # at
      BY <3>2
    <3>4. Pending(s)' = {b \in Pending(s) : b[1] # at}
      BY <3>1, <3>2, <3>3, Zenon DEF Pending
    <3>5. at >= at
      OBVIOUS
    <3> QED BY <3>4, <3>5, <1>PendingLess, Zenon
  <2> SUFFICES ASSUME Base, at \in 1 .. N, NEW c \in Broken(at) \cup {chan}, table' = table,
                      chan' = release_unspawned_channel_writers(c, svc[at]), starts' = starts,
                      at' = at + 1, starts[at] = 0, hold' = hold, inst' = inst
               PROVE  chan' \in [Stream -> End] /\ StreamBody'
    BY Zenon DEF DroppedStep
  <2>1. svc' = svc /\ N' = N /\ TableInv /\ PairFacts /\ MaxServices \in Nat
    BY Services, Zenon DEF svc, N, Base
  <2>2. \A s \in Stream : /\ Cardinality(Pending(s)') \in Nat
                          /\ Cardinality(Pending(s)) =
                               Cardinality(Pending(s)') + Outs(svc[at], s)
    BY <2>1, <2>PendingPassed, Zenon
  <2>3. \A s \in Stream : Writers(s)' = Writers(s) /\ Writers(s) \subseteq 1 .. N
    BY <2>1, <1>WritersOf, Zenon DEF Writers
  <2>4. /\ c \in [Stream -> End] /\ chan \in [Stream -> End]
        /\ \A s \in Stream : PrepRel(svc[at], s, chan[s], c[s], FreshPipe(s))
    <3>1. c \in Broken(at)
      BY Zenon DEF Broken
    <3> QED BY <3>1, <1>BrokenEffect, <1>StreamFacts, Zenon DEF Base
  <2>5. /\ chan' \in [Stream -> End]
        /\ \A s \in Stream : DropRel(svc[at], s, c[s], chan'[s])
    <3>1. Binds(svc[at])
      BY Services, Zenon DEF Base
    <3> QED BY <2>4, <3>1, <2>ReleaseEffect, Zenon
  <2>6. /\ \A s \in Stream : /\ FreshPipe(s) \in Nat
                             /\ \A h \in hold : h[3] = s => h[4] # FreshPipe(s)
                             /\ Cardinality(Pending(s)) \in Nat
        /\ \A j \in 1 .. N : starts[j] = 0 => inst[j] # "run"
    BY <1>StreamFacts, Zenon DEF Base
  <2>7. ASSUME NEW s \in Stream
        PROVE  CountInv(s)'
    <3>1. Count(chan[s], Cardinality(Pending(s)), hold, s)
      BY Zenon DEF Base, StreamBody, CountInv
    <3>2. chan[s] \in End /\ c[s] \in End /\ chan'[s] \in End
      BY <2>4, <2>5, Zenon
    <3>3. Count(c[s], Cardinality(Pending(s)), hold, s)
      BY <2>4, <2>6, <3>1, <3>2, <1>CountPrepared, ZenonT(30)
    <3>4. Count(chan'[s], Cardinality(Pending(s)'), hold, s)
      BY <2>1, <2>2, <2>5, <2>6, <3>2, <3>3, <2>CountDropped, Zenon
    <3> QED BY <3>4, Zenon DEF CountInv
  <2>8. ASSUME NEW i \in 1 .. N, NEW s \in Stream, ReadsFrom(svc[i], s)
        PROVE  LinkInv(i, s)'
    <3>1. Link(chan[s], Cardinality(Pending(s)), hold, inst, starts, Writers(s), i, s)
      BY <2>8, Zenon DEF Base, StreamBody, LinkInv
    <3>2. chan[s] \in End /\ c[s] \in End /\ chan'[s] \in End
      BY <2>4, <2>5, Zenon
    <3>3. \A j \in Writers(s) \cup {i} : starts[j] = 0 => inst[j] # "run"
      BY <2>3, <2>6, Zenon
    <3>4. Link(c[s], Cardinality(Pending(s)), hold, inst, starts, Writers(s), i, s)
      BY <2>4, <2>6, <3>1, <3>2, <3>3, <1>LinkPrepared, Zenon
    <3>5. Link(chan'[s], Cardinality(Pending(s)'), hold, inst, starts, Writers(s), i, s)
      BY <2>2, <2>5, <2>6, <3>2, <3>4, <2>LinkDropped, Zenon
    <3> QED BY <2>3, <3>5, Zenon DEF LinkInv
  <2> QED BY <2>1, <2>5, <2>7, <2>8, Zenon DEF StreamBody
\* A step that starts nothing and passes no service that never ran.
<1>PendingKept. ASSUME TableInv, NEW s, table' = table, starts' = starts, at \in Nat,
                       at' = at \/ (at' = at + 1 /\ starts[at] # 0)
                PROVE  Pending(s)' = Pending(s)
  <2> USE <1>PendingKept
  <2>1. \A b \in (1 .. N) \X Output : b[1] \in 1 .. N
    OBVIOUS
  <2>2. N \in Nat /\ svc' = svc /\ N' = N
    BY Services, Zenon DEF svc, N
  <2>3. ASSUME NEW k \in 1 .. N
        PROVE  k >= at' /\ starts[k] = 0 <=> k >= at /\ starts[k] = 0
    BY <2>2
  <2> QED BY <2>1, <2>2, <2>3, Zenon DEF Pending
\* A spawn fails and the service may still be started.
<1>StreamsPrepared. ASSUME Base, NEW x \in 1 .. N, table' = table, chan' \in Broken(x), starts' = starts,
                           at' = at \/ (at' = at + 1 /\ starts[at] # 0), hold' = hold, inst' = inst
                    PROVE  chan' \in [Stream -> End] /\ StreamBody'
  <2> USE <1>StreamsPrepared
  <2>1. svc' = svc /\ N' = N /\ at \in Nat /\ TableInv
    <3>1. N \in Nat /\ at \in 1 .. N + 1
      BY Services, Zenon DEF Base, RunTypes
    <3> QED BY <3>1 DEF svc, N, Base
  <2>2. \A s \in Stream : Pending(s)' = Pending(s)
    BY <2>1, <1>PendingKept, Zenon
  <2>3. \A s \in Stream : Writers(s)' = Writers(s) /\ Writers(s) \subseteq 1 .. N
    BY <2>1, <1>WritersOf, Zenon DEF Writers
  <2>4. /\ chan' \in [Stream -> End] /\ chan \in [Stream -> End]
        /\ \A s \in Stream : PrepRel(svc[x], s, chan[s], chan'[s], FreshPipe(s))
    BY <1>BrokenEffect, <1>StreamFacts, Zenon DEF Base
  <2>5. /\ \A s \in Stream : /\ FreshPipe(s) \in Nat
                             /\ \A h \in hold : h[3] = s => h[4] # FreshPipe(s)
                             /\ Cardinality(Pending(s)) \in Nat
        /\ \A j \in 1 .. N : starts[j] = 0 => inst[j] # "run"
    BY <1>StreamFacts, Zenon DEF Base
  <2>6. ASSUME NEW s \in Stream
        PROVE  CountInv(s)'
    <3>1. Count(chan[s], Cardinality(Pending(s)), hold, s)
      BY Zenon DEF Base, StreamBody, CountInv
    <3>2. chan[s] \in End /\ chan'[s] \in End
      BY <2>4, Zenon
    <3>3. Count(chan'[s], Cardinality(Pending(s)), hold, s)
      BY <2>4, <2>5, <3>1, <3>2, <1>CountPrepared, Zenon
    <3> QED BY <2>2, <3>3, Zenon DEF CountInv
  <2>7. ASSUME NEW i \in 1 .. N, NEW s \in Stream, ReadsFrom(svc[i], s)
        PROVE  LinkInv(i, s)'
    <3>1. Link(chan[s], Cardinality(Pending(s)), hold, inst, starts, Writers(s), i, s)
      BY <2>7, Zenon DEF Base, StreamBody, LinkInv
    <3>2. chan[s] \in End /\ chan'[s] \in End
      BY <2>4, Zenon
    <3>3. \A j \in Writers(s) \cup {i} : starts[j] = 0 => inst[j] # "run"
      BY <2>3, <2>5, Zenon
    <3>4. Link(chan'[s], Cardinality(Pending(s)), hold, inst, starts, Writers(s), i, s)
      BY <2>4, <2>5, <3>1, <3>2, <3>3, <1>LinkPrepared, Zenon
    <3> QED BY <2>2, <2>3, <3>4, Zenon DEF LinkInv
  <2> QED BY <2>1, <2>4, <2>6, <2>7, Zenon DEF StreamBody
\* Processes end and init waits: no channel changes.
<1>StreamsQuiet. ASSUME Base, table' = table, chan' = chan, starts' = starts,
                        at' = at \/ (at' = at + 1 /\ starts[at] # 0), hold' \subseteq hold,
                        \A j \in 1 .. N : inst'[j] = "run" =>
                          inst[j] = "run" /\ \A h \in hold : h[1] = j => h \in hold'
                 PROVE  StreamBody'
  <2> USE <1>StreamsQuiet
  <2>1. svc' = svc /\ N' = N /\ at \in Nat /\ TableInv
    <3>1. N \in Nat /\ at \in 1 .. N + 1
      BY Services, Zenon DEF Base, RunTypes
    <3> QED BY <3>1 DEF svc, N, Base
  <2>2. \A s \in Stream : Pending(s)' = Pending(s)
    BY <2>1, <1>PendingKept, Zenon
  <2>3. \A s \in Stream : Writers(s)' = Writers(s) /\ Writers(s) \subseteq 1 .. N
    BY <2>1, <1>WritersOf, Zenon DEF Writers
  <2>4. ASSUME NEW s \in Stream
        PROVE  CountInv(s)'
    <3>1. Count(chan[s], Cardinality(Pending(s)), hold, s)
      BY Zenon DEF Base, StreamBody, CountInv
    <3>2. Count(chan[s], Cardinality(Pending(s)), hold', s)
      BY <3>1, Zenon DEF Count
    <3> QED BY <2>2, <3>2, Zenon DEF CountInv
  <2>5. ASSUME NEW i \in 1 .. N, NEW s \in Stream, ReadsFrom(svc[i], s)
        PROVE  LinkInv(i, s)'
    <3> DEFINE c == chan[s]
               m == Cardinality(Pending(s))
               W == Writers(s)
    <3>1. Link(c, m, hold, inst, starts, W, i, s)
      BY <2>5, Zenon DEF Base, StreamBody, LinkInv
    <3>2. W \subseteq 1 .. N
      BY <2>3, Zenon
    <3> HIDE DEF c, m, W
    <3>3. ASSUME NEW p \in Nat, OnPipe(c, m, hold, inst, starts, W, i, s, p)
          PROVE  OnPipe(c, m, hold', inst', starts, W, i, s, p)
      <4>1. \A j : <<j, "w", s, p>>[1] = j /\ <<j, "r", s, p>>[1] = j
        OBVIOUS
      <4>2. inst'[i] = "run" => <<i, "r", s, p>> \in hold'
        BY <3>3, <4>1, Zenon DEF OnPipe
      <4>3. \A j \in W : inst'[j] = "run" => <<j, "w", s, p>> \in hold'
        BY <3>2, <3>3, <4>1, Zenon DEF OnPipe
      <4> QED BY <3>3, <4>2, <4>3, Zenon DEF OnPipe
    <3>4. Link(c, m, hold', inst', starts, W, i, s)
      BY <3>1, <3>3, Zenon DEF Link
    <3> QED BY <2>2, <2>3, <3>4, Zenon DEF LinkInv, c, m, W
  <2> QED BY <2>1, <2>4, <2>5, Zenon DEF StreamBody
<1> SUFFICES ASSUME Base
             PROVE  /\ QuietStep => StreamBody'
                    /\ \A x \in 1 .. N : BrokenStep(x) \/ StartedStep(x)
                         => chan' \in [Stream -> End] /\ StreamBody'
                    /\ \A c \in Broken(at) \cup {chan} : DroppedStep(c)
                         => chan' \in [Stream -> End] /\ StreamBody'
                    /\ \A x \in 1 .. N : HoldInv /\ SpawnWorks(x) /\ inst[x] # "run"
                         => HoldInv' /\ hold' \subseteq (1 .. N) \X {"r", "w"} \X Stream \X Nat
  BY Zenon DEF StreamSteps
<1>1. QuietStep => StreamBody'
  BY <1>StreamsQuiet, Zenon DEF QuietStep, Passes
<1>2. ASSUME NEW x \in 1 .. N
      PROVE  /\ BrokenStep(x) => chan' \in [Stream -> End] /\ StreamBody'
             /\ StartedStep(x) => chan' \in [Stream -> End] /\ StreamBody'
  BY <1>StreamsPrepared, <1>StreamsStarted, Zenon DEF BrokenStep, Passes
<1>3. ASSUME NEW c \in Broken(at) \cup {chan}, DroppedStep(c)
      PROVE  chan' \in [Stream -> End] /\ StreamBody'
  BY <1>3, <1>StreamsDropped, Zenon
<1>4. ASSUME NEW x \in 1 .. N, HoldInv, SpawnWorks(x), inst[x] # "run"
      PROVE  HoldInv' /\ hold' \subseteq (1 .. N) \X {"r", "w"} \X Stream \X Nat
  BY <1>4, <1>HoldSpawned, Zenon
<1> QED BY <1>1, <1>2, <1>3, <1>4, Zenon

-----------------------------------------------------------------------------
(* The steps of main and of daemons_tick                                   *)

\* Processes end: those that run keep what they hold.
LEMMA HoldLess ==
  ASSUME HoldInv, hold' \subseteq hold, \A h \in hold' : inst'[h[1]] = "run"
  PROVE  HoldInv'
BY Zenon DEF HoldInv

\* The types of where main is.
CtlTypes ==
  /\ at \in 1 .. N + 1 /\ pc \in {"boot", "start", "wait", "sleep", "loop", "ended"}
  /\ fails \in Nat /\ spawned \in BOOLEAN
  /\ ready \subseteq 0 .. MaskBits - 1 /\ started \subseteq 1 .. N

\* A bit of ready_mask.
LEMMA BitType == ASSUME NEW i \in Nat PROVE Bit(i) \in 0 .. MaskBits - 1
<1>1. MaskBits \in Nat \ {0}
  BY SupervisorAssumption
<1> QED BY <1>1 DEF Bit

\* main goes on to the next service.
LEMMA AdvanceStep ==
  ASSUME Running, at <= N, table' = table, Advance, Provide \/ NotProvided,
         \A i \in Places :
           /\ inst'[i] # "none" <=> daemon'[i].phase = "running"
           /\ daemon'[i].phase # "none" =>
                \/ daemon[i].phase # "none" /\ (starts[i] > 0 => starts'[i] > 0)
                \/ i = at /\ svc[i].type = "daemon" /\ starts'[i] > 0
           /\ starts'[i] > 0 => starts[i] > 0 \/ (i = at /\ Met(i))
  PROVE  CtlTypes' /\ ProcInv'
<1>0. N \in Nat /\ at \in 1 .. N + 1 /\ ProcInv /\ CtlTypes /\ at \in Nat
  <2>1. N \in Nat /\ at \in 1 .. N + 1
    BY Services, Zenon DEF Running, Base, RunTypes
  <2> QED BY <2>1 DEF Running, Base, RunTypes, CtlTypes
<1>1. N' = N /\ svc' = svc /\ at \in 1 .. N /\ at + 1 \in 1 .. N + 1
  BY <1>0 DEF N, svc
<1>2. at' = at + 1 /\ pc' = "start" /\ fails' = 0 /\ spawned' = FALSE
  BY Zenon DEF Advance
<1>3. /\ ready \subseteq ready' /\ ready' \subseteq 0 .. MaskBits - 1
      /\ started' \subseteq 1 .. N
      /\ started' \subseteq started \cup {at}
      /\ ready' = {Bit(i) : i \in started'}
  <2>1. CASE Provide
    <3>1. Bit(at) \in 0 .. MaskBits - 1
      BY <1>0, BitType, Zenon
    <3>2. ready' = ready \cup {Bit(at)} /\ started' = started \cup {at}
      BY <2>1, Zenon DEF Provide
    <3>3. ready = {Bit(i) : i \in started}
      BY <1>0, Zenon DEF ProcInv
    <3> QED BY <1>0, <1>1, <3>1, <3>2, <3>3, Zenon DEF CtlTypes
  <2>2. CASE NotProvided
    BY <1>0, <2>2, Zenon DEF NotProvided, ProcInv, CtlTypes
  <2> QED BY <2>1, <2>2, Zenon
<1>4. CtlTypes'
  <2>1. 0 \in Nat
    OBVIOUS
  <2> QED BY <1>1, <1>2, <1>3, <2>1, Zenon DEF CtlTypes
<1>5. ~InRound'
  BY <1>2 DEF InRound
<1>6. \A i \in started' : i < at'
  <2>1. \A i \in started : i < at /\ i \in 1 .. N
    BY <1>0, Zenon DEF ProcInv, CtlTypes
  <2>2. at \in Nat /\ \A i \in 1 .. N : i < at => i < at + 1
    BY <1>0
  <2>3. at < at + 1
    BY <2>2
  <2> QED BY <1>2, <1>3, <2>1, <2>2, <2>3, Zenon
<1>7. \A i : Met(i) => Met(i)'
  BY <1>1, <1>3, Zenon DEF Met
<1>8. ASSUME NEW i \in Places
      PROVE  /\ inst'[i] # "none" <=> daemon'[i].phase = "running" \/ (pc' = "wait" /\ at' = i)
             /\ daemon'[i].phase # "none" =>
                  i \in 1 .. N' /\ svc'[i].type = "daemon" /\ i < at' /\ starts'[i] > 0
             /\ starts'[i] > 0 => /\ i \in 1 .. N' /\ Met(i)'
                                  /\ i < at' \/ (i = at' /\ InRound')
  <2>1. pc' # "wait"
    BY <1>2
  <2>2. i \in Nat /\ (i < at => i < at + 1) /\ (i = at => i < at + 1)
    <3>1. i \in Nat
      BY ConfigAssumption DEF Places
    <3> QED BY <1>0, <3>1
  <2>3. /\ daemon[i].phase # "none" =>
             i \in 1 .. N /\ svc[i].type = "daemon" /\ i < at /\ starts[i] > 0
        /\ starts[i] > 0 => i \in 1 .. N /\ Met(i) /\ (i < at \/ i = at)
    BY <1>0, Zenon DEF ProcInv
  <2>4. inst'[i] # "none" <=> daemon'[i].phase = "running" \/ (pc' = "wait" /\ at' = i)
    BY <2>1, Zenon
  <2>5. daemon'[i].phase # "none" =>
          i \in 1 .. N /\ svc[i].type = "daemon" /\ i < at + 1 /\ starts'[i] > 0
    BY <1>1, <2>2, <2>3, Zenon
  <2>6. starts'[i] > 0 => i \in 1 .. N /\ Met(i)' /\ i < at + 1
    BY <1>1, <1>7, <2>2, <2>3, Zenon
  <2> QED BY <1>1, <1>2, <2>4, <2>5, <2>6, Zenon
<1>9. pc' # "wait" /\ ~spawned'
  BY <1>2
<1> QED BY <1>3, <1>4, <1>5, <1>6, <1>8, <1>9, Zenon DEF ProcInv

\* main stays at its service, or is done with all of them.
LEMMA StayStep ==
  ASSUME Running, table' = table, at' = at, ready' = ready, started' = started,
         pc' \in {"wait", "sleep", "loop", "ended"}, fails' \in Nat, spawned' \in BOOLEAN,
         InRound' => /\ at <= N /\ svc[at].type # "daemon" /\ Met(at)
                     /\ spawned' <=> starts'[at] > 0,
         pc' = "wait" => spawned',
         \A i \in Places :
           /\ inst'[i] # "none" <=> daemon'[i].phase = "running" \/ (pc' = "wait" /\ at = i)
           /\ daemon'[i].phase # "none" =>
                daemon[i].phase # "none" /\ (starts[i] > 0 => starts'[i] > 0)
           /\ starts'[i] > 0 => \/ starts[i] > 0 /\ (i = at => InRound')
                                \/ i = at /\ InRound' /\ Met(i)
  PROVE  CtlTypes' /\ ProcInv'
<1>0. N \in Nat /\ at \in 1 .. N + 1 /\ ProcInv /\ CtlTypes
  BY Services, Zenon DEF Running, Base, RunTypes, CtlTypes
<1>1. N' = N /\ svc' = svc
  BY Zenon DEF N, svc
<1>2. CtlTypes'
  <2>1. pc' \in {"boot", "start", "wait", "sleep", "loop", "ended"}
    OBVIOUS
  <2> QED BY <1>0, <1>1, <2>1, Zenon DEF CtlTypes
<1>3. \A i : Met(i)' <=> Met(i)
  BY <1>1, Zenon DEF Met
<1>4. InRound' => at' <= N' /\ svc'[at'].type # "daemon" /\ Met(at)'
  BY <1>1, <1>3, Zenon
<1>5. InRound' => at \in 1 .. N
  BY <1>0
<1>6. ASSUME NEW i \in Places
      PROVE  /\ inst'[i] # "none" <=> daemon'[i].phase = "running" \/ (pc' = "wait" /\ at' = i)
             /\ daemon'[i].phase # "none" =>
                  i \in 1 .. N' /\ svc'[i].type = "daemon" /\ i < at' /\ starts'[i] > 0
             /\ starts'[i] > 0 => /\ i \in 1 .. N' /\ Met(i)'
                                  /\ i < at' \/ (i = at' /\ InRound')
  <2>1. /\ daemon[i].phase # "none" =>
             i \in 1 .. N /\ svc[i].type = "daemon" /\ i < at /\ starts[i] > 0
        /\ starts[i] > 0 => i \in 1 .. N /\ Met(i) /\ (i < at \/ i = at)
    BY <1>0, Zenon DEF ProcInv
  <2>2. starts'[i] > 0 => i \in 1 .. N /\ Met(i) /\ (i < at \/ (i = at /\ InRound'))
    BY <1>5, <2>1, Zenon
  <2> QED BY <1>1, <1>3, <2>1, <2>2, Zenon
<1>7. pc' # "start"
  OBVIOUS
<1>8. Met(at') <=> Met(at)
  BY Zenon
<1>9. ready' = {Bit(i) : i \in started'} /\ \A i \in started' : i < at'
  BY <1>0, Zenon DEF ProcInv
<1> QED BY <1>2, <1>4, <1>6, <1>7, <1>9, Zenon DEF ProcInv

\* The types, in three parts.
LEMMA RunTypesAre ==
  RunTypes <=> CtlTypes /\ ServiceTypes /\ HoldType /\ chan \in [Stream -> End]
BY Zenon DEF RunTypes, CtlTypes, ServiceTypes, HoldType

\* The invariant while main runs, taken apart and put together.
LEMMA RunningIs ==
  ASSUME PairFacts, Fresh, StreamSteps, IInv, pc # "boot"
  PROVE  /\ Running /\ HoldInv /\ LogPipeKept /\ TableInv /\ ProcInv /\ ~Reading
         /\ CtlTypes /\ ServiceTypes /\ HoldType /\ chan \in [Stream -> End]
BY StreamBodyIs, RunTypesAre, Zenon DEF IInv, Running, Base, BootInv

\* The invariant put together again.
LEMMA Rejoin ==
  ASSUME TableInv, ~Reading, UNCHANGED config, pc' # "boot", CtlTypes', ServiceTypes',
         HoldType', chan' \in [Stream -> End], ProcInv', HoldInv', StreamBody',
         LogPipeKept'
  PROVE  IInv'
<1>1. TableInv' /\ ~Reading'
  BY TableKept, Zenon
<1>2. RunTypes'
  BY Zenon DEF RunTypes, CtlTypes, ServiceTypes, HoldType
<1>3. StreamInv'
  <2>1. StreamInv' <=> (pc' # "boot" => StreamBody')
    BY StreamBodyIs, PTL
  <2> QED BY <2>1, Zenon
<1> QED BY <1>1, <1>2, <1>3, Zenon DEF IInv, BootInv

\* When main is about to start a service it has none of its processes.
LEMMA StartFacts ==
  ASSUME Running, pc = "start", at <= N
  PROVE  /\ at \in 1 .. N /\ at \in Places /\ starts[at] = 0 /\ inst[at] = "none"
         /\ ~InRound /\ ~spawned /\ daemon[at].phase = "none"
<1>1. at \in 1 .. N /\ at \in Places
  <2>1. N \in Nat /\ at \in 1 .. N + 1
    BY Services, Zenon DEF Running, Base, RunTypes
  <2>2. at \in 1 .. N
    BY <2>1
  <2> QED BY <2>2, Services, Zenon DEF Running, Base
<1>2. ~InRound /\ pc # "wait" /\ ~(at < at)
  BY <1>1 DEF InRound
<1>3. ~(starts[at] > 0) /\ daemon[at].phase = "none"
  BY <1>1, <1>2, Zenon DEF Running, Base, ProcInv
<1>4. starts[at] = 0
  <2>1. starts[at] \in 0 .. 2
    BY <1>1, Zenon DEF Running, Base, RunTypes
  <2> QED BY <1>3, <2>1
<1>5. inst[at] = "none"
  <2>1. "none" # "running"
    OBVIOUS
  <2> QED BY <1>1, <1>2, <1>3, <2>1, Zenon DEF Running, Base, ProcInv
<1> QED BY <1>1, <1>2, <1>3, <1>4, <1>5, Zenon DEF Running, Base, ProcInv

\* main goes on: a service that is not a daemon has ended, or none has started.
LEMMA LogAdvance ==
  ASSUME Running, LogPipeKept, ServiceTypes, table' = table, Advance, daemon' = daemon,
         at \in Places,
         \/ source' = source /\ NotProvided
         \/ /\ svc[at].type # "daemon" /\ source' = source \ {at}
            /\ Provide \/ NotProvided
  PROVE  LogPipeKept' /\ source' \subseteq table'.sources
<1>1. svc' = svc /\ pc' = "start" /\ TableInv
  BY Zenon DEF svc, Advance, Running, Base
<1>2. pc' \notin {"wait", "sleep"}
  BY <1>1
<1>3. source' \subseteq table'.sources
  BY Zenon DEF ServiceTypes
<1>4. CASE source' = source /\ NotProvided
  BY <1>1, <1>2, <1>3, <1>4, Zenon DEF LogPipeKept, NotProvided
<1>5. CASE /\ svc[at].type # "daemon" /\ source' = source \ {at}
           /\ Provide \/ NotProvided
  <2>1. started' \subseteq started \cup {at}
    BY <1>5, Zenon DEF Provide, NotProvided
  <2>2. daemon[at].phase \notin {"running", "backoff"}
    <3>1. daemon[at].phase = "none"
      BY <1>5, Zenon DEF Running, Base, ProcInv
    <3> QED BY <3>1
  <2> QED BY <1>1, <1>2, <1>3, <1>5, <2>1, <2>2, Zenon DEF LogPipeKept
<1> QED BY <1>4, <1>5, Zenon

\* A failing spawn costs at most one of the failures that are left.
LEMMA BreaksType ==
  ASSUME NEW i, NEW c, SpawnBreaks(i, c), spawnFails \in 0 .. MaxSpawnFails
  PROVE  spawnFails' \in 0 .. MaxSpawnFails
<1>1. MaxSpawnFails \in Nat
  BY SupervisorAssumption
<1>2. CASE spawnFails' = spawnFails
  BY <1>2
<1>3. CASE spawnFails < MaxSpawnFails /\ spawnFails' = spawnFails + 1
  BY <1>1, <1>3
<1> QED BY <1>2, <1>3, Zenon DEF SpawnBreaks

\* main passes a service whose spawn fails or that has an unmet dependency.
LEMMA PassedStep ==
  ASSUME PairFacts, Fresh, StreamSteps, IInv, Starting, NEW c \in Broken(at) \cup {chan},
         chan' = release_unspawned_channel_writers(c, svc[at]), Advance, NotProvided,
         UNCHANGED <<config, daemon, inst, source, hold, starts>>,
         spawnFails' \in 0 .. MaxSpawnFails
  PROVE  IInv'
<1>1. /\ pc = "start" /\ at <= N /\ pc # "boot"
  BY DEF Starting
<1>2. /\ Running /\ HoldInv /\ LogPipeKept /\ TableInv /\ ProcInv /\ ~Reading
      /\ CtlTypes /\ ServiceTypes /\ HoldType
  BY <1>1, RunningIs, Zenon
<1>3. /\ at \in 1 .. N /\ at \in Places /\ starts[at] = 0
  BY <1>1, <1>2, StartFacts, Zenon
<1>4. /\ daemon' = daemon /\ inst' = inst /\ source' = source /\ hold' = hold
      /\ starts' = starts /\ table' = table /\ UNCHANGED config /\ at' = at + 1
      /\ pc' # "boot"
  BY DEF config, Advance
<1>5. chan' \in [Stream -> End] /\ StreamBody'
  BY <1>2, <1>3, <1>4, Zenon
     DEF Running, StreamSteps, DroppedStep
<1>6. CtlTypes' /\ ProcInv'
  <2>1. pc # "wait"
    BY <1>1
  <2>2. \A i \in Places : inst[i] # "none" <=> daemon[i].phase = "running"
    BY <1>2, <2>1, Zenon DEF ProcInv
  <2> QED BY <1>1, <1>2, <1>4, <2>2, AdvanceStep, Zenon
<1>7. LogPipeKept' /\ source' \subseteq table'.sources
  BY <1>2, <1>3, <1>4, LogAdvance, Zenon
<1>8. ServiceTypes'
  BY <1>2, <1>4, <1>7, Zenon DEF ServiceTypes
<1>9. HoldInv' /\ HoldType'
  BY <1>2, <1>4, Zenon DEF HoldInv, HoldType, N, svc
<1> QED BY <1>2, <1>4, <1>5, <1>6, <1>7, <1>8, <1>9, Rejoin, Zenon

\* Skip and StartDaemonFails.
LEMMA SkipStep == ASSUME PairFacts, Fresh, StreamSteps, IInv, Skip PROVE IInv'
<1>1. spawnFails' = spawnFails /\ spawnFails \in 0 .. MaxSpawnFails
  BY DEF Skip, IInv, RunTypes
<1>2. UNCHANGED <<config, daemon, inst, source, hold, starts>>
  BY DEF Skip
<1>3. chan \in Broken(at) \cup {chan}
  OBVIOUS
<1> QED BY <1>1, <1>2, <1>3, PassedStep, Zenon DEF Skip

\* A daemon cannot be started.
LEMMA StartDaemonFailsStep == ASSUME PairFacts, Fresh, StreamSteps, IInv, StartDaemonFails PROVE IInv'
<1>1. PICK c \in Broken(at) :
        SpawnBreaks(at, c) /\ chan' = release_unspawned_channel_writers(c, svc[at])
  BY Zenon DEF StartDaemonFails
<1>2. spawnFails' \in 0 .. MaxSpawnFails
  BY <1>1, BreaksType, Zenon DEF IInv, RunTypes
<1>3. UNCHANGED <<config, daemon, inst, source, hold, starts>>
  BY DEF StartDaemonFails
<1>4. c \in Broken(at) \cup {chan}
  OBVIOUS
<1> QED BY <1>1, <1>2, <1>3, <1>4, PassedStep, Zenon DEF StartDaemonFails

\* What a spawn that works does to the processes.
LEMMA SpawnedFacts ==
  ASSUME ServiceTypes, NEW x \in Places, SpawnWorks(x)
  PROVE  /\ inst' \in [Places -> {"none", "run", "ok", "bad"}]
         /\ starts' \in [Places -> 0 .. 2] /\ spawnFails' = spawnFails
         /\ inst'[x] = "run" /\ starts'[x] > 0
         /\ \A i \in Places : i # x => inst'[i] = inst[i] /\ starts'[i] = starts[i]
         /\ UsesSyslog(svc[x]) => x \in source
<1> DEFINE n == IF starts[x] < 2 THEN starts[x] + 1 ELSE 2
<1>1. starts[x] \in 0 .. 2
  BY Zenon DEF ServiceTypes
<1>2. n \in 0 .. 2 /\ n > 0
  BY <1>1
<1>3. /\ inst' = [inst EXCEPT ![x] = "run"] /\ starts' = [starts EXCEPT ![x] = n]
      /\ spawnFails' = spawnFails /\ (UsesSyslog(svc[x]) => x \in source)
  BY Zenon DEF SpawnWorks
<1> HIDE DEF n
<1>4. "run" \in {"none", "run", "ok", "bad"}
  OBVIOUS
<1> QED BY <1>2, <1>3, <1>4, Zenon DEF ServiceTypes

\* What a change of a daemon's phase does.
LEMMA PhaseSet ==
  ASSUME ServiceTypes, NEW x \in Places,
         NEW ph \in {"none", "running", "backoff", "stopped"},
         daemon' = [daemon EXCEPT ![x].phase = ph]
  PROVE  /\ daemon' \in [Places -> [phase : {"none", "running", "backoff", "stopped"},
                                    failures : Nat]]
         /\ daemon'[x].phase = ph
         /\ \A i \in Places : i # x => daemon'[i] = daemon[i]
<1> DEFINE R == [phase : {"none", "running", "backoff", "stopped"}, failures : Nat]
           d == [daemon[x] EXCEPT !.phase = ph]
<1>1. daemon \in [Places -> R] /\ daemon[x] \in R
  BY Zenon DEF ServiceTypes
<1>2. d \in R /\ d.phase = ph
  BY <1>1, ZenonT(20)
<1>3. daemon' = [daemon EXCEPT ![x] = d]
  BY Zenon
<1> HIDE DEF d, R
<1>4. /\ daemon' \in [Places -> R] /\ daemon'[x] = d
      /\ \A i \in Places : i # x => daemon'[i] = daemon[i]
  BY <1>1, <1>2, <1>3, Zenon
<1> QED BY <1>2, <1>4, Zenon DEF R

\* Starting a daemon.
LEMMA StartDaemonStep == ASSUME PairFacts, Fresh, StreamSteps, IInv, StartDaemon PROVE IInv'
<1>1. /\ pc = "start" /\ at <= N /\ pc # "boot" /\ Met(at) /\ svc[at].type = "daemon"
      /\ SpawnWorks(at) /\ daemon' = [daemon EXCEPT ![at].phase = "running"]
      /\ source' = (IF svc[at].policy = "never" THEN Sources(at) \ {at} ELSE Sources(at))
      /\ Advance /\ Provide /\ UNCHANGED config
  BY DEF StartDaemon, Starting
<1>2. /\ Running /\ HoldInv /\ LogPipeKept /\ TableInv /\ ProcInv /\ ~Reading
      /\ CtlTypes /\ ServiceTypes /\ HoldType
  BY <1>1, RunningIs, Zenon
<1>3. /\ at \in 1 .. N /\ at \in Places /\ starts[at] = 0 /\ inst[at] = "none"
      /\ daemon[at].phase = "none"
  BY <1>1, <1>2, StartFacts, Zenon
<1>4. table' = table /\ at' = at + 1 /\ pc' = "start" /\ started' = started \cup {at}
  BY <1>1 DEF config, Advance, Provide
<1>5. at >= at /\ inst[at] # "run" /\ pc' # "boot" /\ pc # "wait"
  BY <1>1, <1>3, <1>4
<1>6. chan' \in [Stream -> End] /\ StreamBody'
  BY <1>1, <1>2, <1>3, <1>4, <1>5, Zenon
     DEF Running, StreamSteps, StartedStep
<1>7. HoldType' /\ HoldInv'
  <2>1. N' = N
    BY <1>4, Zenon DEF N, svc
  <2> QED BY <1>1, <1>2, <1>3, <1>5, <2>1, Zenon
     DEF Running, StreamSteps, HoldType
<1>8. /\ inst' \in [Places -> {"none", "run", "ok", "bad"}]
      /\ starts' \in [Places -> 0 .. 2] /\ spawnFails' = spawnFails
      /\ inst'[at] = "run" /\ starts'[at] > 0
      /\ \A i \in Places : i # at => inst'[i] = inst[i] /\ starts'[i] = starts[i]
      /\ UsesSyslog(svc[at]) => at \in source
  BY <1>1, <1>2, <1>3, SpawnedFacts, Zenon
<1>9. /\ daemon' \in [Places -> [phase : {"none", "running", "backoff", "stopped"},
                                 failures : Nat]]
      /\ daemon'[at].phase = "running"
      /\ \A i \in Places : i # at => daemon'[i] = daemon[i]
  <2>1. "running" \in {"none", "running", "backoff", "stopped"}
    OBVIOUS
  <2> QED BY <1>1, <1>2, <1>3, <2>1, PhaseSet, Zenon
<1>10. CtlTypes' /\ ProcInv'
  <2>1. \A i \in Places : inst[i] # "none" <=> daemon[i].phase = "running"
    BY <1>2, <1>5, Zenon DEF ProcInv
  <2>2. "run" # "none"
    OBVIOUS
  <2>3. \A i \in Places :
          /\ inst'[i] # "none" <=> daemon'[i].phase = "running"
          /\ daemon'[i].phase # "none" =>
               \/ daemon[i].phase # "none" /\ (starts[i] > 0 => starts'[i] > 0)
               \/ i = at /\ svc[i].type = "daemon" /\ starts'[i] > 0
          /\ starts'[i] > 0 => starts[i] > 0 \/ (i = at /\ Met(i))
    <3> SUFFICES ASSUME NEW i \in Places
                 PROVE  /\ inst'[i] # "none" <=> daemon'[i].phase = "running"
                        /\ daemon'[i].phase # "none" =>
                             \/ daemon[i].phase # "none" /\ (starts[i] > 0 => starts'[i] > 0)
                             \/ i = at /\ svc[i].type = "daemon" /\ starts'[i] > 0
                        /\ starts'[i] > 0 => starts[i] > 0 \/ (i = at /\ Met(i))
      OBVIOUS
    <3>1. CASE i = at
      BY <1>1, <1>8, <1>9, <2>2, <3>1, Zenon
    <3>2. CASE i # at
      BY <1>8, <1>9, <2>1, <3>2, Zenon
    <3> QED BY <3>1, <3>2, Zenon
  <2> QED BY <1>1, <1>2, <1>4, <2>3, AdvanceStep, Zenon
<1>11. LogPipeKept' /\ source' \subseteq table'.sources
  <2>1. /\ table.sources \subseteq Places
        /\ at \in table.sources <=> UsesSyslog(svc[at])
        /\ \A i \in table.sources : i > table.server
        /\ svc[at].server => table.server = at /\ svc[at].policy = "never"
    BY <1>2, <1>3, LogFacts, Zenon
  <2>2. source' \subseteq table.sources /\ source \subseteq source' \cup {at}
    <3>1. source \subseteq table.sources
      BY <1>2, Zenon DEF ServiceTypes
    <3> QED BY <1>1, <3>1, Zenon DEF Sources
  <2>3. ~svc[at].server => source' \subseteq source
    BY <1>1, Zenon DEF Sources
  <2>4. \A i \in Places : daemon[i].phase # "none" \/ i \in started => i < at
    BY <1>2, Zenon DEF ProcInv
  <2>5. ASSUME NEW i \in table.sources
        PROVE  ~(i < at /\ svc[at].server)
    <3>1. i \in Nat /\ at \in Nat
      <4>1. MaxServices \in Nat
        BY ConfigAssumption
      <4> QED BY <1>3, <2>1, <4>1 DEF Places
    <3>2. i > table.server
      BY <2>1, Zenon
    <3>3. svc[at].server => table.server = at
      BY <2>1, Zenon
    <3> QED BY <3>1, <3>2, <3>3
  <2>6. ASSUME NEW i \in table.sources
        PROVE  /\ daemon'[i].phase \in {"running", "backoff"} /\ svc[i].policy # "never"
                    => i \in source'
               /\ daemon'[i].phase = "stopped" \/ (svc[i].type # "daemon" /\ i \in started')
                    => i \notin source'
    <3>1. CASE i = at
      <4>1. i \in source /\ "running" # "stopped"
        BY <1>8, <2>1, <3>1
      <4>2. svc[i].policy # "never" => i \in source'
        BY <1>1, <2>1, <3>1, <4>1, Zenon DEF Sources
      <4> QED BY <1>1, <1>9, <3>1, <4>1, <4>2, Zenon
    <3>2. CASE i # at
      <4>1. i \in Places /\ daemon'[i] = daemon[i] /\ (i \in started' => i \in started)
        BY <1>4, <1>9, <2>1, <3>2, Zenon
      <4>2. /\ daemon[i].phase \in {"running", "backoff"} /\ svc[i].policy # "never"
                 => i \in source
            /\ daemon[i].phase = "stopped" \/ (svc[i].type # "daemon" /\ i \in started)
                 => i \notin source
        BY <1>2, Zenon DEF LogPipeKept
      <4>3. daemon[i].phase = "stopped" \/ i \in started => ~svc[at].server
        <5>1. "stopped" # "none"
          OBVIOUS
        <5> QED BY <2>4, <2>5, <4>1, <5>1, Zenon
      <4> QED BY <2>2, <2>3, <3>2, <4>1, <4>2, <4>3, Zenon
    <3> QED BY <3>1, <3>2, Zenon
  <2>7. svc' = svc /\ pc' \notin {"wait", "sleep"}
    BY <1>4 DEF svc
  <2> QED BY <1>4, <2>2, <2>6, <2>7, Zenon DEF LogPipeKept
<1>12. ServiceTypes'
  BY <1>2, <1>8, <1>9, <1>11, Zenon DEF ServiceTypes
<1> QED BY <1>1, <1>2, <1>5, <1>6, <1>7, <1>10, <1>11, <1>12, Rejoin, Zenon

\* run_service is about to start its service.
LEMMA AtSpawnFacts ==
  ASSUME Running, AtSpawn
  PROVE  /\ pc # "boot" /\ pc # "wait" /\ at \in 1 .. N /\ at \in Places /\ at <= N
         /\ svc[at].type # "daemon" /\ Met(at) /\ (spawned <=> starts[at] > 0)
         /\ daemon[at].phase = "none" /\ inst[at] = "none"
<1>1. /\ pc \in {"start", "sleep"} /\ at <= N /\ (pc = "start" => Met(at))
      /\ svc[at].type # "daemon"
  BY DEF AtSpawn
<1>2. at \in 1 .. N /\ at \in Places
  <2>1. N \in Nat /\ at \in 1 .. N + 1
    BY Services, Zenon DEF Running, Base, RunTypes
  <2>2. at \in 1 .. N
    BY <1>1, <2>1
  <2> QED BY <2>2, Services, Zenon DEF Running, Base
<1>3. pc # "boot" /\ pc # "wait" /\ "none" # "running"
  BY <1>1
<1>4. daemon[at].phase = "none"
  BY <1>1, <1>2, Zenon DEF Running, Base, ProcInv
<1>5. inst[at] = "none"
  BY <1>2, <1>3, <1>4, Zenon DEF Running, Base, ProcInv
<1>6. Met(at) /\ (spawned <=> starts[at] > 0)
  <2>1. CASE pc = "start"
    <3>1. ~spawned /\ starts[at] = 0
      BY <1>1, <2>1, StartFacts, Zenon
    <3>2. ~(starts[at] > 0)
      BY <3>1
    <3> QED BY <1>1, <2>1, <3>1, <3>2, Zenon
  <2>2. CASE pc = "sleep"
    <3>1. InRound
      BY <2>2 DEF InRound
    <3> QED BY <3>1, Zenon DEF Running, Base, ProcInv
  <2> QED BY <1>1, <2>1, <2>2
<1> QED BY <1>1, <1>2, <1>3, <1>4, <1>5, <1>6, Zenon

\* run_service starts its service.
LEMMA RunServiceStep == ASSUME PairFacts, Fresh, StreamSteps, IInv, RunService PROVE IInv'
<1>1. /\ AtSpawn /\ SpawnWorks(at) /\ pc' = "wait" /\ spawned' = TRUE /\ UNCHANGED config
      /\ table' = table /\ at' = at /\ fails' = fails /\ daemon' = daemon
      /\ source' = source /\ ready' = ready /\ started' = started
  BY DEF RunService, config
<1>2. pc # "boot"
  BY <1>1 DEF AtSpawn
<1>3. /\ Running /\ HoldInv /\ LogPipeKept /\ TableInv /\ ProcInv /\ ~Reading
      /\ CtlTypes /\ ServiceTypes /\ HoldType
  BY <1>2, RunningIs, Zenon
<1>4. /\ at \in 1 .. N /\ at \in Places /\ at <= N /\ svc[at].type # "daemon" /\ Met(at)
      /\ daemon[at].phase = "none" /\ inst[at] = "none" /\ pc # "wait"
  BY <1>1, <1>3, AtSpawnFacts, Zenon
<1>5. at >= at /\ inst[at] # "run" /\ pc' # "boot"
  BY <1>1, <1>4
<1>6. chan' \in [Stream -> End] /\ StreamBody'
  BY <1>1, <1>3, <1>4, <1>5, Zenon
     DEF Running, StreamSteps, StartedStep
<1>7. HoldType' /\ HoldInv'
  <2>1. N' = N
    BY <1>1, Zenon DEF N, svc
  <2> QED BY <1>1, <1>3, <1>4, <1>5, <2>1, Zenon
     DEF Running, StreamSteps, HoldType
<1>8. /\ inst' \in [Places -> {"none", "run", "ok", "bad"}]
      /\ starts' \in [Places -> 0 .. 2] /\ spawnFails' = spawnFails
      /\ inst'[at] = "run" /\ starts'[at] > 0
      /\ \A i \in Places : i # at => inst'[i] = inst[i] /\ starts'[i] = starts[i]
      /\ UsesSyslog(svc[at]) => at \in source
  BY <1>1, <1>3, <1>4, SpawnedFacts, Zenon
<1>9. InRound' /\ pc' \in {"wait", "sleep", "loop", "ended"} /\ "run" # "none"
      /\ "none" # "running" /\ TRUE \in BOOLEAN
  BY <1>1 DEF InRound
<1>10. CtlTypes' /\ ProcInv'
  <2>1. \A i \in Places : inst[i] # "none" <=> daemon[i].phase = "running"
    BY <1>3, <1>4, Zenon DEF ProcInv
  <2>2. ASSUME NEW i \in Places
        PROVE  /\ inst'[i] # "none" <=> daemon'[i].phase = "running" \/ (pc' = "wait" /\ at = i)
               /\ daemon'[i].phase # "none" =>
                    daemon[i].phase # "none" /\ (starts[i] > 0 => starts'[i] > 0)
               /\ starts'[i] > 0 => \/ starts[i] > 0 /\ (i = at => InRound')
                                    \/ i = at /\ InRound' /\ Met(i)
    <3>1. CASE i = at
      BY <1>1, <1>4, <1>8, <1>9, <3>1, Zenon
    <3>2. CASE i # at
      BY <1>1, <1>8, <1>9, <2>1, <3>2, Zenon
    <3> QED BY <3>1, <3>2, Zenon
  <2>3. fails' \in Nat
    BY <1>1, <1>3, Zenon DEF CtlTypes
  <2> QED BY <1>1, <1>3, <1>4, <1>8, <1>9, <2>2, <2>3, StayStep, Zenon
<1>11. LogPipeKept' /\ source' \subseteq table'.sources
  <2>1. at \in table.sources <=> UsesSyslog(svc[at])
    BY <1>3, <1>4, LogFacts, Zenon
  <2>2. svc' = svc
    BY <1>1, Zenon DEF svc
  <2>3. \A i \in table.sources : at = i => i \in source
    BY <1>8, <2>1, Zenon
  <2> QED BY <1>1, <1>3, <2>2, <2>3, Zenon DEF LogPipeKept, ServiceTypes
<1>12. ServiceTypes'
  BY <1>1, <1>3, <1>8, <1>11, Zenon DEF ServiceTypes
<1> QED BY <1>1, <1>3, <1>5, <1>6, <1>7, <1>10, <1>11, <1>12, Rejoin, Zenon

\* A daemon that daemons_tick looks after.
LEMMA TickFacts ==
  ASSUME Running, Ticks, NEW i \in Places, daemon[i].phase # "none"
  PROVE  /\ pc # "boot" /\ pc # "start" /\ i \in 1 .. N /\ svc[i].type = "daemon"
         /\ i # at /\ starts[i] # 0 /\ starts[i] > 0
         /\ pc \in {"wait", "sleep", "loop", "ended"}
         /\ inst[i] # "none" <=> daemon[i].phase = "running"
<1>1. pc \in {"wait", "sleep", "loop"}
  BY DEF Ticks
<1>2. i \in 1 .. N /\ svc[i].type = "daemon" /\ i < at /\ starts[i] > 0
  BY Zenon DEF Running, Base, ProcInv
<1>3. i # at /\ starts[i] # 0
  BY <1>2
<1>4. inst[i] # "none" <=> daemon[i].phase = "running"
  BY <1>3, Zenon DEF Running, Base, ProcInv
<1> QED BY <1>1, <1>2, <1>3, <1>4

\* What the round main is in requires does not change with a daemon.
LEMMA RoundKept ==
  ASSUME Running, at \in Places => starts'[at] = starts[at]
  PROVE  /\ InRound => /\ at <= N /\ svc[at].type # "daemon" /\ Met(at)
                       /\ spawned <=> starts'[at] > 0
         /\ pc = "wait" => spawned
<1>1. at <= N => at \in Places
  <2>1. N \in Nat /\ at \in 1 .. N + 1
    BY Services, Zenon DEF Running, Base, RunTypes
  <2>2. at <= N => at \in 1 .. N
    BY <2>1
  <2> QED BY <2>2, Services, Zenon DEF Running, Base
<1> QED BY <1>1, Zenon DEF Running, Base, ProcInv

\* A daemon is started again.
LEMMA RestartDaemonStep ==
  ASSUME PairFacts, Fresh, StreamSteps, IInv, NEW x \in Places, RestartDaemon(x) PROVE IInv'
<1>1. /\ Ticks /\ daemon[x].phase = "backoff" /\ SpawnWorks(x) /\ UNCHANGED config
      /\ daemon' = [daemon EXCEPT ![x].phase = "running"]
      /\ table' = table /\ at' = at /\ fails' = fails /\ pc' = pc /\ spawned' = spawned
      /\ source' = source /\ ready' = ready /\ started' = started
  BY DEF RestartDaemon, config
<1>2. pc # "boot" /\ daemon[x].phase # "none" /\ daemon[x].phase # "running"
  BY <1>1 DEF Ticks
<1>3. /\ Running /\ HoldInv /\ LogPipeKept /\ TableInv /\ ProcInv /\ ~Reading
      /\ CtlTypes /\ ServiceTypes /\ HoldType
  BY <1>2, RunningIs, Zenon
<1>4. /\ x \in 1 .. N /\ svc[x].type = "daemon" /\ x # at /\ starts[x] # 0 /\ starts[x] > 0
      /\ pc \in {"wait", "sleep", "loop", "ended"} /\ inst[x] = "none"
  BY <1>1, <1>2, <1>3, TickFacts, Zenon
<1>5. inst[x] # "run" /\ pc' # "boot"
  BY <1>1, <1>2, <1>4
<1>6. chan' \in [Stream -> End] /\ StreamBody'
  BY <1>1, <1>3, <1>4, Zenon
     DEF Running, StreamSteps, StartedStep
<1>7. HoldType' /\ HoldInv'
  <2>1. N' = N
    BY <1>1, Zenon DEF N, svc
  <2> QED BY <1>1, <1>3, <1>4, <1>5, <2>1, Zenon
     DEF Running, StreamSteps, HoldType
<1>8. /\ inst' \in [Places -> {"none", "run", "ok", "bad"}]
      /\ starts' \in [Places -> 0 .. 2] /\ spawnFails' = spawnFails
      /\ inst'[x] = "run" /\ starts'[x] > 0
      /\ \A i \in Places : i # x => inst'[i] = inst[i] /\ starts'[i] = starts[i]
  BY <1>1, <1>3, SpawnedFacts, Zenon
<1>9. /\ daemon' \in [Places -> [phase : {"none", "running", "backoff", "stopped"},
                                 failures : Nat]]
      /\ daemon'[x].phase = "running"
      /\ \A i \in Places : i # x => daemon'[i] = daemon[i]
  <2>1. "running" \in {"none", "running", "backoff", "stopped"}
    OBVIOUS
  <2> QED BY <1>1, <1>3, <2>1, PhaseSet, Zenon
<1>10. CtlTypes' /\ ProcInv'
  <2>1. "run" # "none" /\ (InRound' <=> InRound)
    BY <1>1 DEF InRound
  <2>2. ASSUME NEW i \in Places
        PROVE  /\ inst'[i] # "none" <=> daemon'[i].phase = "running" \/ (pc' = "wait" /\ at = i)
               /\ daemon'[i].phase # "none" =>
                    daemon[i].phase # "none" /\ (starts[i] > 0 => starts'[i] > 0)
               /\ starts'[i] > 0 => starts[i] > 0 /\ (i = at => InRound')
    <3>1. CASE i = x
      BY <1>2, <1>4, <1>8, <1>9, <2>1, <3>1, Zenon
    <3>2. CASE i # x
      <4>1. ~(at < at)
        BY <1>3 DEF CtlTypes
      <4>2. starts[i] > 0 /\ i = at => InRound
        BY <1>3, <4>1, Zenon DEF ProcInv
      <4>3. inst[i] # "none" <=> daemon[i].phase = "running" \/ (pc = "wait" /\ at = i)
        BY <1>3, Zenon DEF ProcInv
      <4> QED BY <1>1, <1>8, <1>9, <2>1, <3>2, <4>2, <4>3, Zenon
    <3> QED BY <3>1, <3>2, Zenon
  <2>3. /\ InRound' => /\ at <= N /\ svc[at].type # "daemon" /\ Met(at)
                       /\ spawned' <=> starts'[at] > 0
        /\ pc' = "wait" => spawned'
    BY <1>1, <1>3, <1>4, <1>8, <2>1, RoundKept, Zenon
  <2>4. fails' \in Nat /\ spawned' \in BOOLEAN
    BY <1>1, <1>3, Zenon DEF CtlTypes
  <2> QED BY <1>1, <1>3, <1>4, <2>2, <2>3, <2>4, StayStep, Zenon
<1>11. LogPipeKept' /\ source' \subseteq table'.sources
  <2>1. svc' = svc /\ table.sources \subseteq Places
    BY <1>1, <1>3, LogFacts, Zenon DEF svc
  <2>2. source' \subseteq table'.sources
    BY <1>1, <1>3, Zenon DEF ServiceTypes
  <2>3. ASSUME NEW i \in table.sources
        PROVE  /\ daemon'[i].phase \in {"running", "backoff"} /\ svc[i].policy # "never"
                    => i \in source
               /\ pc \in {"wait", "sleep"} /\ at = i /\ starts'[i] > 0 => i \in source
               /\ daemon'[i].phase = "stopped" \/ (svc[i].type # "daemon" /\ i \in started)
                    => i \notin source
    <3>1. /\ daemon[i].phase \in {"running", "backoff"} /\ svc[i].policy # "never"
               => i \in source
          /\ pc \in {"wait", "sleep"} /\ at = i /\ starts[i] > 0 => i \in source
          /\ daemon[i].phase = "stopped" \/ (svc[i].type # "daemon" /\ i \in started)
               => i \notin source
      BY <1>3, Zenon DEF LogPipeKept
    <3>2. CASE i = x
      <4>1. daemon[i].phase \in {"running", "backoff"} /\ daemon'[i].phase # "stopped"
        BY <1>1, <1>9, <3>2
      <4> QED BY <1>4, <3>1, <3>2, <4>1, Zenon
    <3>3. CASE i # x
      BY <1>8, <1>9, <2>1, <3>1, <3>3, Zenon
    <3> QED BY <3>2, <3>3, Zenon
  <2> QED BY <1>1, <2>1, <2>2, <2>3, Zenon DEF LogPipeKept
<1>12. ServiceTypes'
  BY <1>3, <1>8, <1>9, <1>11, Zenon DEF ServiceTypes
<1> QED BY <1>1, <1>3, <1>5, <1>6, <1>7, <1>10, <1>11, <1>12, Rejoin, Zenon

\* The end of a daemon's process, or of an attempt to start one.
LEMMA RunEnded ==
  ASSUME ServiceTypes, NEW x \in Places, NEW success, NEW stable,
         daemon_run_ended(x, success, stable)
  PROVE  /\ daemon' \in [Places -> [phase : {"none", "running", "backoff", "stopped"},
                                    failures : Nat]]
         /\ \A i \in Places : i # x => daemon'[i] = daemon[i]
         /\ \/ daemon'[x].phase = "stopped" /\ source' = source \ {x}
            \/ /\ daemon'[x].phase = "backoff" /\ source' = source
               /\ svc[x].policy # "never"
<1> DEFINE failures == IF success \/ stable THEN 0 ELSE daemon[x].failures
           Ends == \/ ~service_should_restart(svc[x], success)
                   \/ ~success /\ failures >= svc[x].retries
           n == IF success THEN 0 ELSE failures + 1
           d == [phase |-> "backoff", failures |-> n]
<1>1. CASE Ends
  <2>1. daemon' = [daemon EXCEPT ![x].phase = "stopped"] /\ source' = source \ {x}
    BY <1>1, Zenon DEF daemon_run_ended
  <2>2. "stopped" \in {"none", "running", "backoff", "stopped"}
    OBVIOUS
  <2> QED BY <2>1, <2>2, PhaseSet, Zenon
<1>2. CASE ~Ends
  <2>1. daemon' = [daemon EXCEPT ![x] = d] /\ source' = source
    BY <1>2, Zenon DEF daemon_run_ended
  <2>2. svc[x].policy # "never"
    BY <1>2 DEF service_should_restart
  <2>3. daemon[x].failures \in Nat
    BY Zenon DEF ServiceTypes
  <2>4. n \in Nat
    BY <2>3
  <2> HIDE DEF n
  <2> DEFINE R == [phase : {"none", "running", "backoff", "stopped"}, failures : Nat]
  <2>5. d \in R /\ d.phase = "backoff"
    BY <2>4
  <2>6. daemon \in [Places -> R]
    BY Zenon DEF ServiceTypes
  <2> HIDE DEF d, R
  <2>7. /\ daemon' \in [Places -> R] /\ daemon'[x] = d
        /\ \A i \in Places : i # x => daemon'[i] = daemon[i]
    BY <2>1, <2>5, <2>6, Zenon
  <2> QED BY <2>1, <2>2, <2>5, <2>7, Zenon DEF R
<1> QED BY <1>1, <1>2, Zenon

\* A daemon is not running any more: it is to be started again, or stopped.
LEMMA TickEnds ==
  ASSUME PairFacts, Fresh, StreamSteps, IInv, NEW x \in Places, Ticks,
         daemon[x].phase \in {"running", "backoff"}, NEW success, NEW stable,
         daemon_run_ended(x, success, stable), UNCHANGED config,
         at' = at, pc' = pc, fails' = fails, spawned' = spawned, ready' = ready,
         hold' = hold, started' = started, starts' = starts,
         inst' \in [Places -> {"none", "run", "ok", "bad"}], inst'[x] = "none",
         \A i \in Places : i # x => inst'[i] = inst[i],
         chan' \in [Stream -> End], StreamBody', HoldInv', spawnFails' \in 0 .. MaxSpawnFails
  PROVE  IInv'
<1>1. pc # "boot" /\ daemon[x].phase # "none" /\ table' = table
  BY DEF Ticks, config
<1>2. /\ Running /\ LogPipeKept /\ TableInv /\ ProcInv /\ ~Reading
      /\ CtlTypes /\ ServiceTypes /\ HoldType
  BY <1>1, RunningIs, Zenon
<1>3. /\ x \in 1 .. N /\ svc[x].type = "daemon" /\ x # at
      /\ pc \in {"wait", "sleep", "loop", "ended"}
  BY <1>1, <1>2, TickFacts, Zenon
<1>4. /\ daemon' \in [Places -> [phase : {"none", "running", "backoff", "stopped"},
                                 failures : Nat]]
      /\ \A i \in Places : i # x => daemon'[i] = daemon[i]
      /\ \/ daemon'[x].phase = "stopped" /\ source' = source \ {x}
         \/ /\ daemon'[x].phase = "backoff" /\ source' = source
            /\ svc[x].policy # "never"
  BY <1>2, RunEnded, Zenon
<1>5. daemon'[x].phase # "running" /\ pc' # "boot"
  BY <1>1, <1>4
<1>6. CtlTypes' /\ ProcInv'
  <2>1. InRound' <=> InRound
    BY DEF InRound
  <2>2. ~(at < at)
    BY <1>2 DEF CtlTypes
  <2>3. ASSUME NEW i \in Places
        PROVE  /\ inst'[i] # "none" <=> daemon'[i].phase = "running" \/ (pc' = "wait" /\ at = i)
               /\ daemon'[i].phase # "none" =>
                    daemon[i].phase # "none" /\ (starts[i] > 0 => starts'[i] > 0)
               /\ starts'[i] > 0 => starts[i] > 0 /\ (i = at => InRound')
    <3>1. /\ starts[i] > 0 /\ i = at => InRound
          /\ inst[i] # "none" <=> daemon[i].phase = "running" \/ (pc = "wait" /\ at = i)
      BY <1>2, <2>2, Zenon DEF ProcInv
    <3>2. CASE i = x
      BY <1>1, <1>3, <1>5, <2>1, <3>1, <3>2, Zenon
    <3>3. CASE i # x
      BY <1>4, <2>1, <3>1, <3>3, Zenon
    <3> QED BY <3>2, <3>3, Zenon
  <2>4. /\ InRound' => /\ at <= N /\ svc[at].type # "daemon" /\ Met(at)
                       /\ spawned' <=> starts'[at] > 0
        /\ pc' = "wait" => spawned'
    BY <1>2, <2>1, RoundKept, Zenon
  <2>5. fails' \in Nat /\ spawned' \in BOOLEAN
    BY <1>2, Zenon DEF CtlTypes
  <2> QED BY <1>1, <1>2, <1>3, <2>3, <2>4, <2>5, StayStep, Zenon
<1>7. LogPipeKept' /\ source' \subseteq table'.sources
  <2>1. svc' = svc /\ table.sources \subseteq Places
    BY <1>1, <1>2, LogFacts, Zenon DEF svc
  <2>2. source' \subseteq table'.sources /\ source' \subseteq source
        /\ source \subseteq source' \cup {x}
    BY <1>1, <1>2, <1>4, Zenon DEF ServiceTypes
  <2>3. ASSUME NEW i \in table.sources
        PROVE  /\ daemon'[i].phase \in {"running", "backoff"} /\ svc[i].policy # "never"
                    => i \in source'
               /\ pc \in {"wait", "sleep"} /\ at = i /\ starts[i] > 0 => i \in source'
               /\ daemon'[i].phase = "stopped" \/ (svc[i].type # "daemon" /\ i \in started)
                    => i \notin source'
    <3>1. /\ daemon[i].phase \in {"running", "backoff"} /\ svc[i].policy # "never"
               => i \in source
          /\ pc \in {"wait", "sleep"} /\ at = i /\ starts[i] > 0 => i \in source
          /\ daemon[i].phase = "stopped" \/ (svc[i].type # "daemon" /\ i \in started)
               => i \notin source
      BY <1>2, Zenon DEF LogPipeKept
    <3>2. CASE i = x
      <4>1. CASE daemon'[x].phase = "stopped" /\ source' = source \ {x}
        <5>1. daemon'[x].phase \notin {"running", "backoff"}
          BY <4>1
        <5> QED BY <1>3, <3>2, <4>1, <5>1, Zenon
      <4>2. CASE /\ daemon'[x].phase = "backoff" /\ source' = source
                 /\ svc[x].policy # "never"
        <5>1. daemon'[x].phase # "stopped"
          BY <4>2
        <5> QED BY <1>3, <3>1, <3>2, <4>2, <5>1, Zenon
      <4> QED BY <1>4, <4>1, <4>2, Zenon
    <3>3. CASE i # x
      BY <1>4, <2>1, <2>2, <3>1, <3>3, Zenon
    <3> QED BY <3>2, <3>3, Zenon
  <2> QED BY <1>1, <2>1, <2>2, <2>3, Zenon DEF LogPipeKept
<1>8. ServiceTypes'
  BY <1>2, <1>4, <1>7, Zenon DEF ServiceTypes
<1>9. HoldType'
  BY <1>1, <1>2, Zenon DEF HoldType, N, svc
<1> QED BY <1>1, <1>2, <1>5, <1>6, <1>7, <1>8, <1>9, Rejoin, ZenonT(30)

\* A daemon that has exited is reaped.
LEMMA ReapDaemonStep ==
  ASSUME PairFacts, Fresh, StreamSteps, IInv, NEW x \in Places, ReapDaemon(x) PROVE IInv'
<1>1. /\ Ticks /\ daemon[x].phase = "running" /\ inst[x] \in {"ok", "bad"}
      /\ inst' = [inst EXCEPT ![x] = "none"] /\ UNCHANGED config /\ table' = table
      /\ at' = at /\ pc' = pc /\ fails' = fails /\ spawned' = spawned /\ ready' = ready
      /\ chan' = chan /\ hold' = hold /\ started' = started /\ starts' = starts
      /\ spawnFails' = spawnFails
  BY DEF ReapDaemon, config
<1>2. PICK stable \in BOOLEAN : daemon_run_ended(x, inst[x] = "ok", stable)
  BY Zenon DEF ReapDaemon
<1>3. pc # "boot" /\ daemon[x].phase \in {"running", "backoff"} /\ inst[x] # "run"
  BY <1>1 DEF Ticks
<1>4. Running /\ HoldInv /\ ServiceTypes /\ HoldType /\ chan \in [Stream -> End] /\ TableInv
  BY <1>3, RunningIs, Zenon
<1>5. /\ inst' \in [Places -> {"none", "run", "ok", "bad"}] /\ inst'[x] = "none"
      /\ \A i \in Places : i # x => inst'[i] = inst[i]
  <2>1. "none" \in {"none", "run", "ok", "bad"}
    OBVIOUS
  <2> QED BY <1>1, <1>4, <2>1, Zenon DEF ServiceTypes
<1>6. "none" # "run" /\ \A k \in 1 .. N : k \in Places
  BY <1>4, Services
<1>7. \A j \in 1 .. N : inst'[j] = "run" => inst[j] = "run"
  BY <1>5, <1>6, Zenon
<1>8. StreamBody'
  BY <1>1, <1>4, <1>7, Zenon
     DEF Running, StreamSteps, QuietStep, Passes
<1>9. HoldInv'
  <2>1. \A h \in hold : h[1] \in 1 .. N
    BY <1>4 DEF HoldType
  <2>2. \A h \in hold : inst'[h[1]] = "run"
    BY <1>3, <1>4, <1>5, <1>6, <2>1, Zenon DEF HoldInv
  <2> QED BY <1>1, <1>4, <2>2, HoldLess, Zenon
<1>10. spawnFails' \in 0 .. MaxSpawnFails
  BY <1>1, <1>4, Zenon DEF ServiceTypes
<1> QED BY <1>1, <1>2, <1>3, <1>4, <1>5, <1>8, <1>9, <1>10, TickEnds, ZenonT(30)

\* A daemon cannot be started again.
LEMMA RestartDaemonFailsStep ==
  ASSUME PairFacts, Fresh, StreamSteps, IInv, NEW x \in Places, RestartDaemonFails(x) PROVE IInv'
<1>1. /\ Ticks /\ daemon[x].phase = "backoff" /\ SpawnBreaks(x, chan') /\ chan' \in Broken(x)
      /\ daemon_run_ended(x, FALSE, FALSE) /\ UNCHANGED config /\ table' = table
      /\ at' = at /\ pc' = pc /\ fails' = fails /\ spawned' = spawned /\ ready' = ready
      /\ inst' = inst /\ hold' = hold /\ started' = started /\ starts' = starts
  BY Zenon DEF RestartDaemonFails, config
<1>2. /\ pc # "boot" /\ daemon[x].phase \in {"running", "backoff"}
      /\ daemon[x].phase # "none" /\ daemon[x].phase # "running"
  BY <1>1 DEF Ticks
<1>3. Running /\ HoldInv /\ ServiceTypes
  BY <1>2, RunningIs, Zenon
<1>4. x \in 1 .. N /\ inst[x] = "none"
  BY <1>1, <1>2, <1>3, TickFacts, Zenon
<1>5. chan' \in [Stream -> End] /\ StreamBody'
  BY <1>1, <1>3, <1>4, Zenon
     DEF Running, StreamSteps, BrokenStep, Passes
<1>6. spawnFails' \in 0 .. MaxSpawnFails
  BY <1>1, <1>3, BreaksType, Zenon DEF ServiceTypes
<1>7. HoldInv'
  BY <1>1, <1>3, Zenon DEF HoldInv
<1>8. inst' \in [Places -> {"none", "run", "ok", "bad"}]
  BY <1>1, <1>3, Zenon DEF ServiceTypes
<1> QED BY <1>1, <1>2, <1>4, <1>5, <1>6, <1>7, <1>8, TickEnds, Zenon

\* A round of run_service is over: it returns, or sleeps before the next.
LEMMA RoundCases ==
  ASSUME CtlTypes, NEW success, NEW c, NEW s, RoundEnded(success, c, s)
  PROVE  \/ /\ Advance /\ (Provide \/ NotProvided)
            /\ source' = source \ {at} \/ (source' = source /\ NotProvided)
            /\ \/ chan' = c /\ (success \/ s)
               \/ chan' = release_unspawned_channel_writers(c, svc[at]) /\ ~s
         \/ /\ pc' = "sleep" /\ fails' \in Nat /\ chan' = c /\ NotProvided
            /\ at' = at /\ spawned' = spawned /\ source' = source
<1>1. CASE ~service_should_restart(svc[at], success)
  BY <1>1, Zenon DEF RoundEnded
<1>2. CASE /\ ~~service_should_restart(svc[at], success)
           /\ ~success /\ fails >= svc[at].retries
  BY <1>2, Zenon DEF RoundEnded
<1>3. CASE /\ ~~service_should_restart(svc[at], success)
           /\ ~(~success /\ fails >= svc[at].retries)
  <2>1. /\ pc' = "sleep" /\ fails' = (IF success THEN 0 ELSE fails + 1) /\ chan' = c
        /\ NotProvided /\ UNCHANGED <<at, spawned, source>>
    BY <1>3, Zenon DEF RoundEnded
  <2>2. fails' \in Nat
    BY <2>1 DEF CtlTypes
  <2> QED BY <2>1, <2>2
<1> QED BY <1>1, <1>2, <1>3, Zenon

\* The same for main, its processes and the log pipes.
LEMMA RoundStep ==
  ASSUME Running, LogPipeKept, ServiceTypes, CtlTypes, NEW success, NEW c, NEW s,
         RoundEnded(success, c, s),
         table' = table, daemon' = daemon, starts' = starts, pc \in {"start", "wait", "sleep"},
         at \in 1 .. N, at \in Places, at <= N, svc[at].type # "daemon", Met(at),
         spawned <=> starts[at] > 0,
         \A i \in Places : inst'[i] # "none" <=> daemon[i].phase = "running"
  PROVE  /\ CtlTypes' /\ ProcInv' /\ LogPipeKept' /\ source' \subseteq table'.sources
         /\ pc' # "boot"
<1>1. CASE /\ Advance /\ (Provide \/ NotProvided)
           /\ source' = source \ {at} \/ (source' = source /\ NotProvided)
  <2>1. CtlTypes' /\ ProcInv'
    BY <1>1, AdvanceStep, Zenon
  <2>2. LogPipeKept' /\ source' \subseteq table'.sources
    BY <1>1, LogAdvance, Zenon
  <2>3. pc' # "boot"
    BY <1>1 DEF Advance
  <2> QED BY <2>1, <2>2, <2>3, Zenon
<1>2. CASE /\ pc' = "sleep" /\ fails' \in Nat /\ NotProvided
           /\ at' = at /\ spawned' = spawned /\ source' = source
  <2>1. /\ InRound' /\ pc' \in {"wait", "sleep", "loop", "ended"} /\ pc' # "wait"
        /\ pc' # "boot" /\ ready' = ready /\ started' = started /\ spawned' \in BOOLEAN
        /\ svc' = svc
    BY <1>2 DEF InRound, NotProvided, CtlTypes, svc
  <2>2. CtlTypes' /\ ProcInv'
    BY <1>2, <2>1, StayStep, Zenon
  <2>3. \A i \in table.sources : at = i /\ starts[i] > 0 => i \in source
    <3>1. CASE pc = "start"
      <4>1. starts[at] = 0
        BY <3>1, StartFacts, Zenon
      <4>2. ~(starts[at] > 0)
        BY <4>1
      <4> QED BY <4>2, Zenon
    <3>2. CASE pc # "start"
      <4>1. pc \in {"wait", "sleep"}
        BY <3>2
      <4> QED BY <4>1, Zenon DEF LogPipeKept
    <3> QED BY <3>1, <3>2, Zenon
  <2>4. LogPipeKept'
    BY <1>2, <2>1, <2>3, Zenon DEF LogPipeKept
  <2>5. source' \subseteq table'.sources
    BY <1>2, Zenon DEF ServiceTypes
  <2> QED BY <2>1, <2>2, <2>4, <2>5, Zenon
<1> QED BY <1>1, <1>2, RoundCases, Zenon

\* run_service cannot start its service.
LEMMA RunServiceFailsStep == ASSUME PairFacts, Fresh, StreamSteps, IInv, RunServiceFails PROVE IInv'
<1>1. /\ AtSpawn /\ UNCHANGED config /\ table' = table
      /\ daemon' = daemon /\ inst' = inst /\ hold' = hold /\ starts' = starts
  BY DEF RunServiceFails, config
<1>2. PICK c \in Broken(at) : SpawnBreaks(at, c) /\ RoundEnded(FALSE, c, spawned)
  BY Zenon DEF RunServiceFails
<1>3. pc # "boot" /\ pc \in {"start", "wait", "sleep"}
  BY <1>1 DEF AtSpawn
<1>4. /\ Running /\ HoldInv /\ LogPipeKept /\ TableInv /\ ProcInv /\ ~Reading
      /\ CtlTypes /\ ServiceTypes /\ HoldType
  BY <1>3, RunningIs, Zenon
<1>5. /\ pc # "wait" /\ at \in 1 .. N /\ at \in Places /\ at <= N
      /\ svc[at].type # "daemon" /\ Met(at) /\ (spawned <=> starts[at] > 0)
  BY <1>1, <1>4, AtSpawnFacts, Zenon
<1>6. \A i \in Places : inst'[i] # "none" <=> daemon[i].phase = "running"
  BY <1>1, <1>4, <1>5, Zenon DEF ProcInv
<1>7. /\ CtlTypes' /\ ProcInv' /\ LogPipeKept' /\ source' \subseteq table'.sources
      /\ pc' # "boot"
  BY <1>1, <1>2, <1>3, <1>4, <1>5, <1>6, RoundStep, Zenon
<1>8. chan' \in [Stream -> End] /\ StreamBody'
  <2>1. /\ starts[at] \in 0 .. 2 /\ (spawned => starts[at] # 0) /\ (~spawned => starts[at] = 0)
    <3>1. starts[at] \in 0 .. 2
      BY <1>4, <1>5, Zenon DEF ServiceTypes
    <3> QED BY <1>5, <3>1
  <2>2. CASE /\ at' = at + 1 /\ ~spawned
             /\ chan' = release_unspawned_channel_writers(c, svc[at])
    <3>1. c \in Broken(at) \cup {chan}
      OBVIOUS
    <3> QED BY <1>1, <1>4, <1>5, <2>1, <2>2, <3>1, Zenon
     DEF Running, StreamSteps, DroppedStep
  <2>3. CASE chan' = c /\ (at' = at \/ (at' = at + 1 /\ spawned))
    BY <1>1, <1>4, <1>5, <2>1, <2>3, Zenon
     DEF Running, StreamSteps, BrokenStep, Passes
  <2> QED BY <1>2, <1>4, <2>2, <2>3, RoundCases, Zenon DEF Advance
<1>9. ServiceTypes'
  <2>1. spawnFails' \in 0 .. MaxSpawnFails
    BY <1>2, <1>4, BreaksType, Zenon DEF ServiceTypes
  <2> QED BY <1>1, <1>4, <1>7, <2>1, Zenon DEF ServiceTypes
<1>10. HoldInv' /\ HoldType'
  BY <1>1, <1>4, Zenon DEF HoldInv, HoldType, N, svc
<1> QED BY <1>1, <1>4, <1>7, <1>8, <1>9, <1>10, Rejoin, ZenonT(30)

\* The service run_service waits for is gone, and with it what it holds.
LEMMA WaitOver ==
  ASSUME PairFacts, Fresh, StreamSteps, IInv, pc = "wait", NEW success, RoundEnded(success, chan, TRUE),
         inst' = [inst EXCEPT ![at] = "none"], hold' = {h \in hold : h[1] # at},
         UNCHANGED <<config, daemon, starts, spawnFails>>
  PROVE  IInv'
<1>1. /\ daemon' = daemon /\ starts' = starts /\ spawnFails' = spawnFails /\ table' = table
      /\ UNCHANGED config /\ pc # "boot" /\ pc \in {"start", "wait", "sleep"} /\ InRound
      /\ "none" # "run" /\ "none" # "running" /\ "none" \in {"none", "run", "ok", "bad"}
  BY DEF config, InRound
<1>2. /\ Running /\ HoldInv /\ LogPipeKept /\ TableInv /\ ProcInv /\ ~Reading
      /\ CtlTypes /\ ServiceTypes /\ HoldType /\ chan \in [Stream -> End]
  BY <1>1, RunningIs, Zenon
<1>3. /\ at <= N /\ svc[at].type # "daemon" /\ Met(at) /\ (spawned <=> starts[at] > 0)
      /\ spawned
  BY <1>1, <1>2, Zenon DEF ProcInv
<1>4. at \in 1 .. N /\ starts[at] # 0
  <2>1. N \in Nat
    BY <1>2, Services, Zenon
  <2>2. at \in 1 .. N + 1
    BY <1>2, Zenon DEF CtlTypes
  <2> QED BY <1>3, <2>1, <2>2
<1>5. at \in Places /\ \A k \in 1 .. N : k \in Places
  BY <1>2, <1>4, Services, Zenon
<1>6. /\ inst' \in [Places -> {"none", "run", "ok", "bad"}] /\ inst'[at] = "none"
      /\ \A i \in Places : i # at => inst'[i] = inst[i]
  BY <1>1, <1>2, <1>5, Zenon DEF ServiceTypes
<1>7. \A i \in Places : inst'[i] # "none" <=> daemon[i].phase = "running"
  <2>1. daemon[at].phase = "none"
    BY <1>2, <1>3, <1>5, Zenon DEF ProcInv
  <2> QED BY <1>1, <1>2, <1>6, <2>1, Zenon DEF ProcInv
<1>8. /\ CtlTypes' /\ ProcInv' /\ LogPipeKept' /\ source' \subseteq table'.sources
      /\ pc' # "boot"
  BY <1>1, <1>2, <1>3, <1>4, <1>5, <1>7, RoundStep, Zenon
<1>9. \A j \in 1 .. N : inst'[j] = "run" => inst[j] = "run" /\ j # at
  BY <1>1, <1>5, <1>6, Zenon
<1>10. chan' = chan /\ (at' = at \/ at' = at + 1)
  BY <1>2, RoundCases, Zenon DEF Advance
<1>11. StreamBody'
  <2>1. hold' \subseteq hold
    OBVIOUS
  <2>2. \A j \in 1 .. N : inst'[j] = "run" =>
          inst[j] = "run" /\ \A h \in hold : h[1] = j => h \in hold'
    BY <1>9, Zenon
  <2> QED BY <1>1, <1>2, <1>4, <1>10, <2>1, <2>2, Zenon
     DEF Running, StreamSteps, QuietStep, Passes
<1>12. HoldInv' /\ HoldType'
  <2>1. \A h \in hold : h[1] \in 1 .. N
    BY <1>2 DEF HoldType
  <2>2. \A h \in hold' : h \in hold /\ inst'[h[1]] = "run"
    BY <1>2, <1>5, <1>6, <2>1, Zenon DEF HoldInv
  <2>3. hold' \subseteq hold
    BY Zenon
  <2>4. HoldInv'
    BY <1>2, <2>2, <2>3, HoldLess, Zenon
  <2> QED BY <1>1, <1>2, <2>3, <2>4, Zenon DEF HoldType, N, svc
<1>13. ServiceTypes'
  BY <1>1, <1>2, <1>6, <1>8, Zenon DEF ServiceTypes
<1>14. chan' \in [Stream -> End]
  BY <1>2, <1>10, Zenon
<1> QED BY <1>1, <1>2, <1>8, <1>11, <1>12, <1>13, <1>14, Rejoin, Zenon

\* The service has exited; nothing is left for it to hold.
LEMMA ExitedOver ==
  ASSUME PairFacts, Fresh, StreamSteps, IInv, pc = "wait", inst[at] \in {"ok", "bad"},
         NEW success, RoundEnded(success, chan, TRUE), hold' = hold,
         inst' = [inst EXCEPT ![at] = "none"], UNCHANGED <<config, daemon, starts, spawnFails>>
  PROVE  IInv'
<1>1. inst[at] # "run"
  OBVIOUS
<1>2. hold' = {h \in hold : h[1] # at}
  BY <1>1, Zenon DEF IInv, HoldInv
<1> QED BY <1>2, WaitOver, Zenon

\* init finds that it has exited, or can no longer kill it.
LEMMA WaitExitedStep == ASSUME PairFacts, Fresh, StreamSteps, IInv, WaitExited PROVE IInv'
<1>1. /\ pc = "wait" /\ inst[at] \in {"ok", "bad"} /\ hold' = hold
      /\ inst' = [inst EXCEPT ![at] = "none"]
      /\ UNCHANGED <<config, daemon, starts, spawnFails>>
  BY DEF WaitExited
<1>2. PICK v \in Verified(svc[at]) : RoundEnded(inst[at] = "ok" /\ v, chan, TRUE)
  BY Zenon DEF WaitExited
<1> QED BY <1>1, <1>2, ExitedOver, Zenon

LEMMA WaitFailedStep == ASSUME PairFacts, Fresh, StreamSteps, IInv, WaitFailed PROVE IInv'
<1>1. /\ pc = "wait" /\ inst[at] \in {"ok", "bad"} /\ hold' = hold
      /\ inst' = [inst EXCEPT ![at] = "none"]
      /\ UNCHANGED <<config, daemon, starts, spawnFails>>
  BY DEF WaitFailed
<1>2. RoundEnded(FALSE, chan, TRUE)
  BY Zenon DEF WaitFailed
<1> QED BY <1>1, <1>2, ExitedOver, Zenon

\* wait_for_service kills the service.
LEMMA WaitTimedOutStep == ASSUME PairFacts, Fresh, StreamSteps, IInv, WaitTimedOut PROVE IInv'
<1>1. UNCHANGED <<config, daemon, starts, spawnFails>>
  BY DEF WaitTimedOut
<1> QED BY <1>1, WaitOver, Zenon DEF WaitTimedOut

\* A process exits.
LEMMA ExitStep == ASSUME PairFacts, Fresh, StreamSteps, IInv, NEW x \in Places, Exit(x) PROVE IInv'
<1>1. /\ inst[x] = "run" /\ hold' = {h \in hold : h[1] # x} /\ UNCHANGED config
      /\ table' = table /\ at' = at /\ pc' = pc /\ fails' = fails /\ spawned' = spawned
      /\ ready' = ready /\ daemon' = daemon /\ chan' = chan /\ source' = source
      /\ started' = started /\ starts' = starts /\ spawnFails' = spawnFails
  BY DEF Exit, config
<1>2. PICK status \in {"ok", "bad"} : inst' = [inst EXCEPT ![x] = status]
  BY Zenon DEF Exit
<1>3. /\ status # "run" /\ status # "none" /\ inst[x] # "none"
      /\ status \in {"none", "run", "ok", "bad"}
  BY <1>1
<1>4. pc # "boot" /\ pc' # "boot"
  BY <1>1, <1>3, Zenon DEF IInv, BootInv
<1>5. /\ Running /\ HoldInv /\ LogPipeKept /\ TableInv /\ ProcInv /\ ~Reading
      /\ CtlTypes /\ ServiceTypes /\ HoldType /\ chan \in [Stream -> End]
  BY <1>4, RunningIs, Zenon
<1>6. /\ inst' \in [Places -> {"none", "run", "ok", "bad"}] /\ inst'[x] = status
      /\ \A i \in Places : i # x => inst'[i] = inst[i]
  BY <1>2, <1>3, <1>5, Zenon DEF ServiceTypes
<1>7. svc' = svc /\ N' = N /\ (InRound' <=> InRound) /\ \A i : Met(i)' <=> Met(i)
  BY <1>1, Zenon DEF svc, N, InRound, Met
<1>8. \A i \in Places : inst'[i] # "none" <=> inst[i] # "none"
  BY <1>3, <1>6, Zenon
<1>9. CtlTypes' /\ ServiceTypes'
  BY <1>1, <1>5, <1>6, <1>7, Zenon DEF CtlTypes, ServiceTypes
<1>10. ProcInv'
  <2>1. /\ ready = {Bit(i) : i \in started}
        /\ InRound => at <= N /\ svc[at].type # "daemon" /\ Met(at)
        /\ InRound => (spawned <=> starts[at] > 0)
        /\ pc = "wait" => spawned
        /\ pc = "start" => ~spawned
        /\ \A i \in started : i < at
    BY <1>5, Zenon DEF ProcInv
  <2>2. ASSUME NEW i \in Places
        PROVE  /\ inst'[i] # "none" <=> daemon'[i].phase = "running" \/ (pc' = "wait" /\ at' = i)
               /\ daemon'[i].phase # "none" =>
                    i \in 1 .. N' /\ svc'[i].type = "daemon" /\ i < at' /\ starts'[i] > 0
               /\ starts'[i] > 0 => /\ i \in 1 .. N' /\ Met(i)'
                                    /\ i < at' \/ (i = at' /\ InRound')
    BY <1>1, <1>5, <1>7, <1>8, Zenon DEF ProcInv
  <2>3. InRound' => at' <= N' /\ svc'[at'].type # "daemon" /\ Met(at)'
    BY <1>1, <1>7, <2>1, Zenon
  <2> QED BY <1>1, <1>7, <2>1, <2>2, <2>3, Zenon DEF ProcInv
<1>11. LogPipeKept'
  BY <1>1, <1>5, <1>7, Zenon DEF LogPipeKept
<1>12. \A k \in 1 .. N : k \in Places
  BY <1>5, Services, Zenon
<1>13. StreamBody'
  <2>1. \A j \in 1 .. N : inst'[j] = "run" =>
          inst[j] = "run" /\ \A h \in hold : h[1] = j => h \in hold'
    BY <1>1, <1>3, <1>6, <1>12, Zenon
  <2>2. hold' \subseteq hold
    BY <1>1, Zenon
  <2> QED BY <1>1, <1>5, <2>1, <2>2, Zenon
     DEF Running, StreamSteps, QuietStep, Passes
<1>14. HoldInv' /\ HoldType'
  <2>1. \A h \in hold : h[1] \in 1 .. N
    BY <1>5 DEF HoldType
  <2>2. hold' \subseteq hold /\ \A h \in hold' : inst'[h[1]] = "run"
    BY <1>1, <1>5, <1>6, <1>12, <2>1, Zenon DEF HoldInv
  <2>3. HoldInv'
    BY <1>5, <2>2, HoldLess, Zenon
  <2> QED BY <1>5, <1>7, <2>2, <2>3, Zenon DEF HoldType
<1>15. chan' \in [Stream -> End]
  BY <1>1, <1>5, Zenon
<1> QED BY <1>1, <1>4, <1>5, <1>9, <1>10, <1>11, <1>13, <1>14, <1>15, Rejoin, ZenonT(30)

\* main enters or leaves its last loop.
LEMMA LoopStep ==
  ASSUME PairFacts, Fresh, StreamSteps, IInv, pc \in {"start", "loop"}, pc' \in {"loop", "ended"},
         UNCHANGED <<config, at, fails, spawned, ready, daemon, inst, chan, source,
                     hold, started, starts, spawnFails>>
  PROVE  IInv'
<1>1. /\ table' = table /\ at' = at /\ fails' = fails /\ spawned' = spawned
      /\ ready' = ready /\ daemon' = daemon /\ inst' = inst /\ chan' = chan
      /\ source' = source /\ hold' = hold /\ started' = started /\ starts' = starts
      /\ spawnFails' = spawnFails /\ UNCHANGED config
  BY DEF config
<1>2. /\ pc # "boot" /\ pc' # "boot" /\ ~InRound /\ ~InRound' /\ pc # "wait" /\ pc' # "wait"
      /\ pc' \in {"wait", "sleep", "loop", "ended"} /\ pc' \notin {"wait", "sleep"}
  BY DEF InRound
<1>3. /\ Running /\ HoldInv /\ LogPipeKept /\ TableInv /\ ProcInv /\ ~Reading
      /\ CtlTypes /\ ServiceTypes /\ HoldType /\ chan \in [Stream -> End]
  BY <1>2, RunningIs, Zenon
<1>4. CtlTypes' /\ ProcInv'
  <2>1. ~(at < at) /\ fails' \in Nat /\ spawned' \in BOOLEAN
    BY <1>1, <1>3 DEF CtlTypes
  <2>2. \A i \in Places :
           /\ inst'[i] # "none" <=> daemon'[i].phase = "running" \/ (pc' = "wait" /\ at = i)
           /\ daemon'[i].phase # "none" =>
                daemon[i].phase # "none" /\ (starts[i] > 0 => starts'[i] > 0)
           /\ starts'[i] > 0 => starts[i] > 0 /\ (i = at => InRound')
    BY <1>1, <1>2, <1>3, <2>1, Zenon DEF ProcInv
  <2> QED BY <1>1, <1>2, <1>3, <2>1, <2>2, StayStep, ZenonT(30)
<1>5. LogPipeKept' /\ ServiceTypes' /\ HoldInv' /\ HoldType'
  BY <1>1, <1>2, <1>3, Zenon DEF LogPipeKept, ServiceTypes, HoldInv, HoldType, N, svc
<1>6. StreamBody'
  <2>1. hold' \subseteq hold /\ \A j \in 1 .. N : inst'[j] = "run" =>
          inst[j] = "run" /\ \A h \in hold : h[1] = j => h \in hold'
    BY <1>1, Zenon
  <2> QED BY <1>1, <1>3, <2>1, Zenon
     DEF Running, StreamSteps, QuietStep, Passes
<1>7. chan' \in [Stream -> End]
  BY <1>1, <1>3, Zenon
<1> QED BY <1>1, <1>2, <1>3, <1>4, <1>5, <1>6, <1>7, Rejoin, Zenon

-----------------------------------------------------------------------------
(* All steps                                                               *)

\* The invariant does not depend on anything but these variables.
LEMMA NothingChanges ==
  ASSUME IInv,
         /\ lines' = lines /\ line' = line /\ table' = table /\ from' = from
         /\ at' = at /\ pc' = pc /\ fails' = fails /\ spawned' = spawned /\ ready' = ready
         /\ daemon' = daemon /\ inst' = inst /\ chan' = chan /\ source' = source
         /\ hold' = hold /\ started' = started /\ starts' = starts
         /\ spawnFails' = spawnFails
  PROVE  IInv'
<1>1. UNCHANGED config
  BY DEF config
<1>2. svc' = svc /\ N' = N
  BY <1>1, Zenon DEF svc, N
<1>3. TableInv' /\ (Reading' <=> Reading)
  BY <1>1, TableKept, Zenon DEF IInv
<1>4. RunTypes' /\ BootInv' /\ HoldInv' /\ LogPipeKept'
  BY <1>1, <1>2, <1>3, ZenonT(40) DEF IInv, RunTypes, BootInv, HoldInv, LogPipeKept
<1>5. ProcInv'
  BY <1>1, <1>2, ZenonT(40) DEF IInv, ProcInv, InRound, Met
<1>6. StreamInv'
  <2>1. \A s : Pending(s)' = Pending(s) /\ Writers(s)' = Writers(s)
    BY <1>1, <1>2, Zenon DEF Pending, Writers
  <2> QED BY <1>1, <1>2, <2>1, Zenon DEF IInv, StreamInv, CountInv, LinkInv
<1> QED BY <1>3, <1>4, <1>5, <1>6, Zenon DEF IInv

\* A step of the whole system.
LEMMA NextStep == ASSUME PairFacts, Fresh, StreamSteps, IInv, [Next]_vars PROVE IInv'
<1>1. CASE Main
  <2>1. CASE EnterLoop \/ LeaveLoop
    <3>1. /\ pc \in {"start", "loop"} /\ pc' \in {"loop", "ended"}
          /\ UNCHANGED <<config, at, fails, spawned, ready, daemon, inst, chan, source,
                         hold, started, starts, spawnFails>>
      BY <2>1 DEF EnterLoop, LeaveLoop
    <3> QED BY <3>1, LoopStep, Zenon
  <2>2. CASE TimeIsUp
    <3>1. /\ lines' = lines /\ line' = line /\ table' = table /\ from' = from
          /\ at' = at /\ pc' = pc /\ fails' = fails /\ spawned' = spawned /\ ready' = ready
          /\ daemon' = daemon /\ inst' = inst /\ chan' = chan /\ source' = source
          /\ hold' = hold /\ started' = started /\ starts' = starts
          /\ spawnFails' = spawnFails
      BY <2>2 DEF TimeIsUp, config
    <3> QED BY <3>1, NothingChanges, Zenon
  <2> QED BY <1>1, <2>1, <2>2, ReadStepStep, BootStep, SkipStep, StartDaemonStep,
             StartDaemonFailsStep, RunServiceStep, RunServiceFailsStep, WaitExitedStep,
             WaitTimedOutStep, WaitFailedStep, Zenon DEF Main
<1>2. ASSUME NEW i \in Places, daemons_tick(i) \/ Exit(i)
      PROVE  IInv'
  BY <1>2, ReapDaemonStep, RestartDaemonStep, RestartDaemonFailsStep, ExitStep, Zenon
     DEF daemons_tick
<1>3. CASE UNCHANGED vars
  <2>1. /\ lines' = lines /\ line' = line /\ table' = table /\ from' = from
        /\ at' = at /\ pc' = pc /\ fails' = fails /\ spawned' = spawned /\ ready' = ready
        /\ daemon' = daemon /\ inst' = inst /\ chan' = chan /\ source' = source
        /\ hold' = hold /\ started' = started /\ starts' = starts
        /\ spawnFails' = spawnFails
    BY <1>3 DEF vars, config, run
  <2> QED BY <2>1, NothingChanges, Zenon
<1> QED BY <1>1, <1>2, <1>3, Zenon DEF Next

-----------------------------------------------------------------------------
(* The processes that are not waited for                                   *)

\* Nothing is left by a step that leaves expired alone or takes it back.
LEMMA LeftKept ==
  ASSUME LeftInv, UNCHANGED config, pc' # "boot", left' = left,
         \/ expired' = FALSE
         \/ expired' = expired /\ (expired => pc' = pc /\ at' = at)
  PROVE  LeftInv'
<1>1. Timed' = Timed
  BY Zenon DEF Timed, N, svc, config
<1>2. CASE expired' = FALSE
  BY <1>1, <1>2, Zenon DEF LeftInv
<1>3. CASE expired' = expired /\ (expired => pc' = pc /\ at' = at)
  BY <1>1, <1>3, Zenon DEF LeftInv
<1> QED BY <1>2, <1>3

\* run_service goes on when its service is over.
LEMMA RoundGoesOn == ASSUME NEW s, NEW c, NEW t, RoundEnded(s, c, t) PROVE pc' # "boot"
BY DEF RoundEnded, Advance

\* main waits for a service of the table that is no daemon.
LEMMA Awaited == ASSUME IInv, pc = "wait" PROVE at \in 1 .. N /\ svc[at].type # "daemon"
<1>1. TableInv /\ RunTypes /\ ProcInv /\ InRound
  BY DEF IInv, InRound
<1>2. N \in Nat
  BY <1>1, Services, Zenon
<1>3. at \in 1 .. N + 1 /\ at <= N /\ svc[at].type # "daemon"
  BY <1>1, Zenon DEF RunTypes, ProcInv
<1> QED BY <1>2, <1>3

\* A step of main.
LEMMA LeftMain == ASSUME IInv, LeftInv, Main PROVE LeftInv'
<1>1. CASE pc = "boot"
  <2>1. ~expired /\ left = {}
    BY <1>1 DEF LeftInv
  <2>2. expired' = expired /\ left' = left
    BY <1>1 DEF Main, ReadStep, Boot, Skip, StartDaemon, StartDaemonFails, RunService,
                RunServiceFails, WaitExited, TimeIsUp, WaitTimedOut, WaitFailed,
                EnterLoop, LeaveLoop, Starting, AtSpawn, run
  <2> QED BY <2>1, <2>2 DEF LeftInv
<1>2. CASE Skip \/ StartDaemon \/ StartDaemonFails \/ RunService \/ EnterLoop \/ LeaveLoop
  <2>1. /\ pc \in {"start", "sleep", "loop"} /\ UNCHANGED config /\ left' = left
        /\ expired' = expired /\ pc' # "boot"
    BY <1>2 DEF Skip, StartDaemon, StartDaemonFails, RunService, EnterLoop, LeaveLoop,
                Starting, AtSpawn, Advance
  <2>2. ~expired
    BY <2>1 DEF LeftInv
  <2> QED BY <2>1, <2>2, LeftKept, Zenon
<1>3. CASE RunServiceFails
  <2>1. /\ pc # "wait" /\ UNCHANGED config /\ left' = left /\ expired' = expired
    BY <1>3 DEF RunServiceFails, AtSpawn
  <2>2. ~expired
    BY <2>1, Zenon DEF LeftInv
  <2>3. pc' # "boot"
    BY <1>3, RoundGoesOn, Zenon DEF RunServiceFails
  <2> QED BY <2>1, <2>2, <2>3, LeftKept, Zenon
<1>4. CASE WaitExited \/ WaitTimedOut
  <2>1. /\ UNCHANGED config /\ left' = left
        /\ expired' = FALSE \/ (expired' = expired /\ ~expired)
    BY <1>4 DEF WaitExited, WaitTimedOut
  <2>2. pc' # "boot"
    BY <1>4, RoundGoesOn, Zenon DEF WaitExited, WaitTimedOut
  <2> QED BY <2>1, <2>2, LeftKept, Zenon
<1>5. CASE TimeIsUp \/ WaitFailed
  <2>1. /\ pc = "wait" /\ UNCHANGED config
        /\ \/ /\ svc[at].timeout /\ expired' = TRUE /\ left' = left /\ pc' = pc /\ at' = at
           \/ /\ expired /\ expired' = FALSE /\ left' = left \cup {at}
    BY <1>5 DEF TimeIsUp, WaitFailed
  <2>2. at \in 1 .. N /\ svc[at].type # "daemon"
    BY <2>1, Awaited, Zenon
  <2>3. svc[at].timeout => at \in Timed
    BY <2>2, Zenon DEF Timed
  <2>4. Timed' = Timed
    BY <2>1, Zenon DEF Timed, N, svc, config
  <2>5. pc' # "boot"
    <3>1. CASE TimeIsUp
      BY <3>1 DEF TimeIsUp
    <3>2. CASE WaitFailed
      BY <3>2, RoundGoesOn, Zenon DEF WaitFailed
    <3> QED BY <1>5, <3>1, <3>2
  <2> QED BY <2>1, <2>3, <2>4, <2>5, Zenon DEF LeftInv
<1>6. CASE ReadStep \/ Boot
  BY <1>1, <1>6, Zenon DEF ReadStep, Boot
<1> QED BY <1>2, <1>3, <1>4, <1>5, <1>6, Zenon DEF Main

\* A step of the whole system.
LEMMA LeftStep == ASSUME IInv, LeftInv, [Next]_vars PROVE LeftInv'
<1>1. ASSUME NEW i \in Places, daemons_tick(i) \/ Exit(i)
      PROVE  LeftInv'
  <2>1. UNCHANGED <<config, pc, at, expired, left>>
    BY <1>1 DEF daemons_tick, ReapDaemon, RestartDaemon, RestartDaemonFails, Exit
  <2>2. Timed' = Timed
    BY <2>1, Zenon DEF Timed, N, svc, config
  <2> QED BY <2>1, <2>2, Zenon DEF LeftInv
<1>2. CASE UNCHANGED vars
  <2>1. UNCHANGED <<config, pc, at, expired, left>>
    BY <1>2 DEF vars, run
  <2>2. Timed' = Timed
    BY <2>1, Zenon DEF Timed, N, svc, config
  <2> QED BY <2>1, <2>2, Zenon DEF LeftInv
<1> QED BY <1>1, <1>2, LeftMain, Zenon DEF Next

-----------------------------------------------------------------------------
(* Counting pairs, and the numbers of pipes                                *)
INSTANCE FiniteSetTheorems

\* n places and two marks make 2 * n pairs.
LEMMA PairNumber ==
  ASSUME NEW n \in Nat, NEW a, NEW b, a # b
  PROVE  /\ IsFiniteSet((1 .. n) \X {a, b})
         /\ Cardinality((1 .. n) \X {a, b}) = 2 * n
<1>1. IsFiniteSet(1 .. n) /\ Cardinality(1 .. n) = n
  BY FS_Interval, SMTT(30)
<1>2. IsFiniteSet({a}) /\ Cardinality({a}) = 1 /\ b \notin {a} /\ {a, b} = {a} \cup {b}
  BY FS_Singleton, Zenon
<1>3. IsFiniteSet({a, b}) /\ Cardinality({a, b}) = 1 + 1
  BY <1>2, FS_AddElement, ZenonT(30)
<1>4. /\ IsFiniteSet((1 .. n) \X {a, b})
      /\ Cardinality((1 .. n) \X {a, b}) = Cardinality(1 .. n) * Cardinality({a, b})
  BY <1>1, <1>3, FS_Product, Zenon
<1>5. n * (1 + 1) = 2 * n
  OBVIOUS
<1> QED BY <1>1, <1>3, <1>4, <1>5, ZenonT(30)

\* Sets of output bindings are finite and counted as expected.
LEMMA PairsAreCounted == PairFacts
<1> SUFFICES ASSUME NEW n \in Nat, NEW A \in SUBSET ((1 .. n) \X Output)
             PROVE  /\ Cardinality(A) \in 0 .. 2 * n
                    /\ A # {} => Cardinality(A) > 0
                    /\ A = {} => Cardinality(A) = 0
                    /\ \A x \in (1 .. n) \X Output :
                         /\ Cardinality(A \cup {x}) =
                              IF x \in A THEN Cardinality(A) ELSE Cardinality(A) + 1
                         /\ Cardinality(A \ {x}) =
                              IF x \in A THEN Cardinality(A) - 1 ELSE Cardinality(A)
  BY Zenon DEF PairFacts
<1>1. "out" # "err"
  OBVIOUS
<1>2. /\ IsFiniteSet((1 .. n) \X Output) /\ Cardinality((1 .. n) \X Output) = 2 * n
  BY <1>1, PairNumber, Zenon DEF Output
<1>3. IsFiniteSet(A) /\ Cardinality(A) <= 2 * n
  <2> DEFINE D == (1 .. n) \X Output
  <2> HIDE DEF D
  <2>1. A \in SUBSET D /\ IsFiniteSet(D) /\ Cardinality(D) = 2 * n
    BY <1>2, Zenon DEF D
  <2>2. IsFiniteSet(A) /\ Cardinality(A) <= Cardinality(D)
    BY <2>1, FS_Subset
  <2> QED BY <2>1, <2>2, Zenon
<1>4. Cardinality(A) \in Nat /\ (Cardinality(A) = 0 <=> A = {})
  BY <1>3, FS_CardinalityType, FS_EmptySet, Zenon
<1>5. Cardinality(A) \in 0 .. 2 * n /\ (A # {} => Cardinality(A) > 0)
  BY <1>3, <1>4
<1>6. ASSUME NEW x
      PROVE  /\ Cardinality(A \cup {x}) =
                  IF x \in A THEN Cardinality(A) ELSE Cardinality(A) + 1
             /\ Cardinality(A \ {x}) =
                  IF x \in A THEN Cardinality(A) - 1 ELSE Cardinality(A)
  BY <1>3, FS_AddElement, FS_RemoveElement, Zenon
<1> QED BY <1>4, <1>5, <1>6, Zenon

\* A process has one end of each kind of a stream, so that 2 * MaxServices + 1
\* numbers are enough for the pipes of a stream.
LEMMA PipesAreNumbered == IInv => Fresh
<1> SUFFICES ASSUME IInv, NEW s \in Stream,
                    \A n \in 1 .. 2 * MaxServices + 1 :
                      \E h \in hold : h[3] = s /\ h[4] = n
             PROVE  FALSE
  BY Zenon DEF Fresh
<1> DEFINE K == 1 .. 2 * MaxServices + 1
           D == (1 .. N) \X {"r", "w"}
           Has(n, d) == \E h \in hold : h[1] = d[1] /\ h[2] = d[2] /\ h[3] = s /\ h[4] = n
           f == [n \in K |-> CHOOSE d \in D : Has(n, d)]
<1>1. N \in Nat /\ MaxServices \in Nat /\ N <= MaxServices /\ HoldInv
  BY Services, Zenon DEF IInv
<1>2. \A h \in hold : <<h[1], h[2]>> \in D
  <2>1. hold \subseteq (1 .. N) \X {"r", "w"} \X Stream \X Nat
    BY Zenon DEF IInv, RunTypes
  <2> QED BY <2>1
<1>3. \A n \in K : \E d \in D : Has(n, d)
  <2>1. \A h : <<h[1], h[2]>>[1] = h[1] /\ <<h[1], h[2]>>[2] = h[2]
    OBVIOUS
  <2> QED BY <1>2, <2>1, Zenon
<1>4. IsFiniteSet(D) /\ Cardinality(D) = 2 * N
  <2>1. "r" # "w"
    OBVIOUS
  <2> QED BY <1>1, <2>1, PairNumber, ZenonT(30)
<1>5. IsFiniteSet(K) /\ Cardinality(K) = 2 * MaxServices + 1
  BY <1>1, FS_Interval, SMTT(30)
<1> HIDE DEF K, D
<1>6. Cardinality(D) < Cardinality(K)
  BY <1>1, <1>4, <1>5
<1>7. f \in [K -> D] /\ \A n \in K : Has(n, f[n])
  BY <1>3, Zenon
<1> HIDE DEF f
<1>8. PICK x, y \in K : x # y /\ f[x] = f[y]
  BY <1>4, <1>5, <1>6, <1>7, FS_PigeonHole
<1>9. PICK g \in hold : g[1] = f[x][1] /\ g[2] = f[x][2] /\ g[3] = s /\ g[4] = x
  BY <1>7, Zenon
<1>10. PICK h \in hold : h[1] = f[y][1] /\ h[2] = f[y][2] /\ h[3] = s /\ h[4] = y
  BY <1>7, Zenon
<1>11. g = h
  <2>1. g[1] = h[1] /\ g[2] = h[2] /\ g[3] = h[3]
    BY <1>8, <1>9, <1>10
  <2> QED BY <1>1, <2>1, ZenonT(30) DEF HoldInv
<1> QED BY <1>8, <1>9, <1>10, <1>11, ZenonT(30)

-----------------------------------------------------------------------------
(* The theorems                                                            *)

\* The invariant holds whatever the configuration says and whatever fails: main
\* starts and passes the services in order, the processes and the pipe ends they
\* have are those init knows of, the channels count the writers to come, and
\* only services with a timeout have an exited process that is not waited for.
THEOREM Inductive == Spec => [](IInv /\ LeftInv)
<1>1. Init => IInv /\ LeftInv
  <2>1. Init => LeftInv
    BY Zenon DEF Init, LeftInv
  <2> QED BY <2>1, PairsAreCounted, InitHolds, Zenon
<1>2. IInv /\ LeftInv /\ [Next]_vars => IInv' /\ LeftInv'
  <2>1. IInv /\ [Next]_vars => IInv'
    BY PairsAreCounted, PipesAreNumbered, StreamStepsHold, NextStep, ZenonT(30)
  <2> QED BY <2>1, LeftStep, Zenon
<1> QED BY <1>1, <1>2, PTL DEF Spec

\* However often the options of init.rc rebind the handles of a service, the
\* streams count the writers and know the reader they have.
THEOREM BindingsAreCounted == Spec => []BindingsCounted
<1>1. IInv => BindingsCounted
  BY BindingsCountedHolds, Zenon DEF IInv
<1> QED BY <1>1, Inductive, PTL

\* init's view of its services is right: it leaves no running process behind,
\* and an exited one only when it exits between try_wait_pid and kill, knows the
\* phase of every daemon, and starts nothing before what it depends on.
THEOREM ServicesAreTracked == Spec => []ServicesTracked
<1>1. IInv /\ LeftInv => ServicesTracked
  BY Tracked, Zenon
<1> QED BY <1>1, Inductive, PTL

\* The streams between services work: a reader reaches its end of file when its
\* writers are over, both ends are of one pipe, and init keeps a log pipe for as
\* long as its service may be started again.
THEOREM StreamsDoWork == Spec => []StreamsWork
<1>1. IInv => StreamsWork
  BY PairsAreCounted, Works, Zenon
<1> QED BY <1>1, Inductive, PTL
=============================================================================
