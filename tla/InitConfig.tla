----------------------------- MODULE InitConfig -----------------------------
(***************************************************************************)
(* How init (src/userspace/init/init.c) turns /etc/init.rc into its        *)
(* service table: the options of a service line bind standard input and    *)
(* outputs to channels, tees and logsinks, a later option replaces an      *)
(* earlier one, and the streams count their writers as they go.            *)
(*                                                                         *)
(* A line is a record of its type and its options, in order; an option is  *)
(* a record with a field opt.  Names and texts are abstracted: a service   *)
(* is known by its place in the table, a stream by a model value.  A       *)
(* timeout is there or not.                                                *)
(***************************************************************************)
EXTENDS Integers, Sequences, FiniteSets

CONSTANTS
  Configs,         \* the texts of /etc/init.rc: sequences of lines
  Builtin,         \* default_init_config
  Stream,          \* names of channels, tees and logsinks
  MaxServices,     \* INIT_MAX_SERVICES
  MaxStreams,      \* INIT_MAX_CHANNELS, _TEES and _LOGSINKS
  MaxSources,      \* INIT_MAX_SYSLOG_SOURCES
  DefaultRetries,  \* INIT_DEFAULT_RETRIES
  MaxRetries       \* INIT_MAX_RETRIES

Fd == {"in", "out", "err"}
Output == {"out", "err"}
Kind == {"channel", "tee", "logsink"}
NoStream == "none"

\* What the options of a line may say.
Mode == Kind \cup {"inherit", "null", "pipe", "capture", "syslog"}
Policy == {"always", "on-failure", "never"}
Option ==
  [opt : {"stdio"}, fd : Fd, mode : Kind, to : Stream] \cup
  [opt : {"stdio"}, fd : Fd, mode : Mode \ Kind, to : {NoStream}] \cup
  [opt : {"restart"}, policy : Policy] \cup
  [opt : {"retries"}, retries : Nat] \cup
  [opt : {"timeout"}, timeout : BOOLEAN] \cup
  [opt : {"server"}] \cup
  [opt : {"dep"}, on : Nat]
ServiceType == {"oneshot", "supervised", "daemon"}
LineText == [type : ServiceType, options : Seq(Option)]
Text == Seq(LineText)

ASSUME ConfigAssumption ==
  /\ Configs \subseteq Text /\ Builtin \in Text
  /\ MaxServices \in Nat /\ MaxStreams \in Nat /\ MaxSources \in Nat
  /\ DefaultRetries \in Nat /\ MaxRetries \in Nat

\* A service under construction; no service is 0, as index -1 in the code.
NewService(type) ==
  [type |-> type,
   policy |-> IF type = "oneshot" THEN "on-failure" ELSE "always",
   retries |-> DefaultRetries, timeout |-> type = "oneshot", deps |-> {},
   mode |-> [f \in Fd |-> "inherit"], to |-> [f \in Fd |-> NoStream],
   server |-> FALSE]

\* The table: the services read, the streams known, their readers and writers.
EmptyTable ==
  [svc |-> <<>>, known |-> [k \in Kind |-> {}],
   writers |-> [k \in Kind |-> [s \in Stream |-> 0]],
   reader |-> [s \in Stream |-> 0], sources |-> {}, server |-> 0]

VARIABLES
  lines,   \* what is left of the configuration
  line,    \* the service being read, or <<>>
  table,
  from     \* "file", "builtin", or "none" when there is no configuration

config == <<lines, line, table, from>>

\* /etc/init.rc can be read, or the built-in configuration stands in for it.
ConfigInit ==
  /\ \/ lines \in Configs /\ from = "file"
     \/ lines = Builtin /\ from = "builtin"
  /\ line = <<>>
  /\ table = EmptyTable

output_mode_uses_binding(mode) == mode \in Kind

\* The table without the reader reference of standard input.
clear_input_binding(t, v) ==
  IF v.mode["in"] = "channel"
    THEN [t EXCEPT !.reader[v.to["in"]] = 0]
    ELSE t

\* Mutant: an output that is bound again stays a writer of its old stream.
release_output_binding_None(t, v, f) == t

\* The table without the writer reference of output f.
release_output_binding(t, v, f) ==
  IF output_mode_uses_binding(v.mode[f])
    THEN [t EXCEPT !.writers[v.mode[f]][v.to[f]] =
            t.writers[v.mode[f]][v.to[f]] - 1]
    ELSE t

Released(t, v, f) ==
  IF f = "in" THEN clear_input_binding(t, v) ELSE release_output_binding(t, v, f)

\* The table with one more stream of kind k: find_or_add_channel, _tee, _logsink.
HasRoom(t, k, s) == s \in t.known[k] \/ Cardinality(t.known[k]) < MaxStreams
FindOrAdd(t, k, s) == [t EXCEPT !.known[k] = t.known[k] \cup {s}]

\* The table with handle f of service n bound to stream s.
add_output_binding_ref(t, k, s) == [t EXCEPT !.writers[k][s] = t.writers[k][s] + 1]
Bound(t, f, k, s, n) ==
  LET u == FindOrAdd(t, k, s) IN
  IF f # "in" THEN add_output_binding_ref(u, k, s)
  ELSE IF k = "channel" THEN [u EXCEPT !.reader[s] = n]
  ELSE u

This == Len(table.svc) + 1

\* An option that binds handle o.fd to a stream, or to none of them.
StdioFits(o) ==
  /\ o.mode \in Kind => HasRoom(table, o.mode, o.to)
  /\ o.fd = "in" => o.mode \notin {"logsink", "syslog"}
  /\ o.fd = "in" /\ o.mode = "channel" => table.reader[o.to] \in {0, This}

StdioTable(o) ==
  LET t == Released(table, line, o.fd) IN
  IF o.mode \in Kind THEN Bound(t, o.fd, o.mode, o.to, This) ELSE t

StdioLine(o) ==
  [line EXCEPT !.mode[o.fd] = o.mode,
               !.to[o.fd] = IF o.mode \in Kind THEN o.to ELSE NoStream]

\* An option parse_service_line takes; a dependency names an earlier service.
Takes(o) ==
  CASE o.opt = "stdio"   -> StdioFits(o)
    [] o.opt = "dep"     -> o.on \in DOMAIN table.svc
    [] o.opt = "retries" -> o.retries <= MaxRetries
    [] OTHER             -> TRUE

LineWith(o) ==
  CASE o.opt = "stdio"   -> StdioLine(o)
    [] o.opt = "restart" -> [line EXCEPT !.policy = o.policy]
    [] o.opt = "retries" -> [line EXCEPT !.retries = o.retries]
    [] o.opt = "timeout" -> [line EXCEPT !.timeout = o.timeout]
    [] o.opt = "server"  -> [line EXCEPT !.server = TRUE]
    [] o.opt = "dep"     -> [line EXCEPT !.deps = line.deps \cup {o.on}]

\* What parse_service_line refuses once it has read the options.
Bindings(v) == {v.mode[f] : f \in Output}
Consistent(v) ==
  /\ v.mode["in"] # "capture"
  /\ "pipe" \notin Bindings(v)
  /\ v.server => v.type = "daemon" /\ table.server = 0
                 /\ \A f \in Fd : v.mode[f] = "inherit"
  /\ v.type = "daemon" /\ v.policy # "never" /\ ~v.server =>
       v.mode["in"] \notin Kind /\ Bindings(v) \cap Kind = {}
  /\ "syslog" \in Bindings(v) => Cardinality(table.sources) < MaxSources

\* The log server's pipes are made for one instance of it.
Finished(v) == IF v.server THEN [v EXCEPT !.policy = "never"] ELSE v

validate_syslog_topology(t) ==
  t.sources # {} => t.server # 0 /\ \A i \in t.sources : i > t.server

-----------------------------------------------------------------------------
\* The configuration is refused: the built-in one is read instead, from an
\* empty table; when that one is refused init gives up.
Refuse ==
  /\ table' = EmptyTable
  /\ line' = <<>>
  /\ IF from = "file" THEN lines' = Builtin /\ from' = "builtin"
                      ELSE lines' = <<>> /\ from' = "none"

Reading == from # "none" /\ lines # <<>>

BeginLine ==
  /\ Reading /\ line = <<>>
  /\ IF Len(table.svc) < MaxServices
       THEN line' = NewService(Head(lines).type) /\ UNCHANGED <<lines, table, from>>
       ELSE Refuse

ReadOption ==
  /\ Reading /\ line # <<>> /\ Head(lines).options # <<>>
  /\ LET o == Head(Head(lines).options) IN
     IF Takes(o)
       THEN /\ line' = LineWith(o)
            /\ table' = IF o.opt = "stdio" THEN StdioTable(o) ELSE table
            /\ lines' = [lines EXCEPT ![1].options = Tail(Head(lines).options)]
            /\ UNCHANGED from
       ELSE Refuse

EndLine ==
  /\ Reading /\ line # <<>> /\ Head(lines).options = <<>>
  /\ LET v == Finished(line)
         t == [table EXCEPT
                 !.svc = Append(table.svc, v),
                 !.server = IF v.server THEN This ELSE table.server,
                 !.sources = IF "syslog" \in Bindings(v)
                               THEN table.sources \cup {This} ELSE table.sources]
     IN  IF Consistent(line) /\ (Len(lines) = 1 => validate_syslog_topology(t))
           THEN table' = t /\ line' = <<>> /\ lines' = Tail(lines) /\ UNCHANGED from
           ELSE Refuse

\* A configuration without a service is refused as well.
NoService == from # "none" /\ lines = <<>> /\ table.svc = <<>>

RefuseEmpty == NoService /\ Refuse

ReadConfig == BeginLine \/ ReadOption \/ EndLine \/ RefuseEmpty

-----------------------------------------------------------------------------
\* However often options rebind a handle, a stream has as many writers as
\* outputs are bound to it, and a channel has as its reader the service whose
\* input is bound to it, so that its write end is closed neither early nor
\* never for this reason.
BindingsCounted ==
  line = <<>> =>
    \A s \in Stream :
      /\ \A k \in Kind :
           table.writers[k][s] =
             Cardinality({b \in (DOMAIN table.svc) \X Output :
                            /\ table.svc[b[1]].mode[b[2]] = k
                            /\ table.svc[b[1]].to[b[2]] = s})
      /\ table.reader[s] =
           LET R == {i \in DOMAIN table.svc :
                       table.svc[i].mode["in"] = "channel" /\ table.svc[i].to["in"] = s}
           IN  IF R = {} THEN 0 ELSE CHOOSE i \in R : R = {i}
=============================================================================
