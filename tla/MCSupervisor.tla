---------------------------- MODULE MCSupervisor ----------------------------
(***************************************************************************)
(* Configurations for Supervisor: a channel with its writers and reader in *)
(* several orders, daemons with a log server, collected output, lines that *)
(* are refused, and every way of two options on one line and one on the    *)
(* next to bind and rebind the handles.                                    *)
(***************************************************************************)
EXTENDS Supervisor

Line(type, options) == [type |-> type, options |-> options]
Stdio(fd, mode, to) == [opt |-> "stdio", fd |-> fd, mode |-> mode, to |-> to]
Restart(policy) == [opt |-> "restart", policy |-> policy]
Retries(n) == [opt |-> "retries", retries |-> n]
Timeout(set) == [opt |-> "timeout", timeout |-> set]
Dep(i) == [opt |-> "dep", on |-> i]
Server == [opt |-> "server"]

Writer(type, more) == Line(type, <<Stdio("out", "channel", "s")>> \o more)
Reader(type, more) == Line(type, <<Stdio("in", "channel", "s")>> \o more)
Never == Restart("never")

Channels ==
  { <<Writer("oneshot", <<>>),
      Writer("oneshot", <<Stdio("err", "channel", "s"), Dep(1), Never>>),
      Reader("oneshot", <<Never, Timeout(FALSE)>>)>>,
    <<Writer("oneshot", <<>>), Writer("oneshot", <<>>),
      Reader("oneshot", <<>>), Writer("daemon", <<Never>>)>>,
    <<Reader("daemon", <<Never>>),
      Writer("oneshot", <<Never>>),
      Writer("oneshot", <<Dep(2), Never>>)>>,
    <<Writer("daemon", <<Never>>),
      Reader("daemon", <<Dep(1), Never>>),
      Writer("oneshot", <<Retries(0)>>)>>,
    <<Reader("daemon", <<Never>>),
      Writer("daemon", <<Never>>),
      Writer("supervised", <<Dep(1)>>)>> }

Logged(type, more) == Line(type, <<Stdio("err", "syslog", "none")>> \o more)

Daemons ==
  { <<Line("daemon", <<Server>>),
      Logged("daemon", <<Restart("on-failure")>>),
      Logged("oneshot", <<Dep(2)>>)>>,
    <<Line("daemon", <<Server>>),
      Logged("daemon", <<>>),
      Logged("supervised", <<Restart("on-failure"), Dep(1)>>)>>,
    <<Line("daemon", <<>>),
      Line("oneshot", <<Stdio("out", "null", "none"), Retries(0)>>),
      Line("daemon", <<Restart("on-failure"), Retries(0), Dep(2)>>),
      Line("supervised", <<Dep(1)>>)>> }

Collected ==
  { <<Line("oneshot", <<Stdio("out", "tee", "t"), Stdio("err", "logsink", "s")>>),
      Line("oneshot", <<Stdio("in", "tee", "t"), Stdio("out", "logsink", "s"), Dep(1)>>)>>,
    <<Line("oneshot", <<Stdio("out", "capture", "none"), Retries(0)>>)>> }

Refused ==
  { <<Reader("oneshot", <<>>), Reader("oneshot", <<>>)>>,
    <<Logged("oneshot", <<>>)>>,
    <<Reader("daemon", <<>>)>>,
    <<Line("oneshot", <<Dep(1)>>)>>,
    <<Line("oneshot", <<Retries(MaxRetries + 1)>>)>>,
    <<>>,
    <<Line("oneshot", <<Stdio("out", "tee", "s"), Stdio("err", "tee", "t"),
                        Stdio("out", "tee", "u")>>)>>,
    [i \in 1 .. MaxServices + 1 |-> Line("oneshot", <<Never>>)] }

Binding ==
  {Stdio(f, m, s) : f \in Fd, m \in {"channel", "tee"}, s \in {"s", "t"}} \cup
  {Stdio(f, "null", "none") : f \in Fd}

Rebound ==
  {<<Line("oneshot", <<o, p, Never>>), Line("oneshot", <<q, Never>>)>> :
     o \in Binding, p \in Binding, q \in Binding}

MCConfigs == Channels \cup Daemons \cup Collected \cup Refused \cup Rebound
MCBuiltin == <<Line("daemon", <<Never>>)>>
=============================================================================
