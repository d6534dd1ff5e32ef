------------------------------ MODULE TcpLive -------------------------------
(***************************************************************************)
(* The connection of Tcp over two networks.  The first is that of Tcp,     *)
(* which loses, duplicates and delays as it likes.  The second, in the     *)
(* plans that are fair, loses and duplicates a limited number of segments  *)
(* and delivers the others before a timer expires: RTO_MIN is 200 ms,      *)
(* longer than a segment is under way.  It delivers in rounds: segments of *)
(* one round arrive in any order, before those sent meanwhile, so that     *)
(* none is overtaken for ever.                                             *)
(***************************************************************************)
EXTENDS Tcp

CONSTANT MaxFaults

ASSUME FaultsAssumption == MaxFaults \in Nat

\* The plans of the run.  In the first and the last a client sends more than
\* a ring holds and closes; in the second a client shuts down and leaves what
\* the server sends unread; in the third both hosts open at once.
TcpPlans ==
  {[fair |-> FALSE, client |-> {"A"}, server |-> {"B"}, inflight |-> 2,
    does |-> [A |-> {"write", "close"}, B |-> {"read"}], bytes |-> [A |-> 3, B |-> 0]],
   [fair |-> FALSE, client |-> {"A"}, server |-> {"B"}, inflight |-> 2,
    does |-> [A |-> {"shut write"}, B |-> {"write", "close"}], bytes |-> [A |-> 0, B |-> 1]],
   [fair |-> FALSE, client |-> Host, server |-> {}, inflight |-> 2,
    does |-> [A |-> {"write"}, B |-> {"close"}], bytes |-> [A |-> 1, B |-> 0]],
   [fair |-> TRUE, client |-> {"A"}, server |-> {"B"}, inflight |-> 4,
    does |-> [A |-> {"write", "close"}, B |-> {"read"}], bytes |-> [A |-> 3, B |-> 0]]}

VARIABLES faults,   \* losses and duplicates so far
          round,    \* segments to arrive before the others
          last      \* what the last step was

live == <<vars, faults, round, last>>

Step(step) == last' = step /\ round' = round \cap net' /\ UNCHANGED faults

Fault ==
  /\ faults < MaxFaults
  /\ Lose \/ Duplicate
  /\ faults' = faults + 1 /\ last' = <<"fault">> /\ round' = round \cap net'

Arrival ==
  \E due \in {IF round = {} THEN net ELSE round} : \E g \in due :
    /\ Arrive(g, net \ {g})
    /\ round' = due \ {g} /\ last' = <<"arrival">> /\ UNCHANGED faults

Life(h) == net = {} /\ LifeOver(h) /\ Step(<<"life", h>>)
Timer(h) == net = {} /\ TimerOver(h) /\ Step(<<"timer", h>>)
Reading(h) == (tcp_accept(h) \/ tcp_read(h)) /\ Step(<<"read", h>>)
Calls == (\E h \in Host : OtherCall(h)) /\ Step(<<"call">>)

LiveInit == Init /\ faults = 0 /\ round = {} /\ last = <<"call">>
LiveNext ==
  \/ ~plan.fair /\ Next /\ UNCHANGED <<faults, round, last>>
  \/ /\ plan.fair /\ UNCHANGED plan
     /\ \/ Fault \/ Arrival \/ Calls
        \/ \E h \in Host : Life(h) \/ Timer(h) \/ Reading(h)

\* When Arrival, Life, Timer and Reading can be taken.
CanArrive == plan.fair /\ net # {}
CanExpire(h) == plan.fair /\ net = {} /\ conn[h].used /\ conn[h].life
CanTimeOut(h) == plan.fair /\ net = {} /\ conn[h].used /\ conn[h].timer
CanRead(h) ==
  /\ plan.fair
  /\ \/ /\ "EMBRYO" \in conn[h].flags /\ h \in listens
        /\ conn[h].state \in {"ESTABLISHED", "CLOSE_WAIT"}
     \/ "read" \in Does(h) /\ handle[h] = "open" /\ conn[h].rx # <<>> /\ ~conn[h].error

\* Weak fairness of these, in terms of the guards and of the variable that
\* names the step: net_poll() and tcp_tick() run from every timer interrupt
\* and look at every block, and the programs accept and read what arrives.
LiveSpec ==
  /\ LiveInit /\ [][LiveNext]_live
  /\ []<>(~CanArrive) \/ []<><<last' = <<"arrival">>>>_live
  /\ \A h \in Host :
       /\ []<>(~CanExpire(h)) \/ []<><<last' = <<"life", h>>>>_live
       /\ []<>(~CanTimeOut(h)) \/ []<><<last' = <<"timer", h>>>>_live
       /\ []<>(~CanRead(h)) \/ []<><<last' = <<"read", h>>>>_live

-----------------------------------------------------------------------------

\* Queued data is acknowledged or the connection fails: neither a lost
\* segment nor a lost window update leaves both ends waiting, because the
\* sender repeats the data or probes the closed window (tcp_timeout()).
DataDrains ==
  \A h \in Host :
    plan.fair /\ conn[h].state \in DataStates /\ conn[h].tx # <<>> ~> conn[h].tx = <<>>

\* An opening connection is established or given up (TCP_SYN_RETRIES).
OpeningEnds ==
  \A h \in Host : plan.fair /\ conn[h].state \in Opening ~> conn[h].state \notin Opening

\* A block whose program has closed it returns to the table.
OrphansGo == \A h \in Host : plan.fair /\ handle[h] = "closed" ~> ~conn[h].used

\* No connection stays for ever in the table without a program or a peer.
ConnectionsEnd == OpeningEnds /\ OrphansGo
=============================================================================
