-------------------------------- MODULE Tcp ---------------------------------
(***************************************************************************)
(* A TCP connection between two hosts running kernel/net/tcp.c, over a     *)
(* network that loses, duplicates and reorders segments.                   *)
(*                                                                         *)
(* Each host has one block of tcp_conns for the connection.  What the      *)
(* programs do is a plan: which hosts connect and which listen, the calls  *)
(* each makes once connected and the bytes it writes, and the most         *)
(* segments in flight.                                                     *)
(* Sequence numbers are modulo M and start below the wrap.  A byte is its  *)
(* number in the stream of its sender.  Timers only say whether they run,  *)
(* since retransmission timeouts have no fixed relation to delivery times; *)
(* the round-trip estimate, which only sets their length, is left out.     *)
(***************************************************************************)
EXTENDS Integers, Sequences, FiniteSets

CONSTANTS M,                \* 2^32
          Buf,              \* TCP_BUFFER_SIZE
          MSS,
          SynRetries, DataRetries,
          Plans

Host == {"A", "B"}
Call == {"read", "write", "shut read", "shut write", "close"}

ASSUME TcpAssumption ==
  /\ \A n \in {M, Buf, MSS} : n \in Nat \ {0}
  /\ SynRetries \in Nat /\ DataRetries \in Nat
  /\ \A p \in Plans :
       /\ p.client \subseteq Host /\ p.server \subseteq Host
       /\ p.does \in [Host -> SUBSET Call] /\ p.inflight \in Nat \ {0}
       /\ \A h \in Host : p.bytes[h] \in Nat /\ p.bytes[h] + Buf + 2 < M \div 2

Peer(h) == IF h = "A" THEN "B" ELSE "A"
Iss(h) == IF h = "A" THEN M - 2 ELSE M - 3

Add(a, n) == (a + n) % M
Diff(a, b) == (a - b) % M
seq_lt(a, b) == Diff(a, b) >= M \div 2
seq_le(a, b) == a = b \/ seq_lt(a, b)
MinOf(a, b) == IF a < b THEN a ELSE b

VARIABLES plan,     \* the plan the programs follow
          conn,     \* the block of each host
          listens,  \* hosts whose listener is open
          handle,   \* what the program holds: "none", "open" or "closed"
          net,      \* segments in flight
          wrote,    \* bytes the program has written
          got,      \* bytes the program has read
          ended     \* how its stream ended: "no", "eof" or "error"

Does(h) == plan.does[h]

vars == <<plan, conn, listens, handle, net, wrote, got, ended>>

NoConn == [used |-> FALSE, state |-> "CLOSED", flags |-> {}, retries |-> 0, error |-> FALSE,
           una |-> 0, nxt |-> 0, max |-> 0, wnd |-> 0, wl1 |-> 0, wl2 |-> 0,
           rnxt |-> 0, radv |-> 0, tx |-> <<>>, rx |-> <<>>, timer |-> FALSE, life |-> FALSE]

Fresh(h) == [NoConn EXCEPT !.used = TRUE, !.una = Iss(h), !.nxt = Iss(h), !.max = Iss(h)]

DataStates == {"ESTABLISHED", "FIN_WAIT_1", "CLOSE_WAIT", "CLOSING", "LAST_ACK"}
Opening == {"SYN_SENT", "SYN_RECEIVED"}

\* A call works on s: the block s.c of host s.h and the segments it sends.
On(h, c) == [h |-> h, c |-> c, out |-> {}]
Set(s, c) == [s EXCEPT !.c = c]
Flag(s, f) == [s EXCEPT !.c.flags = @ \cup {f}]

Segment(h, seq, ack, flags, wnd, data) ==
  [dst |-> Peer(h), seq |-> seq, ack |-> ack, flags |-> flags, wnd |-> wnd, data |-> data]

-----------------------------------------------------------------------------
(* Sending. *)

\* Mutant: a step too small to announce closes the window instead.
tcp_window_peek_Silly(c) ==
  LET offered == IF seq_lt(c.rnxt, c.radv) THEN Diff(c.radv, c.rnxt) ELSE 0
      room == Buf - Len(c.rx)
  IN  IF room > offered /\ room - offered >= MinOf(MSS, Buf \div 2) THEN room ELSE 0

\* The offered window, grown only in steps worth a segment.
tcp_window_peek(c) ==
  LET offered == IF seq_lt(c.rnxt, c.radv) THEN Diff(c.radv, c.rnxt) ELSE 0
      room == Buf - Len(c.rx)
  IN  IF room > offered /\ room - offered >= MinOf(MSS, Buf \div 2) THEN room ELSE offered

tcp_emit(s, seq, flags, data) ==
  LET w == tcp_window_peek(s.c)
      c == [s.c EXCEPT !.radv = Add(s.c.rnxt, w),
                       !.flags = IF "ACK" \in flags THEN @ \ {"ACK_NOW"} ELSE @]
  IN  [s EXCEPT !.c = c,
                !.out = @ \cup {Segment(s.h, seq, IF "ACK" \in flags THEN c.rnxt ELSE 0,
                                        flags, w, data)}]

\* snd_nxt moves by n, snd_max with it.
Sent(s, n) ==
  LET nxt == Add(s.c.nxt, n)
  IN  [s EXCEPT !.c.nxt = nxt, !.c.max = IF seq_lt(@, nxt) THEN nxt ELSE @]

tcp_send_syn(s) ==
  LET e == tcp_emit(s, Iss(s.h), {"SYN"} \cup (IF s.c.state = "SYN_RECEIVED" THEN {"ACK"} ELSE {}), <<>>)
  IN  Sent([e EXCEPT !.c.nxt = Iss(s.h), !.c.timer = TRUE], 1)

tcp_finish(s) ==
  IF s.c.flags \cap {"ORPHAN", "EMBRYO"} # {} THEN Set(s, NoConn)
  ELSE Set(s, [s.c EXCEPT !.state = "CLOSED", !.timer = FALSE, !.life = FALSE])

tcp_fail(s, error) == tcp_finish([s EXCEPT !.c.error = error, !.c.rx = <<>>, !.c.tx = <<>>])

tcp_abort(s, error) ==
  tcp_fail(IF s.c.state \in {"SYN_SENT", "CLOSED"} THEN s
           ELSE [s EXCEPT !.out = @ \cup {Segment(s.h, s.c.nxt, s.c.rnxt, {"RST", "ACK"}, 0, <<>>)}],
           error)

tcp_enter_time_wait(s) == [s EXCEPT !.c.state = "TIME_WAIT", !.c.timer = FALSE, !.c.life = TRUE]

\* One turn of the loop of tcp_output(): the next segment the window allows,
\* cut at the end of the ring, unless it is a fragment worth waiting for.
SendNext(s) ==
  LET c == s.c
      flight == Diff(c.nxt, c.una)
      unsent == Len(c.tx) - flight
      want == MinOf(MinOf(unsent, c.wnd - flight), MSS)
      offset == (Head(c.tx) - 1 + flight) % Buf
      n == MinOf(want, Buf - offset)
  IN  IF flight >= Len(c.tx) \/ c.wnd <= flight \/ (want < unsent /\ want < MSS /\ flight > 0)
      THEN s
      ELSE Sent(tcp_emit(s, c.nxt, {"ACK"}, SubSeq(c.tx, flight + 1, flight + n)), n)

\* Data beyond a window that has closed is sent again later.
PullBack(s) == IF s.c.wnd = 0 /\ s.c.tx # <<>> THEN [s EXCEPT !.c.nxt = s.c.una] ELSE s

\* The FIN follows the queued data.
SendFin(s) ==
  IF "FIN_PENDING" \in s.c.flags /\ s.c.nxt = Add(s.c.una, Len(s.c.tx))
  THEN [Sent(tcp_emit(s, s.c.nxt, {"FIN", "ACK"}, <<>>), 1)
          EXCEPT !.c.state = IF @ = "ESTABLISHED" THEN "FIN_WAIT_1"
                             ELSE IF @ = "CLOSE_WAIT" THEN "LAST_ACK" ELSE @]
  ELSE s

SendAck(s) == IF "ACK_NOW" \in s.c.flags THEN tcp_emit(s, s.c.nxt, {"ACK"}, <<>>) ELSE s

\* Mutant: the timer covers unacknowledged data only, not a closed window.
ArmTimer_NoPersist(s) == [s EXCEPT !.c.timer = s.c.una # s.c.nxt]

ArmTimer(s) == [s EXCEPT !.c.timer = s.c.una # s.c.nxt \/ (s.c.tx # <<>> /\ s.c.wnd = 0)]

tcp_output(s) ==
  LET sending[n \in 0 .. Buf] == IF n = 0 THEN PullBack(s) ELSE SendNext(sending[n - 1])
  IN  CASE s.c.state = "SYN_RECEIVED" ->
             IF "ACK_NOW" \in s.c.flags THEN tcp_send_syn(s) ELSE s
        [] s.c.state \in {"FIN_WAIT_2", "TIME_WAIT"} -> SendAck(s)
        [] s.c.state \in DataStates -> ArmTimer(SendAck(SendFin(sending[Buf])))
        [] OTHER -> s

\* Mutant: the probe of a closed window is in sequence, which the peer need not answer.
tcp_timeout_InSequence(s) ==
  LET c == s.c
      again == [s EXCEPT !.c.retries = @ + 1]
  IN  CASE c.state \in Opening ->
             IF c.retries >= SynRetries THEN tcp_fail(again, TRUE) ELSE tcp_send_syn(again)
        [] c.state \in DataStates /\ c.wnd = 0 /\ c.tx # <<>> ->
             tcp_emit(s, c.una, {"ACK"}, <<>>)
        [] c.state \in DataStates /\ ~(c.wnd = 0 /\ c.tx # <<>>) /\ c.una # c.nxt ->
             IF c.retries >= DataRetries THEN tcp_abort(again, TRUE)
             ELSE tcp_output([again EXCEPT !.c.nxt = c.una])
        [] OTHER -> [s EXCEPT !.c.timer = FALSE]

tcp_timeout(s) ==
  LET c == s.c
      again == [s EXCEPT !.c.retries = @ + 1]
  IN  CASE c.state \in Opening ->
             IF c.retries >= SynRetries THEN tcp_fail(again, TRUE) ELSE tcp_send_syn(again)
        [] c.state \in DataStates /\ c.wnd = 0 /\ c.tx # <<>> ->
             tcp_emit(s, Add(c.una, -1), {"ACK"}, <<>>)
        [] c.state \in DataStates /\ ~(c.wnd = 0 /\ c.tx # <<>>) /\ c.una # c.nxt ->
             IF c.retries >= DataRetries THEN tcp_abort(again, TRUE)
             ELSE tcp_output([again EXCEPT !.c.nxt = c.una])
        [] OTHER -> [s EXCEPT !.c.timer = FALSE]

-----------------------------------------------------------------------------
(* Receiving. *)

SegLen(g) == Len(g.data) + Cardinality(g.flags \cap {"SYN", "FIN"})

tcp_reply_reset(s, g) ==
  [s EXCEPT !.out = @ \cup
     {IF "ACK" \in g.flags THEN Segment(s.h, g.ack, 0, {"RST"}, 0, <<>>)
      ELSE Segment(s.h, 0, Add(g.seq, SegLen(g)), {"RST", "ACK"}, 0, <<>>)}]

tcp_ack_advance(s, ack) ==
  LET fin == "FIN_PENDING" \in s.c.flags /\ seq_lt(Add(s.c.una, Len(s.c.tx)), ack)
      acked == MinOf(Diff(ack, s.c.una) - (IF fin THEN 1 ELSE 0), Len(s.c.tx))
      nxt == IF seq_lt(s.c.nxt, ack) THEN ack ELSE s.c.nxt
      a == [s EXCEPT !.c.tx = SubSeq(@, acked + 1, Len(@)), !.c.una = ack, !.c.nxt = nxt,
                     !.c.retries = 0, !.c.timer = nxt # ack]
  IN  CASE fin /\ s.c.state = "FIN_WAIT_1" -> [a EXCEPT !.c.state = "FIN_WAIT_2"]
        [] fin /\ s.c.state = "CLOSING" -> tcp_enter_time_wait(a)
        [] fin /\ s.c.state = "LAST_ACK" -> tcp_finish(a)
        [] OTHER -> a

tcp_in_window(c, window, seq) == seq_le(c.rnxt, seq) /\ seq_lt(seq, Add(c.rnxt, window))

\* A SYN tells the window and where the peer's stream starts.
Synchronise(c, g) ==
  [c EXCEPT !.rnxt = Add(g.seq, 1), !.radv = Add(g.seq, 1), !.wnd = g.wnd, !.wl1 = g.seq]

tcp_syn_sent_input(s, g) ==
  LET ack_ok == "ACK" \in g.flags /\ seq_lt(Iss(s.h), g.ack) /\ seq_le(g.ack, s.c.nxt)
      c == [Synchronise(s.c, g) EXCEPT !.wl2 = g.ack, !.flags = @ \cup {"ACK_NOW"}]
  IN  CASE "ACK" \in g.flags /\ ~ack_ok ->
             IF "RST" \in g.flags THEN s ELSE tcp_reply_reset(s, g)
        [] ("ACK" \in g.flags => ack_ok) /\ "RST" \in g.flags ->
             IF ack_ok THEN tcp_fail(s, TRUE) ELSE s
        [] ("ACK" \in g.flags => ack_ok) /\ "RST" \notin g.flags /\ "SYN" \notin g.flags -> s
        [] OTHER ->
             Set(s, IF ack_ok THEN [c EXCEPT !.una = g.ack, !.retries = 0, !.timer = FALSE,
                                             !.state = "ESTABLISHED"]
                    ELSE [c EXCEPT !.state = "SYN_RECEIVED"])

\* Mutant: a reset in TIME_WAIT ends the connection, if without an error.
tcp_reset_input_TimeWait(s, g) ==
  IF g.seq # s.c.rnxt THEN Flag(s, "ACK_NOW") ELSE tcp_fail(s, s.c.state # "TIME_WAIT")

tcp_reset_input(s, g) ==
  CASE s.c.state = "TIME_WAIT" -> s
    [] s.c.state # "TIME_WAIT" /\ g.seq # s.c.rnxt -> Flag(s, "ACK_NOW")
    [] s.c.state \in {"CLOSING", "LAST_ACK"} /\ g.seq = s.c.rnxt -> tcp_finish(s)
    [] OTHER -> tcp_fail(s, TRUE)

\* Mutant: data past a gap is taken as if it were the next.
IsNext_Any(c, seq) == TRUE

\* There is no reassembly: only the next byte is taken.
IsNext(c, seq) == seq = c.rnxt

tcp_text_input(s, g) ==
  LET c == s.c
      takes == c.state \in {"ESTABLISHED", "FIN_WAIT_1", "FIN_WAIT_2"}
      skip == IF seq_lt(g.seq, c.rnxt) THEN MinOf(Diff(c.rnxt, g.seq), Len(g.data)) ELSE 0
      data == SubSeq(g.data, skip + 1, Len(g.data))
      seq == Add(g.seq, skip)
      fresh == data # <<>> /\ takes /\ IsNext(c, seq)
      dropped == fresh /\ "ORPHAN" \notin c.flags /\ "READ_SHUT" \in c.flags
      take == MinOf(Len(data), Buf - Len(c.rx))
      a == IF data = <<>> THEN s ELSE Flag(s, "ACK_NOW")
      b == CASE fresh /\ dropped -> [a EXCEPT !.c.rnxt = Add(@, Len(data))]
             [] fresh /\ ~dropped -> [a EXCEPT !.c.rnxt = Add(@, take),
                                              !.c.rx = @ \o SubSeq(data, 1, take)]
             [] OTHER -> a
      fin == "FIN" \in g.flags /\ takes /\ Add(seq, Len(data)) = b.c.rnxt
      f == [b EXCEPT !.c.rnxt = Add(@, 1), !.c.flags = @ \cup {"PEER_FIN", "ACK_NOW"}]
  IN  CASE fresh /\ "ORPHAN" \in c.flags -> tcp_abort(s, TRUE)
        [] ~(fresh /\ "ORPHAN" \in c.flags) /\ ~fin -> b
        [] OTHER -> CASE c.state = "ESTABLISHED" -> [f EXCEPT !.c.state = "CLOSE_WAIT"]
                      [] c.state = "FIN_WAIT_1" -> [f EXCEPT !.c.state = "CLOSING"]
                      [] OTHER -> tcp_enter_time_wait(f)

\* The window is taken from the newest segment only.
TakeWindow(s, g) ==
  LET newer == seq_le(s.c.una, g.ack)
               /\ (seq_lt(s.c.wl1, g.seq) \/ (s.c.wl1 = g.seq /\ seq_le(s.c.wl2, g.ack)))
      c == IF newer THEN [s.c EXCEPT !.wnd = g.wnd, !.wl1 = g.seq, !.wl2 = g.ack] ELSE s.c
  IN  Set(s, IF g.wnd = 0 THEN [c EXCEPT !.retries = 0] ELSE c)

\* The acknowledgement of an acceptable segment, then its text.
AckInput(s, g) ==
  LET c == s.c
      opened == [c EXCEPT !.una = g.ack, !.wnd = g.wnd, !.wl1 = g.seq, !.wl2 = g.ack,
                          !.retries = 0, !.timer = FALSE, !.state = "ESTABLISHED"]
      a == IF seq_lt(c.una, g.ack) THEN tcp_ack_advance(s, g.ack) ELSE s
  IN  CASE c.state = "SYN_RECEIVED" ->
             IF seq_lt(c.una, g.ack) /\ seq_le(g.ack, c.nxt)
             THEN tcp_text_input(Set(s, opened), g) ELSE tcp_reply_reset(s, g)
        [] c.state # "SYN_RECEIVED" /\ seq_lt(c.max, g.ack) -> Flag(s, "ACK_NOW")
        [] OTHER -> IF ~a.c.used \/ a.c.state = "CLOSED" THEN a
                    ELSE tcp_text_input(TakeWindow(a, g), g)

Acceptable(c, g) ==
  LET window == Buf - Len(c.rx)
      n == SegLen(g)
  IN  CASE window = 0 -> g.data = <<>> /\ g.seq = c.rnxt
        [] window > 0 /\ n = 0 -> tcp_in_window(c, window, g.seq)
        [] OTHER -> tcp_in_window(c, window, g.seq) \/ tcp_in_window(c, window, Add(g.seq, n - 1))

tcp_segment_input(s, g) ==
  CASE s.c.state = "SYN_SENT" -> tcp_syn_sent_input(s, g)
    [] s.c.state # "SYN_SENT" /\ ~Acceptable(s.c, g) ->
         LET a == IF "RST" \in g.flags THEN s ELSE Flag(s, "ACK_NOW")
         IN  IF s.c.state = "TIME_WAIT" /\ "FIN" \in g.flags
             THEN [a EXCEPT !.c.life = TRUE] ELSE a
    [] OTHER -> CASE "RST" \in g.flags -> tcp_reset_input(s, g)
                  [] "RST" \notin g.flags /\ "SYN" \in g.flags -> Flag(s, "ACK_NOW")
                  [] g.flags \cap {"RST", "SYN", "ACK"} = {"ACK"} -> AckInput(s, g)
                  [] OTHER -> s

tcp_listen_input(s, g) ==
  CASE "RST" \in g.flags -> s
    [] "RST" \notin g.flags /\ "ACK" \in g.flags -> tcp_reply_reset(s, g)
    [] g.flags \cap {"RST", "ACK", "SYN"} = {"SYN"} /\ ~s.c.used ->
         tcp_send_syn(Set(s, [Synchronise(Fresh(s.h), g) EXCEPT !.state = "SYN_RECEIVED",
                                                               !.flags = {"EMBRYO"}]))
    [] OTHER -> s

-----------------------------------------------------------------------------
(* The steps of a host. *)

\* The block of h and the segments that the network does not lose at once:
\* it holds so many and drops the others.
Apply(result, left) ==
  \E s \in {result} :
  /\ conn' = [conn EXCEPT ![s.h] = s.c]
  /\ \E kept \in SUBSET s.out :
       /\ net' = left \cup kept
       /\ kept = s.out \/ Cardinality(net') = plan.inflight
       /\ Cardinality(net') <= plan.inflight

Found(c) == c.used /\ c.state # "CLOSED"

tcp_input(h, g) ==
  LET c == conn[h]
      reuse == c.state = "TIME_WAIT" /\ g.flags \cap {"SYN", "ACK"} = {"SYN"} /\ seq_lt(c.rnxt, g.seq)
      s == IF reuse THEN tcp_finish(On(h, c)) ELSE On(h, c)
      r == tcp_segment_input(s, g)
  IN  CASE Found(s.c) -> IF r.c.used THEN tcp_output(r) ELSE r
        [] ~Found(s.c) /\ h \in listens -> tcp_listen_input(s, g)
        [] OTHER -> IF "RST" \in g.flags THEN s ELSE tcp_reply_reset(s, g)

\* A segment arrives.  An embryo is spawned once: a second one would find
\* the table full.
Arrive(g, left) ==
  \E r \in {tcp_input(g.dst, g)} :
    LET full == r.c.used /\ ~conn[g.dst].used /\ handle[g.dst] # "none"
    IN  /\ IF full THEN net' = left /\ UNCHANGED <<conn, handle>>
           ELSE /\ Apply(r, left)
                /\ handle' = [handle EXCEPT ![g.dst] =
                                IF @ = "none" /\ r.c.used THEN "embryo" ELSE @]
        /\ UNCHANGED <<listens, wrote, got, ended>>

Deliver == \E g \in net : Arrive(g, net \ {g})

\* The network delivers a segment it will deliver again.
Duplicate == \E g \in net : Arrive(g, net)

Lose == \E g \in net : net' = net \ {g} /\ UNCHANGED <<conn, listens, handle, wrote, got, ended>>

\* Mutant: the deadline of a connection that only the peer has to close starts again.
LifeOver_Restarted(h) ==
  /\ conn[h].used /\ conn[h].life
  /\ Apply(IF conn[h].state = "FIN_WAIT_2" THEN On(h, conn[h]) ELSE tcp_finish(On(h, conn[h])), net)
  /\ UNCHANGED <<listens, handle, wrote, got, ended>>

\* tcp_tick() when one of the two deadlines of the block has passed.
LifeOver(h) ==
  /\ conn[h].used /\ conn[h].life
  /\ Apply(tcp_finish(On(h, conn[h])), net)
  /\ UNCHANGED <<listens, handle, wrote, got, ended>>

TimerOver(h) ==
  /\ conn[h].used /\ conn[h].timer
  /\ Apply(tcp_timeout(On(h, conn[h])), net)
  /\ UNCHANGED <<listens, handle, wrote, got, ended>>

tcp_listen(h) ==
  /\ h \in plan.server \ listens /\ handle[h] = "none"
  /\ listens' = listens \cup {h}
  /\ UNCHANGED <<conn, handle, net, wrote, got, ended>>

\* The SYN goes out, or the link is down and the block is left closed.
tcp_connect(h) ==
  /\ h \in plan.client /\ handle[h] = "none"
  /\ handle' = [handle EXCEPT ![h] = "open"]
  /\ \E r \in {tcp_send_syn(On(h, [Fresh(h) EXCEPT !.state = "SYN_SENT"]))} :
       \/ Apply(r, net)
       \/ Apply([r EXCEPT !.out = {}, !.c.state = "CLOSED", !.c.timer = FALSE], net)
  /\ UNCHANGED <<listens, wrote, got, ended>>

tcp_accept(h) ==
  /\ h \in listens /\ "EMBRYO" \in conn[h].flags
  /\ conn[h].state \in {"ESTABLISHED", "CLOSE_WAIT"}
  /\ conn' = [conn EXCEPT ![h].flags = @ \ {"EMBRYO"}]
  /\ handle' = [handle EXCEPT ![h] = "open"]
  /\ UNCHANGED <<listens, net, wrote, got, ended>>

\* tcp_read(), tcp_write() and tcp_connect_status() report an error once.
TakeError(h) ==
  /\ handle[h] = "open" /\ conn[h].state \notin Opening /\ conn[h].error
  /\ conn' = [conn EXCEPT ![h].error = FALSE]
  /\ ended' = [ended EXCEPT ![h] = IF @ = "no" THEN "error" ELSE @]
  /\ UNCHANGED <<listens, handle, net, wrote, got>>

ReadEnd(h) ==
  LET c == conn[h]
  IN  /\ "read" \in Does(h)
      /\ handle[h] = "open" /\ c.state \notin Opening /\ ~c.error /\ c.rx = <<>>
      /\ c.flags \cap {"PEER_FIN", "READ_SHUT"} # {} \/ c.state = "CLOSED"
      /\ ended' = [ended EXCEPT ![h] = IF @ # "no" THEN @
                                      ELSE IF "READ_SHUT" \in c.flags THEN "shut" ELSE "eof"]
      /\ UNCHANGED <<conn, listens, handle, net, wrote, got>>

tcp_read(h) ==
  LET c == conn[h]
      offered == IF seq_lt(c.rnxt, c.radv) THEN Diff(c.radv, c.rnxt) ELSE 0
  IN  /\ "read" \in Does(h)
      /\ handle[h] = "open" /\ c.state \notin Opening /\ ~c.error
      /\ \E n \in 1 .. Len(c.rx) : \E s \in {On(h, [c EXCEPT !.rx = SubSeq(@, n + 1, Len(@))])} :
           /\ Apply(IF tcp_window_peek(s.c) > offered THEN tcp_output(Flag(s, "ACK_NOW")) ELSE s, net)
           /\ got' = [got EXCEPT ![h] = @ \o SubSeq(c.rx, 1, n)]
      /\ UNCHANGED <<listens, handle, wrote, ended>>

Space(c) == Buf - Len(c.tx)

tcp_write(h) ==
  LET c == conn[h]
  IN  /\ "write" \in Does(h)
      /\ handle[h] = "open" /\ ~c.error
      /\ "FIN_PENDING" \notin c.flags /\ c.state \in {"ESTABLISHED", "CLOSE_WAIT"}
      /\ \E n \in 1 .. MinOf(Space(c), plan.bytes[h] - wrote[h]) :
           /\ Apply(tcp_output(On(h, [c EXCEPT !.tx = @ \o [i \in 1 .. n |-> wrote[h] + i]])), net)
           /\ wrote' = [wrote EXCEPT ![h] = @ + n]
      /\ UNCHANGED <<listens, handle, got, ended>>

tcp_shutdown(h) ==
  LET c == conn[h]
  IN  /\ handle[h] = "open" /\ c.state \notin Opening \cup {"CLOSED"}
      /\ \E how \in SUBSET ({"shut read", "shut write"} \cap Does(h)) \ {{}} :
           \E r \in {IF "shut read" \in how THEN [c EXCEPT !.flags = @ \cup {"READ_SHUT"}, !.rx = <<>>] ELSE c} :
             Apply(IF "shut write" \in how THEN tcp_output(Flag(On(h, r), "FIN_PENDING")) ELSE On(h, r), net)
      /\ UNCHANGED <<listens, handle, wrote, got, ended>>

\* Mutant: an orphan gets no deadline.
Orphaned_NoDeadline(s) ==
  tcp_output([s EXCEPT !.c.rx = <<>>, !.c.flags = @ \cup {"FIN_PENDING"}])

\* The connection goes on without its program, for a limited time.
Orphaned(s) ==
  tcp_output([s EXCEPT !.c.rx = <<>>, !.c.flags = @ \cup {"FIN_PENDING"}, !.c.life = TRUE])

tcp_close(h) ==
  LET s == Flag(On(h, conn[h]), "ORPHAN")
  IN  /\ "close" \in Does(h) /\ handle[h] = "open"
      /\ handle' = [handle EXCEPT ![h] = "closed"]
      /\ CASE s.c.state \in {"CLOSED", "SYN_SENT"} -> Apply(Set(s, NoConn), net)
           [] s.c.state = "SYN_RECEIVED"
              \/ (s.c.state \in {"ESTABLISHED", "CLOSE_WAIT"} /\ s.c.rx # <<>>) ->
                Apply(tcp_abort(s, FALSE), net)
           [] OTHER -> Apply(Orphaned(s), net)
      /\ UNCHANGED <<listens, wrote, got, ended>>

\* tcp_close() of a listener resets the connection nobody has accepted.  It
\* is taken before tcp_accept() only; later it leaves the connection alone.
CloseListener(h) ==
  /\ h \in listens /\ "close" \in Does(h) /\ handle[h] \in {"none", "embryo"}
  /\ listens' = listens \ {h}
  /\ IF "EMBRYO" \in conn[h].flags THEN Apply(tcp_abort(On(h, conn[h]), FALSE), net)
     ELSE UNCHANGED <<conn, net>>
  /\ handle' = [handle EXCEPT ![h] = "closed"]
  /\ UNCHANGED <<wrote, got, ended>>

Init ==
  /\ plan \in Plans
  /\ conn = [h \in Host |-> NoConn]
  /\ listens = {}
  /\ handle = [h \in Host |-> "none"]
  /\ net = {}
  /\ wrote = [h \in Host |-> 0]
  /\ got = [h \in Host |-> <<>>]
  /\ ended = [h \in Host |-> "no"]

OtherCall(h) ==
  \/ tcp_listen(h) \/ tcp_connect(h) \/ TakeError(h) \/ ReadEnd(h)
  \/ tcp_write(h) \/ tcp_shutdown(h) \/ tcp_close(h) \/ CloseListener(h)

Next ==
  /\ UNCHANGED plan
  /\ \/ Deliver \/ Duplicate \/ Lose
     \/ \E h \in Host : LifeOver(h) \/ TimerOver(h) \/ tcp_accept(h) \/ tcp_read(h) \/ OtherCall(h)

Spec == Init /\ [][Next]_vars

-----------------------------------------------------------------------------
(* Properties. *)

Synchronised == DataStates \cup {"FIN_WAIT_2", "TIME_WAIT"}
InOrder(bytes) == \A i \in DOMAIN bytes : bytes[i] = i

\* Every field stays within its range, the rings within TCP_BUFFER_SIZE.
TypeOK ==
  /\ \A h \in Host :
       LET c == conn[h]
       IN  /\ DOMAIN c = DOMAIN NoConn
           /\ {c.used, c.error, c.timer, c.life} \subseteq BOOLEAN
           /\ c.state \in Synchronised \cup Opening \cup {"CLOSED"}
           /\ c.flags \subseteq {"ORPHAN", "EMBRYO", "FIN_PENDING", "PEER_FIN", "READ_SHUT", "ACK_NOW"}
           /\ {c.una, c.nxt, c.max, c.wl1, c.wl2, c.rnxt, c.radv} \subseteq 0 .. M - 1
           /\ {c.wnd, Len(c.tx), Len(c.rx)} \subseteq 0 .. Buf
           /\ c.retries \in 0 .. SynRetries + DataRetries + 1
  /\ listens \subseteq plan.server /\ Cardinality(net) <= plan.inflight
  /\ handle \in [Host -> {"none", "embryo", "open", "closed"}]
  /\ ended \in [Host -> {"no", "eof", "shut", "error"}]

\* The stream arrives in order, without a gap or a repeated byte, whatever
\* the network does to the segments (tcp_text_input()).
StreamInOrder ==
  \A h \in Host :
    LET bytes == got[h] \o (IF "READ_SHUT" \in conn[h].flags THEN <<>> ELSE conn[h].rx)
    IN  InOrder(bytes) /\ Len(bytes) <= wrote[Peer(h)]

\* A program that reads end-of-file from a connection it got to use has read
\* all the peer wrote: the FIN follows the data, and a connection that broke
\* reports its error first (tcp_output(), tcp_fail(), tcp_read()).
EofIsComplete == \A h \in Host : ended[h] = "eof" => Len(got[h]) = wrote[Peer(h)]

\* A byte leaves the send ring only after the peer has taken it, and the peer
\* never expects more than was sent (tcp_ack_advance(), snd_max).
AckedIsReceived ==
  \A h \in Host :
    LET c == conn[h]
        p == conn[Peer(h)]
    IN  c.state \in Synchronised /\ p.state \in Synchronised =>
          /\ seq_le(c.una, p.rnxt) /\ seq_le(p.rnxt, c.max)
          /\ seq_le(c.una, c.nxt) /\ seq_le(c.nxt, c.max)

\* The window the peer was offered is backed by free space of the receive
\* ring, so data sent within it is never cut (tcp_window_peek()).
WindowBacked ==
  \A h \in Host :
    LET c == conn[h]
    IN  c.state \in Synchronised /\ seq_lt(c.rnxt, c.radv) =>
          Diff(c.radv, c.rnxt) <= Buf - Len(c.rx)

\* "Either something is unacknowledged or queued data waits for the peer to
\* open a zero window; in both cases a timer has to be running": in every
\* state a call leaves behind, what is left to send has a timer behind it.
TimerRuns ==
  \A h \in Host :
    LET c == conn[h]
    IN  /\ c.state \in Opening => c.timer
        /\ c.state \in DataStates /\ (c.tx # <<>> \/ c.una # c.nxt) => c.timer

\* Every block in use has an owner that will give it back: a program's handle,
\* a listener that can still accept it, or a running deadline.
BlockOwned ==
  \A h \in Host : conn[h].used =>
    \/ handle[h] = "open"
    \/ "EMBRYO" \in conn[h].flags /\ h \in listens /\ (conn[h].state = "SYN_RECEIVED" => conn[h].timer)
    \/ "ORPHAN" \in conn[h].flags /\ conn[h].life

\* The stream is intact: in order, complete at its end, and kept by its sender
\* until it has arrived; no other byte is acknowledged.
StreamIntact == StreamInOrder /\ EofIsComplete /\ AckedIsReceived

\* A block in use is well-formed and somebody will give it back.
BlocksSound == TypeOK /\ BlockOwned

\* An offered window is backed by room and, as "the right edge never moves left",
\* never taken back.
WindowKept ==
  [][/\ WindowBacked'
     /\ \A h \in Host : conn[h].state \in Synchronised /\ conn'[h].state \in Synchronised =>
                          seq_le(conn[h].radv, conn'[h].radv)]_vars

\* "A reset must not destroy the unread data of a connection that ended in
\* good order": only the program itself takes data out of TIME_WAIT.
GoodOrderKept ==
  [][\A h \in Host : conn[h].state = "TIME_WAIT" /\ handle'[h] = "open" =>
       /\ ~conn'[h].error
       /\ conn'[h].rx # conn[h].rx => got'[h] # got[h] \/ "READ_SHUT" \in conn'[h].flags]_vars
=============================================================================
