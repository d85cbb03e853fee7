-------------------------------- MODULE Tcb --------------------------------
(***************************************************************************)
(* The transmission control block of chitcpd (struct tcp_data, tcp.h) and  *)
(* the functions of tcp.c that read and write it, as operators from one    *)
(* control block to the next.  A handler of tcp.c is a composition of      *)
(* these operators; module Tcp makes each handler one action.              *)
(*                                                                         *)
(* Beside the fields of the C struct a block carries                       *)
(*   state     the socket's tcp_state (chisocketentry_t)                   *)
(*   wrote     bytes the application has put into the send buffer,         *)
(*   taken     bytes TCP has read out of it: the buffer holds the rest     *)
(*   got       the bytes put into the receive buffer, in order; a byte is  *)
(*             named by its position in the peer's stream                  *)
(*   rd        how many of them the application has read                   *)
(*   eof       the receive buffer has been closed                          *)
(*   rem       bytes of a blocked SEND still to be written                 *)
(*   flags     the event flags, except net_recv (see Tcp)                  *)
(*   late      detached timer threads whose entry has left retrans_q       *)
(*   qlock     lock_retrans_q has been left locked by an early return      *)
(*   thr       what has become of the TCP thread                           *)
(*   out       segments handed to the network by the current handler       *)
(* Bytes, sequence numbers and windows are naturals: ISS is at most 254000 *)
(* and the streams are short, so no 32-bit field wraps.                    *)
(***************************************************************************)
EXTENDS Integers, Sequences, FiniteSets

CONSTANTS
  MSS,      (* TCP_MSS: the largest payload of a segment                   *)
  BufSize   (* TCP_BUFFER_SIZE: capacity of the send and receive buffers   *)

ASSUME TcbAssumption == MSS \in Nat \ {0} /\ BufSize \in Nat \ {0}

TcpState ==
  {"CLOSED", "LISTEN", "SYN_SENT", "SYN_RCVD", "ESTABLISHED", "FIN_WAIT_1",
   "FIN_WAIT_2", "CLOSE_WAIT", "CLOSING", "LAST_ACK"}

(* States in which handle_packet looks at the acknowledgement number.      *)
Synchronized ==
  {"ESTABLISHED", "FIN_WAIT_1", "FIN_WAIT_2", "CLOSE_WAIT", "CLOSING"}

(* States whose handler reacts to TIMEOUT; the others log and return.      *)
Retransmitting == Synchronized \cup {"SYN_SENT", "SYN_RCVD"}

Flag == {"APPLICATION_CLOSE", "APPLICATION_CONNECT", "APPLICATION_RECEIVE",
         "APPLICATION_SEND", "CLEANUP", "TIMEOUT"}

(* "run": in its event loop; "stuck": waiting for lock_retrans_q, which it *)
(* holds itself; "spin": in the endless loop of process_send_buffer;       *)
(* "crash": killed by a packet of negative length; "done": CLEANUP ran.    *)
Thread == {"run", "stuck", "spin", "crash", "done"}

(* A segment; off is the stream position of its first payload byte.        *)
Segment ==
  [seq : Nat, ack : Nat, hasack : BOOLEAN, syn : BOOLEAN, fin : BOOLEAN,
   wnd : Nat, off : Nat, len : Nat]

(* A member of the retransmission queue: its timer has expired or not.     *)
Member(G) == [seg : G, due : BOOLEAN]

(* Control blocks whose incoming segments are in In, the outgoing in Out.  *)
BlockOf(In, Out) ==
  [state : TcpState, thr : Thread, flags : SUBSET Flag,
   iss : Nat, una : Nat, nxt : Nat, wnd : Nat,
   irs : Nat, rnxt : Nat, rwnd : Nat,
   closing : BOOLEAN, finsent : BOOLEAN, eof : BOOLEAN,
   wrote : Nat, taken : Nat, rem : Nat, got : Seq(Nat), rd : Nat,
   rtq : Seq(Member(Out)), qlock : BOOLEAN, late : Nat,
   oop : Seq(In), pend : Seq(In), held : Seq(In), out : Seq(Out)]

Block == BlockOf(Segment, Segment)

Lesser(a, b) == IF a <= b THEN a ELSE b

(* The flag of a C boolean, as it counts in SEG_LEN.                       *)
One(b) == IF b THEN 1 ELSE 0

SegLen(g) == One(g.syn) + One(g.fin) + g.len

(* circular_buffer_available(recv) and circular_buffer_count(send)         *)
Available(s) == BufSize - (Len(s.got) - s.rd)
Unsent(s) == s.wrote - s.taken

Running(s) == s.thr = "run"

(* The elements of q at the positions I, in order.                         *)
Pick(q, I) ==
  [k \in 1 .. Cardinality(I) |->
     q[CHOOSE i \in I : Cardinality({j \in I : j <= i}) = k]]

(* tcp_data_init: called before a socket connects or is accepted.  The     *)
(* room of the receive buffer is 0 until the TCP thread has set it up.     *)
NewBlock(state, iss, room, flags) ==
  [state |-> state, thr |-> "run", flags |-> flags,
   iss |-> iss, una |-> iss, nxt |-> iss + 1, wnd |-> 1,
   irs |-> 0, rnxt |-> 0, rwnd |-> room,
   closing |-> FALSE, finsent |-> FALSE, eof |-> FALSE,
   wrote |-> 0, taken |-> 0, rem |-> 0, got |-> <<>>, rd |-> 0,
   rtq |-> <<>>, qlock |-> FALSE, late |-> 0,
   oop |-> <<>>, pend |-> <<>>, held |-> <<>>, out |-> <<>>]

(* chitcpd_update_tcp_state.  TIME_WAIT is always left for CLOSED in the   *)
(* same handler, so it never shows.                                        *)
SetState(s, st) ==
  IF ~Running(s) THEN s
  ELSE [s EXCEPT !.state = st,
                 !.flags = IF st = "CLOSED" THEN @ \cup {"CLEANUP"} ELSE @]
-----------------------------------------------------------------------------
(***************************************************************************)
(* Retransmission queue.                                                   *)
(***************************************************************************)

(* chitcpd_tcp_add_packet_to_retrans_q: blocks if the lock was left held.  *)
Enqueue(s, g) ==
  IF s.qlock THEN [s EXCEPT !.thr = "stuck"]
  ELSE [s EXCEPT !.rtq = Append(@, [seg |-> g, due |-> FALSE])]

(* process_q_after_ack: every wholly acknowledged packet leaves the queue; *)
(* its timer thread is signalled, and is late if it misses the signal.     *)
Acked(s) == {i \in DOMAIN s.rtq : s.rtq[i].seg.seq + SegLen(s.rtq[i].seg) <= s.una}

Untimed(s, I) == {i \in I : ~s.rtq[i].due}

ProcessQ(s) ==
  IF ~Running(s) THEN s
  ELSE IF s.qlock THEN [s EXCEPT !.thr = "stuck"]
  ELSE [s EXCEPT !.rtq = Pick(@, DOMAIN @ \ Acked(s)),
                 !.late = @ + Cardinality(Untimed(s, Acked(s)))]

Due(s) == {i \in DOMAIN s.rtq : s.rtq[i].due}

(* The lowest sequence number among the packets that timed out.  It is 0,  *)
(* which the code takes for "none", unless the first of the queue is due.  *)
LowestDue(s) ==
  IF 1 \notin Due(s) THEN 0
  ELSE CHOOSE n \in {s.rtq[i].seg.seq : i \in Due(s)} :
         \A i \in Due(s) : n <= s.rtq[i].seg.seq

Resent(s) == {i \in DOMAIN s.rtq : s.rtq[i].seg.seq <= LowestDue(s)}

(* Mutant: a packet is sent again but not put back.                        *)
RearmedNever(q) == <<>>

Rearmed(q) == [i \in DOMAIN q |-> [q[i] EXCEPT !.due = FALSE]]
Segments(q) == [i \in DOMAIN q |-> q[i].seg]

(* process_timeout: returns with lock_retrans_q locked when nothing is     *)
(* due; otherwise resends the packets up to the lowest one that is due and *)
(* puts them back at the end of the queue.                                 *)
ProcessTimeout(s) ==
  IF ~Running(s) THEN s
  ELSE IF s.qlock THEN [s EXCEPT !.thr = "stuck"]
  ELSE IF LowestDue(s) = 0 THEN [s EXCEPT !.qlock = TRUE]
  ELSE LET again == Pick(s.rtq, Resent(s))
       IN ProcessQ([s EXCEPT
            !.rtq  = Pick(@, DOMAIN @ \ Resent(s)) \o Rearmed(again),
            !.late = @ + Cardinality(Untimed(s, Resent(s))),
            !.out  = @ \o Segments(again)])
-----------------------------------------------------------------------------
(***************************************************************************)
(* Sending.                                                                *)
(***************************************************************************)

MakeSegment(s, off, len, fin, hasack, seq, syn) ==
  [seq |-> seq, ack |-> s.rnxt, hasack |-> hasack, syn |-> syn, fin |-> fin,
   wnd |-> s.rwnd, off |-> off, len |-> len]

(* chitcpd_tcp_send_packet.  SND_NXT counts payload only: neither the SYN  *)
(* (ISS + 1 from the start) nor the FIN moves it.                          *)
Send(s, g) ==
  IF ~Running(s) THEN s
  ELSE LET sent == [s EXCEPT !.out = Append(@, g)]
           kept == IF SegLen(g) > 0 THEN Enqueue(sent, g) ELSE sent
       IN IF Running(kept) THEN [kept EXCEPT !.nxt = @ + g.len] ELSE kept

SendAck(s) == Send(s, MakeSegment(s, 0, 0, FALSE, TRUE, s.nxt, FALSE))
SendSyn(s, hasack) == Send(s, MakeSegment(s, 0, 0, FALSE, hasack, s.iss, TRUE))

(* Mutant: the FIN takes the first unacknowledged sequence number.         *)
SendFinEarly(s) ==
  IF ~Running(s) \/ s.finsent THEN s
  ELSE LET sent == Send(s, MakeSegment(s, 0, 0, TRUE, TRUE, s.una, FALSE))
       IN IF Running(sent) THEN [sent EXCEPT !.finsent = TRUE] ELSE sent

(* A FIN, unless one was sent already.                                     *)
SendFin(s) ==
  IF ~Running(s) \/ s.finsent THEN s
  ELSE LET sent == Send(s, MakeSegment(s, 0, 0, TRUE, TRUE, s.nxt, FALSE))
       IN IF Running(sent) THEN [sent EXCEPT !.finsent = TRUE] ELSE sent

(* The packets process_send_buffer makes of n bytes, c at a time: one      *)
(* starts at every c-th byte.                                              *)
Chunks(s, n, c) ==
  Pick([o \in 1 .. n |->
          MakeSegment(s, s.taken + o, Lesser(c, n - o + 1), FALSE, TRUE,
                      s.nxt + o - 1, FALSE)],
       {o \in 1 .. n : (o - 1) % c = 0})

Fresh(gs) == [i \in DOMAIN gs |-> [seg |-> gs[i], due |-> FALSE]]

(* chitcpd_tcp_process_send_buffer: up to SND_WND bytes leave the buffer;  *)
(* the room left in the window is computed once, and bounds each packet    *)
(* instead of their sum.  With no room the loop sends empty packets for    *)
(* ever; with the window overrun the packet length is negative.            *)
ProcessSendBuffer(s) ==
  LET n    == Lesser(Unsent(s), s.wnd)
      room == s.wnd - (s.nxt - s.una)
      gs   == Chunks(s, n, Lesser(MSS, room))
      read == [s EXCEPT !.taken = @ + n]
  IN IF ~Running(s) \/ n = 0 THEN s
     ELSE IF room = 0 THEN [read EXCEPT !.thr = "spin"]
     ELSE IF room < 0 THEN [read EXCEPT !.thr = "crash"]
     ELSE IF s.qlock THEN [read EXCEPT !.thr = "stuck", !.out = Append(@, gs[1])]
     ELSE [read EXCEPT !.out = @ \o gs, !.rtq = @ \o Fresh(gs), !.nxt = @ + n]
-----------------------------------------------------------------------------
(***************************************************************************)
(* Receiving: chitcpd_tcp_handle_packet.  The local variable our_state is  *)
(* the state st the packet found, even after the socket has moved on.      *)
(***************************************************************************)

(* chitcpd_tcp_add_p_to_oop: prepend, then sort by sequence number.        *)
Stash(s, g) ==
  LET k == Cardinality({i \in DOMAIN s.oop : s.oop[i].seq < g.seq})
  IN [s EXCEPT !.oop = SubSeq(@, 1, k) \o <<g>> \o SubSeq(@, k + 1, Len(@))]

(* process_oop_after_new_packet: looks for the next segment anywhere in    *)
(* the list, but takes the head.                                           *)
TakeFromOop(s) ==
  IF Running(s) /\ \E i \in DOMAIN s.oop : s.oop[i].seq = s.rnxt
  THEN [s EXCEPT !.pend = <<Head(s.oop)>> \o @, !.oop = Tail(@)]
  ELSE s

InWindow(s, g) ==
  \/ s.rnxt <= g.seq /\ g.seq < s.rnxt + s.rwnd
  \/ /\ s.rnxt <= g.seq + SegLen(g) - 1
     /\ g.seq + SegLen(g) - 1 < s.rnxt + s.rwnd

(* Mutant: an old acknowledgement takes SND_UNA back.                      *)
AckStepAnyAge(s, g, st) ==
  IF st = "SYN_RCVD"
  THEN SetState(ProcessQ([s EXCEPT !.una = g.ack]), "ESTABLISHED")
  ELSE IF st \in Synchronized /\ g.ack <= s.nxt
  THEN ProcessQ([s EXCEPT !.una = g.ack])
  ELSE s

(* Mutant: the acknowledgement of the FIN ends the connection.             *)
AckStepHangsUp(s, g, st) ==
  LET a == ProcessQ([s EXCEPT !.una = IF @ < g.ack /\ g.ack <= s.nxt THEN g.ack ELSE @])
  IN IF st = "SYN_RCVD" THEN SetState(a, "ESTABLISHED")
     ELSE IF a.una = a.nxt /\ st \in {"FIN_WAIT_1", "CLOSING"} THEN SetState(a, "CLOSED")
     ELSE a

AckStep(s, g, st) ==
  IF st = "SYN_RCVD"
  THEN IF s.una <= g.ack /\ g.ack <= s.nxt
       THEN SetState(ProcessQ([s EXCEPT !.una = g.ack]), "ESTABLISHED")
       ELSE s
  ELSE IF st \in Synchronized
  THEN LET a == IF s.una < g.ack /\ g.ack <= s.nxt
                THEN ProcessQ([s EXCEPT !.una = g.ack]) ELSE s
       IN IF a.una = a.nxt /\ st = "FIN_WAIT_1" THEN SetState(a, "FIN_WAIT_2")
          ELSE IF a.una = a.nxt /\ st = "CLOSING" THEN SetState(a, "CLOSED")
          ELSE a
  ELSE s

(* Mutants: RCV_NXT stays where it is; counts what was cut off; the window *)
(* is not closed.                                                          *)
DeliverAgain(s, g) ==
  LET n == Lesser(g.len, Available(s))
  IN [s EXCEPT !.got  = @ \o [i \in 1 .. n |-> g.off + i - 1],
               !.rwnd = Available(s) - n]

DeliverCounted(s, g) ==
  LET n == Lesser(g.len, Available(s))
  IN [s EXCEPT !.got  = @ \o [i \in 1 .. n |-> g.off + i - 1],
               !.rwnd = Available(s) - n,
               !.rnxt = @ + g.len]

DeliverUnannounced(s, g) ==
  LET n == Lesser(g.len, Available(s))
  IN [s EXCEPT !.got  = @ \o [i \in 1 .. n |-> g.off + i - 1],
               !.rnxt = @ + n]

(* Payload that does not fit into the receive buffer is cut off.           *)
Deliver(s, g) ==
  LET n == Lesser(g.len, Available(s))
  IN [s EXCEPT !.got  = @ \o [i \in 1 .. n |-> g.off + i - 1],
               !.rwnd = Available(s) - n,
               !.rnxt = @ + n]

TextStep(s, g, st) ==
  IF Running(s) /\ st \in {"ESTABLISHED", "FIN_WAIT_1", "FIN_WAIT_2"} /\ g.len > 0
  THEN SendAck(Deliver(s, g))
  ELSE s

(* Mutant: a FIN that comes after ours was acknowledged is only answered.  *)
FinStepWaits(s, g, st) ==
  IF ~Running(s) \/ ~g.fin THEN s
  ELSE LET f == IF st \in {"SYN_RCVD", "ESTABLISHED"}
                THEN SetState(SendAck(s), "CLOSE_WAIT")
                ELSE IF st = "FIN_WAIT_1"
                THEN SetState(SendAck(s), "CLOSING")
                ELSE SendAck(s)
       IN [f EXCEPT !.eof = TRUE]

FinStep(s, g, st) ==
  IF ~Running(s) \/ ~g.fin THEN s
  ELSE LET f == CASE st \in {"SYN_RCVD", "ESTABLISHED"} ->
                       SetState(SendAck(s), "CLOSE_WAIT")
                  [] st = "FIN_WAIT_1" ->
                       SetState(SendAck(s), IF s.una = s.nxt THEN "CLOSED"
                                                             ELSE "CLOSING")
                  [] st = "FIN_WAIT_2" -> SetState(SendAck(s), "CLOSED")
                  [] OTHER -> s
       IN [f EXCEPT !.eof = TRUE]

(* The next segment in sequence.                                           *)
InOrder(s, g) ==
  LET st == s.state
  IN IF ~g.hasack THEN TakeFromOop(s)
     ELSE IF st \in Synchronized /\ g.ack > s.nxt THEN SendAck(s)
     ELSE IF st = "LAST_ACK" THEN SetState(s, "CLOSED")
     ELSE TakeFromOop(FinStep(TextStep(AckStep(s, g, st), g, st), g, st))

(* A SYN fixes the receive side of the block.                              *)
Synchronize(s, g) ==
  [s EXCEPT !.rnxt = g.seq + 1, !.irs = g.seq, !.rwnd = Available(s)]

(* Mutant: the server does not wait for the acknowledgement of its SYN.    *)
HandleListenAtOnce(s, g) ==
  IF g.syn THEN SetState(SendSyn(Synchronize(s, g), TRUE), "ESTABLISHED") ELSE s

HandleListen(s, g) ==
  IF g.syn THEN SetState(SendSyn(Synchronize(s, g), TRUE), "SYN_RCVD") ELSE s

HandleSynSent(s, g) ==
  IF g.hasack /\ s.una <= g.ack /\ g.ack <= s.nxt /\ g.syn
  THEN LET a == ProcessQ([s EXCEPT !.una = g.ack])
           b == IF Running(a) THEN Synchronize(a, g) ELSE a
       IN IF b.una > b.iss THEN SendAck(SetState(b, "ESTABLISHED"))
                           ELSE SendSyn(SetState(b, "SYN_RCVD"), TRUE)
  ELSE s

HandlePacket(s) ==
  LET g == Head(s.pend)
      a == [s EXCEPT !.pend = Tail(@), !.wnd = g.wnd]
  IN CASE s.state = "CLOSED" -> a
       [] s.state = "LISTEN" -> HandleListen(a, g)
       [] s.state = "SYN_SENT" -> HandleSynSent(a, g)
       [] OTHER -> IF a.rwnd = 0 /\ SegLen(g) > 0 THEN SendAck(a)
                   ELSE IF g.seq = a.rnxt THEN InOrder(a, g)
                   ELSE IF InWindow(a, g) THEN Stash(a, g)
                   ELSE a
-----------------------------------------------------------------------------
(***************************************************************************)
(* The state handlers chitcpd_tcp_state_handle_*, by event.                *)
(***************************************************************************)

OnConnect(s) ==
  IF s.state = "CLOSED" THEN SetState(SendSyn(s, FALSE), "SYN_SENT") ELSE s

OnSend(s) == IF s.state = "ESTABLISHED" THEN ProcessSendBuffer(s) ELSE s

OnReceive(s) ==
  IF s.state = "ESTABLISHED" THEN [s EXCEPT !.rwnd = Available(s)] ELSE s

(* Mutant: the FIN does not wait for the send buffer.                      *)
OnCloseAtOnce(s) ==
  LET f == SendFin([s EXCEPT !.closing = TRUE])
  IN CASE s.state = "ESTABLISHED" -> SetState(f, "FIN_WAIT_1")
       [] s.state = "CLOSE_WAIT" -> SetState(f, "LAST_ACK")
       [] OTHER -> s

OnClose(s) ==
  LET c == [s EXCEPT !.closing = TRUE]
      f == IF Unsent(s) = 0 THEN SendFin(c) ELSE ProcessSendBuffer(c)
  IN CASE s.state = "ESTABLISHED" -> SetState(f, "FIN_WAIT_1")
       [] s.state = "CLOSE_WAIT" ->
            IF Unsent(s) = 0 THEN SetState(f, "LAST_ACK") ELSE f
       [] OTHER -> s

(* Mutant: the FIN that waited for the send buffer is forgotten.           *)
OnPacketForgets(s) ==
  LET h == HandlePacket(s)
  IN IF s.state = "FIN_WAIT_1" THEN ProcessSendBuffer(h) ELSE h

OnPacket(s) ==
  LET h == HandlePacket(s)
      flushed == Unsent(h) = 0 /\ h.closing
  IN CASE s.state = "FIN_WAIT_1" ->
            IF flushed THEN SendFin(h) ELSE ProcessSendBuffer(h)
       [] s.state = "CLOSE_WAIT" ->
            IF flushed THEN SetState(SendFin(h), "CLOSING") ELSE h
       [] OTHER -> h

OnTimeout(s) ==
  IF s.state \in Retransmitting THEN ProcessTimeout(ProcessQ(s)) ELSE s

OnCleanup(s) == [s EXCEPT !.thr = "done"]
=============================================================================
