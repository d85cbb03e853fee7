--------------------------- MODULE TcpProperties ---------------------------
(***************************************************************************)
(* What a chiTCP connection (module Tcp) is meant to guarantee.            *)
(***************************************************************************)
EXTENDS Tcp

(* The type of every field of a control block and of every segment.        *)
TypeOK ==
  /\ tcb \in [Peer -> Block]
  /\ net \in [Peer -> Seq(Segment)]
  /\ expiries \in 0 .. MaxExpiries
  /\ faults \in 0 .. MaxFaults

(* tcp_data_init has run and the peer's SYN has been handled.              *)
Connected(p) == tcb[p].state \notin {"LISTEN", "SYN_SENT"} /\ tcb[p].rnxt > 0
-----------------------------------------------------------------------------
(***************************************************************************)
(* The stream of bytes.                                                    *)
(***************************************************************************)

Stream ==
  INSTANCE ByteStream WITH
    OtherEnd <- Other,
    written <- [p \in Peer |-> tcb[p].wrote],
    closed <- [p \in Peer |-> tcb[p].closing],
    delivered <- [p \in Peer |-> tcb[p].got],
    ended <- [p \in Peer |-> tcb[p].eof]

(* The connection is a byte stream in each direction: whatever is lost,    *)
(* repeated, delayed or sent again, the receive buffers are filled with    *)
(* the peer's bytes in order, and closed only after the last one.          *)
StreamService == Stream!Spec

(* chitcpd_tcp_handle_packet acknowledges what it put into the receive     *)
(* buffer, so a byte that process_q_after_ack may forget has arrived.      *)
AckedIsDelivered ==
  \A p \in Peer :
    tcb[p].una > tcb[p].iss => tcb[p].una <= ISS[p] + 1 + Len(tcb[Other(p)].got)

(* Everything between SND_UNA and SND_NXT can be sent again: some packet   *)
(* of the retransmission queue carries it, through every resend.           *)
OutstandingIsQueued ==
  \A p \in Peer :
    LET s == tcb[p]
    IN Running(s) /\ s.state \notin {"CLOSED", "LISTEN"} =>
         \A n \in s.una .. s.nxt - 1 :
           \E i \in DOMAIN s.rtq :
             LET g == s.rtq[i].seg IN g.seq <= n /\ n < g.seq + SegLen(g)

(* The window a socket advertises is never larger than the room in its     *)
(* receive buffer.                                                         *)
WindowIsBacked == \A p \in Peer : tcb[p].rwnd <= Available(tcb[p])

(* The FIN follows all data: when it is sent the application has closed    *)
(* and the send buffer has been emptied, and SND_NXT does not move again.  *)
FinIsLast ==
  \A p \in Peer :
    tcb[p].finsent => tcb[p].closing /\ Unsent(tcb[p]) = 0
-----------------------------------------------------------------------------
(***************************************************************************)
(* The life of a connection.                                               *)
(***************************************************************************)

(* A socket that has reached ESTABLISHED knows its peer's sequence numbers,*)
(* and the peer has seen its SYN.                                          *)
HandshakeAgreed ==
  \A p \in Peer :
    tcb[p].state \in Synchronized \cup {"LAST_ACK"} =>
      /\ tcb[p].irs = ISS[Other(p)]
      /\ tcb[Other(p)].irs = ISS[p]
      /\ tcb[p].una > tcb[p].iss

(* Once connected, a socket does not reach CLOSED before it has seen its   *)
(* peer's FIN.                                                             *)
ClosedAfterFin ==
  \A p \in Peer : Connected(p) /\ tcb[p].state = "CLOSED" => tcb[p].eof

(* The assertion of the RECV handler: a recv that finds the buffer closed  *)
(* finds the socket in one of these states.                                *)
EofState ==
  \A p \in Peer :
    tcb[p].eof => tcb[p].state \in {"CLOSING", "CLOSE_WAIT", "LAST_ACK", "CLOSED"}

(* How far a socket is through its life.                                   *)
Age == [CLOSED |-> 8, LISTEN |-> 0, SYN_SENT |-> 1, SYN_RCVD |-> 2,
        ESTABLISHED |-> 3, FIN_WAIT_1 |-> 4, CLOSE_WAIT |-> 4,
        FIN_WAIT_2 |-> 5, CLOSING |-> 6, LAST_ACK |-> 7]

(* From block s to block t the socket is not taken back to an earlier      *)
(* state, nor its receive or acknowledgement point back.                   *)
GoesForward(s, t) ==
  /\ t.state # s.state =>
       \/ Age[t.state] > Age[s.state]
       \/ s.state = "CLOSED" /\ t.state = "SYN_SENT" /\ s.rnxt = 0
  /\ t.una >= s.una /\ (s.rnxt > 0 => t.rnxt >= s.rnxt)
  /\ s.finsent => t.nxt = s.nxt

(* No packet, however old, and no timer takes a socket back to an earlier  *)
(* state, its receive or acknowledgement point back, or data after a FIN.  *)
Onward == [][\A p \in Peer : GoesForward(tcb[p], tcb'[p])]_vars
-----------------------------------------------------------------------------
(***************************************************************************)
(* Progress, on a network that loses nothing and with timers that do not   *)
(* expire early.                                                           *)
(***************************************************************************)

(* A connection comes about, and ends: both sockets are freed, after each  *)
(* has received all that the other wrote.                                  *)
Terminates ==
  <>[](\A p \in Peer : tcb[p].thr = "done"
                       /\ Len(tcb[p].got) = tcb[Other(p)].wrote)
=============================================================================
