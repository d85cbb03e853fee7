---------------------------- MODULE TcpInvariant ----------------------------
(***************************************************************************)
(* An inductive invariant of Tcp, from which the safety theorems of module *)
(* TcpProofs follow: what a segment says about the stream it comes from,   *)
(* wherever it is stored, and how a control block agrees with the stream   *)
(* it sends and the one it receives.                                       *)
(***************************************************************************)
EXTENDS TcpProperties

(* The segments that a socket can have sent whose initial sequence number  *)
(* is iss and whose application has written w bytes; c says whether it has *)
(* closed.                                                                 *)
SentBy(iss, w, c) ==
  {g \in Segment :
     /\ g.len > 0 => /\ ~g.fin /\ g.off > 0
                     /\ g.seq = iss + g.off
                     /\ g.off + g.len - 1 <= w
     /\ g.syn => g.seq = iss /\ g.len = 0
     /\ g.fin => g.seq = iss + 1 + w /\ c}

(* The two buffers: neither overflows, and the bytes put into the receive  *)
(* buffer are the first of the peer's stream.                              *)
BuffersSound(s) ==
  /\ s.taken <= s.wrote /\ s.wrote <= s.taken + BufSize
  /\ s.rd <= Len(s.got) /\ Len(s.got) <= s.rd + BufSize
  /\ \A i \in 1 .. Len(s.got) : s.got[i] = i

(* The sending side: SND_NXT follows the send buffer, the FIN comes last,  *)
(* and a closed application writes no more.                                *)
SenderSound(s) ==
  /\ Running(s) => s.nxt = s.iss + 1 + s.taken
  /\ s.finsent => s.closing /\ s.taken = s.wrote
  /\ s.closing \/ "APPLICATION_CLOSE" \in s.flags => s.rem = 0

(* The receiving side, when the peer has initial sequence number iss, has  *)
(* written w bytes and c says whether it has closed.                       *)
ReceiverSound(s, w, c) ==
  /\ Len(s.got) <= w
  /\ s.eof => c /\ Len(s.got) = w

Sound(s, iss, w, c) ==
  /\ s \in BlockOf(SentBy(iss, w, c), SentBy(s.iss, s.wrote, s.closing))
  /\ BuffersSound(s) /\ SenderSound(s) /\ ReceiverSound(s, w, c)

(* RCV_NXT follows the receive buffer.                                     *)
Synced(s, iss) == s.rnxt = iss + 1 + Len(s.got)

(* RCV_NXT is set by the peer's SYN, and no data is taken before that; a   *)
(* socket connects only once.                                              *)
StateSound(s, iss) ==
  /\ s.state \notin {"CLOSED", "LISTEN", "SYN_SENT"} => Synced(s, iss)
  /\ s.state \in {"LISTEN", "SYN_SENT"} => Len(s.got) = 0
  /\ "APPLICATION_CONNECT" \in s.flags => s.state = "CLOSED" /\ Len(s.got) = 0

(* What p can have sent so far.                                            *)
Sent(p) == SentBy(ISS[p], tcb[p].wrote, tcb[p].closing)

SocketInv(p) ==
  LET q == Other(p)
  IN /\ tcb[p].iss = ISS[p]
     /\ tcb[p].out = <<>>
     /\ Sound(tcb[p], ISS[q], tcb[q].wrote, tcb[q].closing)
     /\ StateSound(tcb[p], ISS[q])
     /\ net[p] \in Seq(Sent(q))

(* The inductive invariant.                                                *)
Inv ==
  /\ TypeOK
  /\ \A p \in Peer : SocketInv(p)
-----------------------------------------------------------------------------
(***************************************************************************)
(* How the two sockets of a connection agree, and how the state of a       *)
(* socket follows from what it has received.                               *)
(***************************************************************************)

(* The segments a socket can have sent, to a peer whose initial sequence   *)
(* number is iss, whose RCV_NXT is r and which has taken k bytes out of    *)
(* its send buffer.                                                        *)
Carries(r, iss, k) ==
  {g \in Segment :
     /\ g.ack <= r
     /\ g.hasack => g.ack > iss
     /\ g.len > 0 => g.off + g.len <= k + 1}

(* The peer's SYN has not come in, or RCV_NXT follows the receive buffer.  *)
Met(s, iss) ==
  \/ s.rnxt = 0
  \/ Synced(s, iss) /\ s.irs = iss

(* What a socket, and the socket at the other end, know of each other: n   *)
(* is the peer's RCV_NXT, k the number of bytes it has taken out of its    *)
(* send buffer.                                                            *)
EndsAgree(s, iss, n, k) ==
  /\ s \in BlockOf(Carries(n, s.iss, k), Carries(s.rnxt, iss, s.taken))
  /\ s.rwnd <= Available(s)
  /\ Len(s.got) <= k
  /\ n <= s.iss + 1 + s.taken
  /\ s.iss <= s.una
  /\ s.una > s.iss => s.una <= n
  /\ Met(s, iss)

(* States in which the peer's FIN has come in.                             *)
AfterFin == {"CLOSE_WAIT", "CLOSING", "LAST_ACK"}

StateAgrees(s, iss) ==
  /\ s.eof <=> s.state \in AfterFin \cup (IF s.rnxt > 0 THEN {"CLOSED"} ELSE {})
  /\ s.state \in Synchronized \cup {"LAST_ACK"} => s.una > s.iss
  /\ Running(s) /\ s.state \in {"LISTEN", "SYN_SENT", "SYN_RCVD"} => s.una = s.iss
  /\ "APPLICATION_CONNECT" \in s.flags => s.rnxt = 0 /\ s.una = s.iss
  /\ s.thr = "spin" => s.rnxt > iss

Agreed(s, iss, n, k) == EndsAgree(s, iss, n, k) /\ StateAgrees(s, iss)

(* The second part of the inductive invariant, which is kept because Inv   *)
(* is.                                                                     *)
Agreement ==
  \A p \in Peer :
    LET q == Other(p)
    IN /\ Agreed(tcb[p], ISS[q], tcb[q].rnxt, tcb[q].taken)
       /\ net[p] \in Seq(Carries(tcb[q].rnxt, ISS[p], tcb[q].taken))
-----------------------------------------------------------------------------
(***************************************************************************)
(* What is not acknowledged and the retransmission queue.  The third part  *)
(* of the inductive invariant, Backlog of both sockets, is kept because    *)
(* Inv and Agreement are.                                                  *)
(***************************************************************************)

(* Some packet of the retransmission queue q carries sequence number n.    *)
Queued(q, n) ==
  \E i \in DOMAIN q :
    q[i].seg.seq <= n /\ n < q[i].seg.seq + SegLen(q[i].seg)

(* Whatever is not acknowledged can be sent again.                         *)
Backed(s) == \A n \in s.una .. s.nxt - 1 : Queued(s.rtq, n)

(* It can from the SYN on, which is the first to be queued.                *)
Backlog(s) ==
  Running(s) =>
    /\ s.state \notin {"CLOSED", "LISTEN"} => Backed(s)
    /\ s.state = "LISTEN" \/ "APPLICATION_CONNECT" \in s.flags => s.nxt = s.iss + 1
=============================================================================
