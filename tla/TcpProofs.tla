----------------------------- MODULE TcpProofs -----------------------------
(***************************************************************************)
(* Inv is an inductive invariant of Tcp, for all initial sequence numbers, *)
(* stream lengths, buffer and segment sizes, and however many packets the  *)
(* network mistreats and timers expire early or late.                      *)
(***************************************************************************)
EXTENDS TcbProofs

(* There are two peers, each the other of the other.                       *)
LEMMA PeerFacts ==
  ASSUME NEW p \in Peer
  PROVE  /\ Other(p) \in Peer /\ Other(p) # p /\ Other(Other(p)) = p
         /\ \A q \in Peer : q = p \/ q = Other(p)
         /\ ISS[p] \in Nat /\ ISS[Other(p)] \in Nat
  BY TcpAssumption DEF Peer, Other

(* A block stays Sound when its peer writes more, or closes.               *)
LEMMA PeerMovesSound ==
  ASSUME NEW iss \in Nat, NEW w \in Nat, NEW v \in Nat,
         NEW c \in BOOLEAN, NEW d \in BOOLEAN,
         w <= v, c => d /\ v = w,
         NEW s, Sound(s, iss, w, c)
  PROVE  Sound(s, iss, v, d)
  <1> DEFINE Out == SentBy(s.iss, s.wrote, s.closing)
  <1>1. SentBy(iss, w, c) \subseteq SentBy(iss, v, d)
    BY SentByMonotonic
  <1>2. s \in BlockOf(SentBy(iss, w, c), Out)
    BY DEF Sound
  <1> HIDE DEF Out
  <1>3. s \in BlockOf(SentBy(iss, v, d), Out)
    BY <1>1, <1>2, BlockMonotonic
  <1>4. ReceiverSound(s, v, d)
    <2>1. Len(s.got) \in Nat
      BY SoundFields
    <2>2. Len(s.got) <= w /\ (s.eof => c /\ Len(s.got) = w)
      BY DEF Sound, ReceiverSound
    <2>3. \A m \in Nat : m <= w => m <= v
      OBVIOUS
    <2> QED
      BY <2>1, <2>2, <2>3 DEF ReceiverSound
  <1> QED
    BY <1>3, <1>4 DEF Sound, Out

(* What can have been sent are segments.                                   *)
LEMMA SentIsSegment ==
  ASSUME NEW iss, NEW w, NEW c
  PROVE  SentBy(iss, w, c) \subseteq Segment
  BY DEF SentBy

(* When the block of p becomes t and the network holds what it should, the *)
(* invariant is kept.                                                      *)
LEMMA UpdateKeepsInv ==
  ASSUME Inv, NEW p \in Peer, NEW t,
         Sound(t, ISS[Other(p)], tcb[Other(p)].wrote, tcb[Other(p)].closing),
         StateSound(t, ISS[Other(p)]),
         t.iss = ISS[p], t.out = <<>>,
         tcb[p].wrote <= t.wrote,
         tcb[p].closing => t.closing /\ t.wrote = tcb[p].wrote,
         tcb' = [tcb EXCEPT ![p] = t],
         net' \in [Peer -> Seq(Segment)],
         net'[p] \in Seq(Sent(Other(p))),
         net'[Other(p)] \in Seq(SentBy(ISS[p], t.wrote, t.closing)),
         expiries' \in 0 .. MaxExpiries, faults' \in 0 .. MaxFaults
  PROVE  Inv'
  <1> DEFINE q == Other(p)
  <1>1. /\ q \in Peer /\ q # p /\ Other(q) = p
        /\ \A r \in Peer : r = p \/ r = q
        /\ ISS[p] \in Nat /\ ISS[q] \in Nat
    BY PeerFacts
  <1>2. tcb \in [Peer -> Block] /\ SocketInv(p) /\ SocketInv(q)
    BY <1>1 DEF Inv, TypeOK
  <1> HIDE DEF q
  <1>3. tcb'[p] = t /\ tcb'[q] = tcb[q]
    BY <1>1, <1>2
  <1>4. /\ tcb[p].wrote \in Nat /\ tcb[p].closing \in BOOLEAN
        /\ t.wrote \in Nat /\ t.closing \in BOOLEAN
    <2>1. Sound(tcb[p], ISS[q], tcb[q].wrote, tcb[q].closing)
      BY <1>2 DEF SocketInv, q
    <2>2. tcb[p].wrote \in Nat /\ tcb[p].closing \in BOOLEAN
      BY <2>1, SoundFields
    <2>3. Sound(t, ISS[q], tcb[q].wrote, tcb[q].closing)
      BY DEF q
    <2>4. t.wrote \in Nat /\ t.closing \in BOOLEAN
      BY <2>3, SoundFields
    <2> QED
      BY <2>2, <2>4
  <1>5. SocketInv(p)'
    <2>1. Sound(t, ISS[q], tcb'[q].wrote, tcb'[q].closing)
      BY <1>3 DEF q
    <2>2. net'[p] \in Seq(SentBy(ISS[q], tcb'[q].wrote, tcb'[q].closing))
      BY <1>3 DEF Sent, q
    <2> QED
      BY <1>3, <2>1, <2>2 DEF SocketInv, Sent, q
  <1>6. SocketInv(q)'
    <2>1. Sound(tcb[q], ISS[p], tcb[p].wrote, tcb[p].closing)
      BY <1>1, <1>2 DEF SocketInv
    <2>2. Sound(tcb[q], ISS[p], t.wrote, t.closing)
      <3> DEFINE w == tcb[p].wrote
                 c == tcb[p].closing
                 v == t.wrote
                 d == t.closing
      <3>1. /\ w \in Nat /\ c \in BOOLEAN /\ v \in Nat /\ d \in BOOLEAN
            /\ w <= v /\ (c => d /\ v = w)
            /\ ISS[p] \in Nat /\ Sound(tcb[q], ISS[p], w, c)
        BY <1>1, <1>4, <2>1
      <3> HIDE DEF w, c, v, d
      <3>2. Sound(tcb[q], ISS[p], v, d)
        BY <3>1, PeerMovesSound
      <3> QED
        BY <3>2 DEF v, d
    <2>3. /\ tcb[q].iss = ISS[q] /\ tcb[q].out = <<>>
          /\ StateSound(tcb[q], ISS[p])
      BY <1>1, <1>2 DEF SocketInv
    <2>4. net'[q] \in Seq(SentBy(ISS[p], t.wrote, t.closing))
      BY DEF q
    <2> QED
      BY <1>1, <1>3, <2>2, <2>3, <2>4 DEF SocketInv, Sent
  <1>7. t \in Block
    <2>1. t \in BlockOf(SentBy(ISS[q], tcb[q].wrote, tcb[q].closing),
                        SentBy(t.iss, t.wrote, t.closing))
      BY DEF Sound, q
    <2> QED
      BY <2>1, SentIsSegment, BlockMonotonic DEF Block
  <1>8. tcb' \in [Peer -> Block]
    BY <1>2, <1>7
  <1> QED
    BY <1>1, <1>5, <1>6, <1>8 DEF Inv, TypeOK

(* What Inv says of one socket.                                            *)
LEMMA InvOf ==
  ASSUME Inv, NEW p \in Peer
  PROVE  /\ Sound(tcb[p], ISS[Other(p)], tcb[Other(p)].wrote, tcb[Other(p)].closing)
         /\ StateSound(tcb[p], ISS[Other(p)])
         /\ tcb[p].iss = ISS[p] /\ tcb[p].out = <<>>
         /\ ISS[p] \in Nat /\ ISS[Other(p)] \in Nat
         /\ tcb[p].wrote \in Nat /\ tcb[p].closing \in BOOLEAN
         /\ tcb[Other(p)].wrote \in Nat /\ tcb[Other(p)].closing \in BOOLEAN
         /\ net \in [Peer -> Seq(Segment)] /\ net[p] \in Seq(Sent(Other(p)))
         /\ net[Other(p)] \in Seq(Sent(p))
         /\ expiries \in 0 .. MaxExpiries /\ faults \in 0 .. MaxFaults
  <1>1. /\ Other(p) \in Peer /\ Other(Other(p)) = p
        /\ ISS[p] \in Nat /\ ISS[Other(p)] \in Nat
    BY PeerFacts
  <1>2. SocketInv(p) /\ SocketInv(Other(p)) /\ TypeOK
    BY <1>1 DEF Inv
  <1>3. /\ Sound(tcb[p], ISS[Other(p)], tcb[Other(p)].wrote, tcb[Other(p)].closing)
        /\ Sound(tcb[Other(p)], ISS[p], tcb[p].wrote, tcb[p].closing)
    BY <1>1, <1>2 DEF SocketInv
  <1>4. /\ tcb[p].wrote \in Nat /\ tcb[p].closing \in BOOLEAN
        /\ tcb[Other(p)].wrote \in Nat /\ tcb[Other(p)].closing \in BOOLEAN
    BY <1>3, SoundFields
  <1> QED
    BY <1>1, <1>2, <1>3, <1>4 DEF SocketInv, TypeOK

(* A step that leaves stream and state alone keeps what Inv says of a      *)
(* socket.                                                                 *)
LEMMA UnmovedSound ==
  ASSUME NEW iss \in Nat, NEW w \in Nat, NEW c \in BOOLEAN,
         NEW s, Sound(s, iss, w, c), StateSound(s, iss),
         NEW t \in BlockOf(SentBy(iss, w, c), SentBy(s.iss, s.wrote, s.closing)),
         Unmoved(s, t)
  PROVE  /\ Sound(t, iss, w, c) /\ StateSound(t, iss)
         /\ t.iss = s.iss /\ t.wrote = s.wrote /\ t.closing = s.closing
  <1>1. Sound(t, iss, w, c) /\ StateSound(t, iss)
    BY UnmovedFollows DEF Follows
  <1>2. t.iss = s.iss /\ t.wrote = s.wrote /\ t.closing = s.closing
    BY DEF Unmoved, SameStream
  <1> QED
    BY <1>1, <1>2

-----------------------------------------------------------------------------
(***************************************************************************)
(* The TCP thread.                                                         *)
(***************************************************************************)

(* A handler whose block is sound, when it and its segments are committed. *)
LEMMA CommitKeepsInv ==
  ASSUME Inv, NEW p \in Peer, NEW h, Commit(p, h),
         Sound(h, ISS[Other(p)], tcb[Other(p)].wrote, tcb[Other(p)].closing),
         StateSound(h, ISS[Other(p)]),
         Continues(tcb[p], h)
  PROVE  Inv'
  <1> DEFINE q    == Other(p)
             late == Lesser(h.late, MaxExpiries - expiries)
             t    == [h EXCEPT !.out = <<>>, !.late = late]
             w    == tcb[q].wrote
             c    == tcb[q].closing
             In   == SentBy(ISS[q], w, c)
             Out  == SentBy(h.iss, h.wrote, h.closing)
  <1>1. /\ q \in Peer /\ q # p
        /\ ISS[p] \in Nat /\ ISS[q] \in Nat /\ w \in Nat /\ c \in BOOLEAN
        /\ tcb[p].iss = ISS[p] /\ tcb[p].wrote \in Nat /\ tcb[p].closing \in BOOLEAN
        /\ net \in [Peer -> Seq(Segment)]
        /\ net[p] \in Seq(Sent(q)) /\ net[q] \in Seq(Sent(p))
        /\ expiries \in 0 .. MaxExpiries /\ faults \in 0 .. MaxFaults
    BY InvOf, PeerFacts
  <1>2. /\ tcb' = [tcb EXCEPT ![p] = t]
        /\ net' = [net EXCEPT ![q] = @ \o h.out]
        /\ expiries' = expiries /\ faults' = faults
    BY DEF Commit
  <1>3. h \in BlockOf(In, Out)
    BY DEF Sound
  <1>4. late \in Nat
    <2>1. h.late \in Nat
      BY SoundFields
    <2> QED
      BY <1>1, <2>1, TcpAssumption DEF Lesser
  <1>5. t \in BlockOf(In, Out) /\ Unmoved(h, t) /\ t.out = <<>>
    <2> DEFINE none == <<>>
    <2>1. none \in Seq(Out)
      BY EmptySeq
    <2>2. t = [h EXCEPT !.out = none, !.late = late]
      OBVIOUS
    <2> HIDE DEF late, In, Out, none, t
    <2>3. t \in BlockOf(In, Out) /\ Unmoved(h, t) /\ t.out = none
      BY <1>3, <1>4, <2>1, <2>2 DEF BlockOf, Unmoved, SameStream, Running
    <2> QED
      BY <2>3 DEF none
  <1> HIDE DEF t
  <1>6. /\ Sound(t, ISS[q], w, c) /\ StateSound(t, ISS[q])
        /\ t.iss = h.iss /\ t.wrote = h.wrote /\ t.closing = h.closing
    BY <1>1, <1>5, UnmovedSound
  <1>7. /\ h.iss = ISS[p] /\ h.wrote = tcb[p].wrote
        /\ tcb[p].closing => h.closing
    BY <1>1 DEF Continues
  <1>8. h.wrote \in Nat /\ h.closing \in BOOLEAN
    BY SoundFields
  <1>9. Sent(p) \subseteq SentBy(ISS[p], h.wrote, h.closing)
    <2> DEFINE v == h.wrote
               d == h.closing
               b == tcb[p].closing
    <2>1. v \in Nat /\ d \in BOOLEAN /\ b \in BOOLEAN /\ (b => d) /\ ISS[p] \in Nat
      BY <1>1, <1>7, <1>8
    <2>2. Sent(p) = SentBy(ISS[p], v, b)
      BY <1>7 DEF Sent
    <2> HIDE DEF v, d, b
    <2>3. v <= v /\ (b => d /\ v = v)
      BY <2>1
    <2>4. SentBy(ISS[p], v, b) \subseteq SentBy(ISS[p], v, d)
      BY <2>1, <2>3, SentByMonotonic
    <2> QED
      BY <2>2, <2>4 DEF v, d
  <1>10. net[q] \o h.out \in Seq(SentBy(ISS[p], h.wrote, h.closing))
    <2>1. net[q] \in Seq(SentBy(ISS[p], h.wrote, h.closing))
      BY <1>1, <1>9, SeqMonotonic
    <2>2. h.out \in Seq(Out)
      BY <1>3 DEF BlockOf
    <2>3. h.out \in Seq(SentBy(ISS[p], h.wrote, h.closing))
      BY <1>7, <2>2
    <2> QED
      BY <2>1, <2>3, ConcatProperties
  <1>11. net[q] \o h.out \in Seq(Segment)
    BY <1>10, SentIsSegment, SeqMonotonic
  <1>12. /\ net' \in [Peer -> Seq(Segment)]
         /\ net'[p] = net[p] /\ net'[q] = net[q] \o h.out
    BY <1>1, <1>2, <1>11
  <1>13. /\ tcb[p].wrote <= t.wrote
         /\ tcb[p].closing => t.closing /\ t.wrote = tcb[p].wrote
         /\ t.iss = ISS[p]
    BY <1>1, <1>6, <1>7
  <1>14. /\ net'[p] \in Seq(Sent(Other(p)))
         /\ net'[Other(p)] \in Seq(SentBy(ISS[p], t.wrote, t.closing))
    BY <1>1, <1>6, <1>10, <1>12
  <1> HIDE DEF In, Out, late
  <1> QED
    BY <1>1, <1>2, <1>5, <1>6, <1>12, <1>13, <1>14, UpdateKeepsInv

(* Taking an event's flag down.                                            *)
LEMMA ClearedSound ==
  ASSUME Inv, NEW p \in Peer, NEW e
  PROVE  /\ Sound(Cleared(p, e), ISS[Other(p)], tcb[Other(p)].wrote, tcb[Other(p)].closing)
         /\ StateSound(Cleared(p, e), ISS[Other(p)])
         /\ Continues(tcb[p], Cleared(p, e))
         /\ Cleared(p, e).flags = tcb[p].flags \ {e}
         /\ Cleared(p, e).state = tcb[p].state
         /\ Cleared(p, e).got = tcb[p].got
         /\ Cleared(p, e).rem = tcb[p].rem
  <1> DEFINE s   == tcb[p]
             t   == Cleared(p, e)
             q   == Other(p)
             w   == tcb[q].wrote
             c   == tcb[q].closing
             In  == SentBy(ISS[q], w, c)
             Out == SentBy(s.iss, s.wrote, s.closing)
  <1>1. Sound(s, ISS[q], w, c) /\ StateSound(s, ISS[q])
    BY InvOf
  <1>2. s \in BlockOf(In, Out)
    BY <1>1 DEF Sound
  <1>3. t = [s EXCEPT !.flags = @ \ {e}]
    BY DEF Cleared
  <1> HIDE DEF t, s, w, c, In, Out
  <1>4. s.flags \ {e} \in SUBSET Flag
    BY <1>2 DEF BlockOf
  <1>5. /\ t \in BlockOf(In, Out) /\ t.flags = s.flags \ {e}
        /\ t.iss = s.iss /\ t.wrote = s.wrote /\ t.closing = s.closing
        /\ t.taken = s.taken /\ t.nxt = s.nxt /\ t.thr = s.thr
        /\ t.rem = s.rem /\ t.finsent = s.finsent /\ t.eof = s.eof
        /\ t.rd = s.rd /\ t.got = s.got /\ t.rnxt = s.rnxt /\ t.state = s.state
    BY <1>2, <1>3, <1>4 DEF BlockOf
  <1>6. BuffersSound(t) /\ ReceiverSound(t, w, c)
    BY <1>1, <1>5 DEF Sound, BuffersSound, ReceiverSound
  <1>7. SenderSound(t)
    BY <1>1, <1>5 DEF Sound, SenderSound, Running
  <1>8. Sound(t, ISS[q], w, c)
    BY <1>5, <1>6, <1>7 DEF Sound, In, Out
  <1>9. StateSound(t, ISS[q]) /\ Continues(s, t)
    BY <1>1, <1>5 DEF StateSound, Synced, Continues, Running
  <1> QED
    BY <1>5, <1>8, <1>9 DEF t, s, w, c

(* Each event handled by a TCP thread keeps the invariant.                 *)
LEMMA TcpThreadKeepsInv ==
  ASSUME Inv, NEW p \in Peer, TcpThread(p)
  PROVE  Inv'
  <1> DEFINE q == Other(p)
             w == tcb[q].wrote
             c == tcb[q].closing
  <1>1. /\ ISS[q] \in Nat /\ w \in Nat /\ c \in BOOLEAN
        /\ Sound(tcb[p], ISS[q], w, c) /\ StateSound(tcb[p], ISS[q])
    BY InvOf
  <1>2. ASSUME NEW e, NEW h, Commit(p, h), Handled(Cleared(p, e), h, ISS[q], w, c)
        PROVE  Inv'
    <2>1. Sound(h, ISS[q], w, c) /\ StateSound(h, ISS[q]) /\ Continues(Cleared(p, e), h)
      BY <1>2 DEF Handled
    <2>2. Continues(tcb[p], h)
      BY <2>1, ClearedSound, ContinuesTransitive
    <2> QED
      BY <1>2, <2>1, <2>2, CommitKeepsInv
  <1>3. ASSUME NEW e
        PROVE  /\ Sound(Cleared(p, e), ISS[q], w, c)
               /\ StateSound(Cleared(p, e), ISS[q])
    BY ClearedSound
  <1> HIDE DEF w, c
  <1>4. CASE ApplicationClose(p)
    <2> DEFINE d == Cleared(p, "APPLICATION_CLOSE")
    <2>1. "APPLICATION_CLOSE" \in tcb[p].flags
      BY <1>4 DEF ApplicationClose, Selected, Raised
    <2>2. tcb[p].rem = 0
      BY <1>1, <2>1 DEF Sound, SenderSound
    <2>3. d.rem = 0
      BY <2>2, ClearedSound
    <2>4. Handled(d, OnClose(d), ISS[q], w, c)
      BY <1>1, <1>3, <2>3, OnCloseHandled
    <2> QED
      BY <1>2, <1>4, <2>4 DEF ApplicationClose
  <1>5. CASE ApplicationConnect(p)
    <2> DEFINE d == Cleared(p, "APPLICATION_CONNECT")
    <2>1. "APPLICATION_CONNECT" \in tcb[p].flags
      BY <1>5 DEF ApplicationConnect, Selected, Raised
    <2>2. Len(tcb[p].got) = 0
      BY <1>1, <2>1 DEF StateSound
    <2>3. Len(d.got) = 0 /\ "APPLICATION_CONNECT" \notin d.flags
      BY <2>2, ClearedSound
    <2>4. Handled(d, OnConnect(d), ISS[q], w, c)
      BY <1>1, <1>3, <2>3, OnConnectHandled
    <2> QED
      BY <1>2, <1>5, <2>4 DEF ApplicationConnect
  <1>6. CASE ApplicationReceive(p)
    <2> DEFINE d == Cleared(p, "APPLICATION_RECEIVE")
    <2>1. Handled(d, OnReceive(d), ISS[q], w, c)
      BY <1>1, <1>3, OnReceiveHandled
    <2> QED
      BY <1>2, <1>6, <2>1 DEF ApplicationReceive
  <1>7. CASE ApplicationSend(p)
    <2> DEFINE d == Cleared(p, "APPLICATION_SEND")
    <2>1. Handled(d, OnSend(d), ISS[q], w, c)
      BY <1>1, <1>3, OnSendHandled
    <2> QED
      BY <1>2, <1>7, <2>1 DEF ApplicationSend
  <1>8. CASE PacketArrival(p)
    <2>1. tcb[p].pend # <<>>
      <3>1. "PACKET_ARRIVAL" \in Raised(tcb[p])
        BY <1>8 DEF PacketArrival, Selected
      <3>2. tcb[p].flags \subseteq Flag
        BY <1>1 DEF Sound, BlockOf
      <3>3. "PACKET_ARRIVAL" \notin Flag
        BY DEF Flag
      <3> QED
        BY <3>1, <3>2, <3>3 DEF Raised
    <2>2. Handled(tcb[p], OnPacket(tcb[p]), ISS[q], w, c)
      BY <1>1, <2>1, OnPacketHandled
    <2>3. /\ Sound(OnPacket(tcb[p]), ISS[q], w, c)
          /\ StateSound(OnPacket(tcb[p]), ISS[q])
          /\ Continues(tcb[p], OnPacket(tcb[p]))
      BY <2>2 DEF Handled
    <2> QED
      BY <1>8, <2>3, CommitKeepsInv DEF PacketArrival, w, c
  <1>9. CASE Cleanup(p)
    <2> DEFINE d == Cleared(p, "CLEANUP")
    <2>1. Handled(d, OnCleanup(d), ISS[q], w, c)
      BY <1>1, <1>3, OnCleanupHandled
    <2> QED
      BY <1>2, <1>9, <2>1 DEF Cleanup
  <1>10. CASE Timeout(p)
    <2> DEFINE d == Cleared(p, "TIMEOUT")
    <2>1. Handled(d, OnTimeout(d), ISS[q], w, c)
      BY <1>1, <1>3, OnTimeoutHandled
    <2> QED
      BY <1>2, <1>10, <2>1 DEF Timeout
  <1>11. CASE Spin(p)
    <2> DEFINE s   == tcb[p]
               g   == MakeSegment(s, 0, 0, FALSE, TRUE, s.nxt, FALSE)
               h   == [s EXCEPT !.out = <<g>>]
               In  == SentBy(ISS[q], w, c)
               Out == SentBy(s.iss, s.wrote, s.closing)
    <2>1. g \in Out
      BY <1>1, ControlSegments
    <2>2. s \in BlockOf(In, Out)
      BY <1>1 DEF Sound
    <2>3. Commit(p, h)
      BY <1>11 DEF Spin
    <2> HIDE DEF s, g, Out, In
    <2>4. <<g>> \in Seq(Out)
      BY <2>1
    <2>5. h \in BlockOf(In, Out) /\ Unmoved(s, h)
      BY <2>2, <2>4 DEF BlockOf, Unmoved, SameStream, Running
    <2> HIDE DEF h
    <2>6. Follows(s, h, ISS[q], w, c) /\ StateSound(h, ISS[q])
      BY <1>1, <2>5, UnmovedFollows DEF s, In, Out
    <2>7. Sound(h, ISS[q], w, c) /\ Continues(tcb[p], h)
      BY <2>6 DEF Follows, s
    <2> QED
      BY <2>3, <2>6, <2>7, CommitKeepsInv DEF w, c
  <1> QED
    BY <1>4, <1>5, <1>6, <1>7, <1>8, <1>9, <1>10, <1>11 DEF TcpThread

-----------------------------------------------------------------------------
(***************************************************************************)
(* Timers, applications and the network.                                   *)
(***************************************************************************)

(* The steps that put nothing on the network.                              *)
LEMMA LocalKeepsInv ==
  ASSUME Inv, NEW p \in Peer, NEW t,
         Sound(t, ISS[Other(p)], tcb[Other(p)].wrote, tcb[Other(p)].closing),
         StateSound(t, ISS[Other(p)]),
         t.iss = ISS[p], t.out = <<>>,
         tcb[p].wrote <= t.wrote,
         tcb[p].closing => t.closing /\ t.wrote = tcb[p].wrote,
         tcb' = [tcb EXCEPT ![p] = t],
         net' \in [Peer -> Seq(Segment)],
         net'[p] \in Seq(Sent(Other(p))), net'[Other(p)] = net[Other(p)],
         expiries' \in 0 .. MaxExpiries, faults' \in 0 .. MaxFaults
  PROVE  Inv'
  <1> DEFINE b == tcb[p].closing
             d == t.closing
             v == tcb[p].wrote
             x == t.wrote
  <1>1. v \in Nat /\ b \in BOOLEAN /\ ISS[p] \in Nat /\ net[Other(p)] \in Seq(SentBy(ISS[p], v, b))
    BY InvOf DEF Sent
  <1>2. x \in Nat /\ d \in BOOLEAN
    BY SoundFields
  <1>3. v <= x /\ (b => d /\ x = v)
    OBVIOUS
  <1> HIDE DEF b, d, v, x
  <1>4. SentBy(ISS[p], v, b) \subseteq SentBy(ISS[p], x, d)
    BY <1>1, <1>2, <1>3, SentByMonotonic
  <1>5. net'[Other(p)] \in Seq(SentBy(ISS[p], t.wrote, t.closing))
    BY <1>1, <1>4, SeqMonotonic DEF x, d
  <1> QED
    BY <1>5, UpdateKeepsInv

(* ... and leave the stream alone.                                         *)
LEMMA UnmovedKeepsInv ==
  ASSUME Inv, NEW p \in Peer,
         NEW t \in BlockOf(Sent(Other(p)), Sent(p)),
         Unmoved(tcb[p], t), t.out = tcb[p].out,
         tcb' = [tcb EXCEPT ![p] = t],
         net' \in [Peer -> Seq(Segment)],
         net'[p] \in Seq(Sent(Other(p))), net'[Other(p)] = net[Other(p)],
         expiries' \in 0 .. MaxExpiries, faults' \in 0 .. MaxFaults
  PROVE  Inv'
  <1> DEFINE q == Other(p)
             w == tcb[q].wrote
             c == tcb[q].closing
             s == tcb[p]
  <1>1. /\ ISS[q] \in Nat /\ w \in Nat /\ c \in BOOLEAN
        /\ Sound(s, ISS[q], w, c) /\ StateSound(s, ISS[q])
        /\ s.iss = ISS[p] /\ s.out = <<>> /\ s.wrote \in Nat
    BY InvOf
  <1>2. t \in BlockOf(SentBy(ISS[q], w, c), SentBy(s.iss, s.wrote, s.closing))
    BY <1>1 DEF Sent
  <1> HIDE DEF w, c, s, q
  <1>3. /\ Sound(t, ISS[q], w, c) /\ StateSound(t, ISS[q])
        /\ t.iss = s.iss /\ t.wrote = s.wrote /\ t.closing = s.closing
    BY <1>1, <1>2, UnmovedSound DEF s
  <1>4. /\ t.iss = ISS[p] /\ t.out = <<>> /\ tcb[p].wrote <= t.wrote
        /\ tcb[p].closing => t.closing /\ t.wrote = tcb[p].wrote
    BY <1>1, <1>3 DEF s
  <1> QED
    BY <1>3, <1>4, LocalKeepsInv DEF q, w, c

(* The segments stored with a block are ones its peer or it itself can     *)
(* have sent.                                                              *)
LEMMA BlockOfSent ==
  ASSUME Inv, NEW p \in Peer
  PROVE  tcb[p] \in BlockOf(Sent(Other(p)), Sent(p))
  <1>1. /\ Sound(tcb[p], ISS[Other(p)], tcb[Other(p)].wrote, tcb[Other(p)].closing)
        /\ tcb[p].iss = ISS[p]
    BY InvOf
  <1> QED
    BY <1>1 DEF Sound, Sent

(* A timer that expires leaves stream and state alone.                     *)
LEMMA ExpiredType ==
  ASSUME NEW In, NEW Out, NEW s \in BlockOf(In, Out), NEW i \in DOMAIN s.rtq
  PROVE  /\ Expired(s, i) \in BlockOf(In, Out)
         /\ Unmoved(s, Expired(s, i))
         /\ Expired(s, i).out = s.out
  <1> DEFINE m   == [s.rtq[i] EXCEPT !.due = TRUE]
             rtq == [s.rtq EXCEPT ![i] = m]
  <1>1. s.rtq \in Seq(Member(Out)) /\ i \in 1 .. Len(s.rtq)
    BY LenProperties DEF BlockOf
  <1>2. s.rtq[i] \in Member(Out)
    BY <1>1, ElementOfSeq
  <1>3. m \in Member(Out)
    BY <1>2 DEF Member
  <1> HIDE DEF m
  <1>4. rtq \in Seq(Member(Out))
    BY <1>1, <1>3, ExceptSeq
  <1>5. Expired(s, i) = [s EXCEPT !.rtq = rtq]
    BY DEF Expired, m
  <1> HIDE DEF rtq
  <1> QED
    BY <1>4, <1>5, ZenonT(40) DEF BlockOf, Unmoved, SameStream, Running

(* Events that are neither a connect nor a close.                          *)
LEMMA RaiseType ==
  ASSUME NEW In, NEW Out, NEW s \in BlockOf(In, Out),
         NEW e \in {"APPLICATION_RECEIVE", "APPLICATION_SEND", "TIMEOUT"}
  PROVE  /\ Raise(s, e) \in BlockOf(In, Out)
         /\ Unmoved(s, Raise(s, e))
         /\ Raise(s, e).out = s.out
  <1>1. s.flags \cup {e} \in SUBSET Flag
    BY DEF BlockOf, Flag
  <1> DEFINE f == s.flags \cup {e}
  <1>2. \A x \in {"APPLICATION_CLOSE", "APPLICATION_CONNECT"} : x \in f <=> x \in s.flags
    OBVIOUS
  <1>3. Raise(s, e) = [s EXCEPT !.flags = f]
    BY DEF Raise
  <1> HIDE DEF f
  <1> QED
    BY <1>1, <1>2, <1>3, ZenonT(40) DEF BlockOf, Unmoved, SameStream, Running, f

(* ... and so does one that is late.                                       *)
LEMMA LateType ==
  ASSUME NEW In, NEW Out, NEW s \in BlockOf(In, Out), NEW n \in Nat
  PROVE  /\ [s EXCEPT !.late = n] \in BlockOf(In, Out)
         /\ Unmoved(s, [s EXCEPT !.late = n])
         /\ [s EXCEPT !.late = n].out = s.out
  BY DEF BlockOf, Unmoved, SameStream, Running

(* Timers, early or late, keep the invariant.                              *)
LEMMA TimersKeepInv ==
  ASSUME Inv, NEW p \in Peer, Timers(p)
  PROVE  Inv'
  <1> DEFINE In  == Sent(Other(p))
             Out == Sent(p)
             s   == tcb[p]
             Fits(t) == t \in BlockOf(In, Out) /\ Unmoved(s, t) /\ t.out = s.out
  <1>1. s \in BlockOf(In, Out)
    BY BlockOfSent
  <1>2. /\ net \in [Peer -> Seq(Segment)] /\ net[p] \in Seq(In)
        /\ expiries \in 0 .. MaxExpiries /\ faults \in 0 .. MaxFaults
    BY InvOf
  <1>3. ASSUME NEW t, Fits(t), tcb' = [tcb EXCEPT ![p] = t],
               net' = net, expiries' \in 0 .. MaxExpiries, faults' = faults
        PROVE  Inv'
    BY <1>2, <1>3, UnmovedKeepsInv
  <1>4. s.late \in Nat
    BY <1>1 DEF BlockOf
  <1> HIDE DEF In, Out, s
  <1>5. ASSUME NEW i \in DOMAIN s.rtq
        PROVE  /\ Fits(Raise(Expired(s, i), "TIMEOUT"))
               /\ Fits(Delayed(Expired(s, i)))
    <2> DEFINE x == Expired(s, i)
    <2>1. x \in BlockOf(In, Out) /\ Unmoved(s, x) /\ x.out = s.out
      BY <1>1, ExpiredType
    <2> HIDE DEF x
    <2>2. x.late + 1 \in Nat
      BY <2>1, SMTT(30) DEF BlockOf
    <2>3. /\ Raise(x, "TIMEOUT") \in BlockOf(In, Out) /\ Unmoved(x, Raise(x, "TIMEOUT"))
          /\ Raise(x, "TIMEOUT").out = x.out
      BY <2>1, RaiseType
    <2>4. Delayed(x) \in BlockOf(In, Out) /\ Unmoved(x, Delayed(x)) /\ Delayed(x).out = x.out
      BY <2>1, <2>2, LateType DEF Delayed
    <2> QED
      BY <2>1, <2>3, <2>4, SameStreamTransitive DEF x
  <1>6. CASE TimerExpires(p)
    <2>1. PICK i \in DOMAIN s.rtq : tcb' = [tcb EXCEPT ![p] = Raise(Expired(s, i), "TIMEOUT")]
      BY <1>6 DEF TimerExpires, s
    <2>2. net' = net /\ expiries' = expiries /\ faults' = faults
      BY <1>6 DEF TimerExpires
    <2> QED
      BY <1>2, <1>3, <1>5, <2>1, <2>2
  <1>7. CASE EarlyTimer(p)
    <2>1. PICK i \in DOMAIN s.rtq :
            \/ tcb' = [tcb EXCEPT ![p] = Raise(Expired(s, i), "TIMEOUT")]
            \/ tcb' = [tcb EXCEPT ![p] = Delayed(Expired(s, i))]
      BY <1>7 DEF EarlyTimer, s
    <2>2. net' = net /\ expiries' = expiries + 1 /\ expiries < MaxExpiries /\ faults' = faults
      BY <1>7 DEF EarlyTimer
    <2>3. expiries' \in 0 .. MaxExpiries
      BY <1>2, <2>2, TcpAssumption
    <2> QED
      BY <1>3, <1>5, <2>1, <2>2, <2>3
  <1>8. CASE LateTimer(p)
    <2> DEFINE y == [s EXCEPT !.late = @ - 1]
    <2>1. /\ tcb' = [tcb EXCEPT ![p] = Raise(y, "TIMEOUT")]
          /\ s.late > 0
      BY <1>8 DEF LateTimer, s
    <2>2. net' = net /\ expiries' = expiries + 1 /\ expiries < MaxExpiries /\ faults' = faults
      BY <1>8 DEF LateTimer
    <2>3. expiries' \in 0 .. MaxExpiries
      BY <1>2, <2>2, TcpAssumption
    <2>4. s.late - 1 \in Nat
      BY <1>4, <2>1
    <2>5. Fits(y)
      BY <1>1, <2>4, LateType
    <2> HIDE DEF y
    <2>6. /\ Raise(y, "TIMEOUT") \in BlockOf(In, Out) /\ Unmoved(y, Raise(y, "TIMEOUT"))
          /\ Raise(y, "TIMEOUT").out = y.out
      BY <2>5, RaiseType
    <2>7. Fits(Raise(y, "TIMEOUT"))
      BY <2>5, <2>6, SameStreamTransitive
    <2> QED
      BY <1>3, <2>1, <2>2, <2>3, <2>7
  <1> QED
    BY <1>6, <1>7, <1>8 DEF Timers

(* The writer puts bytes into the free part of the send buffer.            *)
LEMMA FillSound ==
  ASSUME NEW iss \in Nat, NEW w \in Nat, NEW c \in BOOLEAN,
         NEW s, Sound(s, iss, w, c), StateSound(s, iss),
         ~s.closing, "APPLICATION_CLOSE" \notin s.flags, NEW n \in Nat
  PROVE  LET t == Fill(s, n)
         IN /\ Sound(t, iss, w, c) /\ StateSound(t, iss)
            /\ t.iss = s.iss /\ t.out = s.out /\ s.wrote <= t.wrote
  <1> DEFINE k     == Lesser(n, BufSize - Unsent(s))
             wrote == s.wrote + k
             rem   == n - k
             u     == [s EXCEPT !.wrote = wrote, !.rem = rem]
             In    == SentBy(iss, w, c)
             Out   == SentBy(s.iss, s.wrote, s.closing)
             Out2  == SentBy(s.iss, wrote, s.closing)
  <1>1. /\ s.wrote \in Nat /\ s.taken \in Nat /\ s.iss \in Nat /\ s.closing \in BOOLEAN
        /\ s.taken <= s.wrote /\ s.wrote <= s.taken + BufSize
    BY SoundFields DEF Sound, BuffersSound
  <1>2. /\ k \in Nat /\ k <= n /\ k <= BufSize - (s.wrote - s.taken)
        /\ wrote \in Nat /\ rem \in Nat /\ s.wrote <= wrote
        /\ s.taken <= wrote /\ wrote <= s.taken + BufSize
    BY <1>1, TcbAssumption DEF Lesser, Unsent
  <1> HIDE DEF k, wrote, rem
  <1>3. Out \subseteq Out2
    <2>1. SentBy(s.iss, s.wrote, FALSE) \subseteq SentBy(s.iss, wrote, FALSE)
      <3>1. FALSE => FALSE /\ wrote = s.wrote
        OBVIOUS
      <3> QED
        BY <1>1, <1>2, <3>1, SentByMonotonic
    <2>2. s.closing = FALSE
      BY <1>1
    <2> QED
      BY <2>1, <2>2
  <1>4. s \in BlockOf(In, Out)
    BY DEF Sound
  <1> HIDE DEF In, Out, Out2
  <1>5. s \in BlockOf(In, Out2)
    BY <1>3, <1>4, BlockMonotonic
  <1>6. /\ u \in BlockOf(In, Out2)
        /\ u.iss = s.iss /\ u.wrote = wrote /\ u.closing = s.closing
        /\ u.taken = s.taken /\ u.nxt = s.nxt /\ u.thr = s.thr
        /\ u.rem = rem /\ u.finsent = s.finsent /\ u.eof = s.eof
        /\ u.rd = s.rd /\ u.got = s.got /\ u.rnxt = s.rnxt
        /\ u.flags = s.flags /\ u.state = s.state /\ u.out = s.out
    BY <1>2, <1>5 DEF BlockOf
  <1>7. Fill(s, n) \in {u, Raise(u, "APPLICATION_SEND")}
    BY DEF Fill, k, wrote, rem
  <1> HIDE DEF u
  <1>8. Sound(u, iss, w, c)
    <2>1. BuffersSound(u)
      BY <1>2, <1>6 DEF Sound, BuffersSound
    <2>2. SenderSound(u)
      BY <1>6 DEF Sound, SenderSound, Running
    <2>3. ReceiverSound(u, w, c)
      BY <1>6 DEF Sound, ReceiverSound
    <2>4. SentBy(u.iss, u.wrote, u.closing) = Out2
      BY <1>6 DEF Out2
    <2> QED
      BY <1>6, <2>1, <2>2, <2>3, <2>4 DEF Sound, In
  <1>9. StateSound(u, iss)
    BY <1>6 DEF StateSound, Synced
  <1> DEFINE x == Raise(u, "APPLICATION_SEND")
  <1>10. /\ x \in BlockOf(SentBy(iss, w, c), SentBy(u.iss, u.wrote, u.closing))
         /\ Unmoved(u, x) /\ x.out = u.out
    BY <1>8, RaiseType DEF Sound
  <1> HIDE DEF x
  <1>11. /\ Sound(x, iss, w, c) /\ StateSound(x, iss)
         /\ x.iss = u.iss /\ x.wrote = u.wrote
    BY <1>8, <1>9, <1>10, UnmovedSound
  <1>12. CASE Fill(s, n) = u
    BY <1>2, <1>6, <1>8, <1>9, <1>12
  <1>13. CASE Fill(s, n) = x
    BY <1>2, <1>6, <1>10, <1>11, <1>13
  <1> QED
    BY <1>7, <1>12, <1>13 DEF x

(* The reader takes bytes that are there.                                  *)
LEMMA ReadSound ==
  ASSUME NEW iss \in Nat, NEW w \in Nat, NEW c \in BOOLEAN,
         NEW s, Sound(s, iss, w, c), StateSound(s, iss),
         NEW n \in Nat, n <= Len(s.got) - s.rd
  PROVE  LET t == [s EXCEPT !.rd = @ + n]
         IN /\ Sound(t, iss, w, c) /\ StateSound(t, iss)
            /\ t.iss = s.iss /\ t.out = s.out
            /\ t.wrote = s.wrote /\ t.closing = s.closing
  <1> DEFINE rd  == s.rd + n
             t   == [s EXCEPT !.rd = rd]
             In  == SentBy(iss, w, c)
             Out == SentBy(s.iss, s.wrote, s.closing)
  <1>1. /\ s.rd \in Nat /\ Len(s.got) \in Nat
        /\ Len(s.got) <= s.rd + BufSize
    BY SoundFields DEF Sound, BuffersSound
  <1>2. rd \in Nat /\ rd <= Len(s.got) /\ Len(s.got) <= rd + BufSize
    BY <1>1, TcbAssumption
  <1>3. s \in BlockOf(In, Out)
    BY DEF Sound
  <1> HIDE DEF rd, In, Out
  <1>4. /\ t \in BlockOf(In, Out)
        /\ t.iss = s.iss /\ t.wrote = s.wrote /\ t.closing = s.closing
        /\ t.taken = s.taken /\ t.nxt = s.nxt /\ t.thr = s.thr
        /\ t.rem = s.rem /\ t.finsent = s.finsent /\ t.eof = s.eof
        /\ t.rd = rd /\ t.got = s.got /\ t.rnxt = s.rnxt
        /\ t.flags = s.flags /\ t.state = s.state /\ t.out = s.out
    BY <1>2, <1>3 DEF BlockOf
  <1> HIDE DEF t
  <1>5. BuffersSound(t)
    BY <1>2, <1>4 DEF Sound, BuffersSound
  <1>6. SenderSound(t)
    BY <1>4 DEF Sound, SenderSound, Running
  <1>7. ReceiverSound(t, w, c)
    BY <1>4 DEF Sound, ReceiverSound
  <1>8. Sound(t, iss, w, c) /\ StateSound(t, iss)
    BY <1>4, <1>5, <1>6, <1>7 DEF Sound, In, Out, StateSound, Synced
  <1> QED
    BY <1>4, <1>8 DEF t, rd

(* send, recv and close keep the invariant.                                *)
LEMMA ApplicationKeepsInv ==
  ASSUME Inv, NEW p \in Peer, Application(p)
  PROVE  Inv'
  <1> DEFINE q == Other(p)
             w == tcb[q].wrote
             c == tcb[q].closing
             s == tcb[p]
  <1>1. /\ ISS[q] \in Nat /\ w \in Nat /\ c \in BOOLEAN
        /\ Sound(s, ISS[q], w, c) /\ StateSound(s, ISS[q])
        /\ s.iss = ISS[p] /\ s.out = <<>> /\ s.wrote \in Nat
        /\ net \in [Peer -> Seq(Segment)] /\ net[p] \in Seq(Sent(q))
        /\ expiries \in 0 .. MaxExpiries /\ faults \in 0 .. MaxFaults
    BY InvOf
  <1>2. ASSUME NEW t, Update(p, t), Sound(t, ISS[q], w, c), StateSound(t, ISS[q]),
               t.iss = s.iss, t.out = s.out, s.wrote <= t.wrote,
               s.closing => t.closing /\ t.wrote = s.wrote
        PROVE  Inv'
    <2>1. /\ tcb' = [tcb EXCEPT ![p] = t]
          /\ net' = net /\ expiries' = expiries /\ faults' = faults
      BY <1>2 DEF Update
    <2> QED
      BY <1>1, <1>2, <2>1, LocalKeepsInv
  <1>3. ASSUME NEW n \in Nat, Update(p, Fill(s, n)),
               ~s.closing, "APPLICATION_CLOSE" \notin s.flags
        PROVE  Inv'
    <2> DEFINE t == Fill(s, n)
    <2>1. /\ Sound(t, ISS[q], w, c) /\ StateSound(t, ISS[q])
          /\ t.iss = s.iss /\ t.out = s.out /\ s.wrote <= t.wrote
      <3> HIDE DEF s, w, c, q
      <3> QED
        BY <1>1, <1>3, FillSound
    <2> HIDE DEF t
    <2> QED
      BY <1>2, <1>3, <2>1 DEF t
  <1>4. ASSUME NEW n \in 1 .. BufSize, SocketSend(p, n)
        PROVE  Inv'
    <2>1. n \in Nat
      BY TcbAssumption
    <2> QED
      BY <1>3, <1>4, <2>1 DEF SocketSend
  <1>5. CASE SocketSendResumes(p)
    <2>1. s.rem > 0 /\ Update(p, Fill(s, s.rem))
      BY <1>5 DEF SocketSendResumes
    <2>2. s.rem \in Nat
      BY <1>1, SoundFields
    <2>3. s.rem # 0
      BY <2>1
    <2>4. ~s.closing /\ "APPLICATION_CLOSE" \notin s.flags
      BY <1>1, <2>3 DEF Sound, SenderSound
    <2> QED
      BY <1>3, <2>1, <2>2, <2>4
  <1>6. ASSUME NEW n \in 1 .. BufSize, SocketRecv(p, n)
        PROVE  Inv'
    <2> DEFINE r == [s EXCEPT !.rd = @ + n]
               x == Raise(r, "APPLICATION_RECEIVE")
    <2>1. n \in Nat /\ n <= Len(s.got) - s.rd
      BY <1>6, TcbAssumption DEF SocketRecv
    <2>2. Update(p, r) \/ Update(p, x)
      BY <1>6 DEF SocketRecv
    <2>3. /\ Sound(r, ISS[q], w, c) /\ StateSound(r, ISS[q])
          /\ r.iss = s.iss /\ r.out = s.out
          /\ r.wrote = s.wrote /\ r.closing = s.closing
      <3> HIDE DEF s, w, c, q
      <3> QED
        BY <1>1, <2>1, ReadSound
    <2> HIDE DEF r
    <2>4. /\ x \in BlockOf(SentBy(ISS[q], w, c), SentBy(r.iss, r.wrote, r.closing))
          /\ Unmoved(r, x) /\ x.out = r.out
      BY <2>3, RaiseType DEF Sound
    <2> HIDE DEF x
    <2>5. /\ Sound(x, ISS[q], w, c) /\ StateSound(x, ISS[q])
          /\ x.iss = r.iss /\ x.wrote = r.wrote /\ x.closing = r.closing
      <3> HIDE DEF w, c, q
      <3> QED
        BY <1>1, <2>3, <2>4, UnmovedSound
    <2>6. s.wrote <= r.wrote /\ s.wrote <= x.wrote
      BY <1>1, <2>3, <2>5
    <2> QED
      BY <1>2, <2>2, <2>3, <2>4, <2>5, <2>6
  <1>7. CASE SocketClose(p)
    <2> DEFINE f == s.flags \cup {"APPLICATION_CLOSE"}
               t == [s EXCEPT !.flags = f]
    <2>1. Update(p, t) /\ s.rem = 0
      BY <1>7 DEF SocketClose, Raise
    <2>2. s \in BlockOf(SentBy(ISS[q], w, c), SentBy(s.iss, s.wrote, s.closing))
      BY <1>1 DEF Sound
    <2>3. f \in SUBSET Flag /\ ("APPLICATION_CONNECT" \in f <=> "APPLICATION_CONNECT" \in s.flags)
      BY <2>2 DEF BlockOf, Flag
    <2> HIDE DEF f, s, w, c, q
    <2>4. /\ t \in BlockOf(SentBy(ISS[q], w, c), SentBy(s.iss, s.wrote, s.closing))
          /\ t.iss = s.iss /\ t.wrote = s.wrote /\ t.closing = s.closing
          /\ t.taken = s.taken /\ t.nxt = s.nxt /\ t.thr = s.thr
          /\ t.rem = s.rem /\ t.finsent = s.finsent /\ t.eof = s.eof
          /\ t.rd = s.rd /\ t.got = s.got /\ t.rnxt = s.rnxt
          /\ t.flags = f /\ t.state = s.state /\ t.out = s.out
      BY <2>2, <2>3 DEF BlockOf
    <2> HIDE DEF t
    <2>5. BuffersSound(t) /\ ReceiverSound(t, w, c)
      BY <1>1, <2>4 DEF Sound, BuffersSound, ReceiverSound
    <2>6. SenderSound(t)
      BY <1>1, <2>1, <2>4 DEF Sound, SenderSound, Running
    <2>7. Sound(t, ISS[q], w, c)
      BY <2>4, <2>5, <2>6 DEF Sound
    <2>8. StateSound(t, ISS[q])
      BY <1>1, <2>3, <2>4 DEF StateSound, Synced
    <2>9. s.wrote <= t.wrote
      BY <1>1, <2>4
    <2> QED
      BY <1>2, <2>1, <2>4, <2>7, <2>8, <2>9
  <1> QED
    BY <1>4, <1>5, <1>6, <1>7 DEF Application

(* A packet of the network is stored with the block, once or twice, or not *)
(* at all.                                                                 *)
LEMMA StoreType ==
  ASSUME NEW In, NEW Out, NEW s \in BlockOf(In, Out),
         NEW x \in Seq(In), NEW y \in Seq(In),
         NEW t, t = [s EXCEPT !.held = x, !.pend = y]
  PROVE  t \in BlockOf(In, Out) /\ Unmoved(s, t)
  BY DEF BlockOf, Unmoved, SameStream, Running

(* A packet that arrives is stored with the block, once or twice, or not   *)
(* at all.                                                                 *)
LEMMA ConnectionStores ==
  ASSUME NEW In, NEW Out, NEW p \in Peer, tcb \in [Peer -> Block],
         tcb[p] \in BlockOf(In, Out), net[p] \in Seq(In), DOMAIN net = Peer, Connection(p)
  PROVE  /\ net' = [net EXCEPT ![p] = Tail(net[p])] /\ expiries' = expiries
         /\ net[p] # <<>> /\ Tail(net[p]) \in Seq(In)
         /\ \E t \in BlockOf(In, Out) :
              /\ tcb' = [tcb EXCEPT ![p] = t]
              /\ Still(tcb[p], t) /\ t.out = tcb[p].out /\ t.rtq = tcb[p].rtq
  <1> DEFINE s   == tcb[p]
             g   == Head(net[p])
             Stored(x, y) == [s EXCEPT !.held = x, !.pend = y]
  <1>1. s \in BlockOf(In, Out)
    OBVIOUS
  <1>3. s.held \in Seq(In) /\ s.pend \in Seq(In)
    BY <1>1 DEF BlockOf
  <1>4. net[p] # <<>> /\ Received(p)
    BY DEF Arriving, Connection, EnqueuePacket, NoSocket, DropPacket, WithholdPacket,
           DuplicatePacket, DrawWithheld, Fault
  <1>5. g \in In /\ Tail(net[p]) \in Seq(In)
    BY <1>4, HeadTailProperties
  <1>6. PICK x \in Seq(In), y \in Seq(In) : tcb' = [tcb EXCEPT ![p] = Stored(x, y)]
    <2> DEFINE one  == Append(s.pend, g)
               kept == Append(s.held, g)
               both == s.pend \o <<Head(s.held), g>>
    <2>1. one \in Seq(In) /\ kept \in Seq(In)
      BY <1>3, <1>5, AppendProperties
    <2>2. CASE tcb' = tcb
      <3>1. Stored(s.held, s.pend) = s
        BY <1>1 DEF BlockOf
      <3>2. tcb' = [tcb EXCEPT ![p] = s]
        BY <2>2
      <3> QED
        BY <1>3, <3>1, <3>2
    <2>3. CASE EnqueuePacket(p)
      <3>1. tcb' = [tcb EXCEPT ![p] = Stored(s.held, one)]
        <4>1. tcb' = [tcb EXCEPT ![p] = [s EXCEPT !.pend = one]]
          BY <2>3 DEF EnqueuePacket
        <4>2. Stored(s.held, one) = [s EXCEPT !.pend = one]
          BY <1>1 DEF BlockOf
        <4> QED
          BY <4>1, <4>2
      <3> QED
        BY <1>3, <2>1, <3>1
    <2>4. CASE WithholdPacket(p)
      <3>1. tcb' = [tcb EXCEPT ![p] = Stored(kept, s.pend)]
        <4>1. tcb' = [tcb EXCEPT ![p] = [s EXCEPT !.held = kept]]
          BY <2>4 DEF WithholdPacket
        <4>2. Stored(kept, s.pend) = [s EXCEPT !.held = kept]
          BY <1>1 DEF BlockOf
        <4> QED
          BY <4>1, <4>2
      <3> QED
        BY <1>3, <2>1, <3>1
    <2>5. CASE DuplicatePacket(p)
      <3>1. tcb' = [tcb EXCEPT ![p] = Stored(kept, one)]
        BY <1>1, <2>5 DEF DuplicatePacket
      <3> QED
        BY <2>1, <3>1
    <2>6. CASE DrawWithheld(p)
      <3>1. s.held # <<>>
        BY <2>6 DEF DrawWithheld
      <3>2. Head(s.held) \in In /\ Tail(s.held) \in Seq(In)
        BY <1>3, <3>1, HeadTailProperties
      <3>3. <<Head(s.held), g>> \in Seq(In)
        <4> HIDE DEF g, s
        <4> QED BY <1>5, <3>2
      <3>4. both \in Seq(In)
        BY <1>3, <3>3, ConcatProperties
      <3>5. tcb' = [tcb EXCEPT ![p] = Stored(Tail(s.held), both)]
        BY <1>1, <2>6 DEF DrawWithheld
      <3> QED
        BY <3>2, <3>4, <3>5
    <2> QED
      BY <2>2, <2>3, <2>4, <2>5, <2>6 DEF Connection, NoSocket, DropPacket
  <1> DEFINE t == Stored(x, y)
  <1>7. t \in BlockOf(In, Out) /\ Still(s, t) /\ t.out = s.out /\ t.rtq = s.rtq
    <2>1. t = [s EXCEPT !.held = x, !.pend = y]
      OBVIOUS
    <2> HIDE DEF s, t, Stored
    <2>2. t \in BlockOf(In, Out) /\ Unmoved(s, t)
      BY <1>1, <2>1, StoreType
    <2>3. t.una = s.una /\ t.irs = s.irs /\ t.thr = s.thr /\ t.out = s.out /\ t.rtq = s.rtq
      BY <1>1, <2>1 DEF BlockOf
    <2> QED
      BY <2>2, <2>3 DEF Still
  <1>8. tcb' = [tcb EXCEPT ![p] = t]
    BY <1>6
  <1> HIDE DEF t, Stored
  <1> QED
    BY <1>4, <1>5, <1>7, <1>8 DEF Received

(* Whatever becomes of a packet that arrives, it is one that the peer sent. *)
LEMMA ConnectionKeepsInv ==
  ASSUME Inv, NEW p \in Peer, Connection(p)
  PROVE  Inv'
  <1> DEFINE q   == Other(p)
             In  == Sent(q)
             Out == Sent(p)
  <1>1. tcb[p] \in BlockOf(In, Out) /\ q \in Peer /\ q # p
    BY BlockOfSent, PeerFacts
  <1>2. /\ net \in [Peer -> Seq(Segment)] /\ net[p] \in Seq(In) /\ tcb \in [Peer -> Block]
        /\ DOMAIN net = Peer
        /\ expiries \in 0 .. MaxExpiries /\ faults \in 0 .. MaxFaults
    BY InvOf DEF Inv, TypeOK
  <1> HIDE DEF In, Out
  <1>3. /\ net' = [net EXCEPT ![p] = Tail(net[p])] /\ expiries' = expiries
        /\ net[p] # <<>> /\ Tail(net[p]) \in Seq(In)
    BY <1>1, <1>2, ConnectionStores
  <1>4. PICK t \in BlockOf(In, Out) :
          tcb' = [tcb EXCEPT ![p] = t] /\ Still(tcb[p], t) /\ t.out = tcb[p].out
    BY <1>1, <1>2, ConnectionStores
  <1>5. /\ net' \in [Peer -> Seq(Segment)] /\ net'[p] \in Seq(In)
        /\ net'[q] = net[q]
    <2>1. Tail(net[p]) \in Seq(Segment)
      BY <1>2, <1>3, HeadTailProperties
    <2> QED
      BY <1>1, <1>2, <1>3, <2>1
  <1>6. faults' \in 0 .. MaxFaults
    <2>1. \/ faults' = faults
          \/ faults < MaxFaults /\ faults' = faults + 1
      BY DEF Connection, EnqueuePacket, NoSocket, DropPacket, WithholdPacket,
             DuplicatePacket, DrawWithheld, Fault
    <2> QED
      BY <1>2, <2>1, TcpAssumption
  <1> QED
    BY <1>2, <1>3, <1>4, <1>5, <1>6, UnmovedKeepsInv DEF Still, In, Out

-----------------------------------------------------------------------------
(***************************************************************************)
(* The theorems.                                                           *)
(***************************************************************************)

(* A fresh block is sound.                                                 *)
LEMMA NewBlockSound ==
  ASSUME NEW iss \in Nat, NEW peer \in Nat,
         NEW st \in {"CLOSED", "LISTEN"},
         NEW fl \in {{}, {"APPLICATION_CONNECT"}},
         fl # {} => st = "CLOSED",
         NEW room \in Nat,
         NEW s, s = NewBlock(st, iss, room, fl)
  PROVE  Sound(s, peer, 0, FALSE) /\ StateSound(s, peer)
  <1>1. /\ s.state = st /\ s.thr = "run" /\ s.flags = fl
        /\ s.iss = iss /\ s.nxt = iss + 1 /\ s.taken = 0 /\ s.wrote = 0
        /\ s.rem = 0 /\ s.got = <<>> /\ s.rd = 0 /\ s.closing = FALSE
        /\ s.finsent = FALSE /\ s.eof = FALSE /\ s.out = <<>>
    BY DEF NewBlock
  <1>2. /\ st \in TcpState /\ "run" \in Thread /\ fl \in SUBSET Flag
        /\ iss + 1 \in Nat /\ BufSize \in Nat
        /\ \A T : <<>> \in Seq(T)
    BY TcbAssumption, EmptySeq DEF TcpState, Thread, Flag
  <1>3. ASSUME NEW I, NEW O
        PROVE  s \in BlockOf(I, O)
    <2>1. <<>> \in Seq(I) /\ <<>> \in Seq(O) /\ <<>> \in Seq(Member(O)) /\ <<>> \in Seq(Nat)
      BY <1>2
    <2> QED
      BY <1>2, <2>1 DEF NewBlock, BlockOf
  <1>4. Len(s.got) = 0
    BY <1>1, EmptySeq
  <1>5. BuffersSound(s) /\ SenderSound(s) /\ ReceiverSound(s, 0, FALSE)
    BY <1>1, <1>2, <1>4 DEF BuffersSound, SenderSound, ReceiverSound, Running
  <1>6. StateSound(s, peer)
    BY <1>1, <1>4 DEF StateSound, Synced
  <1> QED
    BY <1>1, <1>3, <1>5, <1>6 DEF Sound

(* The connection starts in a state of the invariant.                      *)
LEMMA InitInv == Init => Inv
  <1> SUFFICES ASSUME Init
               PROVE  Inv
    OBVIOUS
  <1>1. /\ \A p \in Peer : net[p] = <<>>
        /\ net \in [Peer -> Seq(Segment)]
        /\ expiries \in 0 .. MaxExpiries /\ faults \in 0 .. MaxFaults
    BY TcpAssumption, EmptySeq DEF Init
  <1>2. ASSUME NEW p \in Peer
        PROVE  /\ Sound(tcb[p], ISS[Other(p)], 0, FALSE)
               /\ StateSound(tcb[p], ISS[Other(p)])
               /\ tcb[p].iss = ISS[p] /\ tcb[p].out = <<>>
               /\ tcb[p].wrote = 0 /\ tcb[p].closing = FALSE
    <2>1. ISS[p] \in Nat /\ ISS[Other(p)] \in Nat /\ BufSize \in Nat /\ 0 \in Nat
      BY PeerFacts, TcbAssumption
    <2>2. CASE p = Client
      <3> DEFINE s == tcb[p]
      <3>1. s = NewBlock("CLOSED", ISS[p], BufSize, {"APPLICATION_CONNECT"})
        BY <2>2 DEF Init
      <3>2. s.iss = ISS[p] /\ s.out = <<>> /\ s.wrote = 0 /\ s.closing = FALSE
        BY <3>1 DEF NewBlock
      <3> HIDE DEF s
      <3>3. Sound(s, ISS[Other(p)], 0, FALSE) /\ StateSound(s, ISS[Other(p)])
        BY <2>1, <3>1, NewBlockSound
      <3> QED
        BY <3>2, <3>3 DEF s
    <2>3. CASE p # Client
      <3> DEFINE s == tcb[p]
      <3>1. s = NewBlock("LISTEN", ISS[p], 0, {})
        BY <2>3 DEF Init
      <3>2. s.iss = ISS[p] /\ s.out = <<>> /\ s.wrote = 0 /\ s.closing = FALSE
        BY <3>1 DEF NewBlock
      <3> HIDE DEF s
      <3>3. Sound(s, ISS[Other(p)], 0, FALSE) /\ StateSound(s, ISS[Other(p)])
        BY <2>1, <3>1, NewBlockSound
      <3> QED
        BY <3>2, <3>3 DEF s
    <2> QED
      BY <2>2, <2>3
  <1>3. tcb \in [Peer -> Block]
    <2>1. ASSUME NEW p \in Peer
          PROVE  tcb[p] \in Block
      <3> DEFINE In  == SentBy(ISS[Other(p)], 0, FALSE)
                 Out == SentBy(tcb[p].iss, tcb[p].wrote, tcb[p].closing)
                 s   == tcb[p]
      <3>1. s \in BlockOf(In, Out)
        BY <1>2 DEF Sound
      <3>2. In \subseteq Segment /\ Out \subseteq Segment
        BY SentIsSegment
      <3> HIDE DEF In, Out, s
      <3>3. s \in BlockOf(Segment, Segment)
        BY <3>1, <3>2, BlockMonotonic
      <3> QED
        BY <3>3 DEF Block, s
    <2> QED
      BY <2>1 DEF Init
  <1>4. ASSUME NEW p \in Peer
        PROVE  SocketInv(p)
    <2>1. /\ Other(p) \in Peer
          /\ tcb[Other(p)].wrote = 0 /\ tcb[Other(p)].closing = FALSE
      BY <1>2, PeerFacts
    <2>2. net[p] \in Seq(Sent(Other(p)))
      BY <1>1, EmptySeq
    <2> QED
      BY <1>2, <2>1, <2>2 DEF SocketInv
  <1> QED
    BY <1>1, <1>3, <1>4 DEF Inv, TypeOK

(* Every step keeps the invariant.                                         *)
LEMMA NextKeepsInv == Inv /\ [Next]_vars => Inv'
  <1> SUFFICES ASSUME Inv, [Next]_vars
               PROVE  Inv'
    OBVIOUS
  <1>1. CASE UNCHANGED vars
    BY <1>1 DEF vars, Inv, TypeOK, SocketInv, Sent
  <1>2. CASE Next
    BY <1>2, TcpThreadKeepsInv, TimersKeepInv, ApplicationKeepsInv,
       ConnectionKeepsInv DEF Next
  <1> QED
    BY <1>1, <1>2

(* Inv holds in every state a connection can reach.                        *)
THEOREM Invariance == Spec => []Inv
  BY InitInv, NextKeepsInv, PTL DEF Spec

(* Every field of the control blocks and of the segments keeps its type:   *)
(* no sequence number, window or count of bytes ever becomes negative.     *)
THEOREM TypeCorrect == Spec => []TypeOK
  <1>1. Inv => TypeOK
    BY DEF Inv
  <1> QED
    BY <1>1, Invariance, PTL

(* chitcpd sends its FIN only when the application has closed and          *)
(* everything it wrote has been taken out of the send buffer.              *)
THEOREM FinComesLast == Spec => []FinIsLast
  <1>1. Inv => FinIsLast
    <2> SUFFICES ASSUME Inv, NEW p \in Peer, tcb[p].finsent
                 PROVE  tcb[p].closing /\ Unsent(tcb[p]) = 0
      BY DEF FinIsLast
    <2>1. Sound(tcb[p], ISS[Other(p)], tcb[Other(p)].wrote, tcb[Other(p)].closing)
      BY InvOf
    <2>2. tcb[p].closing /\ tcb[p].taken = tcb[p].wrote
      BY <2>1 DEF Sound, SenderSound
    <2>3. tcb[p].wrote \in Nat
      BY <2>1, SoundFields
    <2> QED
      BY <2>2, <2>3 DEF Unsent
  <1> QED
    BY <1>1, Invariance, PTL

-----------------------------------------------------------------------------
(***************************************************************************)
(* The two sockets together: every step keeps Agreement, given Inv.        *)
(***************************************************************************)

(* What the application did: it wrote, and did nothing else.               *)
Written(s, t) ==
  /\ ~s.closing /\ s.wrote < t.wrote
  /\ t.closing = s.closing /\ t.got = s.got /\ t.eof = s.eof

(* What p can have sent so far, as far as its peer is concerned.           *)
Carried(p) == Carries(tcb[p].rnxt, ISS[Other(p)], tcb[p].taken)

(* A step by which the block of p becomes t.                               *)
Steps(p, t) ==
  /\ tcb' = [tcb EXCEPT ![p] = t]
  /\ Agreed(t, ISS[Other(p)], tcb[Other(p)].rnxt, tcb[Other(p)].taken)
  /\ Grows(tcb[p], t) /\ Ages(tcb[p], t)
  /\ OneEffect(tcb[p], t) \/ Written(tcb[p], t)
  /\ net'[p] \in Seq(Carried(Other(p)))
  /\ net'[Other(p)] \in Seq(Carries(t.rnxt, ISS[Other(p)], t.taken))

(* What Agreement says of one socket.                                      *)
LEMMA AgreementOf ==
  ASSUME Inv, Agreement, NEW p \in Peer
  PROVE  /\ Agreed(tcb[p], ISS[Other(p)], tcb[Other(p)].rnxt, tcb[Other(p)].taken)
         /\ Agreed(tcb[Other(p)], ISS[p], tcb[p].rnxt, tcb[p].taken)
         /\ net[p] \in Seq(Carried(Other(p))) /\ net[Other(p)] \in Seq(Carried(p))
         /\ tcb[Other(p)].rnxt \in Nat /\ tcb[Other(p)].taken \in Nat
         /\ tcb[p].rnxt \in Nat /\ tcb[p].taken \in Nat
         /\ tcb[p].iss = ISS[p] /\ tcb[Other(p)].iss = ISS[Other(p)]
         /\ tcb \in [Peer -> Block] /\ DOMAIN net = Peer
  <1>1. Other(p) \in Peer /\ Other(Other(p)) = p
    BY PeerFacts
  <1>2. /\ Agreed(tcb[p], ISS[Other(p)], tcb[Other(p)].rnxt, tcb[Other(p)].taken)
        /\ Agreed(tcb[Other(p)], ISS[p], tcb[p].rnxt, tcb[p].taken)
        /\ net[p] \in Seq(Carried(Other(p))) /\ net[Other(p)] \in Seq(Carried(p))
    BY <1>1 DEF Agreement, Carried
  <1>3. /\ tcb[Other(p)].rnxt \in Nat /\ tcb[Other(p)].taken \in Nat
        /\ tcb[p].rnxt \in Nat /\ tcb[p].taken \in Nat
    BY <1>2, AgreedFields DEF Agreed
  <1> QED
    BY <1>1, <1>2, <1>3 DEF Inv, SocketInv, TypeOK

(* A socket still agrees with its peer when the peer has moved on.         *)
LEMMA PeerGrows ==
  ASSUME NEW iss \in Nat, NEW n \in Nat, NEW k \in Nat, NEW m \in Nat, NEW j \in Nat,
         NEW s, Agreed(s, iss, n, k), n <= m, k <= j, m <= s.iss + 1 + s.taken
  PROVE  Agreed(s, iss, m, j)
  <1>1. EndsAgree(s, iss, n, k) /\ StateAgrees(s, iss)
    BY DEF Agreed
  <1>2. s.iss \in Nat /\ s.una \in Nat /\ Len(s.got) \in Nat
    BY <1>1, AgreedFields
  <1>3. s \in BlockOf(Carries(m, s.iss, j), Carries(s.rnxt, iss, s.taken))
    <2> DEFINE In == Carries(n, s.iss, k)
               In2 == Carries(m, s.iss, j)
               Out == Carries(s.rnxt, iss, s.taken)
    <2>1. In \subseteq In2
      BY <1>2, CarriesMonotonic, SMTT(30)
    <2>2. s \in BlockOf(In, Out)
      BY <1>1 DEF EndsAgree
    <2> HIDE DEF In, In2, Out
    <2> QED
      BY <2>1, <2>2, BlockMonotonic DEF In2, Out
  <1>4. \A a, b, c \in Nat : a <= b /\ b <= c => a <= c
    OBVIOUS
  <1>5. Len(s.got) <= j /\ (s.una > s.iss => s.una <= m)
    BY <1>1, <1>2, <1>4 DEF EndsAgree
  <1> QED
    BY <1>1, <1>3, <1>5 DEF Agreed, EndsAgree

(* Agreement is kept by every step of this form.                           *)
LEMMA StepsKeepAgreement ==
  ASSUME Inv, Agreement, NEW p \in Peer, NEW t, Steps(p, t)
  PROVE  Agreement'
  <1> DEFINE q == Other(p)
             s == tcb[p]
             n == tcb[q].rnxt
             k == tcb[q].taken
  <1>1. /\ q \in Peer /\ q # p /\ Other(q) = p /\ \A x \in Peer : x = p \/ x = q
        /\ ISS[p] \in Nat /\ ISS[q] \in Nat
    BY PeerFacts
  <1>2. /\ Agreed(tcb[q], ISS[p], s.rnxt, s.taken) /\ tcb[q].iss = ISS[q]
        /\ n \in Nat /\ k \in Nat /\ s.rnxt \in Nat /\ s.taken \in Nat /\ tcb \in [Peer -> Block]
    BY AgreementOf
  <1>3. /\ Agreed(t, ISS[q], n, k) /\ s.rnxt <= t.rnxt /\ s.taken <= t.taken
        /\ tcb' = [tcb EXCEPT ![p] = t]
        /\ net'[p] \in Seq(Carries(n, ISS[p], k))
        /\ net'[q] \in Seq(Carries(t.rnxt, ISS[q], t.taken))
    BY <1>1 DEF Steps, Grows, Carried
  <1>4. tcb'[p] = t /\ tcb'[q] = tcb[q]
    BY <1>1, <1>2, <1>3
  <1>5. t.rnxt \in Nat /\ t.taken \in Nat /\ Len(t.got) \in Nat /\ EndsAgree(t, ISS[q], n, k)
    BY <1>3, AgreedFields DEF Agreed
  <1>6. t.rnxt <= ISS[q] + 1 + k
    <2>1. \A a, b, c \in Nat : a <= b => c + 1 + a <= c + 1 + b /\ 0 <= c + 1 + b
      OBVIOUS
    <2>2. t.rnxt = 0 \/ t.rnxt = ISS[q] + 1 + Len(t.got)
      BY <1>5 DEF EndsAgree, Met, Synced
    <2>3. Len(t.got) <= k
      BY <1>5 DEF EndsAgree
    <2> QED
      BY <1>1, <1>2, <1>5, <2>1, <2>2, <2>3
  <1> HIDE DEF s, n, k
  <1>7. Agreed(tcb[q], ISS[p], t.rnxt, t.taken)
    <2>1. t.rnxt <= tcb[q].iss + 1 + tcb[q].taken
      BY <1>2, <1>6 DEF k
    <2> QED
      BY <1>1, <1>2, <1>3, <1>5, <2>1, PeerGrows
  <1>8. /\ Agreed(tcb'[p], ISS[q], tcb'[q].rnxt, tcb'[q].taken)
        /\ net'[p] \in Seq(Carries(tcb'[q].rnxt, ISS[p], tcb'[q].taken))
    BY <1>3, <1>4 DEF n, k
  <1>9. /\ Agreed(tcb'[q], ISS[p], tcb'[p].rnxt, tcb'[p].taken)
        /\ net'[q] \in Seq(Carries(tcb'[p].rnxt, ISS[q], tcb'[p].taken))
    BY <1>3, <1>4, <1>7
  <1>10. ASSUME NEW x \in Peer
         PROVE  LET y == Other(x)
                IN /\ Agreed(tcb'[x], ISS[y], tcb'[y].rnxt, tcb'[y].taken)
                   /\ net'[x] \in Seq(Carries(tcb'[y].rnxt, ISS[x], tcb'[y].taken))
    <2>1. CASE x = p
      BY <1>8, <2>1
    <2>2. CASE x = q
      BY <1>1, <1>9, <2>2
    <2> QED
      BY <1>1, <2>1, <2>2
  <1> QED
    BY <1>10 DEF Agreement

-----------------------------------------------------------------------------
(* What a step leaves alone that only moves packets, timers and flags.     *)
Untouched(s, t) ==
  /\ SameEnds(s, t) /\ t.state = s.state /\ t.eof = s.eof
  /\ t.wrote = s.wrote /\ t.closing = s.closing
  /\ t.finsent = s.finsent /\ t.nxt = s.nxt

(* Nothing is still an advance, and an advance may be preceded and         *)
(* followed by nothing.                                                    *)
LEMMA UntouchedAdvances ==
  ASSUME NEW iss, NEW n, NEW k, NEW s, NEW d, NEW h, NEW t,
         Untouched(s, d), Advances(d, h, iss, n, k), Untouched(h, t), Agreed(t, iss, n, k)
  PROVE  Advances(s, t, iss, n, k)
  BY DEF Untouched, SameEnds, Advances, Grows, Ages, OneEffect, DataOrEnd

(* Still is one case of it.                                                *)
LEMMA StillUntouched ==
  ASSUME NEW s, NEW t, Still(s, t)
  PROVE  Untouched(s, t)
  BY DEF Still, Unmoved, SameStream, Untouched, SameEnds

(* Taking an event's flag down.                                            *)
LEMMA ClearedAgrees ==
  ASSUME Inv, Agreement, NEW p \in Peer, NEW e
  PROVE  LET d == Cleared(p, e)
             q == Other(p)
         IN /\ Agreed(d, ISS[q], tcb[q].rnxt, tcb[q].taken)
            /\ Untouched(tcb[p], d) /\ d.thr = tcb[p].thr
            /\ d.flags = tcb[p].flags \ {e}
  <1> DEFINE s   == tcb[p]
             d   == Cleared(p, e)
             q   == Other(p)
             n   == tcb[q].rnxt
             k   == tcb[q].taken
             In  == Carries(n, s.iss, k)
             Out == Carries(s.rnxt, ISS[q], s.taken)
  <1>1. Agreed(s, ISS[q], n, k)
    BY AgreementOf
  <1>2. s \in BlockOf(In, Out)
    BY <1>1 DEF Agreed, EndsAgree
  <1>3. d = [s EXCEPT !.flags = @ \ {e}]
    BY DEF Cleared
  <1> HIDE DEF d, s, n, k, In, Out
  <1>4. s.flags \ {e} \in SUBSET Flag
    BY <1>2 DEF BlockOf
  <1>5. /\ d \in BlockOf(In, Out) /\ Untouched(s, d) /\ d.thr = s.thr
        /\ d.flags = s.flags \ {e}
    BY <1>2, <1>3, <1>4 DEF BlockOf, Untouched, SameEnds
  <1>6. Alike(s, d)
    BY <1>5 DEF Alike, Untouched, Running
  <1>7. Agreed(d, ISS[q], n, k)
    BY <1>1, <1>5, <1>6, AlikeAgrees DEF In, Out
  <1> QED
    BY <1>5, <1>7 DEF d, s, n, k

(* A handler that advances the block, when the block and its segments are  *)
(* committed.                                                              *)
LEMMA CommitSteps ==
  ASSUME Inv, Agreement, NEW p \in Peer, NEW d, Untouched(tcb[p], d), NEW h, Commit(p, h),
         Advances(d, h, ISS[Other(p)], tcb[Other(p)].rnxt, tcb[Other(p)].taken)
  PROVE  \E t : Steps(p, t)
  <1> DEFINE q    == Other(p)
             s    == tcb[p]
             n    == tcb[q].rnxt
             k    == tcb[q].taken
             late == Lesser(h.late, MaxExpiries - expiries)
             none == <<>>
             t    == [h EXCEPT !.out = none, !.late = late]
             In   == Carries(n, h.iss, k)
             Out  == Carries(h.rnxt, ISS[q], h.taken)
  <1>1. q \in Peer /\ q # p /\ ISS[q] \in Nat
    BY PeerFacts
  <1>2. /\ net[p] \in Seq(Carried(q)) /\ net[q] \in Seq(Carried(p))
        /\ s.rnxt \in Nat /\ s.taken \in Nat /\ DOMAIN net = Peer
        /\ expiries \in 0 .. MaxExpiries
    BY AgreementOf, InvOf
  <1>3. tcb' = [tcb EXCEPT ![p] = t] /\ net' = [net EXCEPT ![q] = @ \o h.out]
    BY DEF Commit
  <1>4. Agreed(h, ISS[q], n, k) /\ EndsAgree(h, ISS[q], n, k) /\ h \in BlockOf(In, Out)
    BY DEF Advances, Agreed, EndsAgree
  <1>5. late \in Nat
    <2>1. h.late \in Nat
      BY <1>4 DEF BlockOf
    <2> QED
      BY <1>2, <2>1, TcpAssumption DEF Lesser
  <1>6. t \in BlockOf(In, Out) /\ Still(h, t)
    <2>1. none \in Seq(Out)
      BY EmptySeq
    <2> HIDE DEF late, In, Out, none
    <2> QED
      BY <1>4, <1>5, <2>1 DEF BlockOf, Still, Unmoved, SameStream, Running
  <1> HIDE DEF t
  <1>7. Agreed(t, ISS[q], n, k) /\ Untouched(h, t)
    BY <1>4, <1>6, StillAgrees, StillUntouched
  <1>8. Advances(s, t, ISS[q], n, k)
    BY <1>7, UntouchedAdvances
  <1>9. net'[p] \in Seq(Carried(q)) /\ net'[q] = net[q] \o h.out
    BY <1>1, <1>2, <1>3
  <1>10. net[q] \o h.out \in Seq(Carries(t.rnxt, ISS[q], t.taken))
    <2>1. t.rnxt = h.rnxt /\ t.taken = h.taken
      BY <1>7 DEF Untouched, SameEnds
    <2>2. h.out \in Seq(Out)
      BY <1>4 DEF BlockOf
    <2>3. Carried(p) \subseteq Out
      <3>1. h.rnxt \in Nat /\ h.taken \in Nat /\ s.rnxt <= h.rnxt /\ s.taken <= h.taken
        BY <1>4, <1>8, <2>1, AgreedFields DEF Advances, Grows
      <3>2. Carries(s.rnxt, ISS[q], s.taken) \subseteq Out
        <4> HIDE DEF s, q
        <4> QED
          BY <1>1, <1>2, <3>1, CarriesMonotonic, SMTT(30)
      <3> QED
        BY <3>2 DEF Carried
    <2>4. net[q] \in Seq(Out)
      BY <1>2, <2>3, SeqMonotonic
    <2> HIDE DEF Out
    <2>5. net[q] \o h.out \in Seq(Out)
      BY <2>2, <2>4, ConcatProperties
    <2> QED
      BY <2>1, <2>5 DEF Out
  <1>11. Steps(p, t)
    BY <1>3, <1>8, <1>9, <1>10 DEF Steps, Advances
  <1> QED
    BY <1>11

(* Each event handled by a TCP thread.                                     *)
LEMMA TcpThreadSteps ==
  ASSUME Inv, Agreement, NEW p \in Peer, TcpThread(p)
  PROVE  \E t : Steps(p, t)
  <1> DEFINE s == tcb[p]
             q == Other(p)
             w == tcb[q].wrote
             c == tcb[q].closing
             n == tcb[q].rnxt
             k == tcb[q].taken
  <1>1. /\ ISS[q] \in Nat /\ w \in Nat /\ c \in BOOLEAN /\ n \in Nat /\ k \in Nat
        /\ Sound(s, ISS[q], w, c) /\ StateSound(s, ISS[q]) /\ Agreed(s, ISS[q], n, k)
    BY InvOf, AgreementOf
  <1>2. Untouched(s, s)
    BY DEF Untouched, SameEnds
  <1>3. ASSUME NEW e
        PROVE  LET d == Cleared(p, e)
               IN /\ Sound(d, ISS[q], w, c) /\ StateSound(d, ISS[q])
                  /\ Agreed(d, ISS[q], n, k) /\ Untouched(s, d) /\ d.thr = s.thr
                  /\ d.flags = s.flags \ {e} /\ d.rem = s.rem
    BY ClearedSound, ClearedAgrees
  <1>4. ASSUME NEW d, NEW h, Commit(p, h), Untouched(s, d), Advances(d, h, ISS[q], n, k)
        PROVE  \E t : Steps(p, t)
    BY <1>4, CommitSteps
  <1> HIDE DEF w, c, n, k, s, q
  <1>5. CASE ApplicationClose(p)
    <2> DEFINE d == Cleared(p, "APPLICATION_CLOSE")
    <2>1. s.rem = 0
      <3>1. "APPLICATION_CLOSE" \in s.flags
        BY <1>5 DEF ApplicationClose, Selected, Raised, s
      <3> QED
        BY <1>1, <3>1 DEF Sound, SenderSound
    <2>2. Advances(d, OnClose(d), ISS[q], n, k)
      BY <1>1, <1>3, <2>1, OnCloseAdvances
    <2> QED
      BY <1>3, <1>4, <1>5, <2>2 DEF ApplicationClose
  <1>6. CASE ApplicationConnect(p)
    <2> DEFINE d == Cleared(p, "APPLICATION_CONNECT")
    <2>1. s.rnxt = 0 /\ s.una = s.iss
      <3>1. "APPLICATION_CONNECT" \in s.flags
        BY <1>6 DEF ApplicationConnect, Selected, Raised, s
      <3> QED
        BY <1>1, <3>1 DEF Agreed, StateAgrees
    <2>2. d.rnxt = 0 /\ d.una = d.iss /\ "APPLICATION_CONNECT" \notin d.flags
      BY <1>3, <2>1 DEF Untouched, SameEnds
    <2>3. Advances(d, OnConnect(d), ISS[q], n, k)
      BY <1>1, <1>3, <2>2, OnConnectAdvances
    <2> QED
      BY <1>3, <1>4, <1>6, <2>3 DEF ApplicationConnect
  <1>7. CASE ApplicationReceive(p)
    <2> DEFINE d == Cleared(p, "APPLICATION_RECEIVE")
    <2>1. Advances(d, OnReceive(d), ISS[q], n, k)
      BY <1>1, <1>3, OnReceiveAdvances
    <2> QED
      BY <1>3, <1>4, <1>7, <2>1 DEF ApplicationReceive
  <1>8. CASE ApplicationSend(p)
    <2> DEFINE d == Cleared(p, "APPLICATION_SEND")
    <2>1. Advances(d, OnSend(d), ISS[q], n, k)
      BY <1>1, <1>3, OnSendAdvances
    <2> QED
      BY <1>3, <1>4, <1>8, <2>1 DEF ApplicationSend
  <1>9. CASE PacketArrival(p)
    <2>1. s.pend # <<>> /\ Running(s)
      <3>1. "PACKET_ARRIVAL" \in Raised(s) /\ Running(s)
        BY <1>9 DEF PacketArrival, Selected, s
      <3>2. s.flags \subseteq Flag
        BY <1>1 DEF Sound, BlockOf
      <3>3. "PACKET_ARRIVAL" \notin Flag
        BY DEF Flag
      <3> QED
        BY <3>1, <3>2, <3>3 DEF Raised
    <2>2. Advances(s, OnPacket(s), ISS[q], n, k)
      BY <1>1, <2>1, OnPacketAdvances
    <2> QED
      BY <1>2, <1>4, <1>9, <2>2 DEF PacketArrival, s
  <1>10. CASE Cleanup(p)
    <2> DEFINE d == Cleared(p, "CLEANUP")
    <2>1. Advances(d, OnCleanup(d), ISS[q], n, k)
      BY <1>1, <1>3, OnCleanupAdvances
    <2> QED
      BY <1>3, <1>4, <1>10, <2>1 DEF Cleanup
  <1>11. CASE Timeout(p)
    <2> DEFINE d == Cleared(p, "TIMEOUT")
    <2>1. Advances(d, OnTimeout(d), ISS[q], n, k)
      BY <1>1, <1>3, OnTimeoutAdvances
    <2> QED
      BY <1>3, <1>4, <1>11, <2>1 DEF Timeout
  <1>12. CASE Spin(p)
    <2> DEFINE g   == MakeSegment(s, 0, 0, FALSE, TRUE, s.nxt, FALSE)
               h   == [s EXCEPT !.out = <<g>>]
               In  == Carries(n, s.iss, k)
               Out == Carries(s.rnxt, ISS[q], s.taken)
    <2>1. EndsAgree(s, ISS[q], n, k) /\ s \in BlockOf(In, Out) /\ s.nxt \in Nat
      BY <1>1, AgreedFields DEF Agreed, EndsAgree
    <2>2. s.rnxt > ISS[q]
      BY <1>1, <1>12 DEF Agreed, StateAgrees, Spin, s
    <2>3. g \in Out
      BY <2>1, <2>2, ControlCarried
    <2>4. Commit(p, h)
      BY <1>12 DEF Spin, s
    <2> HIDE DEF g, Out, In
    <2>5. <<g>> \in Seq(Out)
      BY <2>3
    <2>6. h \in BlockOf(In, Out) /\ Still(s, h)
      BY <2>1, <2>5 DEF BlockOf, Still, Unmoved, SameStream, Running
    <2> HIDE DEF h
    <2>7. GoesOn(s, h, ISS[q], n, k) /\ DataOrEnd(s, h)
      BY <1>1, <2>6, StillAgrees DEF GoesOn, Calm, DataOrEnd, In, Out
    <2> QED
      BY <1>2, <1>4, <2>4, <2>7, GoesOnAdvances
  <1> QED
    BY <1>5, <1>6, <1>7, <1>8, <1>9, <1>10, <1>11, <1>12 DEF TcpThread

(* The block of p becomes t, and of the network only what is on its way to *)
(* p changes.                                                              *)
LEMMA LocalSteps ==
  ASSUME Inv, Agreement, NEW p \in Peer,
         NEW t \in BlockOf(Carries(tcb[Other(p)].rnxt, tcb[p].iss, tcb[Other(p)].taken),
                           Carried(p)),
         Still(tcb[p], t), tcb' = [tcb EXCEPT ![p] = t],
         net'[p] \in Seq(Carried(Other(p))), net'[Other(p)] = net[Other(p)]
  PROVE  Steps(p, t)
  <1> DEFINE q == Other(p)
             s == tcb[p]
             n == tcb[q].rnxt
             k == tcb[q].taken
  <1>1. Agreed(s, ISS[q], n, k) /\ net[q] \in Seq(Carried(p))
    BY AgreementOf
  <1>2. GoesOn(s, t, ISS[q], n, k) /\ Calm(s, t)
    BY <1>1, StillAgrees DEF GoesOn, Carried
  <1>3. Advances(s, t, ISS[q], n, k)
    BY <1>2, GoesOnAdvances DEF Calm, DataOrEnd
  <1>4. net'[q] \in Seq(Carries(t.rnxt, ISS[q], t.taken))
    BY <1>1 DEF Carried, Still, Unmoved, SameStream
  <1> QED
    BY <1>3, <1>4 DEF Steps, Advances

(* Timers.                                                                 *)
LEMMA TimersStep ==
  ASSUME Inv, Agreement, NEW p \in Peer, Timers(p)
  PROVE  \E t : Steps(p, t)
  <1> DEFINE q   == Other(p)
             s   == tcb[p]
             In  == Carries(tcb[q].rnxt, s.iss, tcb[q].taken)
             Out == Carried(p)
             Fits(t) == t \in BlockOf(In, Out) /\ Still(s, t)
  <1>1. /\ s \in BlockOf(In, Out) /\ net[p] \in Seq(Carried(q))
        /\ s.thr \in Thread
    BY AgreementOf, AgreedFields DEF Agreed, Carried
  <1>2. net' = net
    BY DEF Timers, TimerExpires, EarlyTimer, LateTimer
  <1>3. ASSUME NEW t, Fits(t), tcb' = [tcb EXCEPT ![p] = t]
        PROVE  \E u : Steps(p, u)
    BY <1>1, <1>2, <1>3, LocalSteps
  <1>4. ASSUME NEW i \in DOMAIN s.rtq
        PROVE  LET x == Expired(s, i)
               IN /\ x \in BlockOf(In, Out) /\ Still(s, x)
                  /\ Fits(Raise(x, "TIMEOUT")) /\ Fits(Delayed(x))
    <2> DEFINE x == Expired(s, i)
    <2> HIDE DEF In, Out, s
    <2>1. x \in BlockOf(In, Out) /\ Unmoved(s, x)
      BY <1>1, ExpiredType
    <2>2. x.una = s.una /\ x.irs = s.irs /\ x.thr = s.thr
      BY <1>1 DEF Expired, BlockOf
    <2> HIDE DEF x
    <2>3. Still(s, x)
      BY <2>1, <2>2 DEF Still
    <2>4. Raise(x, "TIMEOUT") \in BlockOf(In, Out) /\ Unmoved(x, Raise(x, "TIMEOUT"))
      BY <2>1, RaiseType
    <2>5. Raise(x, "TIMEOUT").una = x.una /\ Raise(x, "TIMEOUT").irs = x.irs
          /\ Raise(x, "TIMEOUT").thr = x.thr
      BY <2>1 DEF Raise, BlockOf
    <2>6. x.late + 1 \in Nat
      BY <2>1, SMTT(30) DEF BlockOf
    <2>7. Delayed(x) \in BlockOf(In, Out) /\ Unmoved(x, Delayed(x))
      BY <2>1, <2>6, LateType DEF Delayed
    <2>8. Delayed(x).una = x.una /\ Delayed(x).irs = x.irs /\ Delayed(x).thr = x.thr
      BY <2>1 DEF Delayed, BlockOf
    <2>9. Still(x, Raise(x, "TIMEOUT")) /\ Still(x, Delayed(x))
      BY <2>4, <2>5, <2>7, <2>8 DEF Still
    <2> QED
      BY <2>1, <2>3, <2>4, <2>7, <2>9, StillTransitive DEF x
  <1>5. s.late > 0 => Fits(Raise([s EXCEPT !.late = @ - 1], "TIMEOUT"))
    <2> SUFFICES ASSUME s.late > 0
                 PROVE  Fits(Raise([s EXCEPT !.late = @ - 1], "TIMEOUT"))
      OBVIOUS
    <2> DEFINE late == s.late - 1
               y == [s EXCEPT !.late = late]
    <2> HIDE DEF In, Out, s
    <2>1. s.late \in Nat
      BY <1>1 DEF BlockOf
    <2>2. late \in Nat
      BY <2>1
    <2> HIDE DEF late
    <2>3. y \in BlockOf(In, Out) /\ Unmoved(s, y)
      BY <1>1, <2>2, LateType
    <2>4. y.una = s.una /\ y.irs = s.irs /\ y.thr = s.thr
      BY <1>1 DEF BlockOf
    <2> HIDE DEF y
    <2>5. Raise(y, "TIMEOUT") \in BlockOf(In, Out) /\ Unmoved(y, Raise(y, "TIMEOUT"))
      BY <2>3, RaiseType
    <2>6. Raise(y, "TIMEOUT").una = y.una /\ Raise(y, "TIMEOUT").irs = y.irs
          /\ Raise(y, "TIMEOUT").thr = y.thr
      BY <2>3 DEF Raise, BlockOf
    <2>7. Still(s, y) /\ Still(y, Raise(y, "TIMEOUT"))
      BY <2>3, <2>4, <2>5, <2>6 DEF Still
    <2> QED
      BY <2>5, <2>7, StillTransitive DEF y, late
  <1> HIDE DEF Fits
  <1>6. CASE TimerExpires(p)
    <2>1. PICK i \in DOMAIN s.rtq : tcb' = [tcb EXCEPT ![p] = Raise(Expired(s, i), "TIMEOUT")]
      BY <1>6 DEF TimerExpires
    <2> QED
      BY <1>3, <1>4, <2>1
  <1>7. CASE EarlyTimer(p)
    <2>1. PICK i \in DOMAIN s.rtq :
            \/ tcb' = [tcb EXCEPT ![p] = Raise(Expired(s, i), "TIMEOUT")]
            \/ tcb' = [tcb EXCEPT ![p] = Delayed(Expired(s, i))]
      BY <1>7 DEF EarlyTimer
    <2> QED
      BY <1>3, <1>4, <2>1
  <1>8. CASE LateTimer(p)
    <2>1. /\ tcb' = [tcb EXCEPT ![p] = Raise([s EXCEPT !.late = @ - 1], "TIMEOUT")]
          /\ s.late > 0
      BY <1>8 DEF LateTimer
    <2> QED
      BY <1>3, <1>5, <2>1
  <1> QED
    BY <1>6, <1>7, <1>8 DEF Timers

(* What a writer changes in its block: the bytes written.                  *)
LEMMA FillFacts ==
  ASSUME NEW In, NEW Out, NEW s \in BlockOf(In, Out), BuffersSound(s), NEW n \in Nat
  PROVE  LET t == Fill(s, n)
         IN /\ t \in BlockOf(In, Out) /\ s.wrote <= t.wrote
            /\ SameEnds(s, t) /\ t.state = s.state /\ t.eof = s.eof
            /\ t.closing = s.closing /\ t.finsent = s.finsent /\ t.nxt = s.nxt
            /\ t.thr = s.thr
            /\ "APPLICATION_CONNECT" \in t.flags <=> "APPLICATION_CONNECT" \in s.flags
  <1> DEFINE k     == Lesser(n, BufSize - Unsent(s))
             wrote == s.wrote + k
             rem   == n - k
             u     == [s EXCEPT !.wrote = wrote, !.rem = rem]
             t     == Fill(s, n)
             f     == u.flags \cup {"APPLICATION_SEND"}
             v     == [u EXCEPT !.flags = f]
             Same(x) ==
               /\ x \in BlockOf(In, Out) /\ x.wrote = wrote
               /\ SameEnds(s, x) /\ x.state = s.state /\ x.eof = s.eof
               /\ x.closing = s.closing /\ x.finsent = s.finsent /\ x.nxt = s.nxt
               /\ x.thr = s.thr
               /\ "APPLICATION_CONNECT" \in x.flags <=> "APPLICATION_CONNECT" \in s.flags
  <1>1. s.wrote \in Nat /\ s.taken \in Nat /\ s.wrote <= s.taken + BufSize
    BY DEF BlockOf, BuffersSound
  <1>2. k \in Nat /\ k <= n
    BY <1>1, TcbAssumption DEF Lesser, Unsent
  <1> HIDE DEF k
  <1>3. wrote \in Nat /\ rem \in Nat /\ s.wrote <= wrote
    BY <1>1, <1>2
  <1>4. t \in {u, v}
    BY DEF Fill, Raise, k
  <1> HIDE DEF wrote, rem, t
  <1>5. Same(u)
    BY <1>3 DEF BlockOf, SameEnds
  <1> HIDE DEF u
  <1>6. /\ f \in SUBSET Flag
        /\ "APPLICATION_CONNECT" \in f <=> "APPLICATION_CONNECT" \in u.flags
    BY <1>5 DEF BlockOf, Flag
  <1> HIDE DEF f
  <1>7. Same(v)
    BY <1>5, <1>6 DEF BlockOf, SameEnds
  <1> QED
    BY <1>3, <1>4, <1>5, <1>7 DEF t

(* The reader makes room, and moves nothing else.                          *)
LEMMA ReadAgrees ==
  ASSUME NEW iss, NEW n, NEW k, NEW s, Agreed(s, iss, n, k),
         NEW m \in Nat, s.rd + m <= Len(s.got)
  PROVE  LET t == [s EXCEPT !.rd = @ + m]
         IN /\ Agreed(t, iss, n, k)
            /\ Grows(s, t) /\ Ages(s, t) /\ OneEffect(s, t)
  <1> DEFINE rd  == s.rd + m
             t   == [s EXCEPT !.rd = rd]
             In  == Carries(n, s.iss, k)
             Out == Carries(s.rnxt, iss, s.taken)
  <1>1. EndsAgree(s, iss, n, k) /\ StateAgrees(s, iss) /\ s \in BlockOf(In, Out)
    BY DEF Agreed, EndsAgree
  <1>2. /\ s.rd \in Nat /\ s.rwnd \in Nat /\ s.rnxt \in Nat /\ s.una \in Nat
        /\ s.taken \in Nat /\ Len(s.got) \in Nat
    BY <1>1, AgreedFields
  <1>3. rd \in Nat
    BY <1>2
  <1> HIDE DEF In, Out, rd
  <1>4. /\ t \in BlockOf(In, Out) /\ t.rd = rd
        /\ t.iss = s.iss /\ t.wrote = s.wrote /\ t.closing = s.closing
        /\ t.una = s.una /\ t.taken = s.taken /\ t.nxt = s.nxt /\ t.finsent = s.finsent
        /\ t.got = s.got /\ t.rwnd = s.rwnd /\ t.eof = s.eof /\ t.rnxt = s.rnxt
        /\ t.irs = s.irs /\ t.state = s.state /\ t.flags = s.flags /\ t.thr = s.thr
    BY <1>1, <1>3 DEF BlockOf
  <1> HIDE DEF t
  <1>5. t.rwnd <= Available(t)
    <2>1. Available(s) = BufSize - (Len(s.got) - s.rd) /\ s.rwnd <= Available(s)
      BY <1>1 DEF Available, EndsAgree
    <2>2. Available(t) = BufSize - (Len(s.got) - (s.rd + m))
      BY <1>4 DEF Available, rd
    <2> QED
      BY <1>2, <1>4, <2>1, <2>2, TcbAssumption
  <1>6. EndsAgree(t, iss, n, k)
    <2>1. Met(t, iss)
      BY <1>1, <1>4 DEF EndsAgree, Met, Synced
    <2>2. t \in BlockOf(Carries(n, t.iss, k), Carries(t.rnxt, iss, t.taken))
      BY <1>4 DEF In, Out
    <2>3. /\ Len(t.got) <= k /\ n <= t.iss + 1 + t.taken /\ t.iss <= t.una
          /\ t.una > t.iss => t.una <= n
      BY <1>1, <1>4 DEF EndsAgree
    <2> QED
      BY <1>5, <2>1, <2>2, <2>3 DEF EndsAgree
  <1>7. StateAgrees(t, iss)
    BY <1>1, <1>4 DEF StateAgrees, Running
  <1>8. Grows(s, t) /\ Ages(s, t) /\ OneEffect(s, t)
    <2>1. Grows(s, t)
      BY <1>2, <1>4 DEF Grows
    <2> QED
      BY <1>4, <2>1 DEF Ages, OneEffect, DataOrEnd
  <1> QED
    BY <1>6, <1>7, <1>8 DEF Agreed, t, rd

(* The applications.                                                       *)
LEMMA ApplicationSteps ==
  ASSUME Inv, Agreement, NEW p \in Peer, Application(p)
  PROVE  \E t : Steps(p, t)
  <1> DEFINE q   == Other(p)
             s   == tcb[p]
             w   == tcb[q].wrote
             c   == tcb[q].closing
             n   == tcb[q].rnxt
             k   == tcb[q].taken
             In  == Carries(n, s.iss, k)
             Out == Carries(s.rnxt, ISS[q], s.taken)
  <1>1. /\ ISS[q] \in Nat /\ w \in Nat /\ c \in BOOLEAN /\ n \in Nat /\ k \in Nat
        /\ Sound(s, ISS[q], w, c) /\ Agreed(s, ISS[q], n, k)
        /\ net[p] \in Seq(Carried(q)) /\ net[q] \in Seq(Carried(p))
    BY InvOf, AgreementOf
  <1>2. /\ s \in BlockOf(In, Out) /\ EndsAgree(s, ISS[q], n, k)
        /\ s.rnxt \in Nat /\ s.una \in Nat /\ s.taken \in Nat /\ Len(s.got) \in Nat
        /\ s.rd \in Nat /\ s.wrote \in Nat
    BY <1>1, AgreedFields DEF Agreed
  <1>3. ASSUME NEW t, Update(p, t), Agreed(t, ISS[q], n, k),
               Grows(s, t), Ages(s, t), OneEffect(s, t) \/ Written(s, t)
        PROVE  Steps(p, t)
    <2>1. tcb' = [tcb EXCEPT ![p] = t] /\ net' = net
      BY <1>3 DEF Update
    <2>2. net[q] \in Seq(Carries(t.rnxt, ISS[q], t.taken))
      <3> DEFINE Out2 == Carries(t.rnxt, ISS[q], t.taken)
      <3>1. t.rnxt \in Nat /\ t.taken \in Nat /\ s.rnxt <= t.rnxt /\ s.taken <= t.taken
        BY <1>3, AgreedFields DEF Agreed, Grows
      <3>2. Carried(p) \subseteq Out2
        <4> HIDE DEF q, s
        <4>1. Carries(s.rnxt, ISS[q], s.taken) \subseteq Out2
          <5>1. /\ s.rnxt \in Nat /\ ISS[q] \in Nat /\ s.taken \in Nat
                /\ t.rnxt \in Nat /\ t.taken \in Nat /\ s.rnxt <= t.rnxt /\ s.taken <= t.taken
            BY <1>1, <1>2, <3>1
          <5> QED
            BY <5>1, CarriesMonotonic, Zenon
        <4> QED
          BY <4>1 DEF Carried, q, s
      <3> HIDE DEF Out2
      <3> QED
        BY <1>1, <3>2, SeqMonotonic DEF Out2
    <2> QED
      BY <1>1, <1>3, <2>1, <2>2 DEF Steps
  <1>4. ASSUME NEW m \in Nat, Update(p, Fill(s, m)), ~s.closing
        PROVE  \E t : Steps(p, t)
    <2> DEFINE t == Fill(s, m)
    <2>1. /\ t \in BlockOf(In, Out) /\ s.wrote <= t.wrote
          /\ SameEnds(s, t) /\ t.state = s.state /\ t.eof = s.eof
          /\ t.closing = s.closing /\ t.finsent = s.finsent /\ t.nxt = s.nxt
          /\ t.thr = s.thr
          /\ "APPLICATION_CONNECT" \in t.flags <=> "APPLICATION_CONNECT" \in s.flags
      <3> HIDE DEF s, In, Out, w, c
      <3> QED
        BY <1>1, <1>2, FillFacts DEF Sound
    <2> HIDE DEF t
    <2>2. Agreed(t, ISS[q], n, k)
      <3>1. Alike(s, t)
        BY <2>1 DEF Alike, Running
      <3> QED
        BY <1>1, <2>1, <3>1, AlikeAgrees
    <2>3. Grows(s, t) /\ Ages(s, t)
      BY <1>2, <2>1 DEF Grows, Ages, SameEnds
    <2>4. OneEffect(s, t) \/ Written(s, t)
      <3>1. t.wrote \in Nat
        BY <2>2, AgreedFields DEF Agreed
      <3>2. t.wrote = s.wrote \/ s.wrote < t.wrote
        BY <1>2, <2>1, <3>1
      <3> QED
        BY <1>4, <2>1, <3>2 DEF OneEffect, Written, DataOrEnd, SameEnds
    <2> QED
      BY <1>3, <1>4, <2>2, <2>3, <2>4 DEF t
  <1>5. ASSUME NEW m \in 1 .. BufSize, SocketSend(p, m)
        PROVE  \E t : Steps(p, t)
    <2>1. m \in Nat
      BY TcbAssumption
    <2> QED
      BY <1>4, <1>5, <2>1 DEF SocketSend
  <1>6. CASE SocketSendResumes(p)
    <2>1. s.rem > 0 /\ Update(p, Fill(s, s.rem))
      BY <1>6 DEF SocketSendResumes
    <2>2. s.rem \in Nat
      BY <1>1, SoundFields
    <2>3. s.rem # 0
      BY <2>1
    <2>4. ~s.closing
      BY <1>1, <2>3 DEF Sound, SenderSound
    <2> QED
      BY <1>4, <2>1, <2>2, <2>4
  <1>7. ASSUME NEW t, Agreed(t, ISS[q], n, k), Grows(s, t), Ages(s, t), OneEffect(s, t),
               NEW e \in {"APPLICATION_RECEIVE", "APPLICATION_SEND", "TIMEOUT"}
        PROVE  LET u == Raise(t, e)
               IN /\ Agreed(u, ISS[q], n, k) /\ Grows(s, u) /\ Ages(s, u) /\ OneEffect(s, u)
    <2> DEFINE u  == Raise(t, e)
               I2 == Carries(n, t.iss, k)
               O2 == Carries(t.rnxt, ISS[q], t.taken)
    <2>1. t \in BlockOf(I2, O2)
      BY <1>7 DEF Agreed, EndsAgree
    <2> HIDE DEF I2, O2
    <2>2. u \in BlockOf(I2, O2) /\ Unmoved(t, u)
      BY <2>1, RaiseType
    <2>3. u.una = t.una /\ u.irs = t.irs /\ u.thr = t.thr
      BY <2>1 DEF Raise, BlockOf
    <2>4. Still(t, u)
      BY <2>2, <2>3 DEF Still
    <2> HIDE DEF u
    <2>5. Agreed(u, ISS[q], n, k)
      BY <1>7, <2>2, <2>4, StillAgrees DEF I2, O2
    <2> QED
      BY <1>7, <2>4, <2>5 DEF Still, Unmoved, SameStream, Grows, Ages, OneEffect, DataOrEnd, u
  <1>8. ASSUME NEW m \in 1 .. BufSize, SocketRecv(p, m)
        PROVE  \E t : Steps(p, t)
    <2> DEFINE r == [s EXCEPT !.rd = @ + m]
               x == Raise(r, "APPLICATION_RECEIVE")
    <2>1. m \in Nat /\ m <= Len(s.got) - s.rd
      BY <1>8, TcbAssumption DEF SocketRecv
    <2>2. s.rd + m <= Len(s.got)
      BY <1>2, <2>1
    <2>3. Update(p, r) \/ Update(p, x)
      BY <1>8 DEF SocketRecv
    <2>4. Agreed(r, ISS[q], n, k) /\ Grows(s, r) /\ Ages(s, r) /\ OneEffect(s, r)
      <3> HIDE DEF s, n, k
      <3> QED
        BY <1>1, <2>1, <2>2, ReadAgrees
    <2> HIDE DEF r
    <2>5. Agreed(x, ISS[q], n, k) /\ Grows(s, x) /\ Ages(s, x) /\ OneEffect(s, x)
      BY <1>7, <2>4
    <2> QED
      BY <1>3, <2>3, <2>4, <2>5
  <1>9. CASE SocketClose(p)
    <2> DEFINE f == s.flags \cup {"APPLICATION_CLOSE"}
               t == [s EXCEPT !.flags = f]
    <2>1. Update(p, t)
      BY <1>9 DEF SocketClose, Raise
    <2>2. f \in SUBSET Flag /\ ("APPLICATION_CONNECT" \in f <=> "APPLICATION_CONNECT" \in s.flags)
      BY <1>2 DEF BlockOf, Flag
    <2> HIDE DEF f
    <2>3. t \in BlockOf(In, Out) /\ Alike(s, t) /\ Untouched(s, t)
      <3> HIDE DEF In, Out, s
      <3> QED
        BY <1>2, <2>2 DEF BlockOf, Alike, Untouched, SameEnds, Running
    <2> HIDE DEF t
    <2>4. Agreed(t, ISS[q], n, k)
      BY <1>1, <2>3, AlikeAgrees
    <2>5. Grows(s, t) /\ Ages(s, t) /\ OneEffect(s, t)
      BY <1>2, <2>3 DEF Untouched, SameEnds, Grows, Ages, OneEffect, DataOrEnd
    <2> QED
      BY <1>3, <2>1, <2>4, <2>5
  <1> QED
    BY <1>5, <1>6, <1>8, <1>9 DEF Application

(* The network.                                                            *)
LEMMA ConnectionSteps ==
  ASSUME Inv, Agreement, NEW p \in Peer, Connection(p)
  PROVE  \E t : Steps(p, t)
  <1> DEFINE q   == Other(p)
             s   == tcb[p]
             In  == Carries(tcb[q].rnxt, s.iss, tcb[q].taken)
             Out == Carried(p)
  <1>1. q \in Peer /\ q # p /\ Other(q) = p
    BY PeerFacts
  <1>2. /\ s \in BlockOf(In, Out) /\ net[p] \in Seq(Carried(q))
        /\ s.iss = ISS[p] /\ tcb \in [Peer -> Block] /\ DOMAIN net = Peer
        /\ s.thr \in Thread
    BY AgreementOf, AgreedFields DEF Agreed, Carried
  <1>3. Carried(q) = In
    BY <1>1, <1>2 DEF Carried
  <1> HIDE DEF In, Out
  <1>4. net[p] \in Seq(In) /\ tcb[p] \in BlockOf(In, Out)
    BY <1>2, <1>3
  <1>5. net' = [net EXCEPT ![p] = Tail(net[p])] /\ Tail(net[p]) \in Seq(In)
    BY <1>2, <1>4, ConnectionStores
  <1>6. PICK t \in BlockOf(In, Out) : tcb' = [tcb EXCEPT ![p] = t] /\ Still(tcb[p], t)
    BY <1>2, <1>4, ConnectionStores
  <1>7. net'[p] \in Seq(Carried(q)) /\ net'[q] = net[q]
    BY <1>1, <1>2, <1>3, <1>5
  <1>8. Steps(p, t)
    BY <1>6, <1>7, LocalSteps DEF In, Out
  <1> QED
    BY <1>8

(* Every step is of the form that keeps Agreement.                         *)
LEMMA NextSteps ==
  ASSUME Inv, Agreement, Next
  PROVE  \E p \in Peer : \E t : Steps(p, t)
  BY TcpThreadSteps, TimersStep, ApplicationSteps, ConnectionSteps DEF Next

(* Before the handshake neither socket knows anything of the other.        *)
LEMMA NewBlockAgrees ==
  ASSUME NEW iss \in Nat, NEW peer \in Nat,
         NEW st \in {"CLOSED", "LISTEN"},
         NEW fl \in {{}, {"APPLICATION_CONNECT"}},
         NEW room \in 0 .. BufSize,
         NEW s, s = NewBlock(st, iss, room, fl)
  PROVE  Agreed(s, peer, 0, 0)
  <1> DEFINE In  == Carries(0, s.iss, 0)
             Out == Carries(s.rnxt, peer, s.taken)
  <1>1. /\ s.state = st /\ s.thr = "run" /\ s.flags = fl
        /\ s.iss = iss /\ s.una = iss /\ s.nxt = iss + 1 /\ s.taken = 0 /\ s.wrote = 0
        /\ s.rem = 0 /\ s.got = <<>> /\ s.rd = 0 /\ s.closing = FALSE
        /\ s.finsent = FALSE /\ s.eof = FALSE /\ s.rnxt = 0 /\ s.rwnd = room /\ s.irs = 0
    BY DEF NewBlock
  <1> HIDE DEF In, Out
  <1>2. s \in BlockOf(In, Out)
    <2>1. /\ iss + 1 \in Nat /\ fl \in SUBSET Flag /\ st \in TcpState /\ room \in Nat
          /\ "run" \in Thread
      BY TcbAssumption DEF Flag, TcpState, Thread
    <2>2. /\ <<>> \in Seq(In) /\ <<>> \in Seq(Out) /\ <<>> \in Seq(Nat)
          /\ <<>> \in Seq(Member(Out))
      BY EmptySeq
    <2> QED
      BY <2>1, <2>2 DEF NewBlock, BlockOf
  <1>3. Len(s.got) = 0
    BY <1>1
  <1>4. EndsAgree(s, peer, 0, 0)
    <2>1. Available(s) = BufSize /\ room <= BufSize
      BY <1>1, <1>3, TcbAssumption DEF Available
    <2>2. 0 <= iss + 1 + 0 /\ iss <= iss /\ ~(iss > iss)
      OBVIOUS
    <2> QED
      BY <1>1, <1>2, <1>3, <2>1, <2>2 DEF EndsAgree, Met, In, Out
  <1>5. StateAgrees(s, peer)
    <2>1. ~(s.rnxt > 0)
      BY <1>1
    <2> QED
      BY <1>1, <2>1 DEF StateAgrees, AfterFin, Synchronized
  <1> QED
    BY <1>4, <1>5 DEF Agreed

(* Both sockets agree before the first packet ...                          *)
LEMMA InitAgreement == Init => Agreement
  <1> SUFFICES ASSUME Init, NEW p \in Peer
               PROVE  LET q == Other(p)
                      IN /\ Agreed(tcb[p], ISS[q], tcb[q].rnxt, tcb[q].taken)
                         /\ net[p] \in Seq(Carries(tcb[q].rnxt, ISS[p], tcb[q].taken))
    BY DEF Agreement
  <1> DEFINE q == Other(p)
             c == {"APPLICATION_CONNECT"}
             none == {}
  <1>1. q \in Peer /\ ISS[p] \in Nat /\ ISS[q] \in Nat
    BY PeerFacts
  <1>2. ASSUME NEW x \in Peer
        PROVE  \E st \in {"CLOSED", "LISTEN"}, fl \in {{}, {"APPLICATION_CONNECT"}},
                  room \in 0 .. BufSize : tcb[x] = NewBlock(st, ISS[x], room, fl)
    <2>1. BufSize \in 0 .. BufSize /\ 0 \in 0 .. BufSize
      BY TcbAssumption
    <2>2. \/ tcb[x] = NewBlock("CLOSED", ISS[x], BufSize, c)
          \/ tcb[x] = NewBlock("LISTEN", ISS[x], 0, none)
      BY DEF Init
    <2> QED
      BY <2>1, <2>2
  <1>3. tcb[q].rnxt = 0 /\ tcb[q].taken = 0
    <2>1. PICK st \in {"CLOSED", "LISTEN"}, fl \in {{}, {"APPLICATION_CONNECT"}},
               room \in 0 .. BufSize : tcb[q] = NewBlock(st, ISS[q], room, fl)
      BY <1>1, <1>2
    <2> QED
      BY <2>1 DEF NewBlock
  <1>4. Agreed(tcb[p], ISS[q], 0, 0)
    <2>1. PICK st \in {"CLOSED", "LISTEN"}, fl \in {{}, {"APPLICATION_CONNECT"}},
               room \in 0 .. BufSize : tcb[p] = NewBlock(st, ISS[p], room, fl)
      BY <1>2
    <2> QED
      BY <1>1, <2>1, NewBlockAgrees
  <1>5. net[p] \in Seq(Carries(0, ISS[p], 0))
    BY EmptySeq DEF Init
  <1> QED
    BY <1>3, <1>4, <1>5

(* ... and after every step.                                               *)
LEMMA NextKeepsAgreement == Inv /\ Agreement /\ [Next]_vars => Agreement'
  <1> SUFFICES ASSUME Inv, Agreement, [Next]_vars
               PROVE  Agreement'
    OBVIOUS
  <1>1. CASE UNCHANGED vars
    BY <1>1 DEF vars, Agreement
  <1>2. CASE Next
    BY <1>2, NextSteps, StepsKeepAgreement
  <1> QED
    BY <1>1, <1>2

(* The two sockets agree at every moment: what one has acknowledged the    *)
(* other has received, what one has received the other has taken out of    *)
(* its send buffer, and the state of each follows from what has come in.   *)
THEOREM EndsAgreeAlways == Spec => [](Inv /\ Agreement)
  <1>1. Init => Inv /\ Agreement
    BY InitInv, InitAgreement
  <1>2. Inv /\ Agreement /\ [Next]_vars => (Inv /\ Agreement)'
    BY NextKeepsInv, NextKeepsAgreement
  <1> QED
    BY <1>1, <1>2, PTL DEF Spec

-----------------------------------------------------------------------------
(***************************************************************************)
(* What follows from Inv and Agreement.                                    *)
(***************************************************************************)

(* What they say together of one socket.                                   *)
LEMMA SocketFacts ==
  ASSUME Inv, Agreement, NEW p \in Peer
  PROVE  LET s == tcb[p]
             q == Other(p)
         IN /\ EndsAgree(s, ISS[q], tcb[q].rnxt, tcb[q].taken) /\ StateAgrees(s, ISS[q])
            /\ Sound(s, ISS[q], tcb[q].wrote, tcb[q].closing) /\ StateSound(s, ISS[q])
            /\ Met(tcb[q], ISS[p]) /\ s.iss = ISS[p]
            /\ s.una \in Nat /\ s.rnxt \in Nat /\ s.irs \in Nat /\ s.taken \in Nat
            /\ Len(s.got) \in Nat /\ tcb[q].rnxt \in Nat /\ Len(tcb[q].got) \in Nat
            /\ s.wrote \in Nat /\ tcb[q].wrote \in Nat /\ s.eof \in BOOLEAN
            /\ s.closing \in BOOLEAN /\ ISS[p] \in Nat /\ ISS[q] \in Nat
            /\ s.got \in Seq(Nat) /\ s.state \in TcpState
  <1> DEFINE q == Other(p)
  <1>1. /\ Agreed(tcb[p], ISS[q], tcb[q].rnxt, tcb[q].taken)
        /\ Agreed(tcb[q], ISS[p], tcb[p].rnxt, tcb[p].taken)
    BY AgreementOf
  <1>2. /\ EndsAgree(tcb[p], ISS[q], tcb[q].rnxt, tcb[q].taken) /\ StateAgrees(tcb[p], ISS[q])
        /\ EndsAgree(tcb[q], ISS[p], tcb[p].rnxt, tcb[p].taken)
    BY <1>1 DEF Agreed
  <1>3. Met(tcb[q], ISS[p])
    BY <1>2 DEF EndsAgree
  <1> HIDE DEF q
  <1>4. /\ tcb[p].una \in Nat /\ tcb[p].rnxt \in Nat /\ tcb[p].irs \in Nat /\ tcb[p].taken \in Nat
        /\ Len(tcb[p].got) \in Nat /\ tcb[p].wrote \in Nat /\ tcb[p].eof \in BOOLEAN
        /\ tcb[p].closing \in BOOLEAN /\ tcb[p].got \in Seq(Nat) /\ tcb[p].state \in TcpState
    BY <1>2, AgreedFields
  <1>5. tcb[q].rnxt \in Nat /\ Len(tcb[q].got) \in Nat /\ tcb[q].wrote \in Nat
    BY <1>2, AgreedFields
  <1> QED
    BY <1>2, <1>3, <1>4, <1>5, InvOf DEF q

(* The window a socket advertises never exceeds the free part of its       *)
(* receive buffer.                                                         *)
THEOREM WindowsAreBacked == Spec => []WindowIsBacked
  <1>1. Inv /\ Agreement => WindowIsBacked
    BY SocketFacts DEF WindowIsBacked, EndsAgree
  <1> QED
    BY <1>1, EndsAgreeAlways, PTL

(* SND_UNA only passes a byte that is in the peer's receive buffer or has  *)
(* been read from it: what process_q_after_ack forgets has arrived.        *)
THEOREM AcknowledgedIsDelivered == Spec => []AckedIsDelivered
  <1>1. ASSUME Inv, Agreement, NEW p \in Peer, tcb[p].una > tcb[p].iss
        PROVE  tcb[p].una <= ISS[p] + 1 + Len(tcb[Other(p)].got)
    <2> DEFINE q == Other(p)
               a == tcb[p].una
               r == tcb[q].rnxt
    <2>1. /\ a \in Nat /\ r \in Nat /\ tcb[p].iss \in Nat /\ a > tcb[p].iss
          /\ a > tcb[p].iss => a <= r
          /\ r = 0 \/ r = ISS[p] + 1 + Len(tcb[q].got)
      BY <1>1, SocketFacts DEF EndsAgree, Met, Synced
    <2> HIDE DEF a, r, q
    <2>2. r # 0
      BY <2>1
    <2> QED
      BY <2>1, <2>2 DEF a, r, q
  <1>2. Inv /\ Agreement => AckedIsDelivered
    BY <1>1 DEF AckedIsDelivered
  <1> QED
    BY <1>2, EndsAgreeAlways, PTL

(* A socket past the handshake and its peer know each other's initial      *)
(* sequence numbers.                                                       *)
THEOREM HandshakeAgrees == Spec => []HandshakeAgreed
  <1>1. ASSUME Inv, Agreement, NEW p \in Peer,
               tcb[p].state \in Synchronized \cup {"LAST_ACK"}
        PROVE  /\ tcb[p].irs = ISS[Other(p)]
               /\ tcb[Other(p)].irs = ISS[p]
               /\ tcb[p].una > tcb[p].iss
    <2> DEFINE q == Other(p)
               s == tcb[p]
    <2>1. /\ EndsAgree(s, ISS[q], tcb[q].rnxt, tcb[q].taken)
          /\ StateAgrees(s, ISS[q]) /\ StateSound(s, ISS[q])
          /\ Met(tcb[q], ISS[p]) /\ s.iss = ISS[p]
          /\ s.una \in Nat /\ s.rnxt \in Nat /\ Len(s.got) \in Nat
          /\ tcb[q].rnxt \in Nat /\ ISS[p] \in Nat /\ ISS[q] \in Nat
      BY <1>1, SocketFacts
    <2> HIDE DEF q
    <2>2. s.una > s.iss
      BY <1>1, <2>1 DEF StateAgrees
    <2>3. tcb[q].rnxt # 0
      <3>1. s.una <= tcb[q].rnxt
        BY <2>1, <2>2 DEF EndsAgree
      <3> QED
        BY <2>1, <2>2, <3>1
    <2>4. tcb[q].irs = ISS[p]
      BY <2>1, <2>3 DEF Met
    <2>5. s.rnxt # 0
      <3>1. Synced(s, ISS[q])
        BY <1>1, <2>1 DEF StateSound, Synchronized
      <3> QED
        BY <2>1, <3>1 DEF Synced
    <2>6. s.irs = ISS[q]
      BY <2>1, <2>5 DEF EndsAgree, Met
    <2> QED
      BY <2>2, <2>4, <2>6 DEF q
  <1>2. Inv /\ Agreement => HandshakeAgreed
    BY <1>1 DEF HandshakeAgreed
  <1> QED
    BY <1>2, EndsAgreeAlways, PTL

(* A connected socket reaches CLOSED only after its peer's FIN.            *)
THEOREM ClosesAfterFin == Spec => []ClosedAfterFin
  <1>1. ASSUME Inv, Agreement, NEW p \in Peer, tcb[p].state = "CLOSED", Connected(p)
        PROVE  tcb[p].eof
    <2>1. StateAgrees(tcb[p], ISS[Other(p)])
      BY <1>1, SocketFacts
    <2> QED
      BY <1>1, <2>1 DEF Connected, StateAgrees
  <1>2. Inv /\ Agreement => ClosedAfterFin
    BY <1>1 DEF ClosedAfterFin
  <1> QED
    BY <1>2, EndsAgreeAlways, PTL

(* The receive buffer is closed in the states after the peer's FIN only,   *)
(* as the assertion of the RECV handler has it.                            *)
THEOREM EofOnlyAfterFin == Spec => []EofState
  <1>1. ASSUME Inv, Agreement, NEW p \in Peer, tcb[p].eof
        PROVE  tcb[p].state \in {"CLOSING", "CLOSE_WAIT", "LAST_ACK", "CLOSED"}
    <2>1. StateAgrees(tcb[p], ISS[Other(p)])
      BY <1>1, SocketFacts
    <2> QED
      BY <1>1, <2>1 DEF StateAgrees, AfterFin
  <1>2. Inv /\ Agreement => EofState
    BY <1>1 DEF EofState
  <1> QED
    BY <1>2, EndsAgreeAlways, PTL

(* A step changes one of the two blocks.                                   *)
LEMMA StepsOne ==
  ASSUME Inv, Agreement, NEW p \in Peer, NEW t, Steps(p, t)
  PROVE  /\ tcb'[p] = t /\ tcb'[Other(p)] = tcb[Other(p)]
         /\ \A x \in Peer : x # p => tcb'[x] = tcb[x]
  <1>1. tcb \in [Peer -> Block] /\ tcb' = [tcb EXCEPT ![p] = t]
    BY AgreementOf DEF Steps
  <1>2. Other(p) \in Peer /\ Other(p) # p
    BY PeerFacts
  <1> QED
    BY <1>1, <1>2

(* Whatever packet or timer comes, no socket goes back: in its state, in   *)
(* SND_UNA, in RCV_NXT, or in SND_NXT once it has sent its FIN.            *)
THEOREM OnlyOnward == Spec => Onward
  <1>1. ASSUME Inv, Agreement, NEW x \in Peer
        PROVE  GoesForward(tcb[x], tcb[x])
    <2>1. tcb[x].una \in Nat /\ tcb[x].rnxt \in Nat
      BY <1>1, SocketFacts
    <2> QED
      BY <2>1 DEF GoesForward
  <1>2. ASSUME Inv, Agreement, Next
        PROVE  \A x \in Peer : GoesForward(tcb[x], tcb'[x])
    <2>0. PICK p \in Peer : \E t : Steps(p, t)
      BY <1>2, NextSteps
    <2>1. PICK t : Steps(p, t)
      BY <2>0
    <2>2. GoesForward(tcb[p], t)
      <3>1. Grows(tcb[p], t) /\ Ages(tcb[p], t)
        BY <2>1 DEF Steps
      <3>2. tcb[p].una \in Nat /\ tcb[p].rnxt \in Nat
        BY <1>2, SocketFacts
      <3>3. t.una \in Nat /\ t.rnxt \in Nat
        BY <2>1, AgreedFields DEF Steps, Agreed
      <3>4. t.una >= tcb[p].una /\ t.rnxt >= tcb[p].rnxt
        BY <3>1, <3>2, <3>3 DEF Grows
      <3> QED
        BY <3>1, <3>4 DEF Grows, Ages, GoesForward
    <2>3. /\ tcb'[p] = t
          /\ \A x \in Peer : x # p => tcb'[x] = tcb[x]
      BY <1>2, <2>1, StepsOne
    <2> QED
      BY <1>1, <1>2, <2>2, <2>3
  <1>3. Inv /\ Agreement /\ [Next]_vars => [\A p \in Peer : GoesForward(tcb[p], tcb'[p])]_vars
    BY <1>2
  <1> QED
    BY <1>3, EndsAgreeAlways, PTL DEF Spec, Onward

(* A buffer that holds the first bytes of a stream, in order.              *)
LEMMA FirstBytes ==
  ASSUME NEW s, s.got \in Seq(Nat), BuffersSound(s)
  PROVE  s.got = [i \in 1 .. Len(s.got) |-> i]
  <1>1. DOMAIN s.got = 1 .. Len(s.got) /\ s.got = [i \in DOMAIN s.got |-> s.got[i]]
    BY LenProperties
  <1>2. \A i \in 1 .. Len(s.got) : s.got[i] = i
    BY DEF BuffersSound
  <1> QED
    BY <1>1, <1>2

(* Every step is a step of the byte stream, or none.                       *)
LEMMA StepsRefine ==
  ASSUME Inv, Agreement, Inv', NEW p \in Peer, NEW t, Steps(p, t)
  PROVE  [Stream!Next]_(Stream!vars)
  <1> DEFINE q == Other(p)
             s == tcb[p]
             W == [x \in Peer |-> tcb[x].wrote]
             C == [x \in Peer |-> tcb[x].closing]
             D == [x \in Peer |-> tcb[x].got]
             E == [x \in Peer |-> tcb[x].eof]
             m == Len(t.got)
  <1>1. /\ tcb'[p] = t /\ tcb'[q] = tcb[q] /\ q \in Peer /\ q # p
        /\ \A x \in Peer : x # p => tcb'[x] = tcb[x]
        /\ p \in Peer
    BY StepsOne, PeerFacts
  <1>2. /\ Sound(s, ISS[q], tcb[q].wrote, tcb[q].closing)
        /\ s.wrote \in Nat /\ tcb[q].wrote \in Nat
        /\ s.eof \in BOOLEAN /\ s.closing \in BOOLEAN
        /\ s.got \in Seq(Nat) /\ Len(s.got) \in Nat
    BY SocketFacts
  <1>3. Sound(t, ISS[q], tcb[q].wrote, tcb[q].closing)
    <2>1. SocketInv(p)'
      BY DEF Inv
    <2> QED
      BY <1>1, <2>1 DEF SocketInv
  <1>4. /\ Grows(s, t)
        /\ OneEffect(s, t) \/ Written(s, t)
        /\ t.got \in Seq(Nat) /\ m \in Nat
        /\ t.eof \in BOOLEAN /\ t.closing \in BOOLEAN /\ t.wrote \in Nat
    BY AgreedFields DEF Steps, Agreed
  <1>5. /\ W' = [W EXCEPT ![p] = t.wrote] /\ C' = [C EXCEPT ![p] = t.closing]
        /\ D' = [D EXCEPT ![p] = t.got] /\ E' = [E EXCEPT ![p] = t.eof]
    BY <1>1
  <1>6. /\ W[p] = s.wrote /\ C[p] = s.closing /\ D[p] = s.got /\ E[p] = s.eof
        /\ W[q] = tcb[q].wrote /\ C[q] = tcb[q].closing
        /\ W'[p] = t.wrote
    BY <1>1
  <1>7. /\ t.wrote = s.wrote => W' = W
        /\ t.closing = s.closing => C' = C
        /\ t.got = s.got => D' = D
        /\ t.eof = s.eof => E' = E
    <2>1. W[p] = s.wrote /\ C[p] = s.closing /\ D[p] = s.got /\ E[p] = s.eof
      BY <1>6
    <2>2. /\ W = [W EXCEPT ![p] = W[p]] /\ C = [C EXCEPT ![p] = C[p]]
          /\ D = [D EXCEPT ![p] = D[p]] /\ E = [E EXCEPT ![p] = E[p]]
      OBVIOUS
    <2> HIDE DEF W, C, D, E, s
    <2> QED
      BY <1>5, <2>1, <2>2
  <1>8. /\ t.got = s.got \/ Len(s.got) < m
        /\ m <= tcb[q].wrote
        /\ s.eof => Len(s.got) = tcb[q].wrote
        /\ t.eof => m = tcb[q].wrote /\ tcb[q].closing
    <2>1. /\ s.got = [i \in 1 .. Len(s.got) |-> i]
          /\ t.got = [i \in 1 .. Len(t.got) |-> i]
      BY <1>2, <1>3, <1>4, FirstBytes DEF Sound
    <2>2. Len(s.got) <= m
      BY <1>4 DEF Grows
    <2>3. Len(s.got) = m => t.got = s.got
      BY <2>1
    <2>4. Len(s.got) = m \/ Len(s.got) < m
      BY <1>2, <1>4, <2>2
    <2> QED
      BY <1>2, <1>3, <2>3, <2>4 DEF Sound, ReceiverSound
  <1> HIDE DEF s, q, W, C, D, E
  <1>9. CASE Written(s, t)
    <2>1. C' = C /\ D' = D /\ E' = E /\ ~C[p] /\ W'[p] > W[p] /\ W' = [W EXCEPT ![p] = W'[p]]
      <3>1. W'[p] > W[p]
        BY <1>2, <1>4, <1>6, <1>9 DEF Written
      <3> QED
        BY <1>5, <1>6, <1>7, <1>9, <3>1 DEF Written
    <2>2. Stream!Write(p)
      BY <2>1 DEF Stream!Write, W, C, D, E
    <2> QED
      BY <1>1, <2>2 DEF Stream!Next
  <1>10. CASE OneEffect(s, t)
    <2>1. W' = W
      BY <1>7, <1>10 DEF OneEffect
    <2>2. CASE t.closing # s.closing
      <3>1. ~C[p] /\ C' = [C EXCEPT ![p] = TRUE] /\ D' = D /\ E' = E
        <4>1. ~s.closing /\ t.closing = TRUE
          BY <1>2, <1>4, <2>2 DEF Grows
        <4>2. t.got = s.got /\ t.eof = s.eof
          BY <1>10, <2>2 DEF OneEffect
        <4> QED
          BY <1>5, <1>6, <1>7, <4>1, <4>2
      <3>2. Stream!Close(p)
        BY <2>1, <3>1 DEF Stream!Close, W, C, D, E
      <3> QED
        BY <1>1, <3>2 DEF Stream!Next
    <2>3. CASE t.closing = s.closing /\ t.got # s.got
      <3>1. C' = C /\ E' = E
        BY <1>7, <1>10, <2>3 DEF OneEffect, DataOrEnd
      <3>2. Len(s.got) < m
        BY <1>8, <2>3
      <3>3. ~E[p]
        <4>1. ~s.eof
          <5>1. ~(Len(s.got) = tcb[q].wrote)
            BY <1>2, <1>4, <1>8, <3>2
          <5> QED
            BY <1>8, <5>1
        <4> QED
          BY <1>6, <4>1
      <3>4. m \in (Len(D[p]) + 1) .. W[q]
        BY <1>2, <1>4, <1>6, <1>8, <3>2
      <3>5. D' = [D EXCEPT ![p] = [i \in 1 .. m |-> i]]
        <4>1. t.got = [i \in 1 .. m |-> i]
          BY <1>3, <1>4, FirstBytes DEF Sound
        <4> QED
          BY <1>5, <4>1
      <3>6. Stream!Deliver(p)
        BY <2>1, <3>1, <3>3, <3>4, <3>5 DEF Stream!Deliver, W, C, D, E, q
      <3> QED
        BY <1>1, <3>6 DEF Stream!Next
    <2>4. CASE t.closing = s.closing /\ t.got = s.got /\ t.eof # s.eof
      <3>1. C' = C /\ D' = D
        BY <1>7, <2>4
      <3>2. ~E[p] /\ E' = [E EXCEPT ![p] = TRUE] /\ t.eof
        <4>1. ~s.eof /\ t.eof = TRUE
          BY <1>2, <1>4, <2>4 DEF Grows
        <4> QED
          BY <1>5, <1>6, <4>1
      <3>3. C[q] /\ Len(D[p]) = W[q]
        BY <1>6, <1>8, <2>4, <3>2
      <3>4. Stream!End(p)
        BY <2>1, <3>1, <3>2, <3>3 DEF Stream!End, W, C, D, E, q
      <3> QED
        BY <1>1, <3>4 DEF Stream!Next
    <2>5. CASE t.closing = s.closing /\ t.got = s.got /\ t.eof = s.eof
      <3>1. C' = C /\ D' = D /\ E' = E
        BY <1>7, <2>5
      <3> QED
        BY <2>1, <3>1 DEF Stream!vars, W, C, D, E
    <2> QED
      BY <2>2, <2>3, <2>4, <2>5
  <1> QED
    BY <1>4, <1>9, <1>10

(* The connection is a byte stream in each direction: every step of it is  *)
(* one of ByteStream, whatever is lost, repeated, delayed or sent again.   *)
THEOREM IsByteStream == Spec => StreamService
  <1>1. Init => Stream!Init
    <2> SUFFICES ASSUME Init PROVE Stream!Init
      OBVIOUS
    <2>1. ASSUME NEW p \in Peer
          PROVE  /\ tcb[p].wrote = 0 /\ tcb[p].closing = FALSE
                 /\ tcb[p].got = <<>> /\ tcb[p].eof = FALSE
      <3>1. \/ tcb[p] = NewBlock("CLOSED", ISS[p], BufSize, {"APPLICATION_CONNECT"})
            \/ tcb[p] = NewBlock("LISTEN", ISS[p], 0, {})
        BY DEF Init
      <3> QED
        BY <3>1 DEF NewBlock
    <2> QED
      BY <2>1 DEF Stream!Init
  <1>2. Inv /\ Agreement /\ Inv' /\ [Next]_vars => [Stream!Next]_(Stream!vars)
    <2>1. ASSUME UNCHANGED vars
          PROVE  UNCHANGED Stream!vars
      BY <2>1 DEF vars, Stream!vars
    <2> QED
      BY <2>1, NextSteps, StepsRefine
  <1> QED
    BY <1>1, <1>2, EndsAgreeAlways, PTL DEF Spec, StreamService, Stream!Spec

-----------------------------------------------------------------------------
(***************************************************************************)
(* What is not acknowledged can be sent again: every step keeps Backlog.   *)
(***************************************************************************)

(* Between handlers a block changes in other respects only.                *)
Aside(s, t) ==
  /\ Keeps(s, t) /\ t.nxt = s.nxt /\ t.state = s.state /\ t.iss = s.iss
  /\ "APPLICATION_CONNECT" \in t.flags => "APPLICATION_CONNECT" \in s.flags

(* A handler keeps Backlog, and so does what is done aside.                *)
LEMMA BacksKeepsBacklog ==
  ASSUME NEW s, "APPLICATION_CONNECT" \in s.flags => s.state = "CLOSED", Backlog(s), NEW t
  PROVE  /\ /\ Backs(s, t) /\ t.iss = s.iss
            /\ "APPLICATION_CONNECT" \in t.flags => "APPLICATION_CONNECT" \in s.flags
            /\ t.state = "LISTEN" => s.state = "LISTEN"
            => Backlog(t)
         /\ Aside(s, t) => Backlog(t)
  BY KeepsBacks DEF Backlog, Backs, Aside

(* What is done aside composes.                                            *)
LEMMA AsideTransitive ==
  ASSUME NEW s, NEW t, NEW u
  PROVE  /\ Aside(s, t) /\ Aside(t, u) => Aside(s, u)
         /\ Aside(s, s)
  BY KeepsTransitive DEF Aside

(* The block of the socket p becomes t; the other one is as it was.        *)
LEMMA UpdateKeepsBacklog ==
  ASSUME Inv, \A x \in Peer : Backlog(tcb[x]), NEW p \in Peer, NEW t,
         tcb' = [tcb EXCEPT ![p] = t], Backlog(t) \/ Aside(tcb[p], t)
  PROVE  \A x \in Peer : Backlog(tcb'[x])
  <1>1. tcb \in [Peer -> Block]
    BY DEF Inv, TypeOK
  <1>2. "APPLICATION_CONNECT" \in tcb[p].flags => tcb[p].state = "CLOSED"
    BY InvOf DEF StateSound
  <1>3. Backlog(t)
    BY <1>2, BacksKeepsBacklog
  <1>4. ASSUME NEW x \in Peer
        PROVE  tcb'[x] = t \/ tcb'[x] = tcb[x]
    BY <1>1
  <1> QED
    BY <1>3, <1>4

(* A handler and the commit of its block.                                  *)
LEMMA CommitKeepsBacklog ==
  ASSUME Inv, Agreement, NEW p \in Peer, \A x \in Peer : Backlog(tcb[x]), TcpThread(p),
         NEW d, Aside(tcb[p], d), NEW h, Commit(p, h), Backs(d, h),
         Handled(d, h, ISS[Other(p)], tcb[Other(p)].wrote, tcb[Other(p)].closing)
  PROVE  \A x \in Peer : Backlog(tcb'[x])
  <1> DEFINE s    == tcb[p]
             none == <<>>
             late == Lesser(h.late, MaxExpiries - expiries)
             t    == [h EXCEPT !.out = none, !.late = late]
  <1>1. tcb \in [Peer -> Block] /\ tcb' = [tcb EXCEPT ![p] = t]
    BY DEF Inv, TypeOK, Commit
  <1>2. h \in BlockOf(Segment, Segment) /\ Continues(d, h)
    BY SoundIsBlock DEF Handled
  <1>3. t.state = h.state /\ t.iss = h.iss /\ t.flags = h.flags /\ SameQueue(h, t)
    <2> HIDE DEF none, late
    <2> QED
      BY <1>2 DEF SameQueue, Running, BlockOf
  <1> HIDE DEF t
  <1>4. t.state = "LISTEN" => s.state = "LISTEN"
    <2>1. PICK u : Steps(p, u)
      BY TcpThreadSteps
    <2>2. u = t
      <3>1. tcb'[p] = u /\ tcb'[p] = t
        BY <1>1, <2>1 DEF Steps
      <3> QED
        BY <3>1
    <2>3. Ages(s, t) /\ s.state \in TcpState /\ t.state \in TcpState
      BY <1>2, <1>3, <2>1, <2>2, AgreedFields, AgreementOf DEF Steps, Agreed, BlockOf
    <2> QED
      BY <2>3, AgeFacts DEF Ages, Age
  <1>5. "APPLICATION_CONNECT" \in s.flags => s.state = "CLOSED"
    BY InvOf DEF StateSound
  <1>6. Backlog(d) /\ ("APPLICATION_CONNECT" \in d.flags => d.state = "CLOSED")
    BY <1>5, BacksKeepsBacklog DEF Aside
  <1>7. h.state = "LISTEN" => d.state = "LISTEN"
    BY <1>3, <1>4 DEF Aside
  <1>8. Backlog(h)
    BY <1>2, <1>6, <1>7, BacksKeepsBacklog DEF Continues
  <1>9. "APPLICATION_CONNECT" \in h.flags => h.state = "CLOSED"
    BY DEF Handled, StateSound
  <1>10. Aside(h, t)
    BY <1>3, KeepsTransitive DEF Aside, SameQueue
  <1>11. Backlog(t)
    BY <1>8, <1>9, <1>10, BacksKeepsBacklog
  <1> QED
    BY <1>1, <1>11, UpdateKeepsBacklog

(* Taking an event's flag down.                                            *)
LEMMA ClearedAside ==
  ASSUME Inv, NEW p \in Peer, NEW e
  PROVE  /\ Cleared(p, e) \in BlockOf(Segment, Segment)
         /\ Aside(tcb[p], Cleared(p, e))
         /\ Cleared(p, e).una = tcb[p].una
  <1> DEFINE s == tcb[p]
             f == s.flags \ {e}
  <1>1. s \in BlockOf(Segment, Segment)
    BY DEF Inv, TypeOK, Block
  <1>2. PICK t : t = [s EXCEPT !.flags = f]
    OBVIOUS
  <1>3. Cleared(p, e) = t
    BY <1>2 DEF Cleared
  <1>4. f \in SUBSET Flag
    BY <1>1 DEF BlockOf
  <1> HIDE DEF s
  <1>5. /\ t \in BlockOf(Segment, Segment) /\ SameQueue(s, t) /\ t.flags = f
        /\ t.state = s.state /\ t.iss = s.iss
    <2> HIDE DEF f
    <2> QED
      BY <1>1, <1>2, <1>4 DEF BlockOf, SameQueue, Running
  <1>6. Aside(s, t)
    BY <1>5, KeepsTransitive DEF Aside, SameQueue
  <1> QED
    BY <1>3, <1>5, <1>6 DEF SameQueue, s

(* The TCP thread.                                                         *)
LEMMA TcpThreadKeepsBacklog ==
  ASSUME Inv, Agreement, NEW p \in Peer, \A x \in Peer : Backlog(tcb[x]), TcpThread(p)
  PROVE  \A x \in Peer : Backlog(tcb'[x])
  <1> DEFINE q == Other(p)
             s == tcb[p]
             w == tcb[q].wrote
             c == tcb[q].closing
  <1>1. /\ ISS[q] \in Nat /\ w \in Nat /\ c \in BOOLEAN /\ Backlog(s)
        /\ Sound(s, ISS[q], w, c) /\ StateSound(s, ISS[q]) /\ StateAgrees(s, ISS[q])
    BY InvOf, AgreementOf DEF Agreed
  <1>2. ASSUME NEW d, NEW h, Commit(p, h), Aside(s, d), Backs(d, h),
               Handled(d, h, ISS[q], w, c)
        PROVE  \A x \in Peer : Backlog(tcb'[x])
    BY <1>2, CommitKeepsBacklog
  <1>3. ASSUME NEW e
        PROVE  LET d == Cleared(p, e)
               IN /\ Sound(d, ISS[q], w, c) /\ StateSound(d, ISS[q])
                  /\ d \in BlockOf(Segment, Segment) /\ Aside(s, d)
                  /\ d.una = s.una /\ d.got = s.got /\ d.rem = s.rem /\ d.flags = s.flags \ {e}
    BY ClearedSound, ClearedAside
  <1> HIDE DEF w, c, q, s
  <1>4. CASE ApplicationClose(p)
    <2> DEFINE d == Cleared(p, "APPLICATION_CLOSE")
    <2>1. s.rem = 0
      <3>1. "APPLICATION_CLOSE" \in s.flags
        BY <1>4 DEF ApplicationClose, Selected, Raised, s
      <3> QED
        BY <1>1, <3>1 DEF Sound, SenderSound
    <2>2. Handled(d, OnClose(d), ISS[q], w, c) /\ Backs(d, OnClose(d))
      BY <1>1, <1>3, <2>1, OnCloseHandled, OnCloseBacks
    <2> QED
      BY <1>2, <1>3, <1>4, <2>2 DEF ApplicationClose
  <1>5. CASE ApplicationConnect(p)
    <2> DEFINE d == Cleared(p, "APPLICATION_CONNECT")
    <2>1. "APPLICATION_CONNECT" \in s.flags /\ Running(s)
      BY <1>5 DEF ApplicationConnect, Selected, Raised, s
    <2>2. Len(d.got) = 0 /\ "APPLICATION_CONNECT" \notin d.flags
      BY <1>1, <1>3, <2>1 DEF StateSound
    <2>3. Unsynced(d)
      <3>1. s.una = s.iss /\ s.nxt = s.iss + 1
        BY <1>1, <2>1 DEF StateAgrees, Backlog
      <3> QED
        BY <1>3, <3>1 DEF Unsynced, Aside
    <2>4. Handled(d, OnConnect(d), ISS[q], w, c) /\ Backs(d, OnConnect(d))
      BY <1>1, <1>3, <2>2, <2>3, OnConnectHandled, OnConnectBacks
    <2> QED
      BY <1>2, <1>3, <1>5, <2>4 DEF ApplicationConnect
  <1>6. CASE ApplicationReceive(p)
    <2> DEFINE d == Cleared(p, "APPLICATION_RECEIVE")
    <2>1. Handled(d, OnReceive(d), ISS[q], w, c) /\ Backs(d, OnReceive(d))
      BY <1>1, <1>3, OnReceiveHandled, OnReceiveBacks
    <2> QED
      BY <1>2, <1>3, <1>6, <2>1 DEF ApplicationReceive
  <1>7. CASE ApplicationSend(p)
    <2> DEFINE d == Cleared(p, "APPLICATION_SEND")
    <2>1. Handled(d, OnSend(d), ISS[q], w, c) /\ Backs(d, OnSend(d))
      BY <1>1, <1>3, OnSendHandled, OnSendBacks
    <2> QED
      BY <1>2, <1>3, <1>7, <2>1 DEF ApplicationSend
  <1>8. CASE PacketArrival(p)
    <2>1. s.pend # <<>>
      <3>1. "PACKET_ARRIVAL" \in Raised(s)
        BY <1>8 DEF PacketArrival, Selected, s
      <3>2. s.flags \subseteq Flag
        BY <1>1 DEF Sound, BlockOf
      <3>3. "PACKET_ARRIVAL" \notin Flag
        BY DEF Flag
      <3> QED
        BY <3>1, <3>2, <3>3 DEF Raised
    <2>2. Running(s) /\ s.state = "LISTEN" => Unsynced(s)
      BY <1>1 DEF StateAgrees, Backlog, Unsynced
    <2>3. Handled(s, OnPacket(s), ISS[q], w, c) /\ Backs(s, OnPacket(s))
      BY <1>1, <2>1, <2>2, OnPacketHandled, OnPacketBacks
    <2> QED
      BY <1>2, <1>8, <2>3, AsideTransitive DEF PacketArrival, s
  <1>9. CASE Cleanup(p)
    <2> DEFINE d == Cleared(p, "CLEANUP")
    <2>1. Handled(d, OnCleanup(d), ISS[q], w, c) /\ Backs(d, OnCleanup(d))
      BY <1>1, <1>3, OnCleanupHandled, OnCleanupBacks
    <2> QED
      BY <1>2, <1>3, <1>9, <2>1 DEF Cleanup
  <1>10. CASE Timeout(p)
    <2> DEFINE d == Cleared(p, "TIMEOUT")
    <2>1. Handled(d, OnTimeout(d), ISS[q], w, c) /\ Backs(d, OnTimeout(d))
      BY <1>1, <1>3, OnTimeoutHandled, OnTimeoutBacks
    <2> QED
      BY <1>2, <1>3, <1>10, <2>1 DEF Timeout
  <1>11. CASE Spin(p)
    <2> DEFINE out  == <<MakeSegment(s, 0, 0, FALSE, TRUE, s.nxt, FALSE)>>
               none == <<>>
               late == Lesser(s.late, MaxExpiries - expiries)
               h    == [s EXCEPT !.out = out]
               t    == [s EXCEPT !.out = none, !.late = late]
    <2>1. s \in BlockOf(Segment, Segment) /\ s.thr = "spin"
      BY <1>1, <1>11, SoundIsBlock DEF Spin, s
    <2>2. Commit(p, h)
      BY <1>11 DEF Spin, s
    <2>3. tcb' = [tcb EXCEPT ![p] = t]
      <3>1. h.late = s.late /\ [h EXCEPT !.out = none, !.late = late] = t
        <4> HIDE DEF none, late, out
        <4> QED
          BY <2>1 DEF BlockOf
      <3> QED
        BY <2>2, <3>1 DEF Commit
    <2>4. ~Running(t)
      <3> HIDE DEF none, late
      <3> QED
        BY <2>1 DEF BlockOf, Running
    <2> HIDE DEF t
    <2>5. Backlog(t)
      BY <2>4 DEF Backlog
    <2> QED
      BY <2>3, <2>5, UpdateKeepsBacklog
  <1> QED
    BY <1>4, <1>5, <1>6, <1>7, <1>8, <1>9, <1>10, <1>11 DEF TcpThread

(* What happens between handlers: a timer expires, ...                     *)
LEMMA ExpiredAside ==
  ASSUME NEW s \in BlockOf(Segment, Segment), NEW i \in DOMAIN s.rtq
  PROVE  Expired(s, i) \in BlockOf(Segment, Segment) /\ Aside(s, Expired(s, i))
  <1> DEFINE x == Expired(s, i)
  <1>1. x \in BlockOf(Segment, Segment) /\ Unmoved(s, x)
    BY ExpiredType
  <1>2. /\ x.una = s.una /\ DOMAIN x.rtq = DOMAIN s.rtq
        /\ \A j \in DOMAIN s.rtq : x.rtq[j].seg = s.rtq[j].seg
    <2> DEFINE m   == [s.rtq[i] EXCEPT !.due = TRUE]
               rtq == [s.rtq EXCEPT ![i] = m]
    <2>1. s.rtq \in Seq(Member(Segment))
      BY DEF BlockOf
    <2>2. s.rtq[i] \in Member(Segment)
      BY <2>1, ElementOfSeq, LenProperties
    <2>3. m.seg = s.rtq[i].seg
      BY <2>2 DEF Member
    <2>4. x = [s EXCEPT !.rtq = rtq]
      BY DEF Expired
    <2> HIDE DEF m, x
    <2>5. DOMAIN rtq = DOMAIN s.rtq /\ \A j \in DOMAIN s.rtq : rtq[j].seg = s.rtq[j].seg
      BY <2>1, <2>3
    <2> HIDE DEF rtq
    <2>6. x.una = s.una /\ x.rtq = rtq
      BY <2>4 DEF BlockOf
    <2> QED
      BY <2>5, <2>6
  <1> HIDE DEF x
  <1>3. Backed(s) => Backed(x)
    <2>1. ASSUME NEW n, Queued(s.rtq, n)
          PROVE  Queued(x.rtq, n)
      BY <1>2, <2>1 DEF Queued
    <2> QED
      BY <1>1, <1>2, <2>1 DEF Backed, Unmoved, SameStream
  <1>4. Aside(s, x)
    BY <1>1, <1>3 DEF Aside, Keeps, Unmoved, SameStream
  <1> QED
    BY <1>1, <1>4 DEF x

(* ... an event's flag goes up, ...                                        *)
LEMMA RaiseAside ==
  ASSUME NEW s \in BlockOf(Segment, Segment),
         NEW e \in {"APPLICATION_RECEIVE", "APPLICATION_SEND", "APPLICATION_CLOSE", "TIMEOUT"}
  PROVE  Aside(s, Raise(s, e))
  <1> DEFINE f == s.flags \cup {e}
  <1>1. "APPLICATION_CONNECT" \in f => "APPLICATION_CONNECT" \in s.flags
    OBVIOUS
  <1>2. PICK t : t = [s EXCEPT !.flags = f]
    OBVIOUS
  <1>3. Raise(s, e) = t
    BY <1>2 DEF Raise
  <1> HIDE DEF f
  <1>4. SameQueue(s, t) /\ t.flags = f /\ t.state = s.state /\ t.iss = s.iss
    BY <1>2 DEF BlockOf, SameQueue, Running
  <1>5. Aside(s, t)
    BY <1>1, <1>4, KeepsTransitive DEF Aside, SameQueue
  <1> QED
    BY <1>3, <1>5

(* ... a timer is late, the reader has read, ...                           *)
LEMMA CountAside ==
  ASSUME NEW s \in BlockOf(Segment, Segment), NEW n
  PROVE  /\ Aside(s, [s EXCEPT !.late = n])
         /\ Aside(s, [s EXCEPT !.rd = n])
  <1>1. PICK t : t = [s EXCEPT !.late = n]
    OBVIOUS
  <1>2. PICK u : u = [s EXCEPT !.rd = n]
    OBVIOUS
  <1>3. /\ SameQueue(s, t) /\ t.flags = s.flags /\ t.state = s.state /\ t.iss = s.iss
        /\ SameQueue(s, u) /\ u.flags = s.flags /\ u.state = s.state /\ u.iss = s.iss
    BY <1>1, <1>2 DEF BlockOf, SameQueue, Running
  <1>4. Aside(s, t) /\ Aside(s, u)
    BY <1>3, KeepsTransitive DEF Aside, SameQueue
  <1> QED
    BY <1>1, <1>2, <1>4

(* ... the writer has written, ...                                         *)
LEMMA FillAside ==
  ASSUME NEW s \in BlockOf(Segment, Segment), BuffersSound(s), NEW n \in Nat
  PROVE  Aside(s, Fill(s, n))
  <1> DEFINE k     == Lesser(n, BufSize - Unsent(s))
             wrote == s.wrote + k
             rem   == n - k
             u     == [s EXCEPT !.wrote = wrote, !.rem = rem]
  <1>1. s.wrote \in Nat /\ s.taken \in Nat /\ s.wrote <= s.taken + BufSize
    BY DEF BlockOf, BuffersSound
  <1>2. k \in Nat /\ k <= n
    BY <1>1, TcbAssumption DEF Lesser, Unsent
  <1> HIDE DEF k
  <1>3. wrote \in Nat /\ rem \in Nat
    BY <1>1, <1>2
  <1>4. Fill(s, n) \in {u, Raise(u, "APPLICATION_SEND")}
    BY DEF Fill, k
  <1> HIDE DEF wrote, rem
  <1>5. /\ u \in BlockOf(Segment, Segment)
        /\ SameQueue(s, u) /\ u.flags = s.flags /\ u.state = s.state /\ u.iss = s.iss
    BY <1>3 DEF BlockOf, SameQueue, Running
  <1> HIDE DEF u
  <1>6. Aside(s, u)
    BY <1>5, KeepsTransitive DEF Aside, SameQueue
  <1>7. Aside(s, Raise(u, "APPLICATION_SEND"))
    BY <1>5, <1>6, RaiseAside, AsideTransitive
  <1> QED
    BY <1>4, <1>6, <1>7

(* ... or a packet is stored.                                              *)
LEMMA StillAside ==
  ASSUME NEW s, NEW t, Still(s, t), t.rtq = s.rtq
  PROVE  Aside(s, t)
  <1>1. SameQueue(s, t) /\ t.state = s.state /\ t.iss = s.iss
    BY DEF Still, Unmoved, SameStream, SameQueue
  <1> QED
    BY <1>1, KeepsTransitive DEF Aside, SameQueue, Still, Unmoved, SameStream

(* All of it is done aside.                                                *)
LEMMA OthersMoveAside ==
  ASSUME Inv, NEW p \in Peer, Timers(p) \/ Application(p) \/ Connection(p)
  PROVE  \E t : tcb' = [tcb EXCEPT ![p] = t] /\ Aside(tcb[p], t)
  <1> DEFINE s == tcb[p]
             Moved(t) == tcb' = [tcb EXCEPT ![p] = t]
             Done == \E t : Moved(t) /\ Aside(s, t)
  <1>1. /\ s \in BlockOf(Segment, Segment) /\ BuffersSound(s) /\ s.rem \in Nat
        /\ tcb \in [Peer -> Block]
    BY InvOf, SoundFields DEF Inv, TypeOK, Block, Sound
  <1>2. CASE Timers(p)
    <2>1. ASSUME NEW i \in DOMAIN s.rtq
          PROVE  Aside(s, Raise(Expired(s, i), "TIMEOUT")) /\ Aside(s, Delayed(Expired(s, i)))
      <3> DEFINE x == Expired(s, i)
      <3>1. x \in BlockOf(Segment, Segment) /\ Aside(s, x)
        BY <1>1, ExpiredAside
      <3> HIDE DEF x
      <3>2. Aside(x, Raise(x, "TIMEOUT")) /\ Aside(x, Delayed(x))
        BY <3>1, RaiseAside, CountAside DEF Delayed
      <3> QED
        BY <3>1, <3>2, AsideTransitive DEF x
    <2>2. s.late > 0 => Aside(s, Raise([s EXCEPT !.late = @ - 1], "TIMEOUT"))
      <3> SUFFICES ASSUME s.late > 0
                   PROVE  Aside(s, Raise([s EXCEPT !.late = @ - 1], "TIMEOUT"))
        OBVIOUS
      <3> DEFINE late == s.late - 1
                 x    == [s EXCEPT !.late = late]
      <3>1. s.late \in Nat
        BY <1>1 DEF BlockOf
      <3>2. late \in Nat
        BY <3>1
      <3> HIDE DEF late, s
      <3>3. x \in BlockOf(Segment, Segment) /\ Aside(s, x)
        BY <1>1, <3>2, LateType, CountAside
      <3> HIDE DEF x
      <3>4. Aside(x, Raise(x, "TIMEOUT"))
        BY <3>3, RaiseAside
      <3> QED
        BY <3>3, <3>4, AsideTransitive DEF x, late
    <2>3. \/ \E i \in DOMAIN s.rtq : \/ Moved(Raise(Expired(s, i), "TIMEOUT"))
                                     \/ Moved(Delayed(Expired(s, i)))
          \/ s.late > 0 /\ Moved(Raise([s EXCEPT !.late = @ - 1], "TIMEOUT"))
      BY <1>2 DEF Timers, TimerExpires, EarlyTimer, LateTimer
    <2> HIDE DEF s, Moved
    <2>4. Done
      BY <2>1, <2>2, <2>3
    <2> QED
      BY <2>4 DEF s, Moved
  <1>3. CASE Application(p)
    <2>1. ASSUME NEW n \in Nat
          PROVE  /\ Aside(s, Fill(s, n))
                 /\ Aside(s, [s EXCEPT !.rd = @ + n])
                 /\ Aside(s, Raise([s EXCEPT !.rd = @ + n], "APPLICATION_RECEIVE"))
      <3> DEFINE rd == s.rd + n
                 x  == [s EXCEPT !.rd = rd]
      <3>1. s.rd \in Nat
        BY <1>1 DEF BlockOf
      <3>2. rd \in Nat
        BY <3>1
      <3>3. Aside(s, Fill(s, n))
        BY <1>1, FillAside
      <3> HIDE DEF rd, s
      <3>4. x \in BlockOf(Segment, Segment) /\ Aside(s, x)
        BY <1>1, <3>2, CountAside DEF BlockOf
      <3> HIDE DEF x
      <3>5. Aside(x, Raise(x, "APPLICATION_RECEIVE"))
        BY <3>4, RaiseAside
      <3> QED
        BY <3>3, <3>4, <3>5, AsideTransitive DEF x, rd
    <2>2. Aside(s, Raise(s, "APPLICATION_CLOSE"))
      BY <1>1, RaiseAside
    <2>3. \/ \E n \in Nat : \/ Moved(Fill(s, n))
                            \/ Moved([s EXCEPT !.rd = @ + n])
                            \/ Moved(Raise([s EXCEPT !.rd = @ + n], "APPLICATION_RECEIVE"))
          \/ Moved(Raise(s, "APPLICATION_CLOSE"))
      <3>1. 1 .. BufSize \subseteq Nat
        BY TcbAssumption
      <3>2. ASSUME NEW n \in 1 .. BufSize, SocketSend(p, n)
            PROVE  Moved(Fill(s, n))
        BY <3>2 DEF SocketSend, Update
      <3>3. ASSUME NEW n \in 1 .. BufSize, SocketRecv(p, n)
            PROVE  \/ Moved([s EXCEPT !.rd = @ + n])
                   \/ Moved(Raise([s EXCEPT !.rd = @ + n], "APPLICATION_RECEIVE"))
        BY <3>3 DEF SocketRecv, Update
      <3>4. SocketSendResumes(p) => Moved(Fill(s, s.rem))
        BY DEF SocketSendResumes, Update
      <3>5. SocketClose(p) => Moved(Raise(s, "APPLICATION_CLOSE"))
        BY DEF SocketClose, Update
      <3> HIDE DEF s, Moved
      <3> QED
        BY <1>1, <1>3, <3>1, <3>2, <3>3, <3>4, <3>5 DEF Application
    <2> HIDE DEF s, Moved
    <2>4. Done
      BY <2>1, <2>2, <2>3
    <2> QED
      BY <2>4 DEF s, Moved
  <1>4. CASE Connection(p)
    <2>1. /\ tcb[p] \in BlockOf(Segment, Segment) /\ net[p] \in Seq(Segment)
          /\ DOMAIN net = Peer
      BY <1>1, InvOf
    <2>2. PICK t : tcb' = [tcb EXCEPT ![p] = t] /\ Still(tcb[p], t) /\ t.rtq = tcb[p].rtq
      BY <1>1, <1>4, <2>1, ConnectionStores
    <2> QED
      BY <2>2, StillAside
  <1> QED
    BY <1>2, <1>3, <1>4

(* Every step keeps Backlog.                                               *)
LEMMA NextKeepsBacklog ==
  Inv /\ Agreement /\ (\A x \in Peer : Backlog(tcb[x])) /\ [Next]_vars
    => (\A x \in Peer : Backlog(tcb[x]))'
  <1> SUFFICES ASSUME Inv, Agreement, \A x \in Peer : Backlog(tcb[x]), [Next]_vars
               PROVE  \A x \in Peer : Backlog(tcb'[x])
    OBVIOUS
  <1>1. CASE UNCHANGED vars
    BY <1>1 DEF vars
  <1>2. ASSUME NEW p \in Peer, TcpThread(p)
        PROVE  \A x \in Peer : Backlog(tcb'[x])
    BY <1>2, TcpThreadKeepsBacklog
  <1>3. ASSUME NEW p \in Peer, Timers(p) \/ Application(p) \/ Connection(p)
        PROVE  \A x \in Peer : Backlog(tcb'[x])
    <2>1. PICK t : tcb' = [tcb EXCEPT ![p] = t] /\ Aside(tcb[p], t)
      BY <1>3, OthersMoveAside
    <2> QED
      BY <2>1, UpdateKeepsBacklog
  <1> QED
    BY <1>1, <1>2, <1>3 DEF Next

(* Everything between SND_UNA and SND_NXT is in the retransmission queue,  *)
(* through every acknowledgement, timeout and resend: no byte is given up  *)
(* before the peer has acknowledged it.                                    *)
THEOREM OutstandingStaysQueued == Spec => []OutstandingIsQueued
  <1>1. Init => \A x \in Peer : Backlog(tcb[x])
    <2> SUFFICES ASSUME Init, NEW x \in Peer
                 PROVE  Backlog(tcb[x])
      OBVIOUS
    <2>1. \/ tcb[x] = NewBlock("CLOSED", ISS[x], BufSize, {"APPLICATION_CONNECT"})
          \/ tcb[x] = NewBlock("LISTEN", ISS[x], 0, {})
      BY DEF Init
    <2> QED
      BY <2>1 DEF NewBlock, Backlog
  <1>2. (\A x \in Peer : Backlog(tcb[x])) => OutstandingIsQueued
    BY DEF Backlog, Backed, Queued, OutstandingIsQueued
  <1> QED
    BY <1>1, <1>2, NextKeepsBacklog, EndsAgreeAlways, PTL DEF Spec
=============================================================================
