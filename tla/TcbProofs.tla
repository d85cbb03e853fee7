------------------------------ MODULE TcbProofs ------------------------------
(***************************************************************************)
(* Lemmas on the operators of module Tcb: each one turns a control block   *)
(* that is Sound (module TcpInvariant) into one that is Sound, and says    *)
(* what else it leaves alone.                                              *)
(***************************************************************************)
EXTENDS TcpInvariant, FiniteSetTheorems, SequenceTheorems, TLAPS

(* Every rank up to the size of a finite set of numbers is the rank of one *)
(* of its members: the positions that process_timeout and                  *)
(* process_q_after_ack keep can be numbered.                               *)
LEMMA RankExists ==
  ASSUME NEW n \in Nat, NEW I \in SUBSET (1 .. n),
         NEW k \in 1 .. Cardinality(I)
  PROVE  \E i \in I : Cardinality({j \in I : j <= i}) = k
  <1> DEFINE Upto(i) == {j \in I : j <= i}
             rank == [i \in I |-> Cardinality(Upto(i))]
  <1>0. I \in SUBSET Nat
    OBVIOUS
  <1>1. IsFiniteSet(I) /\ Cardinality(I) \in Nat
    <2>1. IsFiniteSet(1 .. n)
      BY FS_Interval
    <2> QED
      BY <2>1, FS_Subset, FS_CardinalityType
  <1>2. ASSUME NEW i \in I
        PROVE  /\ IsFiniteSet(Upto(i))
               /\ Cardinality(Upto(i)) \in 1 .. Cardinality(I)
    <2>1. Upto(i) \in SUBSET I /\ i \in Upto(i)
      BY <1>0
    <2>2. /\ IsFiniteSet(Upto(i))
          /\ Cardinality(Upto(i)) \in Nat
          /\ Cardinality(Upto(i)) <= Cardinality(I)
      BY <1>1, <2>1, FS_Subset, FS_CardinalityType
    <2>3. Cardinality(Upto(i)) # 0
      BY <2>1, <2>2, FS_EmptySet
    <2> QED
      BY <1>1, <2>2, <2>3
  <1>3. ASSUME NEW a \in I, NEW b \in I, a < b
        PROVE  Cardinality(Upto(a)) # Cardinality(Upto(b))
    <2>1. Upto(a) \in SUBSET Upto(b) /\ b \in Upto(b) /\ b \notin Upto(a)
      <3>1. \A j \in I : j <= a => j <= b
        BY <1>0, <1>3
      <3>2. b <= b /\ ~(b <= a)
        BY <1>0, <1>3
      <3> QED
        BY <3>1, <3>2
    <2>2. Upto(a) # Upto(b)
      BY <2>1
    <2> QED
      BY <1>2, <2>1, <2>2, FS_Subset
  <1>4. rank \in Injection(I, 1 .. Cardinality(I))
    <2>1. rank \in [I -> 1 .. Cardinality(I)]
      BY <1>2
    <2>2. ASSUME NEW a \in I, NEW b \in I, rank[a] = rank[b]
          PROVE  a = b
      <3>1. a \in Nat /\ b \in Nat
        OBVIOUS
      <3>2. ~(a < b) /\ ~(b < a)
        BY <1>3, <2>2
      <3> QED
        BY <3>1, <3>2
    <2> QED
      BY <2>1, <2>2 DEF Injection, IsInjective
  <1>5. /\ IsFiniteSet(1 .. Cardinality(I))
        /\ Cardinality(1 .. Cardinality(I)) = Cardinality(I)
    BY <1>1, FS_Interval
  <1>6. rank \in Surjection(I, 1 .. Cardinality(I))
    BY <1>4, <1>5, FS_Injection
  <1>7. PICK i \in I : rank[i] = k
    BY <1>6 DEF Surjection
  <1> QED
    BY <1>7

(* Deleting members of a queue leaves a queue of the same members.         *)
LEMMA PickProperties ==
  ASSUME NEW T, NEW q \in Seq(T), NEW I \in SUBSET DOMAIN q
  PROVE  /\ Cardinality(I) \in Nat
         /\ Pick(q, I) \in Seq(T)
         /\ Len(Pick(q, I)) = Cardinality(I)
         /\ \A k \in 1 .. Cardinality(I) : \E i \in I : Pick(q, I)[k] = q[i]
  <1>1. Len(q) \in Nat /\ DOMAIN q = 1 .. Len(q)
    BY LenProperties
  <1>2. IsFiniteSet(I) /\ Cardinality(I) \in Nat
    <2>1. IsFiniteSet(1 .. Len(q))
      BY <1>1, FS_Interval
    <2> QED
      BY <1>1, <2>1, FS_Subset, FS_CardinalityType
  <1> DEFINE At(k) == CHOOSE i \in I : Cardinality({j \in I : j <= i}) = k
  <1>3. ASSUME NEW k \in 1 .. Cardinality(I)
        PROVE  At(k) \in I
    BY <1>1, RankExists
  <1>4. ASSUME NEW k \in 1 .. Cardinality(I)
        PROVE  q[At(k)] \in T
    BY <1>1, <1>3, ElementOfSeq
  <1>5. Pick(q, I) = [k \in 1 .. Cardinality(I) |-> q[At(k)]]
    BY DEF Pick
  <1> HIDE DEF At
  <1>6. Pick(q, I) \in [1 .. Cardinality(I) -> T]
    BY <1>4, <1>5
  <1>7. Pick(q, I) \in Seq(T)
    BY <1>2, <1>6, SeqDef
  <1>8. Len(Pick(q, I)) = Cardinality(I)
    BY <1>2, <1>6, <1>7, LenProperties
  <1> QED
    BY <1>2, <1>3, <1>5, <1>7, <1>8

-----------------------------------------------------------------------------
(* SameStream: neither of the two streams has moved from s to t ...        *)
SameStream(s, t) ==
  /\ t.iss = s.iss /\ t.wrote = s.wrote /\ t.taken = s.taken /\ t.rem = s.rem
  /\ t.got = s.got /\ t.rd = s.rd /\ t.eof = s.eof /\ t.rnxt = s.rnxt
  /\ t.rwnd = s.rwnd
  /\ t.closing = s.closing /\ t.finsent = s.finsent
  /\ t.nxt = s.nxt
  /\ Running(t) => Running(s)
  /\ \A e \in {"APPLICATION_CLOSE", "APPLICATION_CONNECT"} :
       e \in t.flags <=> e \in s.flags

(* ... nor the state of the connection.                                    *)
Unmoved(s, t) == SameStream(s, t) /\ t.state = s.state

(* SameStream and Unmoved compose, as the calls of a handler do.           *)
LEMMA SameStreamTransitive ==
  ASSUME NEW s, NEW t, NEW u
  PROVE  /\ SameStream(s, t) /\ SameStream(t, u) => SameStream(s, u)
         /\ Unmoved(s, t) /\ Unmoved(t, u) => Unmoved(s, u)
         /\ Unmoved(s, s)
  BY DEF SameStream, Unmoved

(* chitcpd_update_tcp_state changes the state and at most raises CLEANUP.  *)
LEMMA SetStateProperties ==
  ASSUME NEW In, NEW Out, NEW s \in BlockOf(In, Out), NEW st \in TcpState
  PROVE  /\ SetState(s, st) \in BlockOf(In, Out)
         /\ SameStream(s, SetState(s, st))
         /\ SetState(s, st).state \in {s.state, st}
         /\ SetState(s, st).thr = s.thr
  <1>1. s.flags \cup {"CLEANUP"} \in SUBSET Flag
    BY DEF BlockOf, Flag
  <1> QED
    BY <1>1 DEF BlockOf, SetState, SameStream, Unmoved, Running

(* chitcpd_tcp_add_packet_to_retrans_q changes the retransmission queue    *)
(* only, or leaves the thread stuck.                                       *)
LEMMA EnqueueProperties ==
  ASSUME NEW In, NEW Out, NEW s \in BlockOf(In, Out), NEW g \in Out
  PROVE  /\ Enqueue(s, g) \in BlockOf(In, Out)
         /\ Unmoved(s, Enqueue(s, g))
         /\ Enqueue(s, g).out = s.out
  <1>1. s.rtq \in Seq(Member(Out)) /\ "stuck" \in Thread
    BY DEF BlockOf, Thread
  <1>2. [seg |-> g, due |-> FALSE] \in Member(Out)
    BY DEF Member
  <1>3. Append(s.rtq, [seg |-> g, due |-> FALSE]) \in Seq(Member(Out))
    BY <1>1, <1>2
  <1> HIDE DEF Member
  <1> QED
    BY <1>1, <1>3 DEF BlockOf, Enqueue, SameStream, Unmoved, Running

(* process_q_after_ack changes the retransmission queue only, or leaves    *)
(* the thread stuck.                                                       *)
LEMMA ProcessQProperties ==
  ASSUME NEW In, NEW Out, NEW s \in BlockOf(In, Out)
  PROVE  /\ ProcessQ(s) \in BlockOf(In, Out)
         /\ Unmoved(s, ProcessQ(s))
         /\ ProcessQ(s).out = s.out
  <1>1. s.rtq \in Seq(Member(Out)) /\ s.late \in Nat /\ "stuck" \in Thread
    BY DEF BlockOf, Thread
  <1>2. Acked(s) \in SUBSET DOMAIN s.rtq /\ Untimed(s, Acked(s)) \in SUBSET DOMAIN s.rtq
    BY DEF Acked, Untimed
  <1>3. DOMAIN s.rtq \ Acked(s) \in SUBSET DOMAIN s.rtq
    OBVIOUS
  <1>4. Pick(s.rtq, DOMAIN s.rtq \ Acked(s)) \in Seq(Member(Out))
    BY <1>1, <1>3, PickProperties
  <1>5. s.late + Cardinality(Untimed(s, Acked(s))) \in Nat
    BY <1>1, <1>2, PickProperties
  <1> QED
    BY <1>1, <1>4, <1>5 DEF BlockOf, ProcessQ, SameStream, Unmoved, Running

(* A segment without payload.                                              *)
Empty(g) == g.len = 0

(* chitcpd_tcp_send_packet without payload leaves the stream and the state *)
(* alone: SND_NXT does not count SYN and FIN.                              *)
LEMMA SendEmpty ==
  ASSUME NEW In, NEW Out, NEW s \in BlockOf(In, Out), NEW g \in Out,
         Empty(g)
  PROVE  /\ Send(s, g) \in BlockOf(In, Out)
         /\ Unmoved(s, Send(s, g))
  <1> DEFINE sent == [s EXCEPT !.out = Append(@, g)]
  <1>1. Append(s.out, g) \in Seq(Out) /\ s.nxt \in Nat
    BY DEF BlockOf
  <1>2. sent \in BlockOf(In, Out) /\ Unmoved(s, sent)
    BY <1>1 DEF BlockOf, SameStream, Unmoved, Running
  <1>3. PICK kept \in {sent, Enqueue(sent, g)} :
          Send(s, g) \in {s, kept, [kept EXCEPT !.nxt = @ + g.len]}
    BY DEF Send
  <1> HIDE DEF sent
  <1>4. kept \in BlockOf(In, Out) /\ Unmoved(s, kept)
    <2>1. /\ Enqueue(sent, g) \in BlockOf(In, Out)
          /\ Unmoved(sent, Enqueue(sent, g))
      BY <1>2, EnqueueProperties
    <2>2. Unmoved(s, Enqueue(sent, g))
      BY <1>2, <2>1, SameStreamTransitive
    <2> QED
      BY <1>2, <1>3, <2>1, <2>2
  <1>5. kept.nxt \in Nat /\ kept.nxt + g.len = kept.nxt
    BY <1>4 DEF BlockOf, Empty
  <1>6. [kept EXCEPT !.nxt = @ + g.len] = kept
    BY <1>4, <1>5 DEF BlockOf
  <1>7. Unmoved(s, s)
    BY SameStreamTransitive
  <1> QED
    BY <1>3, <1>4, <1>6, <1>7

(* The peer's SYN has been handled.                                        *)
Opened(s, iss) ==
  /\ Synced(s, iss)
  /\ s.state \notin {"LISTEN", "SYN_SENT"}
  /\ "APPLICATION_CONNECT" \notin s.flags

(* Continues: the relation of a block to the one a handler makes of it.    *)
Continues(s, t) ==
  /\ t.iss = s.iss /\ t.wrote = s.wrote
  /\ s.closing => t.closing
  /\ Running(t) => Running(s)
  /\ "APPLICATION_CONNECT" \in t.flags => "APPLICATION_CONNECT" \in s.flags

(* What a part of a handler makes of a Sound block.                        *)
Follows(s, t, iss, w, c) ==
  /\ Sound(t, iss, w, c)
  /\ Continues(s, t)
  /\ Opened(s, iss) => Opened(t, iss)

(* What a socket can have sent stays so when its application writes more   *)
(* or closes.                                                              *)
LEMMA SentByMonotonic ==
  ASSUME NEW iss \in Nat, NEW w \in Nat, NEW v \in Nat,
         NEW c \in BOOLEAN, NEW d \in BOOLEAN,
         w <= v, c => d /\ v = w
  PROVE  SentBy(iss, w, c) \subseteq SentBy(iss, v, d)
  BY DEF SentBy, Segment

(* A control block that holds segments of smaller sets holds segments of   *)
(* larger ones.                                                            *)
LEMMA BlockMonotonic ==
  ASSUME NEW In, NEW Out, NEW In2, NEW Out2, In \subseteq In2, Out \subseteq Out2,
         NEW s \in BlockOf(In, Out)
  PROVE  s \in BlockOf(In2, Out2)
  <1>1. Member(Out) \subseteq Member(Out2)
    BY DEF Member
  <1>2. /\ s.rtq \in Seq(Member(Out)) /\ s.oop \in Seq(In) /\ s.pend \in Seq(In)
        /\ s.held \in Seq(In) /\ s.out \in Seq(Out)
    BY DEF BlockOf
  <1>3. /\ s.rtq \in Seq(Member(Out2)) /\ s.oop \in Seq(In2) /\ s.pend \in Seq(In2)
        /\ s.held \in Seq(In2) /\ s.out \in Seq(Out2)
    BY <1>1, <1>2, SeqMonotonic
  <1> QED
    BY <1>3 DEF BlockOf

(* A part of a handler that leaves the streams alone keeps a block sound.  *)
LEMMA SameStreamSound ==
  ASSUME NEW iss \in Nat, NEW w \in Nat, NEW c \in BOOLEAN,
         NEW s, Sound(s, iss, w, c),
         NEW t \in BlockOf(SentBy(iss, w, c), SentBy(s.iss, s.wrote, s.closing)),
         SameStream(s, t)
  PROVE  Sound(t, iss, w, c) /\ Continues(s, t)
  <1>1. SentBy(t.iss, t.wrote, t.closing) = SentBy(s.iss, s.wrote, s.closing)
    BY DEF SameStream
  <1>2. BuffersSound(t) /\ ReceiverSound(t, w, c)
    BY DEF Sound, SameStream, BuffersSound, ReceiverSound
  <1>3. SenderSound(t)
    BY DEF Sound, SameStream, SenderSound
  <1>4. Continues(s, t)
    BY DEF SameStream, Continues
  <1> QED
    BY <1>1, <1>2, <1>3, <1>4 DEF Sound

(* ... and if it leaves the state alone too, whatever depends on the state *)
(* is kept.                                                                *)
LEMMA UnmovedFollows ==
  ASSUME NEW iss \in Nat, NEW w \in Nat, NEW c \in BOOLEAN,
         NEW s, Sound(s, iss, w, c),
         NEW t \in BlockOf(SentBy(iss, w, c), SentBy(s.iss, s.wrote, s.closing)),
         Unmoved(s, t)
  PROVE  /\ Follows(s, t, iss, w, c)
         /\ StateSound(s, iss) => StateSound(t, iss)
  <1>1. SameStream(s, t)
    BY DEF Unmoved
  <1>2. Sound(t, iss, w, c) /\ Continues(s, t)
    BY <1>1, SameStreamSound
  <1>3. /\ Opened(s, iss) => Opened(t, iss)
        /\ StateSound(s, iss) => StateSound(t, iss)
    BY DEF Unmoved, SameStream, Opened, Synced, StateSound
  <1> QED
    BY <1>2, <1>3 DEF Follows

(* Follows composes, as the calls of a handler do.                         *)
LEMMA FollowsTransitive ==
  ASSUME NEW iss, NEW w, NEW c, NEW s, NEW t, NEW u,
         Follows(s, t, iss, w, c), Follows(t, u, iss, w, c)
  PROVE  Follows(s, u, iss, w, c)
  BY DEF Follows, Continues

(* Continues composes.                                                     *)
LEMMA ContinuesTransitive ==
  ASSUME NEW s, NEW t, NEW u, Continues(s, t), Continues(t, u)
  PROVE  Continues(s, u)
  BY DEF Continues

(* A handler that ignores its event.                                       *)
LEMMA FollowsReflexive ==
  ASSUME NEW iss, NEW w, NEW c, NEW s, Sound(s, iss, w, c)
  PROVE  Follows(s, s, iss, w, c)
  BY DEF Follows, Continues

(* A block is Opened in the states in which the peer's SYN has been        *)
(* handled.                                                                *)
LEMMA OpenedStateSound ==
  ASSUME NEW iss, NEW s
  PROVE  /\ Opened(s, iss) => StateSound(s, iss)
         /\ StateSound(s, iss) /\ s.state \notin {"CLOSED", "LISTEN", "SYN_SENT"}
              => Opened(s, iss)
  BY DEF StateSound, Opened

(* Rearming the timers of a queue of packets, and sending them again.      *)
LEMMA RetransmissionTypes ==
  ASSUME NEW Out, NEW q \in Seq(Member(Out))
  PROVE  Rearmed(q) \in Seq(Member(Out)) /\ Segments(q) \in Seq(Out)
  <1>1. Len(q) \in Nat /\ DOMAIN q = 1 .. Len(q)
    BY LenProperties
  <1>2. ASSUME NEW i \in 1 .. Len(q)
        PROVE  [q[i] EXCEPT !.due = FALSE] \in Member(Out) /\ q[i].seg \in Out
    <2>1. q[i] \in Member(Out)
      BY ElementOfSeq
    <2> QED
      BY <2>1 DEF Member
  <1>3. Rearmed(q) \in [1 .. Len(q) -> Member(Out)]
    BY <1>1, <1>2 DEF Rearmed
  <1>4. Segments(q) \in [1 .. Len(q) -> Out]
    BY <1>1, <1>2 DEF Segments
  <1> QED
    BY <1>1, <1>3, <1>4, SeqDef

(* process_timeout sends again what was sent before: it touches the        *)
(* retransmission queue only, or leaves the thread stuck or the lock held. *)
LEMMA ProcessTimeoutProperties ==
  ASSUME NEW In, NEW Out, NEW s \in BlockOf(In, Out)
  PROVE  /\ ProcessTimeout(s) \in BlockOf(In, Out)
         /\ Unmoved(s, ProcessTimeout(s))
  <1> DEFINE again == Pick(s.rtq, Resent(s))
             rest == Pick(s.rtq, DOMAIN s.rtq \ Resent(s))
             t == [s EXCEPT
                    !.rtq  = rest \o Rearmed(again),
                    !.late = @ + Cardinality(Untimed(s, Resent(s))),
                    !.out  = @ \o Segments(again)]
  <1>1. /\ s.rtq \in Seq(Member(Out)) /\ s.late \in Nat /\ s.out \in Seq(Out)
        /\ "stuck" \in Thread
    BY DEF BlockOf, Thread
  <1>2. /\ Resent(s) \in SUBSET DOMAIN s.rtq
        /\ DOMAIN s.rtq \ Resent(s) \in SUBSET DOMAIN s.rtq
        /\ Untimed(s, Resent(s)) \in SUBSET DOMAIN s.rtq
    BY DEF Resent, Untimed
  <1>3. /\ again \in Seq(Member(Out)) /\ rest \in Seq(Member(Out))
        /\ Cardinality(Untimed(s, Resent(s))) \in Nat
    BY <1>1, <1>2, PickProperties
  <1>4. /\ rest \o Rearmed(again) \in Seq(Member(Out))
        /\ s.late + Cardinality(Untimed(s, Resent(s))) \in Nat
        /\ s.out \o Segments(again) \in Seq(Out)
    BY <1>1, <1>3, RetransmissionTypes, ConcatProperties
  <1>5. ProcessTimeout(s) \in
          {s, [s EXCEPT !.thr = "stuck"], [s EXCEPT !.qlock = TRUE], ProcessQ(t)}
    BY DEF ProcessTimeout
  <1> HIDE DEF again, rest
  <1>6. t \in BlockOf(In, Out) /\ Unmoved(s, t)
    BY <1>4 DEF BlockOf, SameStream, Unmoved, Running
  <1>7. ProcessQ(t) \in BlockOf(In, Out) /\ Unmoved(s, ProcessQ(t))
    BY <1>6, ProcessQProperties, SameStreamTransitive
  <1>8. /\ [s EXCEPT !.thr = "stuck"] \in BlockOf(In, Out)
        /\ Unmoved(s, [s EXCEPT !.thr = "stuck"])
        /\ [s EXCEPT !.qlock = TRUE] \in BlockOf(In, Out)
        /\ Unmoved(s, [s EXCEPT !.qlock = TRUE])
        /\ Unmoved(s, s)
    BY <1>1 DEF BlockOf, SameStream, Unmoved, Running
  <1> HIDE DEF t
  <1> QED
    BY <1>5, <1>7, <1>8

(* A function from the first n numbers is a sequence of length n.          *)
LEMMA FunctionIsSequence ==
  ASSUME NEW S, NEW n \in Nat, NEW f \in [1 .. n -> S]
  PROVE  f \in Seq(S) /\ Len(f) = n
  <1>1. f \in Seq(S)
    BY SeqDef
  <1> QED
    BY <1>1, LenProperties

(* The types of the fields that count something.                           *)
LEMMA SoundFields ==
  ASSUME NEW iss, NEW w, NEW c, NEW s, Sound(s, iss, w, c)
  PROVE  /\ s.iss \in Nat /\ s.una \in Nat /\ s.nxt \in Nat /\ s.wnd \in Nat
         /\ s.rnxt \in Nat /\ s.rwnd \in Nat /\ s.late \in Nat
         /\ s.wrote \in Nat /\ s.taken \in Nat /\ s.rem \in Nat /\ s.rd \in Nat
         /\ s.closing \in BOOLEAN /\ s.finsent \in BOOLEAN
         /\ s.got \in Seq(Nat) /\ Len(s.got) \in Nat
         /\ Available(s) \in Nat /\ Unsent(s) \in Nat
  <1>1. /\ s.iss \in Nat /\ s.una \in Nat /\ s.nxt \in Nat /\ s.wnd \in Nat
        /\ s.rnxt \in Nat /\ s.rwnd \in Nat /\ s.late \in Nat
        /\ s.wrote \in Nat /\ s.taken \in Nat /\ s.rem \in Nat /\ s.rd \in Nat
        /\ s.closing \in BOOLEAN /\ s.finsent \in BOOLEAN
        /\ s.got \in Seq(Nat)
    BY DEF Sound, BlockOf
  <1>2. Len(s.got) \in Nat
    BY <1>1, LenProperties
  <1>3. /\ s.taken <= s.wrote
        /\ s.rd <= Len(s.got) /\ Len(s.got) <= s.rd + BufSize
    BY DEF Sound, BuffersSound
  <1>4. s.wrote - s.taken \in Nat
    BY <1>1, <1>3
  <1>5. BufSize - (Len(s.got) - s.rd) \in Nat
    <2>1. PICK B \in Nat, l \in Nat, d \in Nat : B = BufSize /\ l = Len(s.got) /\ d = s.rd
      BY <1>1, <1>2, TcbAssumption
    <2>2. d <= l /\ l <= d + B
      BY <1>3, <2>1
    <2>3. B - (l - d) \in Nat
      BY <2>2
    <2> QED
      BY <2>1, <2>3
  <1> QED
    BY <1>1, <1>2, <1>4, <1>5 DEF Available, Unsent

(* Segments without payload and without FIN, and the FIN of a closed and   *)
(* emptied send buffer, are ones the socket can send.                      *)
LEMMA ControlSegments ==
  ASSUME NEW iss, NEW w, NEW c, NEW s, Sound(s, iss, w, c),
         NEW hasack \in BOOLEAN
  PROVE  /\ MakeSegment(s, 0, 0, FALSE, hasack, s.nxt, FALSE)
              \in SentBy(s.iss, s.wrote, s.closing)
         /\ MakeSegment(s, 0, 0, FALSE, hasack, s.iss, TRUE)
              \in SentBy(s.iss, s.wrote, s.closing)
         /\ Running(s) /\ s.closing /\ Unsent(s) = 0 =>
              MakeSegment(s, 0, 0, TRUE, hasack, s.nxt, FALSE)
                \in SentBy(s.iss, s.wrote, s.closing)
  <1>1. Running(s) => s.nxt = s.iss + 1 + s.taken
    BY DEF Sound, SenderSound
  <1> QED
    BY <1>1, SoundFields DEF MakeSegment, SentBy, Segment, Unsent

(* Sending a segment without payload keeps a block sound.                  *)
LEMMA SendEmptySound ==
  ASSUME NEW iss \in Nat, NEW w \in Nat, NEW c \in BOOLEAN,
         NEW s, Sound(s, iss, w, c),
         NEW g \in SentBy(s.iss, s.wrote, s.closing), Empty(g)
  PROVE  /\ Follows(s, Send(s, g), iss, w, c)
         /\ Unmoved(s, Send(s, g))
  <1>1. s \in BlockOf(SentBy(iss, w, c), SentBy(s.iss, s.wrote, s.closing))
    BY DEF Sound
  <1>2. /\ Send(s, g) \in BlockOf(SentBy(iss, w, c), SentBy(s.iss, s.wrote, s.closing))
        /\ Unmoved(s, Send(s, g))
    BY <1>1, SendEmpty
  <1> QED
    BY <1>2, UnmovedFollows

(* An acknowledgement changes nothing but the output.                      *)
LEMMA SendAckSound ==
  ASSUME NEW iss \in Nat, NEW w \in Nat, NEW c \in BOOLEAN,
         NEW s, Sound(s, iss, w, c)
  PROVE  Follows(s, SendAck(s), iss, w, c) /\ Unmoved(s, SendAck(s))
  <1>1. MakeSegment(s, 0, 0, FALSE, TRUE, s.nxt, FALSE)
          \in SentBy(s.iss, s.wrote, s.closing)
    BY ControlSegments
  <1>2. Empty(MakeSegment(s, 0, 0, FALSE, TRUE, s.nxt, FALSE))
    BY DEF MakeSegment, Empty
  <1> QED
    BY <1>1, <1>2, SendEmptySound DEF SendAck

(* Sending a SYN keeps a block sound.                                      *)
LEMMA SendSynSound ==
  ASSUME NEW iss \in Nat, NEW w \in Nat, NEW c \in BOOLEAN,
         NEW s, Sound(s, iss, w, c), NEW hasack \in BOOLEAN
  PROVE  Follows(s, SendSyn(s, hasack), iss, w, c) /\ Unmoved(s, SendSyn(s, hasack))
  <1>1. MakeSegment(s, 0, 0, FALSE, hasack, s.iss, TRUE)
          \in SentBy(s.iss, s.wrote, s.closing)
    BY ControlSegments
  <1>2. Empty(MakeSegment(s, 0, 0, FALSE, hasack, s.iss, TRUE))
    BY DEF MakeSegment, Empty
  <1> QED
    BY <1>1, <1>2, SendEmptySound DEF SendSyn

(* chitcpd_update_tcp_state keeps a block sound, and Opened unless it goes *)
(* back to before the handshake.                                           *)
LEMMA SetStateSound ==
  ASSUME NEW iss \in Nat, NEW w \in Nat, NEW c \in BOOLEAN,
         NEW s, Sound(s, iss, w, c), NEW st \in TcpState \ {"LISTEN", "SYN_SENT"}
  PROVE  /\ Follows(s, SetState(s, st), iss, w, c)
         /\ SameStream(s, SetState(s, st))
  <1>1. s \in BlockOf(SentBy(iss, w, c), SentBy(s.iss, s.wrote, s.closing))
    BY DEF Sound
  <1>2. /\ SetState(s, st) \in BlockOf(SentBy(iss, w, c), SentBy(s.iss, s.wrote, s.closing))
        /\ SameStream(s, SetState(s, st))
        /\ SetState(s, st).state \in {s.state, st}
    BY <1>1, SetStateProperties
  <1>3. Sound(SetState(s, st), iss, w, c) /\ Continues(s, SetState(s, st))
    BY <1>2, SameStreamSound
  <1>4. Opened(s, iss) => Opened(SetState(s, st), iss)
    BY <1>2 DEF SameStream, Opened, Synced
  <1> QED
    BY <1>2, <1>3, <1>4 DEF Follows

(* Handling an acknowledgement keeps a block sound, for any SND_UNA.       *)
LEMMA ProcessQSound ==
  ASSUME NEW iss \in Nat, NEW w \in Nat, NEW c \in BOOLEAN,
         NEW s, Sound(s, iss, w, c), NEW ack \in Nat
  PROVE  /\ Follows(s, ProcessQ([s EXCEPT !.una = ack]), iss, w, c)
         /\ Unmoved(s, ProcessQ([s EXCEPT !.una = ack]))
  <1> DEFINE u == [s EXCEPT !.una = ack]
  <1>1. s \in BlockOf(SentBy(iss, w, c), SentBy(s.iss, s.wrote, s.closing))
    BY DEF Sound
  <1>2. /\ u \in BlockOf(SentBy(iss, w, c), SentBy(s.iss, s.wrote, s.closing))
        /\ Unmoved(s, u)
    BY <1>1 DEF BlockOf, SameStream, Unmoved, Running
  <1> HIDE DEF u
  <1>3. /\ ProcessQ(u) \in BlockOf(SentBy(iss, w, c), SentBy(s.iss, s.wrote, s.closing))
        /\ Unmoved(u, ProcessQ(u))
    BY <1>2, ProcessQProperties
  <1>4. Unmoved(s, ProcessQ(u))
    BY <1>2, <1>3, SameStreamTransitive
  <1> QED
    BY <1>3, <1>4, UnmovedFollows DEF u

(* A FIN goes out when the application has closed and all data is sent.    *)
LEMMA SendFinSound ==
  ASSUME NEW iss \in Nat, NEW w \in Nat, NEW c \in BOOLEAN,
         NEW s, Sound(s, iss, w, c), s.closing, Unsent(s) = 0
  PROVE  Follows(s, SendFin(s), iss, w, c)
  <1> DEFINE g == MakeSegment(s, 0, 0, TRUE, TRUE, s.nxt, FALSE)
             sent == Send(s, g)
             t == [sent EXCEPT !.finsent = TRUE]
  <1>1. CASE ~Running(s)
    BY <1>1, FollowsReflexive DEF SendFin
  <1>2. CASE Running(s)
    <2>1. g \in SentBy(s.iss, s.wrote, s.closing) /\ Empty(g)
      BY <1>2, ControlSegments DEF MakeSegment, Empty
    <2>2. SendFin(s) \in {s, sent, t}
      BY DEF SendFin
    <2> HIDE DEF g
    <2>3. Follows(s, sent, iss, w, c) /\ Unmoved(s, sent)
      BY <2>1, SendEmptySound
    <2> HIDE DEF sent
    <2>4. Sound(sent, iss, w, c)
      BY <2>3 DEF Follows
    <2>5. sent.closing /\ Unsent(sent) = 0
      BY <2>3 DEF SameStream, Unmoved, Unsent
    <2>6. sent.taken = sent.wrote
      BY <2>4, <2>5, SoundFields DEF Unsent
    <2>7. sent \in BlockOf(SentBy(iss, w, c), SentBy(sent.iss, sent.wrote, sent.closing))
      BY <2>4 DEF Sound
    <2>8. /\ t \in BlockOf(SentBy(iss, w, c), SentBy(sent.iss, sent.wrote, sent.closing))
          /\ t.iss = sent.iss /\ t.wrote = sent.wrote /\ t.closing = sent.closing
          /\ t.taken = sent.taken /\ t.rem = sent.rem /\ t.nxt = sent.nxt
          /\ t.got = sent.got /\ t.rd = sent.rd /\ t.eof = sent.eof
          /\ t.rnxt = sent.rnxt /\ t.flags = sent.flags /\ t.thr = sent.thr
          /\ t.state = sent.state
      BY <2>7 DEF BlockOf
    <2> HIDE DEF t
    <2>9. BuffersSound(t) /\ ReceiverSound(t, w, c)
      BY <2>4, <2>8 DEF Sound, BuffersSound, ReceiverSound
    <2>10. SenderSound(t)
      BY <2>4, <2>5, <2>6, <2>8 DEF Sound, SenderSound, Running
    <2>11. Sound(t, iss, w, c)
      BY <2>8, <2>9, <2>10 DEF Sound
    <2>12. Continues(sent, t) /\ (Opened(sent, iss) => Opened(t, iss))
      BY <2>8 DEF Continues, Opened, Synced, Running
    <2>13. Follows(s, t, iss, w, c)
      BY <2>3, <2>11, <2>12, FollowsTransitive DEF Follows
    <2> QED
      BY <2>2, <2>3, <2>13, FollowsReflexive
  <1> QED
    BY <1>1, <1>2

(* The packets made of n bytes of the send buffer carry the next n bytes of *)
(* the stream.                                                             *)
LEMMA ChunksProperties ==
  ASSUME NEW iss, NEW w, NEW c, NEW s, Sound(s, iss, w, c), Running(s),
         NEW n \in 1 .. Unsent(s), NEW k \in Nat \ {0}
  PROVE  /\ Chunks(s, n, k) \in Seq(SentBy(s.iss, s.wrote, s.closing))
         /\ Chunks(s, n, k)[1] \in SentBy(s.iss, s.wrote, s.closing)
  <1> DEFINE Out == SentBy(s.iss, s.wrote, s.closing)
             all == [o \in 1 .. n |->
                       MakeSegment(s, s.taken + o, Lesser(k, n - o + 1), FALSE, TRUE,
                                   s.nxt + o - 1, FALSE)]
             I == {o \in 1 .. n : (o - 1) % k = 0}
  <1>1. n \in Nat /\ n <= s.wrote - s.taken /\ s.nxt = s.iss + 1 + s.taken
    BY SoundFields DEF Sound, SenderSound, Unsent
  <1>2. ASSUME NEW o \in 1 .. n
        PROVE  MakeSegment(s, s.taken + o, Lesser(k, n - o + 1), FALSE, TRUE,
                           s.nxt + o - 1, FALSE) \in Out
    <2>1. /\ Lesser(k, n - o + 1) \in Nat
          /\ Lesser(k, n - o + 1) <= n - o + 1
      BY <1>1 DEF Lesser
    <2>2. s.iss \in Nat /\ s.taken \in Nat /\ s.wrote \in Nat /\ s.rnxt \in Nat /\ s.rwnd \in Nat
      BY SoundFields
    <2> DEFINE off == s.taken + o
               len == Lesser(k, n - o + 1)
               seq == s.nxt + o - 1
    <2>3. off \in Nat /\ off > 0 /\ seq \in Nat /\ seq = s.iss + off
      BY <1>1, <2>2
    <2>4. len \in Nat /\ off + len - 1 <= s.wrote
      BY <1>1, <2>1, <2>2
    <2> HIDE DEF off, len, seq
    <2>5. MakeSegment(s, off, len, FALSE, TRUE, seq, FALSE) \in Out
      BY <2>2, <2>3, <2>4 DEF MakeSegment, SentBy, Segment
    <2> QED
      BY <2>5 DEF off, len, seq
  <1>3. all \in [1 .. n -> Out]
    BY <1>2
  <1> HIDE DEF all, Out
  <1>4. all \in Seq(Out) /\ DOMAIN all = 1 .. n
    BY <1>1, <1>3, SeqDef
  <1>5. I \in SUBSET DOMAIN all /\ 1 \in I
    BY <1>1, <1>4
  <1>6. /\ Pick(all, I) \in Seq(Out) /\ Cardinality(I) \in Nat
        /\ Len(Pick(all, I)) = Cardinality(I)
    BY <1>4, <1>5, PickProperties
  <1>7. IsFiniteSet(I)
    BY <1>1, <1>4, <1>5, FS_Interval, FS_Subset
  <1>8. Cardinality(I) # 0
    BY <1>5, <1>7, FS_EmptySet
  <1>9. 1 \in 1 .. Len(Pick(all, I))
    BY <1>6, <1>8
  <1>10. Pick(all, I)[1] \in Out
    BY <1>6, <1>9, ElementOfSeq
  <1> QED
    BY <1>6, <1>10 DEF Chunks, all, Out

(* What TCP takes out of the send buffer goes out right behind SND_NXT.    *)
LEMMA ProcessSendBufferSound ==
  ASSUME NEW iss \in Nat, NEW w \in Nat, NEW c \in BOOLEAN,
         NEW s, Sound(s, iss, w, c)
  PROVE  Follows(s, ProcessSendBuffer(s), iss, w, c)
  <1> DEFINE n    == Lesser(Unsent(s), s.wnd)
             room == s.wnd - (s.nxt - s.una)
             gs   == Chunks(s, n, Lesser(MSS, room))
             t    == ProcessSendBuffer(s)
             In   == SentBy(iss, w, c)
             Out  == SentBy(s.iss, s.wrote, s.closing)
  <1>1. CASE ~Running(s) \/ n = 0
    BY <1>1, FollowsReflexive DEF ProcessSendBuffer
  <1>2. CASE Running(s) /\ n # 0
    <2>1. /\ n \in 1 .. Unsent(s) /\ s.taken + n \in Nat /\ room \in Int
          /\ s.nxt + n \in Nat
      BY <1>2, SoundFields, SMTT(30) DEF Lesser
    <2>2. s \in BlockOf(In, Out)
      BY DEF Sound
    <2>3. s.rtq \in Seq(Member(Out)) /\ s.out \in Seq(Out) /\ s.thr \in Thread
      BY <2>2 DEF BlockOf
    <2>4. ASSUME room > 0
          PROVE  /\ s.out \o gs \in Seq(Out)
                 /\ s.rtq \o Fresh(gs) \in Seq(Member(Out))
                 /\ Append(s.out, gs[1]) \in Seq(Out)
      <3>1. Lesser(MSS, room) \in Nat \ {0}
        BY <2>1, <2>4, TcbAssumption DEF Lesser
      <3>2. gs \in Seq(Out) /\ gs[1] \in Out
        BY <1>2, <2>1, <3>1, ChunksProperties
      <3> HIDE DEF gs, Out
      <3>3. Len(gs) \in Nat /\ DOMAIN gs = 1 .. Len(gs)
        BY <3>2, LenProperties
      <3>4. \A i \in 1 .. Len(gs) : gs[i] \in Out
        BY <3>2, ElementOfSeq
      <3>5. Fresh(gs) \in [1 .. Len(gs) -> Member(Out)]
        BY <3>3, <3>4 DEF Fresh, Member
      <3>6. Fresh(gs) \in Seq(Member(Out))
        BY <3>3, <3>5, SeqDef
      <3>7. s.out \o gs \in Seq(Out) /\ s.rtq \o Fresh(gs) \in Seq(Member(Out))
        BY <2>3, <3>2, <3>6, ConcatProperties
      <3> QED
        BY <2>3, <3>2, <3>7
    <2>5. s.taken + n <= s.wrote /\ s.wrote <= s.taken + n + BufSize /\ ~s.finsent
      <3>1. /\ s.taken \in Nat /\ s.wrote \in Nat
            /\ n \in Nat /\ n > 0 /\ n <= s.wrote - s.taken
        BY <2>1, SoundFields DEF Unsent
      <3>2. s.wrote <= s.taken + BufSize
        BY DEF Sound, BuffersSound
      <3>3. s.finsent => s.taken = s.wrote
        BY DEF Sound, SenderSound
      <3> QED
        BY <3>1, <3>2, <3>3, TcbAssumption
    <2>6. {"spin", "crash", "stuck"} \subseteq Thread
      BY DEF Thread
    <2> HIDE DEF n, room, gs, In, Out
    <2> DEFINE read == [s EXCEPT !.taken = @ + n]
               Taken(u) ==
                 /\ u \in BlockOf(In, Out) /\ u.taken = s.taken + n
                 /\ u.iss = s.iss /\ u.wrote = s.wrote /\ u.closing = s.closing
                 /\ u.rem = s.rem /\ u.finsent = s.finsent
                 /\ u.got = s.got /\ u.rd = s.rd /\ u.eof = s.eof
                 /\ u.rnxt = s.rnxt /\ u.flags = s.flags /\ u.state = s.state
    <2>7. /\ Taken(read) /\ read.nxt = s.nxt
          /\ read.out = s.out /\ read.rtq = s.rtq /\ read.thr = s.thr
      BY <2>1, <2>2 DEF BlockOf
    <2>8. Taken(t) /\ (Running(t) => t.nxt = s.nxt + n)
      <3>1. CASE room = 0
        <4>1. t = [read EXCEPT !.thr = "spin"]
          BY <1>2, <3>1 DEF ProcessSendBuffer, n, room, gs
        <4> HIDE DEF t, read
        <4> QED
          BY <2>6, <2>7, <4>1 DEF BlockOf, Running
      <3>2. CASE room < 0
        <4>1. t = [read EXCEPT !.thr = "crash"]
          BY <1>2, <2>1, <3>2 DEF ProcessSendBuffer, n, room, gs
        <4> HIDE DEF t, read
        <4> QED
          BY <2>6, <2>7, <4>1 DEF BlockOf, Running
      <3>3. CASE room > 0 /\ s.qlock
        <4> DEFINE out == Append(s.out, gs[1])
        <4>1. t = [read EXCEPT !.thr = "stuck", !.out = out]
          BY <1>2, <2>1, <3>3 DEF ProcessSendBuffer, n, room, gs
        <4>2. out \in Seq(Out)
          BY <2>4, <3>3
        <4> HIDE DEF t, read, out
        <4> QED
          BY <2>6, <2>7, <4>1, <4>2 DEF BlockOf, Running
      <3>4. CASE room > 0 /\ ~s.qlock
        <4> DEFINE out == s.out \o gs
                   rtq == s.rtq \o Fresh(gs)
        <4>1. t = [read EXCEPT !.out = out, !.rtq = rtq, !.nxt = @ + n]
          BY <1>2, <2>1, <3>4 DEF ProcessSendBuffer, n, room, gs
        <4>2. out \in Seq(Out) /\ rtq \in Seq(Member(Out))
          BY <2>4, <3>4
        <4> HIDE DEF t, read, out, rtq
        <4> QED
          BY <2>1, <2>7, <4>1, <4>2 DEF BlockOf, Running
      <3> QED
        BY <2>1, <3>1, <3>2, <3>3, <3>4
    <2> HIDE DEF t
    <2>9. Sound(t, iss, w, c)
      <3>1. BuffersSound(t)
        BY <2>5, <2>8 DEF Sound, BuffersSound
      <3>2. SenderSound(t)
        <4>1. /\ s.taken \in Nat /\ n \in Nat /\ s.iss \in Nat
              /\ s.nxt = s.iss + 1 + s.taken
          BY <1>2, <2>1, SoundFields DEF Sound, SenderSound
        <4>2. Running(t) => t.nxt = t.iss + 1 + t.taken
          BY <2>8, <4>1
        <4>3. t.closing \/ "APPLICATION_CLOSE" \in t.flags => t.rem = 0
          BY <2>8 DEF Sound, SenderSound
        <4> QED
          BY <2>5, <2>8, <4>2, <4>3 DEF SenderSound
      <3>3. ReceiverSound(t, w, c)
        BY <2>8 DEF Sound, ReceiverSound
      <3> QED
        BY <2>8, <3>1, <3>2, <3>3 DEF Sound, In, Out
    <2>10. Continues(s, t) /\ (Opened(s, iss) => Opened(t, iss))
      BY <1>2, <2>8 DEF Continues, Opened, Synced
    <2> QED
      BY <2>9, <2>10 DEF Follows, t
  <1> QED
    BY <1>1, <1>2

(* add_p_to_oop keeps the packet with those that wait.                     *)
LEMMA StashSound ==
  ASSUME NEW iss \in Nat, NEW w \in Nat, NEW c \in BOOLEAN,
         NEW s, Sound(s, iss, w, c), NEW g \in SentBy(iss, w, c)
  PROVE  Follows(s, Stash(s, g), iss, w, c)
  <1> DEFINE In == SentBy(iss, w, c)
             k  == Cardinality({i \in DOMAIN s.oop : s.oop[i].seq < g.seq})
             q  == SubSeq(s.oop, 1, k) \o <<g>> \o SubSeq(s.oop, k + 1, Len(s.oop))
  <1>1. s \in BlockOf(In, SentBy(s.iss, s.wrote, s.closing))
    BY DEF Sound
  <1>2. s.oop \in Seq(In) /\ Len(s.oop) \in Nat /\ DOMAIN s.oop = 1 .. Len(s.oop)
    BY <1>1, LenProperties DEF BlockOf
  <1>3. k \in Nat /\ k <= Len(s.oop)
    <2>1. /\ IsFiniteSet(1 .. Len(s.oop))
          /\ Cardinality(1 .. Len(s.oop)) = Len(s.oop)
      <3>1. ASSUME NEW m \in Nat
            PROVE  IsFiniteSet(1 .. m) /\ Cardinality(1 .. m) = m
        BY FS_Interval
      <3> QED
        BY <1>2, <3>1
    <2>2. {i \in DOMAIN s.oop : s.oop[i].seq < g.seq} \in SUBSET (1 .. Len(s.oop))
      BY <1>2
    <2> QED
      BY <1>2, <2>1, <2>2, FS_Subset, FS_CardinalityType
  <1> HIDE DEF In, k
  <1>4. q \in Seq(In)
    <2>1. SubSeq(s.oop, 1, k) \in Seq(In) /\ SubSeq(s.oop, k + 1, Len(s.oop)) \in Seq(In)
      BY <1>2, <1>3, SubSeqProperties
    <2>2. <<g>> \in Seq(In)
      BY DEF In
    <2> QED
      BY <2>1, <2>2, ConcatProperties
  <1>5. Stash(s, g) = [s EXCEPT !.oop = q]
    BY DEF Stash, k
  <1> HIDE DEF q
  <1>6. /\ Stash(s, g) \in BlockOf(In, SentBy(s.iss, s.wrote, s.closing))
        /\ Unmoved(s, Stash(s, g))
    BY <1>1, <1>4, <1>5, ZenonT(40) DEF BlockOf, Unmoved, SameStream, Running
  <1> QED
    BY <1>6, UnmovedFollows DEF In

(* Taking the head of the out-of-order list keeps a block sound.           *)
LEMMA TakeFromOopSound ==
  ASSUME NEW iss \in Nat, NEW w \in Nat, NEW c \in BOOLEAN,
         NEW s, Sound(s, iss, w, c)
  PROVE  Follows(s, TakeFromOop(s), iss, w, c)
  <1> DEFINE In == SentBy(iss, w, c)
  <1>1. CASE TakeFromOop(s) = s
    BY <1>1, FollowsReflexive
  <1>2. CASE TakeFromOop(s) # s
    <2>1. s \in BlockOf(In, SentBy(s.iss, s.wrote, s.closing))
      BY DEF Sound
    <2>2. s.oop \in Seq(In) /\ s.pend \in Seq(In)
      BY <2>1 DEF BlockOf
    <2>3. /\ \E i \in DOMAIN s.oop : s.oop[i].seq = s.rnxt
          /\ TakeFromOop(s) = [s EXCEPT !.pend = <<Head(s.oop)>> \o @, !.oop = Tail(@)]
      BY <1>2 DEF TakeFromOop
    <2> HIDE DEF In
    <2>4. s.oop # <<>>
      BY <2>2, <2>3
    <2>5. Head(s.oop) \in In /\ Tail(s.oop) \in Seq(In)
      BY <2>2, <2>4, HeadTailProperties
    <2>6. <<Head(s.oop)>> \o s.pend \in Seq(In)
      BY <2>2, <2>5
    <2>7. /\ TakeFromOop(s) \in BlockOf(In, SentBy(s.iss, s.wrote, s.closing))
          /\ Unmoved(s, TakeFromOop(s))
      BY <2>1, <2>3, <2>5, <2>6, ZenonT(40) DEF BlockOf, Unmoved, SameStream, Running
    <2> QED
      BY <2>7, UnmovedFollows DEF In
  <1> QED
    BY <1>1, <1>2

(* What an acceptable acknowledgement changes.                             *)
LEMMA AckStepSound ==
  ASSUME NEW iss \in Nat, NEW w \in Nat, NEW c \in BOOLEAN,
         NEW s, Sound(s, iss, w, c), NEW g \in SentBy(iss, w, c), NEW st
  PROVE  Follows(s, AckStep(s, g, st), iss, w, c)
         /\ AckStep(s, g, st).rnxt = s.rnxt
  <1> DEFINE a == ProcessQ([s EXCEPT !.una = g.ack])
  <1>1. g.ack \in Nat
    BY DEF SentBy, Segment
  <1>2. Follows(s, a, iss, w, c) /\ Unmoved(s, a)
    BY <1>1, ProcessQSound
  <1>3. {"ESTABLISHED", "FIN_WAIT_2", "CLOSED"} \subseteq TcpState \ {"LISTEN", "SYN_SENT"}
    BY DEF TcpState
  <1>4. Follows(s, s, iss, w, c)
    BY FollowsReflexive
  <1> HIDE DEF a
  <1>5. ASSUME NEW u \in {s, a}, NEW x \in {"ESTABLISHED", "FIN_WAIT_2", "CLOSED"}
        PROVE  Follows(s, SetState(u, x), iss, w, c) /\ SetState(u, x).rnxt = s.rnxt
    <2>1. Follows(s, u, iss, w, c) /\ u.rnxt = s.rnxt
      BY <1>2, <1>4 DEF Unmoved, SameStream
    <2>2. Sound(u, iss, w, c)
      BY <2>1 DEF Follows
    <2>3. Follows(u, SetState(u, x), iss, w, c) /\ SameStream(u, SetState(u, x))
      BY <1>3, <2>2, SetStateSound
    <2>4. SetState(u, x).rnxt = u.rnxt
      BY <2>3 DEF SameStream
    <2> QED
      BY <2>1, <2>3, <2>4, FollowsTransitive
  <1>6. a.rnxt = s.rnxt
    BY <1>2 DEF Unmoved, SameStream
  <1>7. \/ AckStep(s, g, st) \in {s, a}
        \/ \E u \in {s, a}, x \in {"ESTABLISHED", "FIN_WAIT_2", "CLOSED"} :
             AckStep(s, g, st) = SetState(u, x)
    BY DEF AckStep, a
  <1> QED
    BY <1>2, <1>4, <1>5, <1>6, <1>7

(* The payload of the next segment in sequence continues the stream.       *)
LEMMA DeliverSound ==
  ASSUME NEW iss \in Nat, NEW w \in Nat, NEW c \in BOOLEAN,
         NEW s, Sound(s, iss, w, c), Opened(s, iss),
         NEW g \in SentBy(iss, w, c), g.len > 0, g.seq = s.rnxt
  PROVE  Follows(s, Deliver(s, g), iss, w, c)
  <1> DEFINE n    == Lesser(g.len, Available(s))
             new  == [i \in 1 .. n |-> g.off + i - 1]
             got  == s.got \o new
             rwnd == Available(s) - n
             t    == Deliver(s, g)
             In   == SentBy(iss, w, c)
             Out  == SentBy(s.iss, s.wrote, s.closing)
  <1>1. /\ g.len \in Nat /\ g.off \in Nat /\ g.seq = iss + g.off
        /\ g.off + g.len - 1 <= w
    BY DEF SentBy, Segment
  <1>2. s.rnxt = iss + 1 + Len(s.got)
    BY DEF Opened, Synced
  <1>3. g.off = Len(s.got) + 1
    <2>1. Len(s.got) \in Nat
      BY SoundFields
    <2>2. \A m \in Nat : g.seq = iss + 1 + m => g.off = m + 1
      BY <1>1
    <2> QED
      BY <1>2, <2>1, <2>2
  <1>4. /\ n \in Nat /\ rwnd \in Nat /\ n <= g.len
        /\ n <= BufSize - (Len(s.got) - s.rd) /\ s.rnxt + n \in Nat
    BY <1>1, SoundFields, TcbAssumption, SMTT(30) DEF Lesser, Available
  <1>5. /\ new \in Seq(Nat) /\ Len(new) = n
        /\ \A i \in 1 .. n : new[i] = Len(s.got) + i
    <2>1. \A i \in 1 .. n : g.off + i - 1 = Len(s.got) + i /\ g.off + i - 1 \in Nat
      BY <1>1, <1>3, <1>4, SoundFields, SMTT(30)
    <2>2. new \in [1 .. n -> Nat]
      BY <2>1, SMTT(30)
    <2> HIDE DEF n, new
    <2>3. new \in Seq(Nat) /\ Len(new) = n
      BY <1>4, <2>2, FunctionIsSequence
    <2> QED
      BY <2>1, <2>3 DEF new
  <1>6. s.got \in Seq(Nat) /\ Len(s.got) \in Nat /\ \A i \in 1 .. Len(s.got) : s.got[i] = i
    BY SoundFields DEF Sound, BuffersSound
  <1> HIDE DEF n, new
  <1>7. /\ got \in Seq(Nat) /\ Len(got) = Len(s.got) + n
        /\ \A i \in 1 .. Len(got) : got[i] = i
    <2>1. /\ got \in Seq(Nat) /\ Len(got) = Len(s.got) + Len(new)
          /\ \A i \in 1 .. Len(s.got) + Len(new) :
               got[i] = IF i <= Len(s.got) THEN s.got[i] ELSE new[i - Len(s.got)]
      BY <1>5, <1>6, ConcatProperties
    <2>2. ASSUME NEW i \in 1 .. Len(s.got) + n
          PROVE  got[i] = i
      <3>1. CASE i <= Len(s.got)
        BY <1>4, <1>5, <1>6, <2>1, <3>1
      <3>2. CASE ~(i <= Len(s.got))
        <4>1. i - Len(s.got) \in 1 .. n
          BY <1>4, <1>6, <3>2
        <4>2. got[i] = new[i - Len(s.got)]
          BY <1>5, <2>1, <3>2
        <4>3. new[i - Len(s.got)] = Len(s.got) + (i - Len(s.got))
          BY <1>5, <4>1
        <4> QED
          BY <1>4, <1>6, <4>2, <4>3
      <3> QED
        BY <3>1, <3>2
    <2> QED
      BY <1>5, <2>1, <2>2
  <1>8. t = [s EXCEPT !.got = got, !.rwnd = rwnd, !.rnxt = @ + n]
    BY DEF Deliver, n, new
  <1>9. s \in BlockOf(In, Out)
    BY DEF Sound
  <1> HIDE DEF t, got, rwnd, In, Out
  <1>10. /\ t \in BlockOf(In, Out) /\ t.got = got /\ t.rnxt = s.rnxt + n
         /\ t.iss = s.iss /\ t.wrote = s.wrote /\ t.closing = s.closing
         /\ t.taken = s.taken /\ t.nxt = s.nxt /\ t.thr = s.thr
         /\ t.rem = s.rem /\ t.finsent = s.finsent
         /\ t.rd = s.rd /\ t.eof = s.eof
         /\ t.flags = s.flags /\ t.state = s.state
    BY <1>4, <1>7, <1>8, <1>9 DEF BlockOf
  <1>11. Sound(t, iss, w, c)
    <2>1. BuffersSound(t)
      <3>1. /\ s.taken <= s.wrote /\ s.wrote <= s.taken + BufSize /\ s.rd <= Len(s.got)
        BY DEF Sound, BuffersSound
      <3>2. t.rd <= Len(t.got) /\ Len(t.got) <= t.rd + BufSize
        <4>1. s.rd \in Nat
          BY SoundFields
        <4>2. /\ s.rd <= Len(s.got) + n
              /\ Len(s.got) + n <= s.rd + BufSize
          BY <1>4, <1>6, <3>1, <4>1, TcbAssumption
        <4> QED
          BY <1>7, <1>10, <4>2
      <3> QED
        BY <1>7, <1>10, <3>1, <3>2 DEF BuffersSound
    <2>2. SenderSound(t)
      BY <1>10 DEF Sound, SenderSound, Running
    <2>3. ReceiverSound(t, w, c)
      <3>1. Len(s.got) + 1 <= w
        BY <1>1, <1>3, <1>6
      <3>2. ~s.eof
        BY <1>6, <3>1 DEF Sound, ReceiverSound
      <3>3. Len(t.got) <= w
        <4>1. PICK l \in Nat, o \in Nat, e \in Nat : l = Len(s.got) /\ o = g.off /\ e = g.len
          BY <1>1, <1>6
        <4>2. o = l + 1 /\ o + e - 1 <= w /\ n <= e /\ n \in Nat
          BY <1>1, <1>3, <1>4, <4>1
        <4>3. l + n <= w
          BY <4>2
        <4> QED
          BY <1>7, <1>10, <4>1, <4>3
      <3> QED
        BY <1>10, <3>2, <3>3 DEF ReceiverSound
    <2> QED
      BY <1>10, <2>1, <2>2, <2>3 DEF Sound, In, Out
  <1>12. Continues(s, t)
    BY <1>10 DEF Continues, Running
  <1>13. Opened(t, iss)
    <2>1. t.rnxt = iss + 1 + Len(t.got)
      <3>1. \A m \in Nat : iss + 1 + m + n = iss + 1 + (m + n)
        BY <1>4
      <3> QED
        BY <1>2, <1>6, <1>7, <1>10, <3>1
    <2> QED
      BY <1>10, <2>1 DEF Opened, Synced
  <1> QED
    BY <1>11, <1>12, <1>13 DEF Follows, t

(* Delivering the payload of the segment expected next, and acknowledging  *)
(* it, keeps a block sound.                                                *)
LEMMA TextStepSound ==
  ASSUME NEW iss \in Nat, NEW w \in Nat, NEW c \in BOOLEAN,
         NEW s, Sound(s, iss, w, c), Opened(s, iss),
         NEW g \in SentBy(iss, w, c), g.seq = s.rnxt, NEW st
  PROVE  /\ Follows(s, TextStep(s, g, st), iss, w, c)
         /\ ~(g.len > 0) => TextStep(s, g, st) = s
  <1>1. CASE TextStep(s, g, st) = s
    BY <1>1, FollowsReflexive
  <1>2. CASE TextStep(s, g, st) # s
    <2>1. g.len > 0 /\ TextStep(s, g, st) = SendAck(Deliver(s, g))
      BY <1>2 DEF TextStep
    <2>2. Follows(s, Deliver(s, g), iss, w, c)
      BY <2>1, DeliverSound
    <2>3. Sound(Deliver(s, g), iss, w, c)
      BY <2>2 DEF Follows
    <2>4. Follows(Deliver(s, g), SendAck(Deliver(s, g)), iss, w, c)
      BY <2>3, SendAckSound
    <2>5. Follows(s, TextStep(s, g, st), iss, w, c)
      BY <2>1, <2>2, <2>4, FollowsTransitive
    <2> QED
      BY <2>1, <2>5
  <1> QED
    BY <1>1, <1>2

(* The receive buffer is closed: the FIN stands behind the last byte.      *)
LEMMA CloseBufferSound ==
  ASSUME NEW iss \in Nat, NEW w \in Nat, NEW c \in BOOLEAN,
         NEW s, Sound(s, iss, w, c), c, Len(s.got) = w
  PROVE  Follows(s, [s EXCEPT !.eof = TRUE], iss, w, c)
  <1> DEFINE t   == [s EXCEPT !.eof = TRUE]
             In  == SentBy(iss, w, c)
             Out == SentBy(s.iss, s.wrote, s.closing)
  <1>1. s \in BlockOf(In, Out)
    BY DEF Sound
  <1> HIDE DEF In, Out
  <1>2. /\ t \in BlockOf(In, Out)
        /\ t.iss = s.iss /\ t.wrote = s.wrote /\ t.closing = s.closing
        /\ t.taken = s.taken /\ t.nxt = s.nxt /\ t.thr = s.thr
        /\ t.rem = s.rem /\ t.finsent = s.finsent
        /\ t.rd = s.rd /\ t.got = s.got /\ t.rnxt = s.rnxt
        /\ t.flags = s.flags /\ t.state = s.state
    BY <1>1 DEF BlockOf
  <1> HIDE DEF t
  <1>3. BuffersSound(t)
    BY <1>2 DEF Sound, BuffersSound
  <1>4. SenderSound(t)
    BY <1>2 DEF Sound, SenderSound, Running
  <1>5. ReceiverSound(t, w, c)
    BY <1>2 DEF Sound, ReceiverSound
  <1>6. Sound(t, iss, w, c)
    BY <1>2, <1>3, <1>4, <1>5 DEF Sound, In, Out
  <1>7. Continues(s, t) /\ (Opened(s, iss) => Opened(t, iss))
    BY <1>2 DEF Continues, Opened, Synced, Running
  <1> QED
    BY <1>6, <1>7 DEF Follows, t

(* Handling the FIN of the segment expected next closes the receive buffer *)
(* after the last byte.                                                    *)
LEMMA FinStepSound ==
  ASSUME NEW iss \in Nat, NEW w \in Nat, NEW c \in BOOLEAN,
         NEW s, Sound(s, iss, w, c), Opened(s, iss),
         NEW g \in SentBy(iss, w, c), g.fin => g.seq = s.rnxt, NEW st
  PROVE  Follows(s, FinStep(s, g, st), iss, w, c)
  <1> DEFINE a == SendAck(s)
             St == {"CLOSE_WAIT", "CLOSED", "CLOSING"}
  <1>1. CASE ~Running(s) \/ ~g.fin
    BY <1>1, FollowsReflexive DEF FinStep
  <1>2. CASE Running(s) /\ g.fin
    <2>1. c /\ Len(s.got) = w
      <3>1. c /\ g.seq = iss + 1 + w
        BY <1>2 DEF SentBy
      <3>2. s.rnxt = iss + 1 + Len(s.got) /\ Len(s.got) \in Nat
        BY SoundFields DEF Opened, Synced
      <3>3. \A m \in Nat : iss + 1 + m = iss + 1 + w => m = w
        OBVIOUS
      <3> QED
        BY <1>2, <3>1, <3>2, <3>3
    <2>2. Follows(s, a, iss, w, c) /\ Unmoved(s, a)
      BY SendAckSound
    <2>3. Follows(s, s, iss, w, c)
      BY FollowsReflexive
    <2>4. \/ FinStep(s, g, st) = [s EXCEPT !.eof = TRUE]
          \/ \E x \in St : FinStep(s, g, st) = [SetState(a, x) EXCEPT !.eof = TRUE]
      BY <1>2 DEF FinStep
    <2> HIDE DEF a
    <2>5. ASSUME NEW x \in St
          PROVE  Follows(s, [SetState(a, x) EXCEPT !.eof = TRUE], iss, w, c)
      <3> DEFINE f == SetState(a, x)
      <3>1. Sound(a, iss, w, c)
        BY <2>2 DEF Follows
      <3>2. x \in TcpState \ {"LISTEN", "SYN_SENT"}
        BY DEF TcpState
      <3>3. Follows(a, f, iss, w, c) /\ SameStream(a, f)
        BY <3>1, <3>2, SetStateSound
      <3> HIDE DEF f
      <3>4. Sound(f, iss, w, c) /\ Len(f.got) = w
        BY <2>1, <2>2, <3>3 DEF Follows, Unmoved, SameStream
      <3>5. Follows(f, [f EXCEPT !.eof = TRUE], iss, w, c)
        BY <2>1, <3>4, CloseBufferSound
      <3>6. Follows(s, f, iss, w, c)
        BY <2>2, <3>3, FollowsTransitive
      <3> QED
        BY <3>5, <3>6, FollowsTransitive DEF f
    <2>6. Follows(s, [s EXCEPT !.eof = TRUE], iss, w, c)
      BY <2>1, CloseBufferSound
    <2> QED
      BY <2>4, <2>5, <2>6
  <1> QED
    BY <1>1, <1>2

(* The next segment in sequence, from the acknowledgement to the oop list. *)
LEMMA InOrderSound ==
  ASSUME NEW iss \in Nat, NEW w \in Nat, NEW c \in BOOLEAN,
         NEW s, Sound(s, iss, w, c), Opened(s, iss),
         NEW g \in SentBy(iss, w, c), g.seq = s.rnxt
  PROVE  Follows(s, InOrder(s, g), iss, w, c)
  <1> DEFINE st == s.state
             a == AckStep(s, g, st)
             b == TextStep(a, g, st)
             f == FinStep(b, g, st)
  <1>1. InOrder(s, g) \in
          {TakeFromOop(s), SendAck(s), SetState(s, "CLOSED"), TakeFromOop(f)}
    BY DEF InOrder
  <1>2. Follows(s, TakeFromOop(s), iss, w, c)
    BY TakeFromOopSound
  <1>3. Follows(s, SendAck(s), iss, w, c)
    BY SendAckSound
  <1>4. Follows(s, SetState(s, "CLOSED"), iss, w, c)
    BY SetStateSound DEF TcpState
  <1> HIDE DEF st
  <1>5. Follows(s, a, iss, w, c) /\ a.rnxt = s.rnxt
    BY AckStepSound
  <1>6. Sound(a, iss, w, c) /\ Opened(a, iss) /\ g.seq = a.rnxt
    BY <1>5 DEF Follows
  <1> HIDE DEF a
  <1>7. /\ Follows(a, b, iss, w, c)
        /\ ~(g.len > 0) => b = a
    BY <1>6, TextStepSound
  <1> HIDE DEF b
  <1>8. Sound(b, iss, w, c) /\ Opened(b, iss)
    BY <1>6, <1>7 DEF Follows
  <1>9. g.fin => g.seq = b.rnxt
    <2>1. g.fin => ~(g.len > 0)
      BY DEF SentBy
    <2> QED
      BY <1>6, <1>7, <2>1
  <1>10. Follows(b, f, iss, w, c)
    BY <1>8, <1>9, FinStepSound
  <1> HIDE DEF f
  <1>11. Sound(f, iss, w, c)
    BY <1>10 DEF Follows
  <1>12. Follows(f, TakeFromOop(f), iss, w, c)
    BY <1>11, TakeFromOopSound
  <1>13. Follows(s, TakeFromOop(f), iss, w, c)
    BY <1>5, <1>7, <1>10, <1>12, FollowsTransitive
  <1> QED
    BY <1>1, <1>2, <1>3, <1>4, <1>13

(* The SYN has just been handled.                                          *)
JustOpened(s, iss) ==
  /\ Synced(s, iss) /\ Len(s.got) = 0
  /\ "APPLICATION_CONNECT" \notin s.flags

(* A block whose receive side has just been opened fits every state.       *)
LEMMA JustOpenedProperties ==
  ASSUME NEW iss, NEW s, NEW t
  PROVE  /\ JustOpened(s, iss) => StateSound(s, iss)
         /\ JustOpened(s, iss) /\ SameStream(s, t) => JustOpened(t, iss)
         /\ Unmoved(s, t) => SameStream(s, t)
  BY DEF JustOpened, StateSound, SameStream, Synced, Unmoved

(* A SYN opens the receive side before any byte has been received.         *)
LEMMA SynchronizeSound ==
  ASSUME NEW iss \in Nat, NEW w \in Nat, NEW c \in BOOLEAN,
         NEW s, Sound(s, iss, w, c),
         Len(s.got) = 0, "APPLICATION_CONNECT" \notin s.flags,
         NEW g \in SentBy(iss, w, c), g.syn
  PROVE  /\ Sound(Synchronize(s, g), iss, w, c)
         /\ Continues(s, Synchronize(s, g))
         /\ JustOpened(Synchronize(s, g), iss)
  <1> DEFINE t   == Synchronize(s, g)
             In  == SentBy(iss, w, c)
             Out == SentBy(s.iss, s.wrote, s.closing)
             rwnd == Available(s)
             rnxt == g.seq + 1
  <1>1. s \in BlockOf(In, Out)
    BY DEF Sound
  <1>2. g.seq \in Nat /\ g.seq = iss /\ rnxt \in Nat /\ rnxt = iss + 1 + 0
    BY DEF SentBy, Segment
  <1>3. rwnd \in Nat
    BY SoundFields
  <1>4. t = [s EXCEPT !.rnxt = rnxt, !.irs = g.seq, !.rwnd = rwnd]
    BY DEF Synchronize
  <1> HIDE DEF t, In, Out, rwnd, rnxt
  <1>5. /\ t \in BlockOf(In, Out)
        /\ t.iss = s.iss /\ t.wrote = s.wrote /\ t.closing = s.closing
        /\ t.taken = s.taken /\ t.nxt = s.nxt /\ t.thr = s.thr
        /\ t.rem = s.rem /\ t.finsent = s.finsent /\ t.eof = s.eof
        /\ t.rd = s.rd /\ t.got = s.got /\ t.rnxt = rnxt
        /\ t.flags = s.flags /\ t.state = s.state
    BY <1>1, <1>2, <1>3, <1>4 DEF BlockOf
  <1>6. BuffersSound(t)
    BY <1>5 DEF Sound, BuffersSound
  <1>7. SenderSound(t)
    BY <1>5 DEF Sound, SenderSound, Running
  <1>8. ReceiverSound(t, w, c)
    BY <1>5 DEF Sound, ReceiverSound
  <1>9. Sound(t, iss, w, c)
    BY <1>5, <1>6, <1>7, <1>8 DEF Sound, In, Out
  <1>10. Continues(s, t) /\ JustOpened(t, iss)
    BY <1>2, <1>5 DEF Continues, Synced, JustOpened, Running
  <1> QED
    BY <1>5, <1>9, <1>10 DEF t

(* What a handler makes of a block.                                        *)
Handled(s, t, iss, w, c) ==
  Sound(t, iss, w, c) /\ Continues(s, t) /\ StateSound(t, iss)

(* The SYN that a server gets.                                             *)
LEMMA HandleListenSound ==
  ASSUME NEW iss \in Nat, NEW w \in Nat, NEW c \in BOOLEAN,
         NEW s, Sound(s, iss, w, c), StateSound(s, iss), s.state = "LISTEN",
         NEW g \in SentBy(iss, w, c)
  PROVE  Handled(s, HandleListen(s, g), iss, w, c)
  <1> DEFINE t == Synchronize(s, g)
             u == SendSyn(t, TRUE)
             v == SetState(u, "SYN_RCVD")
  <1>1. CASE ~g.syn
    BY <1>1, FollowsReflexive DEF HandleListen, Follows, Handled
  <1>2. CASE g.syn
    <2>1. Len(s.got) = 0 /\ "APPLICATION_CONNECT" \notin s.flags
      BY DEF StateSound
    <2>2. Sound(t, iss, w, c) /\ Continues(s, t) /\ JustOpened(t, iss)
      BY <1>2, <2>1, SynchronizeSound
    <2>3. HandleListen(s, g) = v
      BY <1>2 DEF HandleListen
    <2> HIDE DEF t
    <2>5. Follows(t, u, iss, w, c) /\ Unmoved(t, u)
      BY <2>2, SendSynSound
    <2> HIDE DEF u
    <2>6. Sound(u, iss, w, c)
      BY <2>5 DEF Follows
    <2>7. Follows(u, v, iss, w, c) /\ SameStream(u, v)
      BY <2>6, SetStateSound DEF TcpState
    <2> HIDE DEF v
    <2>8. JustOpened(v, iss)
      BY <2>2, <2>5, <2>7, JustOpenedProperties
    <2>9. Sound(v, iss, w, c) /\ Continues(s, v)
      BY <2>2, <2>5, <2>7, ContinuesTransitive DEF Follows
    <2> QED
      BY <2>3, <2>8, <2>9, JustOpenedProperties DEF Handled
  <1> QED
    BY <1>1, <1>2

(* The SYN that a client gets for its own.                                 *)
LEMMA HandleSynSentSound ==
  ASSUME NEW iss \in Nat, NEW w \in Nat, NEW c \in BOOLEAN,
         NEW s, Sound(s, iss, w, c), StateSound(s, iss), s.state = "SYN_SENT",
         NEW g \in SentBy(iss, w, c)
  PROVE  Handled(s, HandleSynSent(s, g), iss, w, c)
  <1> DEFINE a == ProcessQ([s EXCEPT !.una = g.ack])
             b == Synchronize(a, g)
             e == SetState(b, "ESTABLISHED")
             r == SetState(b, "SYN_RCVD")
  <1>1. g.ack \in Nat
    BY DEF SentBy, Segment
  <1>2. Follows(s, a, iss, w, c) /\ Unmoved(s, a)
    BY <1>1, ProcessQSound
  <1>3. Sound(a, iss, w, c) /\ Continues(s, a)
    BY <1>2 DEF Follows
  <1>4. StateSound(a, iss)
    BY <1>2 DEF Unmoved, SameStream, StateSound, Synced
  <1>5. HandleSynSent(s, g) = s \/
          (g.syn /\ IF Running(a)
                    THEN HandleSynSent(s, g) \in {SendAck(e), SendSyn(r, TRUE)}
                    ELSE HandleSynSent(s, g) = a)
    <2>1. CASE Running(a)
      BY <2>1 DEF HandleSynSent
    <2>2. CASE ~Running(a)
      <3>1. SetState(a, "ESTABLISHED") = a /\ SetState(a, "SYN_RCVD") = a
        BY <2>2 DEF SetState
      <3>2. SendAck(a) = a /\ SendSyn(a, TRUE) = a
        BY <2>2 DEF SendAck, SendSyn, Send
      <3> QED
        BY <2>2, <3>1, <3>2 DEF HandleSynSent
    <2> QED
      BY <2>1, <2>2
  <1>6. CASE HandleSynSent(s, g) = s
    BY <1>6, FollowsReflexive DEF Follows, Handled
  <1>7. CASE HandleSynSent(s, g) = a
    BY <1>3, <1>4, <1>7 DEF Handled
  <1> HIDE DEF a
  <1>8. ASSUME g.syn, HandleSynSent(s, g) \in {SendAck(e), SendSyn(r, TRUE)}
        PROVE  Handled(s, HandleSynSent(s, g), iss, w, c)
    <2>1. Len(a.got) = 0 /\ "APPLICATION_CONNECT" \notin a.flags
      BY <1>2, <1>4 DEF StateSound, Unmoved
    <2>2. Sound(b, iss, w, c) /\ Continues(a, b) /\ JustOpened(b, iss)
      BY <1>3, <1>8, <2>1, SynchronizeSound
    <2> HIDE DEF b
    <2>4. /\ Follows(b, e, iss, w, c) /\ SameStream(b, e)
          /\ Follows(b, r, iss, w, c) /\ SameStream(b, r)
      BY <2>2, SetStateSound DEF TcpState
    <2> HIDE DEF e, r
    <2>5. Sound(e, iss, w, c) /\ Sound(r, iss, w, c)
      BY <2>4 DEF Follows
    <2>6. /\ Follows(e, SendAck(e), iss, w, c) /\ Unmoved(e, SendAck(e))
          /\ Follows(r, SendSyn(r, TRUE), iss, w, c) /\ Unmoved(r, SendSyn(r, TRUE))
      BY <2>5, SendAckSound, SendSynSound
    <2>7. JustOpened(SendAck(e), iss) /\ JustOpened(SendSyn(r, TRUE), iss)
      BY <2>2, <2>4, <2>6, JustOpenedProperties
    <2>8. /\ Sound(SendAck(e), iss, w, c) /\ Continues(s, SendAck(e))
          /\ Sound(SendSyn(r, TRUE), iss, w, c) /\ Continues(s, SendSyn(r, TRUE))
      BY <1>3, <2>2, <2>4, <2>6, ContinuesTransitive DEF Follows
    <2> QED
      BY <1>8, <2>7, <2>8, JustOpenedProperties DEF Handled
  <1> QED
    BY <1>5, <1>6, <1>7, <1>8

(* chitcpd_tcp_handle_packet keeps a block sound, whichever of the peer's  *)
(* segments it gets.                                                       *)
LEMMA HandlePacketSound ==
  ASSUME NEW iss \in Nat, NEW w \in Nat, NEW c \in BOOLEAN,
         NEW s, Sound(s, iss, w, c), StateSound(s, iss), s.pend # <<>>
  PROVE  /\ Handled(s, HandlePacket(s), iss, w, c)
         /\ Opened(s, iss) => Opened(HandlePacket(s), iss)
  <1> DEFINE g   == Head(s.pend)
             a   == [s EXCEPT !.pend = Tail(@), !.wnd = g.wnd]
             In  == SentBy(iss, w, c)
             Out == SentBy(s.iss, s.wrote, s.closing)
  <1>1. s \in BlockOf(In, Out)
    BY DEF Sound
  <1>2. s.pend \in Seq(In)
    BY <1>1 DEF BlockOf
  <1>3. g \in In /\ Tail(s.pend) \in Seq(In)
    BY <1>2, HeadTailProperties
  <1>4. g.wnd \in Nat
    BY <1>3 DEF SentBy, Segment
  <1>5. a \in BlockOf(In, Out) /\ Unmoved(s, a)
    <2> HIDE DEF g, In, Out
    <2> QED
      BY <1>1, <1>3, <1>4 DEF BlockOf, Unmoved, SameStream, Running
  <1>6. Follows(s, a, iss, w, c) /\ StateSound(a, iss)
    BY <1>5, UnmovedFollows
  <1>7. Sound(a, iss, w, c) /\ Continues(s, a) /\ a.state = s.state
    BY <1>5, <1>6 DEF Follows, Unmoved
  <1>8. HandlePacket(s) =
          CASE s.state = "CLOSED" -> a
            [] s.state = "LISTEN" -> HandleListen(a, g)
            [] s.state = "SYN_SENT" -> HandleSynSent(a, g)
            [] OTHER -> IF a.rwnd = 0 /\ SegLen(g) > 0 THEN SendAck(a)
                        ELSE IF g.seq = a.rnxt THEN InOrder(a, g)
                        ELSE IF InWindow(a, g) THEN Stash(a, g)
                        ELSE a
    BY DEF HandlePacket
  <1> HIDE DEF a, g
  <1>9. CASE s.state = "CLOSED"
    BY <1>6, <1>7, <1>8, <1>9 DEF Handled, Follows
  <1>10. CASE s.state = "LISTEN"
    <2>1. HandlePacket(s) = HandleListen(a, g)
      BY <1>8, <1>10
    <2>2. Handled(a, HandleListen(a, g), iss, w, c)
      BY <1>3, <1>6, <1>7, <1>10, HandleListenSound
    <2> QED
      BY <1>7, <1>10, <2>1, <2>2, ContinuesTransitive DEF Handled, Opened
  <1>11. CASE s.state = "SYN_SENT"
    <2>1. HandlePacket(s) = HandleSynSent(a, g)
      BY <1>8, <1>11
    <2>2. Handled(a, HandleSynSent(a, g), iss, w, c)
      BY <1>3, <1>6, <1>7, <1>11, HandleSynSentSound
    <2> QED
      BY <1>7, <1>11, <2>1, <2>2, ContinuesTransitive DEF Handled, Opened
  <1>12. CASE s.state \notin {"CLOSED", "LISTEN", "SYN_SENT"}
    <2>1. Opened(s, iss) /\ Opened(a, iss)
      BY <1>6, <1>7, <1>12, OpenedStateSound
    <2>2. \/ HandlePacket(s) \in {a, SendAck(a), Stash(a, g)}
          \/ g.seq = a.rnxt /\ HandlePacket(s) = InOrder(a, g)
      BY <1>8, <1>12
    <2>3. Follows(a, a, iss, w, c)
      BY <1>7, FollowsReflexive
    <2>4. Follows(a, SendAck(a), iss, w, c)
      BY <1>7, SendAckSound
    <2>5. Follows(a, Stash(a, g), iss, w, c)
      BY <1>3, <1>7, StashSound
    <2>6. g.seq = a.rnxt => Follows(a, InOrder(a, g), iss, w, c)
      BY <1>3, <1>7, <2>1, InOrderSound
    <2>7. Follows(a, HandlePacket(s), iss, w, c)
      BY <2>2, <2>3, <2>4, <2>5, <2>6
    <2>8. Follows(s, HandlePacket(s), iss, w, c)
      BY <1>6, <2>7, FollowsTransitive
    <2> QED
      BY <2>1, <2>8, OpenedStateSound DEF Handled, Follows
  <1> QED
    BY <1>9, <1>10, <1>11, <1>12

-----------------------------------------------------------------------------
(***************************************************************************)
(* The event handlers.                                                     *)
(***************************************************************************)

(* Handled composes, as the calls of a handler do.                         *)
LEMMA HandledProperties ==
  ASSUME NEW iss, NEW w, NEW c, NEW s, Sound(s, iss, w, c)
  PROVE  /\ StateSound(s, iss) => Handled(s, s, iss, w, c)
         /\ \A t : Follows(s, t, iss, w, c) /\ StateSound(t, iss)
                     => Handled(s, t, iss, w, c)
         /\ \A t : Follows(s, t, iss, w, c) /\ Opened(s, iss)
                     => Handled(s, t, iss, w, c)
         /\ \A t, u : Handled(s, t, iss, w, c) /\ Handled(t, u, iss, w, c)
                     => Handled(s, u, iss, w, c)
  BY FollowsReflexive, OpenedStateSound, ContinuesTransitive DEF Handled, Follows

(* APPLICATION_CONNECT sends the SYN and keeps a block sound.              *)
LEMMA OnConnectHandled ==
  ASSUME NEW iss \in Nat, NEW w \in Nat, NEW c \in BOOLEAN,
         NEW s, Sound(s, iss, w, c), StateSound(s, iss),
         s.state = "CLOSED" => Len(s.got) = 0,
         "APPLICATION_CONNECT" \notin s.flags
  PROVE  Handled(s, OnConnect(s), iss, w, c)
  <1> DEFINE u == SendSyn(s, FALSE)
             t == SetState(u, "SYN_SENT")
  <1>1. CASE s.state # "CLOSED"
    BY <1>1, HandledProperties DEF OnConnect
  <1>2. CASE s.state = "CLOSED"
    <2>1. Follows(s, u, iss, w, c) /\ Unmoved(s, u)
      BY SendSynSound
    <2>2. OnConnect(s) = t
      BY <1>2 DEF OnConnect
    <2> HIDE DEF u
    <2>3. Sound(u, iss, w, c) /\ Continues(s, u)
      BY <2>1 DEF Follows
    <2>4. u \in BlockOf(SentBy(iss, w, c), SentBy(u.iss, u.wrote, u.closing))
      BY <2>3 DEF Sound
    <2>5. "SYN_SENT" \in TcpState
      BY DEF TcpState
    <2>6. /\ t \in BlockOf(SentBy(iss, w, c), SentBy(u.iss, u.wrote, u.closing))
          /\ SameStream(u, t) /\ t.state \in {u.state, "SYN_SENT"}
      BY <2>4, <2>5, SetStateProperties
    <2>7. Sound(t, iss, w, c) /\ Continues(u, t)
      BY <2>3, <2>6, SameStreamSound
    <2>8. t.state \in {"CLOSED", "SYN_SENT"}
      BY <1>2, <2>1, <2>6 DEF Unmoved
    <2>9. Len(t.got) = 0 /\ "APPLICATION_CONNECT" \notin t.flags
      BY <1>2, <2>1, <2>6 DEF Unmoved, SameStream
    <2>10. StateSound(t, iss)
      BY <2>8, <2>9 DEF StateSound
    <2> QED
      BY <2>2, <2>3, <2>7, <2>10, ContinuesTransitive DEF Handled
  <1> QED
    BY <1>1, <1>2

(* APPLICATION_SEND keeps a block sound.                                   *)
LEMMA OnSendHandled ==
  ASSUME NEW iss \in Nat, NEW w \in Nat, NEW c \in BOOLEAN,
         NEW s, Sound(s, iss, w, c), StateSound(s, iss)
  PROVE  Handled(s, OnSend(s), iss, w, c)
  <1>1. CASE s.state = "ESTABLISHED"
    <2>1. Opened(s, iss)
      BY <1>1, OpenedStateSound
    <2> QED
      BY <1>1, <2>1, ProcessSendBufferSound, HandledProperties DEF OnSend
  <1>2. CASE s.state # "ESTABLISHED"
    BY <1>2, HandledProperties DEF OnSend
  <1> QED
    BY <1>1, <1>2

(* APPLICATION_RECEIVE keeps a block sound.                                *)
LEMMA OnReceiveHandled ==
  ASSUME NEW iss \in Nat, NEW w \in Nat, NEW c \in BOOLEAN,
         NEW s, Sound(s, iss, w, c), StateSound(s, iss)
  PROVE  Handled(s, OnReceive(s), iss, w, c)
  <1> DEFINE t    == [s EXCEPT !.rwnd = Available(s)]
             In   == SentBy(iss, w, c)
             Out  == SentBy(s.iss, s.wrote, s.closing)
             rwnd == Available(s)
  <1>1. s \in BlockOf(In, Out) /\ rwnd \in Nat
    BY SoundFields DEF Sound
  <1>2. OnReceive(s) \in {s, t}
    BY DEF OnReceive
  <1> HIDE DEF rwnd, In, Out
  <1>3. /\ t \in BlockOf(In, Out)
        /\ t.iss = s.iss /\ t.wrote = s.wrote /\ t.closing = s.closing
        /\ t.taken = s.taken /\ t.nxt = s.nxt /\ t.thr = s.thr
        /\ t.rem = s.rem /\ t.finsent = s.finsent /\ t.eof = s.eof
        /\ t.rd = s.rd /\ t.got = s.got /\ t.rnxt = s.rnxt
        /\ t.flags = s.flags /\ t.state = s.state
    BY <1>1 DEF BlockOf, rwnd
  <1> HIDE DEF t
  <1>4. BuffersSound(t)
    BY <1>3 DEF Sound, BuffersSound
  <1>5. SenderSound(t)
    BY <1>3 DEF Sound, SenderSound, Running
  <1>6. ReceiverSound(t, w, c)
    BY <1>3 DEF Sound, ReceiverSound
  <1>7. Sound(t, iss, w, c)
    BY <1>3, <1>4, <1>5, <1>6 DEF Sound, In, Out
  <1>8. Continues(s, t) /\ StateSound(t, iss)
    BY <1>3 DEF Continues, StateSound, Synced, Running
  <1> QED
    BY <1>2, <1>7, <1>8, HandledProperties DEF Handled

(* A close is taken up when the application has nothing left to write.     *)
LEMMA ClosingSound ==
  ASSUME NEW iss \in Nat, NEW w \in Nat, NEW c \in BOOLEAN,
         NEW s, Sound(s, iss, w, c), s.rem = 0
  PROVE  LET t == [s EXCEPT !.closing = TRUE]
         IN Follows(s, t, iss, w, c) /\ t.closing
  <1> DEFINE t    == [s EXCEPT !.closing = TRUE]
             In   == SentBy(iss, w, c)
             Out  == SentBy(s.iss, s.wrote, s.closing)
             Out2 == SentBy(s.iss, s.wrote, TRUE)
  <1>1. s \in BlockOf(In, Out)
    BY DEF Sound
  <1>2. Out \subseteq Out2
    <2>1. s.iss \in Nat /\ s.wrote \in Nat /\ s.closing \in BOOLEAN
      BY SoundFields
    <2>2. ASSUME NEW i \in Nat, NEW v \in Nat, NEW d \in BOOLEAN
          PROVE  SentBy(i, v, d) \subseteq SentBy(i, v, TRUE)
      <3>1. v <= v /\ (d => TRUE /\ v = v)
        OBVIOUS
      <3> QED
        BY <3>1, SentByMonotonic
    <2> QED
      BY <2>1, <2>2
  <1>3. s \in BlockOf(In, Out2)
    <2> HIDE DEF In, Out, Out2
    <2> QED
      BY <1>1, <1>2, BlockMonotonic
  <1> HIDE DEF In, Out, Out2
  <1>4. /\ t \in BlockOf(In, Out2)
        /\ t.iss = s.iss /\ t.wrote = s.wrote /\ t.closing = TRUE
        /\ t.taken = s.taken /\ t.nxt = s.nxt /\ t.thr = s.thr
        /\ t.rem = s.rem /\ t.finsent = s.finsent /\ t.eof = s.eof
        /\ t.rd = s.rd /\ t.got = s.got /\ t.rnxt = s.rnxt
        /\ t.flags = s.flags /\ t.state = s.state
    BY <1>3 DEF BlockOf
  <1> HIDE DEF t
  <1>5. BuffersSound(t)
    BY <1>4 DEF Sound, BuffersSound
  <1>6. SenderSound(t)
    BY <1>4 DEF Sound, SenderSound, Running
  <1>7. ReceiverSound(t, w, c)
    BY <1>4 DEF Sound, ReceiverSound
  <1>8. Sound(t, iss, w, c)
    <2>1. SentBy(t.iss, t.wrote, t.closing) = Out2
      BY <1>4 DEF Out2
    <2> QED
      BY <1>4, <1>5, <1>6, <1>7, <2>1 DEF Sound, In
  <1>9. Continues(s, t) /\ (Opened(s, iss) => Opened(t, iss))
    BY <1>4 DEF Continues, Opened, Synced, Running
  <1> QED
    BY <1>4, <1>8, <1>9 DEF Follows, t

(* APPLICATION_CLOSE keeps a block sound: the FIN is sent only if the send *)
(* buffer is empty.                                                        *)
LEMMA OnCloseHandled ==
  ASSUME NEW iss \in Nat, NEW w \in Nat, NEW c \in BOOLEAN,
         NEW s, Sound(s, iss, w, c), StateSound(s, iss), s.rem = 0
  PROVE  Handled(s, OnClose(s), iss, w, c)
  <1> DEFINE d == [s EXCEPT !.closing = TRUE]
             f == IF Unsent(s) = 0 THEN SendFin(d) ELSE ProcessSendBuffer(d)
  <1>1. CASE s.state \notin {"ESTABLISHED", "CLOSE_WAIT"}
    BY <1>1, HandledProperties DEF OnClose
  <1>2. CASE s.state \in {"ESTABLISHED", "CLOSE_WAIT"}
    <2>1. Opened(s, iss)
      BY <1>2, OpenedStateSound
    <2>2. Follows(s, d, iss, w, c) /\ d.closing /\ Sound(d, iss, w, c)
      BY ClosingSound DEF Follows
    <2>3. Unsent(d) = Unsent(s)
      <3>1. s \in BlockOf(SentBy(iss, w, c), SentBy(s.iss, s.wrote, s.closing))
        BY DEF Sound
      <3> QED
        BY <3>1 DEF Unsent, BlockOf
    <2>4. OnClose(s) \in {f, SetState(f, "FIN_WAIT_1"), SetState(f, "LAST_ACK")}
      BY <1>2 DEF OnClose
    <2> HIDE DEF d
    <2>5. Follows(d, f, iss, w, c)
      BY <2>2, <2>3, SendFinSound, ProcessSendBufferSound
    <2> HIDE DEF f
    <2>6. Sound(f, iss, w, c)
      BY <2>5 DEF Follows
    <2>7. /\ Follows(f, SetState(f, "FIN_WAIT_1"), iss, w, c)
          /\ Follows(f, SetState(f, "LAST_ACK"), iss, w, c)
      BY <2>6, SetStateSound DEF TcpState
    <2>8. /\ Follows(s, f, iss, w, c)
          /\ Follows(s, SetState(f, "FIN_WAIT_1"), iss, w, c)
          /\ Follows(s, SetState(f, "LAST_ACK"), iss, w, c)
      BY <2>2, <2>5, <2>7, FollowsTransitive
    <2> QED
      BY <2>1, <2>4, <2>8, HandledProperties
  <1> QED
    BY <1>1, <1>2

(* PACKET_ARRIVAL keeps a block sound.                                     *)
LEMMA OnPacketHandled ==
  ASSUME NEW iss \in Nat, NEW w \in Nat, NEW c \in BOOLEAN,
         NEW s, Sound(s, iss, w, c), StateSound(s, iss), s.pend # <<>>
  PROVE  Handled(s, OnPacket(s), iss, w, c)
  <1> DEFINE h == HandlePacket(s)
  <1>1. /\ Handled(s, h, iss, w, c)
        /\ Opened(s, iss) => Opened(h, iss)
    BY HandlePacketSound
  <1>2. Sound(h, iss, w, c) /\ StateSound(h, iss)
    BY <1>1 DEF Handled
  <1>3. \/ OnPacket(s) = h
        \/ /\ s.state \in {"FIN_WAIT_1", "CLOSE_WAIT"}
           /\ \/ OnPacket(s) = ProcessSendBuffer(h)
              \/ /\ Unsent(h) = 0 /\ h.closing
                 /\ OnPacket(s) \in {SendFin(h), SetState(SendFin(h), "CLOSING")}
    BY DEF OnPacket
  <1> HIDE DEF h
  <1>4. CASE OnPacket(s) = h
    BY <1>1, <1>4
  <1>5. ASSUME s.state \in {"FIN_WAIT_1", "CLOSE_WAIT"}
        PROVE  Opened(h, iss)
    BY <1>1, <1>5, OpenedStateSound
  <1>6. CASE s.state \in {"FIN_WAIT_1", "CLOSE_WAIT"} /\ OnPacket(s) = ProcessSendBuffer(h)
    <2>1. Follows(h, ProcessSendBuffer(h), iss, w, c)
      BY <1>2, ProcessSendBufferSound
    <2>2. Handled(h, ProcessSendBuffer(h), iss, w, c)
      BY <1>2, <1>5, <1>6, <2>1, HandledProperties
    <2> QED
      BY <1>1, <1>6, <2>2, HandledProperties
  <1>7. CASE /\ s.state \in {"FIN_WAIT_1", "CLOSE_WAIT"}
             /\ Unsent(h) = 0 /\ h.closing
             /\ OnPacket(s) \in {SendFin(h), SetState(SendFin(h), "CLOSING")}
    <2>1. Follows(h, SendFin(h), iss, w, c)
      BY <1>2, <1>7, SendFinSound
    <2>2. Sound(SendFin(h), iss, w, c)
      BY <2>1 DEF Follows
    <2>3. Follows(SendFin(h), SetState(SendFin(h), "CLOSING"), iss, w, c)
      BY <2>2, SetStateSound DEF TcpState
    <2>4. Follows(h, SetState(SendFin(h), "CLOSING"), iss, w, c)
      BY <2>1, <2>3, FollowsTransitive
    <2>5. Handled(h, OnPacket(s), iss, w, c)
      BY <1>2, <1>5, <1>7, <2>1, <2>4, HandledProperties
    <2> QED
      BY <1>1, <2>5, HandledProperties
  <1> QED
    BY <1>3, <1>4, <1>6, <1>7

(* TIMEOUT keeps a block sound.                                            *)
LEMMA OnTimeoutHandled ==
  ASSUME NEW iss \in Nat, NEW w \in Nat, NEW c \in BOOLEAN,
         NEW s, Sound(s, iss, w, c), StateSound(s, iss)
  PROVE  Handled(s, OnTimeout(s), iss, w, c)
  <1> DEFINE In  == SentBy(iss, w, c)
             Out == SentBy(s.iss, s.wrote, s.closing)
             t   == ProcessTimeout(ProcessQ(s))
  <1>1. s \in BlockOf(In, Out)
    BY DEF Sound
  <1>2. ProcessQ(s) \in BlockOf(In, Out) /\ Unmoved(s, ProcessQ(s))
    BY <1>1, ProcessQProperties
  <1>3. t \in BlockOf(In, Out) /\ Unmoved(ProcessQ(s), t)
    BY <1>2, ProcessTimeoutProperties
  <1>4. Unmoved(s, t)
    BY <1>2, <1>3, SameStreamTransitive
  <1>5. OnTimeout(s) \in {s, t}
    BY DEF OnTimeout
  <1> HIDE DEF t
  <1>6. Follows(s, t, iss, w, c) /\ StateSound(t, iss)
    BY <1>3, <1>4, UnmovedFollows
  <1> QED
    BY <1>5, <1>6, HandledProperties

(* CLEANUP keeps a block sound.                                            *)
LEMMA OnCleanupHandled ==
  ASSUME NEW iss \in Nat, NEW w \in Nat, NEW c \in BOOLEAN,
         NEW s, Sound(s, iss, w, c), StateSound(s, iss)
  PROVE  Handled(s, OnCleanup(s), iss, w, c)
  <1> DEFINE In  == SentBy(iss, w, c)
             Out == SentBy(s.iss, s.wrote, s.closing)
  <1>1. s \in BlockOf(In, Out)
    BY DEF Sound
  <1>2. OnCleanup(s) \in BlockOf(In, Out) /\ Unmoved(s, OnCleanup(s))
    <2> HIDE DEF In, Out
    <2> QED
      BY <1>1 DEF BlockOf, OnCleanup, Thread, Unmoved, SameStream, Running
  <1>3. Follows(s, OnCleanup(s), iss, w, c) /\ StateSound(OnCleanup(s), iss)
    BY <1>2, UnmovedFollows
  <1> QED
    BY <1>3, HandledProperties

-----------------------------------------------------------------------------
(***************************************************************************)
(* The ends of a connection agree (Agreed of module TcpInvariant): the     *)
(* same operators again, with what they do to acknowledgements, windows    *)
(* and the state of the connection.                                        *)
(***************************************************************************)

(* The fields of a block have their types.                                 *)
LEMMA BlockFields ==
  ASSUME NEW In, NEW Out, NEW s \in BlockOf(In, Out)
  PROVE  /\ s.iss \in Nat /\ s.una \in Nat /\ s.nxt \in Nat /\ s.wnd \in Nat
         /\ s.irs \in Nat /\ s.rnxt \in Nat /\ s.rwnd \in Nat
         /\ s.wrote \in Nat /\ s.taken \in Nat /\ s.rd \in Nat
         /\ s.got \in Seq(Nat) /\ Len(s.got) \in Nat
         /\ s.state \in TcpState /\ s.eof \in BOOLEAN /\ s.thr \in Thread
         /\ s.closing \in BOOLEAN /\ s.finsent \in BOOLEAN
  BY LenProperties DEF BlockOf

(* How far a socket is through its life is a number.                       *)
LEMMA AgeFacts ==
  /\ \A st \in TcpState : Age[st] \in Nat
  /\ Age["LISTEN"] = 0 /\ Age["SYN_SENT"] = 1 /\ Age["SYN_RCVD"] = 2
  /\ Age["ESTABLISHED"] = 3 /\ Age["FIN_WAIT_1"] = 4 /\ Age["CLOSE_WAIT"] = 4
  /\ Age["FIN_WAIT_2"] = 5 /\ Age["CLOSING"] = 6 /\ Age["LAST_ACK"] = 7
  /\ Age["CLOSED"] = 8
  BY DEF Age, TcpState

(* What two blocks have in common that agree alike with the peer ...       *)
SameEnds(s, t) ==
  /\ t.iss = s.iss /\ t.una = s.una /\ t.irs = s.irs /\ t.rnxt = s.rnxt
  /\ t.rwnd = s.rwnd /\ t.taken = s.taken /\ t.got = s.got /\ t.rd = s.rd

(* ... and are in the same state.                                          *)
Alike(s, t) ==
  /\ SameEnds(s, t) /\ t.state = s.state /\ t.eof = s.eof
  /\ Running(t) => Running(s)
  /\ t.thr = "spin" => s.thr = "spin"
  /\ "APPLICATION_CONNECT" \in t.flags => "APPLICATION_CONNECT" \in s.flags

(* Moves: nothing goes back from s to t.                                   *)
Moves(s, t) ==
  /\ t.iss = s.iss /\ t.wrote = s.wrote /\ t.closing = s.closing
  /\ s.rnxt <= t.rnxt /\ s.una <= t.una /\ s.taken <= t.taken
  /\ s.finsent => t.finsent /\ t.nxt = s.nxt
  /\ s.eof => t.eof
  /\ Len(s.got) <= Len(t.got)
  /\ t.state = s.state \/ Age[t.state] > Age[s.state]

(* Nothing has been received either.                                       *)
Calm(s, t) == t.got = s.got /\ t.eof = s.eof /\ t.rnxt = s.rnxt

(* Moves composes, as the calls of a handler do.                           *)
LEMMA MovesTransitive ==
  ASSUME NEW I1, NEW O1, NEW I2, NEW O2, NEW I3, NEW O3,
         NEW s \in BlockOf(I1, O1), NEW t \in BlockOf(I2, O2), NEW u \in BlockOf(I3, O3),
         Moves(s, t), Moves(t, u)
  PROVE  Moves(s, u)
  <1>1. /\ Age[s.state] \in Nat /\ Age[t.state] \in Nat /\ Age[u.state] \in Nat
        /\ s.rnxt \in Nat /\ t.rnxt \in Nat /\ u.rnxt \in Nat
        /\ s.una \in Nat /\ t.una \in Nat /\ u.una \in Nat
        /\ s.taken \in Nat /\ t.taken \in Nat /\ u.taken \in Nat
        /\ Len(s.got) \in Nat /\ Len(t.got) \in Nat /\ Len(u.got) \in Nat
    BY BlockFields, AgeFacts
  <1>2. s.rnxt <= u.rnxt /\ s.una <= u.una /\ s.taken <= u.taken /\ Len(s.got) <= Len(u.got)
    <2>1. /\ s.rnxt <= t.rnxt /\ s.una <= t.una /\ s.taken <= t.taken /\ Len(s.got) <= Len(t.got)
          /\ t.rnxt <= u.rnxt /\ t.una <= u.una /\ t.taken <= u.taken /\ Len(t.got) <= Len(u.got)
      BY DEF Moves
    <2>2. \A a, b, c \in Nat : a <= b /\ b <= c => a <= c
      OBVIOUS
    <2> QED
      BY <1>1, <2>1, <2>2
  <1>3. u.state = s.state \/ Age[u.state] > Age[s.state]
    <2>1. /\ t.state = s.state \/ Age[t.state] > Age[s.state]
          /\ u.state = t.state \/ Age[u.state] > Age[t.state]
      BY DEF Moves
    <2> QED
      BY <1>1, <2>1
  <1>4. /\ u.iss = s.iss /\ u.wrote = s.wrote /\ u.closing = s.closing
        /\ s.finsent => u.finsent /\ u.nxt = s.nxt
        /\ s.eof => u.eof
    BY DEF Moves
  <1> QED
    BY <1>2, <1>3, <1>4 DEF Moves

(* A socket that has sent more and received more can have sent what it     *)
(* could have sent before.                                                 *)
LEMMA CarriesMonotonic ==
  ASSUME NEW r \in Nat, NEW iss \in Nat, NEW k \in Nat, NEW r2 \in Nat, NEW k2 \in Nat,
         r <= r2, k <= k2
  PROVE  Carries(r, iss, k) \subseteq Carries(r2, iss, k2)
  <1> SUFFICES ASSUME NEW g \in Carries(r, iss, k)
               PROVE  g \in Carries(r2, iss, k2)
    OBVIOUS
  <1>1. g \in Segment /\ g.ack \in Nat /\ g.off \in Nat /\ g.len \in Nat
    BY DEF Carries, Segment
  <1> QED
    BY <1>1 DEF Carries

(* The types of a block that agrees with its peer.                         *)
LEMMA AgreedFields ==
  ASSUME NEW iss, NEW n, NEW k, NEW s, EndsAgree(s, iss, n, k)
  PROVE  /\ s.iss \in Nat /\ s.una \in Nat /\ s.nxt \in Nat /\ s.wnd \in Nat
         /\ s.irs \in Nat /\ s.rnxt \in Nat /\ s.rwnd \in Nat
         /\ s.wrote \in Nat /\ s.taken \in Nat /\ s.rd \in Nat
         /\ s.got \in Seq(Nat) /\ Len(s.got) \in Nat
         /\ s.state \in TcpState /\ s.eof \in BOOLEAN /\ s.thr \in Thread
         /\ s.closing \in BOOLEAN /\ s.finsent \in BOOLEAN
         /\ s \in BlockOf(Carries(n, s.iss, k), Carries(s.rnxt, iss, s.taken))
         /\ Available(s) = BufSize - (Len(s.got) - s.rd)
  <1>1. s \in BlockOf(Carries(n, s.iss, k), Carries(s.rnxt, iss, s.taken))
    BY DEF EndsAgree
  <1> QED
    BY <1>1, BlockFields DEF Available

(* Blocks alike agree alike.                                               *)
LEMMA SameEndsAgree ==
  ASSUME NEW iss, NEW n, NEW k, NEW s, EndsAgree(s, iss, n, k),
         NEW t \in BlockOf(Carries(n, s.iss, k), Carries(s.rnxt, iss, s.taken)),
         SameEnds(s, t)
  PROVE  EndsAgree(t, iss, n, k)
  BY DEF EndsAgree, SameEnds, Available, Met, Synced

(* ... agree with it in the whole.                                         *)
LEMMA AlikeAgrees ==
  ASSUME NEW iss, NEW n, NEW k, NEW s, Agreed(s, iss, n, k),
         NEW t \in BlockOf(Carries(n, s.iss, k), Carries(s.rnxt, iss, s.taken)),
         Alike(s, t)
  PROVE  Agreed(t, iss, n, k)
  <1>1. EndsAgree(t, iss, n, k)
    BY SameEndsAgree DEF Agreed, Alike
  <1>2. StateAgrees(t, iss)
    BY DEF Agreed, StateAgrees, Alike, SameEnds
  <1> QED
    BY <1>1, <1>2 DEF Agreed

(* Still: s and t differ in queues and flags only.                         *)
Still(s, t) ==
  /\ Unmoved(s, t)
  /\ t.una = s.una /\ t.irs = s.irs
  /\ t.thr = "spin" => s.thr = "spin"

(* What is still agrees, moves nowhere and is calm.                        *)
LEMMA StillAgrees ==
  ASSUME NEW iss, NEW n, NEW k, NEW s, Agreed(s, iss, n, k),
         NEW t \in BlockOf(Carries(n, s.iss, k), Carries(s.rnxt, iss, s.taken)),
         Still(s, t)
  PROVE  Agreed(t, iss, n, k) /\ Moves(s, t) /\ Calm(s, t) /\ Alike(s, t)
  <1>1. Alike(s, t)
    BY DEF Still, Alike, SameEnds, Unmoved, SameStream
  <1>2. Moves(s, t) /\ Calm(s, t)
    <2>1. s.rnxt \in Nat /\ s.una \in Nat /\ s.taken \in Nat /\ Len(s.got) \in Nat
      BY AgreedFields DEF Agreed
    <2> QED
      BY <2>1 DEF Still, Moves, Calm, Unmoved, SameStream
  <1> QED
    BY <1>1, <1>2, AlikeAgrees

(* Still composes.                                                         *)
LEMMA StillTransitive ==
  ASSUME NEW s, NEW t, NEW u
  PROVE  /\ Still(s, t) /\ Still(t, u) => Still(s, u)
         /\ Still(s, s)
  BY DEF Still, Unmoved, SameStream

-----------------------------------------------------------------------------
(* Operators that only move packets between queues.                        *)

(* chitcpd_tcp_add_packet_to_retrans_q and process_q_after_ack.            *)
LEMMA QueuesStill ==
  ASSUME NEW In, NEW Out, NEW s \in BlockOf(In, Out)
  PROVE  /\ Still(s, ProcessQ(s))
         /\ \A g \in Out : Still(s, Enqueue(s, g))
  <1>1. ProcessQ(s).una = s.una /\ ProcessQ(s).irs = s.irs /\ ProcessQ(s).thr \in {s.thr, "stuck"}
    BY DEF ProcessQ, BlockOf
  <1>2. \A g : Enqueue(s, g).una = s.una /\ Enqueue(s, g).irs = s.irs /\ Enqueue(s, g).thr \in {s.thr, "stuck"}
    BY DEF Enqueue, BlockOf
  <1> QED
    BY <1>1, <1>2, ProcessQProperties, EnqueueProperties DEF Still

(* chitcpd_tcp_send_packet without payload.                                *)
LEMMA SendStill ==
  ASSUME NEW In, NEW Out, NEW s \in BlockOf(In, Out), NEW g \in Out, Empty(g)
  PROVE  /\ Send(s, g) \in BlockOf(In, Out) /\ Still(s, Send(s, g))
         /\ SegLen(g) = 0 => Send(s, g).thr = s.thr
  <1> DEFINE sent == [s EXCEPT !.out = Append(@, g)]
             same(t) == t.una = s.una /\ t.irs = s.irs
  <1>1. Append(s.out, g) \in Seq(Out) /\ s.nxt \in Nat
    BY DEF BlockOf
  <1>2. sent \in BlockOf(In, Out) /\ same(sent) /\ sent.thr = s.thr
    BY <1>1 DEF BlockOf
  <1>3. PICK kept \in {sent, Enqueue(sent, g)} :
          /\ Send(s, g) \in {s, kept, [kept EXCEPT !.nxt = @ + g.len]}
          /\ SegLen(g) = 0 => kept = sent
    <2>1. CASE SegLen(g) > 0
      BY <2>1 DEF Send
    <2>2. CASE ~(SegLen(g) > 0)
      BY <2>2 DEF Send
    <2> QED
      BY <2>1, <2>2
  <1> HIDE DEF sent
  <1>4. kept \in BlockOf(In, Out) /\ same(kept) /\ kept.thr \in {s.thr, "stuck"}
    <2>1. Enqueue(sent, g) \in BlockOf(In, Out)
      BY <1>2, EnqueueProperties
    <2>2. same(Enqueue(sent, g)) /\ Enqueue(sent, g).thr \in {s.thr, "stuck"}
      BY <1>2 DEF Enqueue, BlockOf
    <2> QED
      BY <1>2, <1>3, <2>1, <2>2
  <1>5. \A x : LET t == [kept EXCEPT !.nxt = x] IN same(t) /\ t.thr = kept.thr
    BY <1>4 DEF BlockOf
  <1>6. same(Send(s, g)) /\ Send(s, g).thr \in {s.thr, kept.thr}
    BY <1>3, <1>4, <1>5
  <1>7. Send(s, g).thr \in {s.thr, "stuck"} /\ (SegLen(g) = 0 => Send(s, g).thr = s.thr)
    BY <1>2, <1>3, <1>4, <1>6
  <1> QED
    BY <1>6, <1>7, SendEmpty DEF Still

(* process_timeout.                                                        *)
LEMMA ProcessTimeoutStill ==
  ASSUME NEW In, NEW Out, NEW s \in BlockOf(In, Out)
  PROVE  Still(s, ProcessTimeout(s))
  <1> DEFINE same(t) == t.una = s.una /\ t.irs = s.irs /\ t.thr \in {s.thr, "stuck"}
  <1>1. PICK rtq, late, out :
          ProcessTimeout(s) \in
            {s, [s EXCEPT !.thr = "stuck"], [s EXCEPT !.qlock = TRUE],
             ProcessQ([s EXCEPT !.rtq = rtq, !.late = late, !.out = out])}
    BY DEF ProcessTimeout
  <1> DEFINE t == [s EXCEPT !.rtq = rtq, !.late = late, !.out = out]
  <1>2. same(t) /\ same([s EXCEPT !.thr = "stuck"]) /\ same([s EXCEPT !.qlock = TRUE]) /\ same(s)
    BY DEF BlockOf
  <1>3. DOMAIN t = DOMAIN s
    BY DEF BlockOf
  <1>4. same(ProcessQ(t))
    BY DEF ProcessQ, BlockOf
  <1>5. same(ProcessTimeout(s))
    BY <1>1, <1>2, <1>4
  <1> QED
    BY <1>5, ProcessTimeoutProperties DEF Still

(* add_p_to_oop keeps the packet with those that wait.                     *)
LEMMA StashType ==
  ASSUME NEW In, NEW Out, NEW s \in BlockOf(In, Out), NEW g \in In
  PROVE  Stash(s, g) \in BlockOf(In, Out) /\ Still(s, Stash(s, g))
  <1> DEFINE k == Cardinality({i \in DOMAIN s.oop : s.oop[i].seq < g.seq})
             q == SubSeq(s.oop, 1, k) \o <<g>> \o SubSeq(s.oop, k + 1, Len(s.oop))
  <1>1. s.oop \in Seq(In) /\ Len(s.oop) \in Nat /\ DOMAIN s.oop = 1 .. Len(s.oop)
    BY LenProperties DEF BlockOf
  <1>2. k \in Nat /\ k <= Len(s.oop)
    <2>1. /\ IsFiniteSet(1 .. Len(s.oop))
          /\ Cardinality(1 .. Len(s.oop)) = Len(s.oop)
      <3>1. ASSUME NEW m \in Nat
            PROVE  IsFiniteSet(1 .. m) /\ Cardinality(1 .. m) = m
        BY FS_Interval
      <3> QED
        BY <1>1, <3>1
    <2>2. {i \in DOMAIN s.oop : s.oop[i].seq < g.seq} \in SUBSET (1 .. Len(s.oop))
      BY <1>1
    <2> QED
      BY <1>1, <2>1, <2>2, FS_Subset, FS_CardinalityType
  <1> HIDE DEF k
  <1>3. q \in Seq(In)
    <2>1. SubSeq(s.oop, 1, k) \in Seq(In) /\ SubSeq(s.oop, k + 1, Len(s.oop)) \in Seq(In)
      BY <1>1, <1>2, SubSeqProperties
    <2>2. <<g>> \in Seq(In)
      OBVIOUS
    <2> QED
      BY <2>1, <2>2, ConcatProperties
  <1>4. Stash(s, g) = [s EXCEPT !.oop = q]
    BY DEF Stash, k
  <1> HIDE DEF q
  <1> QED
    BY <1>3, <1>4, ZenonT(40) DEF BlockOf, Still, Unmoved, SameStream, Running

(* process_oop_after_new_packet takes the head of the list of those.       *)
LEMMA TakeFromOopType ==
  ASSUME NEW In, NEW Out, NEW s \in BlockOf(In, Out)
  PROVE  TakeFromOop(s) \in BlockOf(In, Out) /\ Still(s, TakeFromOop(s))
  <1>1. CASE TakeFromOop(s) = s
    BY <1>1, StillTransitive
  <1>2. CASE TakeFromOop(s) # s
    <2>1. s.oop \in Seq(In) /\ s.pend \in Seq(In)
      BY DEF BlockOf
    <2>2. /\ \E i \in DOMAIN s.oop : s.oop[i].seq = s.rnxt
          /\ TakeFromOop(s) = [s EXCEPT !.pend = <<Head(s.oop)>> \o @, !.oop = Tail(@)]
      BY <1>2 DEF TakeFromOop
    <2>3. s.oop # <<>>
      BY <2>1, <2>2
    <2>4. Head(s.oop) \in In /\ Tail(s.oop) \in Seq(In)
      BY <2>1, <2>3, HeadTailProperties
    <2>5. <<Head(s.oop)>> \o s.pend \in Seq(In)
      BY <2>1, <2>4
    <2> QED
      BY <2>2, <2>4, <2>5, ZenonT(40) DEF BlockOf, Still, Unmoved, SameStream, Running
  <1> QED
    BY <1>1, <1>2

-----------------------------------------------------------------------------
(* Sending.                                                                *)

(* GoesOn: t is what part of a handler makes of s.                         *)
GoesOn(s, t, iss, n, k) == Agreed(t, iss, n, k) /\ Moves(s, t)

(* GoesOn composes, as the calls of a handler do.                          *)
LEMMA GoesOnTransitive ==
  ASSUME NEW iss, NEW n, NEW k, NEW s, NEW t, NEW u,
         EndsAgree(s, iss, n, k), GoesOn(s, t, iss, n, k), GoesOn(t, u, iss, n, k)
  PROVE  GoesOn(s, u, iss, n, k)
  <1>1. Moves(s, u)
    <2> DEFINE In(x) == Carries(n, x.iss, k)
               Out(x) == Carries(x.rnxt, iss, x.taken)
    <2>1. s \in BlockOf(In(s), Out(s)) /\ t \in BlockOf(In(t), Out(t)) /\ u \in BlockOf(In(u), Out(u))
      BY DEF GoesOn, Agreed, EndsAgree
    <2>2. Moves(s, t) /\ Moves(t, u)
      BY DEF GoesOn
    <2> HIDE DEF In, Out
    <2> QED
      BY <2>1, <2>2, MovesTransitive
  <1> QED
    BY <1>1 DEF GoesOn

(* Segments without payload, sent once the peer's SYN is known.            *)
LEMMA ControlCarried ==
  ASSUME NEW iss, NEW n, NEW k, NEW s, EndsAgree(s, iss, n, k),
         NEW fin \in BOOLEAN, NEW hasack \in BOOLEAN, NEW syn \in BOOLEAN, NEW seq \in Nat,
         hasack => s.rnxt > iss
  PROVE  LET g == MakeSegment(s, 0, 0, fin, hasack, seq, syn)
         IN g \in Carries(s.rnxt, iss, s.taken) /\ Empty(g)
  <1>1. s.rnxt \in Nat /\ s.rwnd \in Nat
    BY AgreedFields
  <1> QED
    BY <1>1 DEF MakeSegment, Carries, Segment, Empty

(* An acknowledgement carries RCV_NXT, which the peer's SYN has set.       *)
LEMMA SendAckAgrees ==
  ASSUME NEW iss, NEW n, NEW k, NEW s, Agreed(s, iss, n, k), s.rnxt > iss
  PROVE  /\ GoesOn(s, SendAck(s), iss, n, k)
         /\ Still(s, SendAck(s)) /\ SendAck(s).thr = s.thr
  <1> DEFINE g == MakeSegment(s, 0, 0, FALSE, TRUE, s.nxt, FALSE)
  <1>1. EndsAgree(s, iss, n, k) /\ s.nxt \in Nat
    BY AgreedFields DEF Agreed
  <1>2. g \in Carries(s.rnxt, iss, s.taken) /\ Empty(g)
    BY <1>1, ControlCarried
  <1>3. SegLen(g) = 0
    BY DEF MakeSegment, SegLen, One
  <1>4. s \in BlockOf(Carries(n, s.iss, k), Carries(s.rnxt, iss, s.taken))
    BY <1>1 DEF EndsAgree
  <1>5. SendAck(s) = Send(s, g)
    BY DEF SendAck
  <1> HIDE DEF g
  <1>6. /\ SendAck(s) \in BlockOf(Carries(n, s.iss, k), Carries(s.rnxt, iss, s.taken))
        /\ Still(s, SendAck(s)) /\ SendAck(s).thr = s.thr
    BY <1>2, <1>3, <1>4, <1>5, SendStill
  <1> QED
    BY <1>6, StillAgrees DEF GoesOn

(* A SYN, or a SYN/ACK once the peer's SYN has come.                       *)
LEMMA SendSynAgrees ==
  ASSUME NEW iss, NEW n, NEW k, NEW s, Agreed(s, iss, n, k),
         NEW hasack \in BOOLEAN, hasack => s.rnxt > iss
  PROVE  /\ GoesOn(s, SendSyn(s, hasack), iss, n, k)
         /\ Still(s, SendSyn(s, hasack))
  <1> DEFINE g == MakeSegment(s, 0, 0, FALSE, hasack, s.iss, TRUE)
  <1>1. EndsAgree(s, iss, n, k) /\ s.iss \in Nat
    BY AgreedFields DEF Agreed
  <1>2. g \in Carries(s.rnxt, iss, s.taken) /\ Empty(g)
    BY <1>1, ControlCarried
  <1>3. s \in BlockOf(Carries(n, s.iss, k), Carries(s.rnxt, iss, s.taken))
    BY <1>1 DEF EndsAgree
  <1>4. SendSyn(s, hasack) = Send(s, g)
    BY DEF SendSyn
  <1> HIDE DEF g
  <1>5. /\ SendSyn(s, hasack) \in BlockOf(Carries(n, s.iss, k), Carries(s.rnxt, iss, s.taken))
        /\ Still(s, SendSyn(s, hasack))
    BY <1>2, <1>3, <1>4, SendStill
  <1> QED
    BY <1>5, StillAgrees DEF GoesOn

(* A FIN.                                                                  *)
LEMMA SendFinAgrees ==
  ASSUME NEW iss, NEW n, NEW k, NEW s, Agreed(s, iss, n, k), s.rnxt > iss
  PROVE  /\ GoesOn(s, SendFin(s), iss, n, k)
         /\ Calm(s, SendFin(s)) /\ Alike(s, SendFin(s))
  <1> DEFINE g    == MakeSegment(s, 0, 0, TRUE, TRUE, s.nxt, FALSE)
             sent == Send(s, g)
             In   == Carries(n, s.iss, k)
             Out  == Carries(s.rnxt, iss, s.taken)
  <1>1. EndsAgree(s, iss, n, k) /\ s.nxt \in Nat
    BY AgreedFields DEF Agreed
  <1>2. g \in Out /\ Empty(g)
    BY <1>1, ControlCarried
  <1>3. s \in BlockOf(In, Out)
    BY <1>1 DEF EndsAgree
  <1>4. sent \in BlockOf(In, Out) /\ Still(s, sent)
    <2> HIDE DEF g, In, Out
    <2> QED
      BY <1>2, <1>3, SendStill
  <1>5. \/ SendFin(s) = s
        \/ SendFin(s) \in {sent, [sent EXCEPT !.finsent = TRUE]}
    BY DEF SendFin
  <1> HIDE DEF sent, In, Out
  <1>6. CASE SendFin(s) \in {s, sent}
    <2>1. Still(s, s)
      BY StillTransitive
    <2> QED
      BY <1>3, <1>4, <1>6, <2>1, StillAgrees DEF GoesOn, In, Out
  <1>7. CASE SendFin(s) = [sent EXCEPT !.finsent = TRUE]
    <2> DEFINE t == SendFin(s)
    <2>1. /\ t \in BlockOf(In, Out) /\ Alike(sent, t) /\ t.finsent
          /\ t.nxt = sent.nxt /\ t.closing = sent.closing /\ t.wrote = sent.wrote
      <3> HIDE DEF t
      <3>1. t = [sent EXCEPT !.finsent = TRUE]
        BY <1>7 DEF t
      <3> QED
        BY <1>4, <3>1 DEF BlockOf, Alike, SameEnds, Running
    <2>2. Agreed(sent, iss, n, k) /\ Moves(s, sent) /\ Calm(s, sent) /\ Alike(s, sent)
      BY <1>4, StillAgrees DEF In, Out
    <2> HIDE DEF t
    <2>3. Alike(s, t)
      BY <2>1, <2>2 DEF Alike, SameEnds
    <2>4. Agreed(t, iss, n, k)
      BY <2>1, <2>3, AlikeAgrees DEF In, Out
    <2>5. Moves(s, t) /\ Calm(s, t)
      BY <1>4, <2>1, <2>2 DEF Moves, Calm, Alike, SameEnds
    <2> QED
      BY <2>3, <2>4, <2>5 DEF GoesOn, t
  <1> QED
    BY <1>5, <1>6, <1>7

(* chitcpd_update_tcp_state.                                               *)
LEMMA SetStateFacts ==
  ASSUME NEW iss, NEW n, NEW k, NEW s, EndsAgree(s, iss, n, k), NEW st \in TcpState
  PROVE  LET t == SetState(s, st)
         IN /\ EndsAgree(t, iss, n, k)
            /\ SameEnds(s, t) /\ t.eof = s.eof /\ t.thr = s.thr
            /\ t.wrote = s.wrote /\ t.closing = s.closing
            /\ t.finsent = s.finsent /\ t.nxt = s.nxt
            /\ "APPLICATION_CONNECT" \in t.flags <=> "APPLICATION_CONNECT" \in s.flags
            /\ t.state = IF Running(s) THEN st ELSE s.state
            /\ ~Running(s) => t = s
  <1> DEFINE t == SetState(s, st)
             In == Carries(n, s.iss, k)
             Out == Carries(s.rnxt, iss, s.taken)
  <1>1. s \in BlockOf(In, Out)
    BY DEF EndsAgree
  <1>2. t \in BlockOf(In, Out) /\ SameStream(s, t) /\ t.thr = s.thr
    <2> HIDE DEF In, Out
    <2> QED
      BY <1>1, SetStateProperties
  <1> HIDE DEF In, Out
  <1>3. /\ t.una = s.una /\ t.irs = s.irs /\ t.state = IF Running(s) THEN st ELSE s.state
        /\ ~Running(s) => t = s
    BY <1>1 DEF SetState, BlockOf
  <1> HIDE DEF t
  <1>4. SameEnds(s, t)
    BY <1>2, <1>3 DEF SameEnds, SameStream
  <1>5. EndsAgree(t, iss, n, k)
    BY <1>2, <1>4, SameEndsAgree DEF In, Out
  <1> QED
    BY <1>2, <1>3, <1>4, <1>5 DEF SameStream, t

(* A socket moves on to a later state.                                     *)
LEMMA SetStateMoves ==
  ASSUME NEW iss, NEW n, NEW k, NEW s, EndsAgree(s, iss, n, k), NEW st \in TcpState,
         Age[st] > Age[s.state]
  PROVE  Moves(s, SetState(s, st)) /\ Calm(s, SetState(s, st))
  <1> DEFINE t == SetState(s, st)
  <1>1. /\ EndsAgree(t, iss, n, k)
        /\ SameEnds(s, t) /\ t.eof = s.eof /\ t.thr = s.thr
        /\ t.wrote = s.wrote /\ t.closing = s.closing
        /\ t.finsent = s.finsent /\ t.nxt = s.nxt
        /\ t.state \in {s.state, st}
    BY SetStateFacts
  <1>2. s.rnxt \in Nat /\ s.una \in Nat /\ s.taken \in Nat /\ Len(s.got) \in Nat
    BY AgreedFields
  <1> HIDE DEF t
  <1> QED
    BY <1>1, <1>2 DEF Moves, Calm, SameEnds, t

(* The packets process_send_buffer makes, when each is one of Out.         *)
LEMMA ChunksType ==
  ASSUME NEW Out, NEW s, NEW n \in Nat \ {0}, NEW k \in Nat \ {0},
         \A o \in 1 .. n :
           MakeSegment(s, s.taken + o, Lesser(k, n - o + 1), FALSE, TRUE,
                       s.nxt + o - 1, FALSE) \in Out
  PROVE  Chunks(s, n, k) \in Seq(Out) /\ Chunks(s, n, k)[1] \in Out
  <1> DEFINE all == [o \in 1 .. n |->
                       MakeSegment(s, s.taken + o, Lesser(k, n - o + 1), FALSE, TRUE,
                                   s.nxt + o - 1, FALSE)]
             I == {o \in 1 .. n : (o - 1) % k = 0}
  <1>1. all \in [1 .. n -> Out]
    OBVIOUS
  <1> HIDE DEF all
  <1>2. all \in Seq(Out) /\ DOMAIN all = 1 .. n
    BY <1>1, SeqDef
  <1>3. I \in SUBSET DOMAIN all /\ 1 \in I
    BY <1>2
  <1>4. /\ Pick(all, I) \in Seq(Out) /\ Cardinality(I) \in Nat
        /\ Len(Pick(all, I)) = Cardinality(I)
    BY <1>2, <1>3, PickProperties
  <1>5. IsFiniteSet(I)
    BY <1>2, <1>3, FS_Interval, FS_Subset
  <1>6. Cardinality(I) # 0
    BY <1>3, <1>5, FS_EmptySet
  <1>7. 1 \in 1 .. Len(Pick(all, I))
    BY <1>4, <1>6
  <1>8. Pick(all, I)[1] \in Out
    BY <1>4, <1>7, ElementOfSeq
  <1> QED
    BY <1>4, <1>8 DEF Chunks, all

(* process_send_buffer when there is something to send: n bytes leave the  *)
(* buffer, and SND_NXT moves by as many unless the thread stops.           *)
LEMMA ProcessSendBufferType ==
  ASSUME NEW In, NEW Out, NEW s \in BlockOf(In, Out), Running(s),
         NEW n \in Nat \ {0}, n = Lesser(Unsent(s), s.wnd),
         \A k \in Nat \ {0} : Chunks(s, n, k) \in Seq(Out) /\ Chunks(s, n, k)[1] \in Out
  PROVE  LET t == ProcessSendBuffer(s)
         IN /\ t \in BlockOf(In, Out) /\ t.taken = s.taken + n
            /\ t.iss = s.iss /\ t.wrote = s.wrote /\ t.closing = s.closing
            /\ t.rem = s.rem /\ t.finsent = s.finsent
            /\ t.got = s.got /\ t.rd = s.rd /\ t.eof = s.eof /\ t.rnxt = s.rnxt
            /\ t.una = s.una /\ t.irs = s.irs /\ t.rwnd = s.rwnd
            /\ t.flags = s.flags /\ t.state = s.state
            /\ Running(t) => t.nxt = s.nxt + n
  <1> DEFINE room == s.wnd - (s.nxt - s.una)
             gs   == Chunks(s, n, Lesser(MSS, room))
             t    == ProcessSendBuffer(s)
             read == [s EXCEPT !.taken = @ + n]
  <1>1. /\ s.taken \in Nat /\ s.nxt \in Nat /\ s.una \in Nat /\ s.wnd \in Nat
        /\ s.rtq \in Seq(Member(Out)) /\ s.out \in Seq(Out)
    BY DEF BlockOf
  <1>0. s.taken + n \in Nat /\ s.nxt + n \in Nat /\ room \in Int
    <2>1. /\ \A a, b \in Nat : a + b \in Nat
          /\ \A a, b, d \in Nat : a - (b - d) \in Int
      OBVIOUS
    <2> QED
      BY <1>1, <2>1
  <1>2. ASSUME room > 0
        PROVE  /\ s.out \o gs \in Seq(Out)
               /\ s.rtq \o Fresh(gs) \in Seq(Member(Out))
               /\ Append(s.out, gs[1]) \in Seq(Out)
    <2>1. Lesser(MSS, room) \in Nat \ {0}
      BY <1>0, <1>2, TcbAssumption DEF Lesser
    <2>2. gs \in Seq(Out) /\ gs[1] \in Out
      BY <2>1
    <2> HIDE DEF gs
    <2>3. Len(gs) \in Nat /\ DOMAIN gs = 1 .. Len(gs)
      BY <2>2, LenProperties
    <2>4. \A i \in 1 .. Len(gs) : gs[i] \in Out
      BY <2>2, ElementOfSeq
    <2>5. Fresh(gs) \in [1 .. Len(gs) -> Member(Out)]
      BY <2>3, <2>4 DEF Fresh, Member
    <2>6. Fresh(gs) \in Seq(Member(Out))
      BY <2>3, <2>5, SeqDef
    <2>7. s.out \o gs \in Seq(Out) /\ s.rtq \o Fresh(gs) \in Seq(Member(Out))
      BY <1>1, <2>2, <2>6, ConcatProperties
    <2> QED
      BY <1>1, <2>2, <2>7
  <1>3. {"spin", "crash", "stuck"} \subseteq Thread
    BY DEF Thread
  <1>4. t = IF room = 0 THEN [read EXCEPT !.thr = "spin"]
            ELSE IF room < 0 THEN [read EXCEPT !.thr = "crash"]
            ELSE IF s.qlock THEN [read EXCEPT !.thr = "stuck", !.out = Append(@, gs[1])]
            ELSE [read EXCEPT !.out = @ \o gs, !.rtq = @ \o Fresh(gs), !.nxt = @ + n]
    BY DEF ProcessSendBuffer
  <1> HIDE DEF room, gs
  <1> DEFINE Taken(u) ==
               /\ u \in BlockOf(In, Out) /\ u.taken = s.taken + n
               /\ u.iss = s.iss /\ u.wrote = s.wrote /\ u.closing = s.closing
               /\ u.rem = s.rem /\ u.finsent = s.finsent
               /\ u.got = s.got /\ u.rd = s.rd /\ u.eof = s.eof /\ u.rnxt = s.rnxt
               /\ u.una = s.una /\ u.irs = s.irs /\ u.rwnd = s.rwnd
               /\ u.flags = s.flags /\ u.state = s.state
  <1>5. /\ Taken(read) /\ read.nxt = s.nxt
        /\ read.out = s.out /\ read.rtq = s.rtq /\ read.thr = s.thr
    BY <1>0, <1>1 DEF BlockOf
  <1>6. Taken(t) /\ (Running(t) => t.nxt = s.nxt + n)
    <2> HIDE DEF t, read
    <2>1. CASE room = 0
      <3>1. t = [read EXCEPT !.thr = "spin"]
        BY <1>4, <2>1
      <3> QED
        BY <1>3, <1>5, <3>1 DEF BlockOf, Running
    <2>2. CASE room < 0
      <3>1. t = [read EXCEPT !.thr = "crash"]
        BY <1>0, <1>4, <2>2
      <3> QED
        BY <1>3, <1>5, <3>1 DEF BlockOf, Running
    <2>3. CASE room > 0 /\ s.qlock
      <3> DEFINE out == Append(s.out, gs[1])
      <3>1. t = [read EXCEPT !.thr = "stuck", !.out = out]
        BY <1>0, <1>4, <1>5, <2>3
      <3>2. out \in Seq(Out)
        BY <1>2, <2>3
      <3> HIDE DEF out
      <3> QED
        BY <1>3, <1>5, <3>1, <3>2 DEF BlockOf, Running
    <2>4. CASE room > 0 /\ ~s.qlock
      <3> DEFINE out == s.out \o gs
                 rtq == s.rtq \o Fresh(gs)
      <3>1. t = [read EXCEPT !.out = out, !.rtq = rtq, !.nxt = @ + n]
        BY <1>0, <1>4, <1>5, <2>4
      <3>2. out \in Seq(Out) /\ rtq \in Seq(Member(Out))
        BY <1>2, <2>4
      <3> HIDE DEF out, rtq
      <3> QED
        BY <1>0, <1>5, <3>1, <3>2 DEF BlockOf, Running
    <2> QED
      BY <1>0, <2>1, <2>2, <2>3, <2>4
  <1> HIDE DEF t
  <1> QED
    BY <1>6 DEF t

(* What TCP takes out of the send buffer goes out with an acknowledgement  *)
(* of all that has come in.                                                *)
LEMMA ProcessSendBufferAgrees ==
  ASSUME NEW iss \in Nat, NEW n \in Nat, NEW k \in Nat, NEW w, NEW c,
         NEW s, Agreed(s, iss, n, k), Sound(s, iss, w, c), s.rnxt > iss
  PROVE  /\ GoesOn(s, ProcessSendBuffer(s), iss, n, k)
         /\ Calm(s, ProcessSendBuffer(s)) /\ ProcessSendBuffer(s).state = s.state
         /\ ProcessSendBuffer(s).rwnd = s.rwnd
  <1> DEFINE m   == Lesser(Unsent(s), s.wnd)
             t   == ProcessSendBuffer(s)
             In  == Carries(n, s.iss, k)
             Out == Carries(s.rnxt, iss, s.taken)
             Out2 == Carries(s.rnxt, iss, s.taken + m)
  <1>0. EndsAgree(s, iss, n, k)
    BY DEF Agreed
  <1>1. CASE ~Running(s) \/ m = 0
    <2>1. t = s
      BY <1>1 DEF ProcessSendBuffer
    <2>2. Still(s, s)
      BY StillTransitive
    <2>3. s \in BlockOf(In, Out)
      BY <1>0 DEF EndsAgree
    <2> HIDE DEF t
    <2> QED
      BY <2>1, <2>2, <2>3, StillAgrees DEF GoesOn, Calm, t
  <1>2. CASE Running(s) /\ m # 0
    <2>1. /\ m \in Nat \ {0} /\ m <= Unsent(s) /\ s.taken \in Nat /\ s.rnxt \in Nat
          /\ s.nxt \in Nat /\ s.rwnd \in Nat /\ s.una \in Nat /\ s.iss \in Nat /\ Len(s.got) \in Nat
      BY <1>2, SoundFields, SMTT(30) DEF Lesser
    <2>2. ~s.finsent
      <3>1. s.finsent => Unsent(s) = 0
        BY <2>1, SoundFields DEF Sound, SenderSound, Unsent
      <3> QED
        BY <2>1, <3>1
    <2>3. s \in BlockOf(In, Out)
      BY <1>0 DEF EndsAgree
    <2> HIDE DEF m
    <2>4. Out \subseteq Out2
      <3>1. s.taken + m \in Nat /\ s.taken <= s.taken + m /\ s.rnxt <= s.rnxt
        BY <2>1
      <3> QED
        BY <2>1, <3>1, CarriesMonotonic, SMTT(30)
    <2>5. s \in BlockOf(In, Out2)
      <3> HIDE DEF In, Out, Out2
      <3> QED
        BY <2>3, <2>4, BlockMonotonic
    <2>6. ASSUME NEW l \in Nat \ {0}
          PROVE  Chunks(s, m, l) \in Seq(Out2) /\ Chunks(s, m, l)[1] \in Out2
      <3>1. ASSUME NEW o \in 1 .. m
            PROVE  MakeSegment(s, s.taken + o, Lesser(l, m - o + 1), FALSE, TRUE,
                               s.nxt + o - 1, FALSE) \in Out2
        <4> DEFINE off == s.taken + o
                   len == Lesser(l, m - o + 1)
                   seq == s.nxt + o - 1
        <4>1. off \in Nat /\ seq \in Nat /\ len \in Nat
          <5>1. m \in Nat /\ o \in Nat /\ o >= 1 /\ m - o + 1 \in Nat
            BY <2>1
          <5>2. off \in Nat /\ seq \in Nat
            <6>1. /\ \A a, b \in Nat : a + b \in Nat
                  /\ \A a, b \in Nat : b >= 1 => a + b - 1 \in Nat
              OBVIOUS
            <6> QED
              BY <2>1, <5>1, <6>1
          <5>3. \A a, b \in Nat : Lesser(a, b) \in Nat
            BY DEF Lesser
          <5> QED
            BY <5>1, <5>2, <5>3
        <4>2. len <= m - o + 1
          BY <2>1 DEF Lesser
        <4>3. off + len <= s.taken + m + 1
          BY <2>1, <4>1, <4>2
        <4> HIDE DEF off, len, seq
        <4>4. MakeSegment(s, off, len, FALSE, TRUE, seq, FALSE) \in Out2
          BY <2>1, <4>1, <4>3 DEF MakeSegment, Carries, Segment
        <4> QED
          BY <4>4 DEF off, len, seq
      <3> HIDE DEF Out2
      <3> QED
        BY <2>1, <3>1, ChunksType
    <2>7. /\ t \in BlockOf(In, Out2) /\ t.taken = s.taken + m
          /\ t.iss = s.iss /\ t.wrote = s.wrote /\ t.closing = s.closing
          /\ t.finsent = s.finsent
          /\ t.got = s.got /\ t.rd = s.rd /\ t.eof = s.eof /\ t.rnxt = s.rnxt
          /\ t.una = s.una /\ t.irs = s.irs /\ t.rwnd = s.rwnd
          /\ t.flags = s.flags /\ t.state = s.state
      <3>1. m = Lesser(Unsent(s), s.wnd) /\ m \in Nat \ {0} /\ Running(s)
        BY <1>2, <2>1 DEF m
      <3> HIDE DEF In, Out2, m, t
      <3> QED
        BY <2>5, <2>6, <3>1, ProcessSendBufferType, SMTT(60) DEF t
    <2> HIDE DEF t
    <2>8. EndsAgree(t, iss, n, k)
      <3>1. t \in BlockOf(Carries(n, t.iss, k), Carries(t.rnxt, iss, t.taken))
        BY <2>7
      <3>2. t.rwnd <= Available(t) /\ Len(t.got) <= k /\ t.iss <= t.una
            /\ (t.una > t.iss => t.una <= n) /\ Met(t, iss)
        BY <1>0, <2>7 DEF EndsAgree, Available, Met, Synced
      <3>3. n <= t.iss + 1 + t.taken
        <4>1. n <= s.iss + 1 + s.taken
          BY <1>0 DEF EndsAgree
        <4> QED
          BY <2>1, <2>7, <4>1
      <3> QED
        BY <3>1, <3>2, <3>3 DEF EndsAgree
    <2>9. StateAgrees(t, iss)
      BY <1>2, <2>1, <2>7 DEF Agreed, StateAgrees
    <2>10. Moves(s, t) /\ Calm(s, t)
      BY <2>1, <2>2, <2>7 DEF Moves, Calm
    <2> QED
      BY <2>7, <2>8, <2>9, <2>10 DEF GoesOn, Agreed, t
  <1> QED
    BY <1>1, <1>2

(* A socket that is Running moves on, with the peer's SYN handled and its  *)
(* own acknowledged.                                                       *)
LEMMA SetStateAgrees ==
  ASSUME NEW iss \in Nat, NEW n, NEW k, NEW s, EndsAgree(s, iss, n, k), Running(s),
         "APPLICATION_CONNECT" \notin s.flags, s.rnxt > iss, s.una > s.iss,
         NEW st \in TcpState \ {"LISTEN", "SYN_SENT", "SYN_RCVD"},
         Age[st] > Age[s.state],
         s.eof <=> st \in AfterFin \cup {"CLOSED"}
  PROVE  /\ GoesOn(s, SetState(s, st), iss, n, k) /\ Calm(s, SetState(s, st))
         /\ SameEnds(s, SetState(s, st)) /\ SetState(s, st).state = st
         /\ Running(SetState(s, st))
  <1> DEFINE t == SetState(s, st)
  <1>1. st \in TcpState
    OBVIOUS
  <1>2. /\ EndsAgree(t, iss, n, k)
        /\ SameEnds(s, t) /\ t.eof = s.eof /\ t.thr = s.thr
        /\ "APPLICATION_CONNECT" \notin t.flags
        /\ t.state = st
    BY <1>1, SetStateFacts
  <1>3. Moves(s, t) /\ Calm(s, t)
    BY <1>1, SetStateMoves
  <1> HIDE DEF t
  <1>4. t.rnxt > 0 /\ t.una > t.iss /\ t.thr # "spin"
    <2>1. s.rnxt \in Nat
      BY AgreedFields
    <2> QED
      BY <1>2, <2>1 DEF SameEnds, Running
  <1>5. StateAgrees(t, iss)
    BY <1>2, <1>4 DEF StateAgrees, Running
  <1> QED
    BY <1>2, <1>3, <1>5 DEF GoesOn, Agreed, Running, t

-----------------------------------------------------------------------------
(* Receiving.                                                              *)

(* process_q_after_ack, when SND_UNA moves to ack.                         *)
LEMMA AckedFacts ==
  ASSUME NEW iss \in Nat, NEW n \in Nat, NEW k \in Nat, NEW s, EndsAgree(s, iss, n, k),
         NEW ack \in Nat, s.una <= ack, ack <= n
  PROVE  LET u == ProcessQ([s EXCEPT !.una = ack])
         IN /\ EndsAgree(u, iss, n, k) /\ Moves(s, u) /\ Calm(s, u)
            /\ u.una = ack /\ u.iss = s.iss /\ u.rnxt = s.rnxt /\ u.nxt = s.nxt
            /\ u.state = s.state /\ u.eof = s.eof
            /\ Running(u) => Running(s)
            /\ u.thr = "spin" => s.thr = "spin"
            /\ "APPLICATION_CONNECT" \in u.flags => "APPLICATION_CONNECT" \in s.flags
  <1> DEFINE In  == Carries(n, s.iss, k)
             Out == Carries(s.rnxt, iss, s.taken)
             v   == [s EXCEPT !.una = ack]
             u   == ProcessQ(v)
  <1>1. s \in BlockOf(In, Out)
    BY DEF EndsAgree
  <1>2. /\ s.iss \in Nat /\ s.una \in Nat /\ s.rnxt \in Nat /\ s.taken \in Nat
        /\ Len(s.got) \in Nat
    BY AgreedFields
  <1> HIDE DEF In, Out
  <1>3. /\ v \in BlockOf(In, Out) /\ v.una = ack
        /\ Unmoved(s, v) /\ v.irs = s.irs /\ v.thr = s.thr
    BY <1>1 DEF BlockOf, Unmoved, SameStream, Running
  <1> HIDE DEF v
  <1>4. u \in BlockOf(In, Out) /\ Still(v, u)
    BY <1>3, ProcessQProperties, QueuesStill
  <1> HIDE DEF u
  <1>5. /\ u.una = ack /\ u.irs = s.irs /\ Unmoved(s, u)
        /\ u.thr = "spin" => s.thr = "spin"
    BY <1>3, <1>4, SameStreamTransitive DEF Still
  <1>6. EndsAgree(u, iss, n, k)
    <2>1. s.iss <= ack
      BY <1>2 DEF EndsAgree
    <2> QED
      BY <1>4, <1>5, <2>1 DEF EndsAgree, Unmoved, SameStream, Available, Met, Synced, In, Out
  <1>7. Moves(s, u) /\ Calm(s, u)
    BY <1>2, <1>5 DEF Moves, Calm, Unmoved, SameStream
  <1> QED
    BY <1>5, <1>6, <1>7 DEF Unmoved, SameStream, u, v

(* Where an acknowledgement takes a socket in state st.                    *)
Reached(st, x) ==
  \/ x = st
  \/ st = "SYN_RCVD" /\ x = "ESTABLISHED"
  \/ st = "FIN_WAIT_1" /\ x = "FIN_WAIT_2"
  \/ st = "CLOSING" /\ x = "CLOSED"

(* An acknowledgement by the peer is of what has been sent, and is         *)
(* remembered.                                                             *)
LEMMA AckStepAgrees ==
  ASSUME NEW iss \in Nat, NEW n \in Nat, NEW k \in Nat,
         NEW s, Agreed(s, iss, n, k), SenderSound(s), Running(s), s.rnxt > iss,
         s.state \notin {"CLOSED", "LISTEN", "SYN_SENT"},
         NEW g \in Carries(n, s.iss, k), g.hasack
  PROVE  LET a == AckStep(s, g, s.state)
         IN /\ GoesOn(s, a, iss, n, k) /\ Calm(s, a)
            /\ Reached(s.state, a.state)
            /\ s.state = "SYN_RCVD" /\ Running(a) => a.state = "ESTABLISHED"
  <1> DEFINE u == ProcessQ([s EXCEPT !.una = g.ack])
  <1>1. EndsAgree(s, iss, n, k) /\ StateAgrees(s, iss)
    BY DEF Agreed
  <1>2. /\ s.iss \in Nat /\ s.una \in Nat /\ s.nxt \in Nat /\ s.rnxt \in Nat /\ s.taken \in Nat
        /\ s.state \in TcpState
    BY <1>1, AgreedFields
  <1>3. g.ack \in Nat /\ g.ack <= n /\ g.ack > s.iss
    BY DEF Carries, Segment
  <1>4. "APPLICATION_CONNECT" \notin s.flags
    BY <1>1, <1>2 DEF StateAgrees
  <1>5. s.una <= g.ack =>
          /\ EndsAgree(u, iss, n, k) /\ Moves(s, u) /\ Calm(s, u)
          /\ u.una = g.ack /\ u.iss = s.iss /\ u.rnxt = s.rnxt
          /\ u.state = s.state /\ u.eof = s.eof
          /\ Running(u) => Running(s)
          /\ u.thr # "spin" /\ "APPLICATION_CONNECT" \notin u.flags
    BY <1>1, <1>3, <1>4, AckedFacts DEF Running
  <1>6. ASSUME s.una <= g.ack, s.state = "SYN_RCVD" => ~Running(u)
        PROVE  GoesOn(s, u, iss, n, k)
    <2>1. u.una > u.iss
      BY <1>3, <1>5, <1>6
    <2>2. s.state \notin {"LISTEN", "SYN_SENT"}
      OBVIOUS
    <2> HIDE DEF u
    <2>3. StateAgrees(u, iss)
      BY <1>1, <1>5, <1>6, <2>1, <2>2 DEF StateAgrees
    <2> QED
      BY <1>5, <1>6, <2>3 DEF GoesOn, Agreed
  <1>7. GoesOn(s, s, iss, n, k) /\ Calm(s, s)
    <2>1. s \in BlockOf(Carries(n, s.iss, k), Carries(s.rnxt, iss, s.taken)) /\ Still(s, s)
      BY <1>1, StillTransitive DEF EndsAgree
    <2> QED
      BY <2>1, StillAgrees DEF GoesOn
  <1>8. CASE s.state = "SYN_RCVD"
    <2>1. s.una = s.iss
      BY <1>1, <1>8 DEF StateAgrees
    <2>2. s.una <= g.ack /\ g.ack <= s.nxt
      <3>1. n <= s.iss + 1 + s.taken /\ s.nxt = s.iss + 1 + s.taken
        BY <1>1 DEF EndsAgree, SenderSound
      <3> QED
        BY <1>2, <1>3, <2>1, <3>1
    <2>3. AckStep(s, g, s.state) = SetState(u, "ESTABLISHED")
      BY <1>8, <2>2 DEF AckStep
    <2> HIDE DEF u
    <2>4. CASE ~Running(u)
      <3>1. SetState(u, "ESTABLISHED") = u
        BY <2>4 DEF SetState
      <3> QED
        BY <1>5, <1>6, <2>2, <2>3, <2>4, <3>1 DEF Reached
    <2>5. CASE Running(u)
      <3> DEFINE e == SetState(u, "ESTABLISHED")
      <3>1. Age["ESTABLISHED"] > Age[u.state]
        BY <1>5, <1>8, <2>2, AgeFacts
      <3>2. "ESTABLISHED" \in TcpState \ {"LISTEN", "SYN_SENT", "SYN_RCVD"}
        BY DEF TcpState
      <3>3. u.eof <=> "ESTABLISHED" \in AfterFin \cup {"CLOSED"}
        BY <1>1, <1>5, <1>8, <2>2 DEF StateAgrees, AfterFin
      <3>4. u.una > u.iss /\ u.rnxt > iss
        BY <1>3, <1>5, <2>2
      <3>5. /\ GoesOn(u, e, iss, n, k) /\ Calm(u, e) /\ e.state = "ESTABLISHED"
        BY <1>5, <2>2, <2>5, <3>1, <3>2, <3>3, <3>4, SetStateAgrees
      <3> HIDE DEF e
      <3>6. Moves(s, e)
        <4>1. /\ s \in BlockOf(Carries(n, s.iss, k), Carries(s.rnxt, iss, s.taken))
              /\ u \in BlockOf(Carries(n, u.iss, k), Carries(u.rnxt, iss, u.taken))
              /\ e \in BlockOf(Carries(n, e.iss, k), Carries(e.rnxt, iss, e.taken))
          BY <1>1, <1>5, <2>2, <3>5 DEF EndsAgree, GoesOn, Agreed
        <4> QED
          BY <1>5, <2>2, <3>5, <4>1, MovesTransitive DEF GoesOn
      <3>7. GoesOn(s, e, iss, n, k) /\ Calm(s, e)
        BY <1>5, <2>2, <3>5, <3>6 DEF GoesOn, Calm
      <3> QED
        BY <1>8, <2>3, <3>5, <3>7 DEF Reached, e
    <2> QED
      BY <2>4, <2>5
  <1>9. CASE s.state \in Synchronized
    <2> DEFINE a == IF s.una < g.ack /\ g.ack <= s.nxt THEN u ELSE s
    <2>1. AckStep(s, g, s.state) =
            IF a.una = a.nxt /\ s.state = "FIN_WAIT_1" THEN SetState(a, "FIN_WAIT_2")
            ELSE IF a.una = a.nxt /\ s.state = "CLOSING" THEN SetState(a, "CLOSED")
            ELSE a
      <3>1. s.state # "SYN_RCVD"
        BY <1>9 DEF Synchronized
      <3> QED
        BY <1>9, <3>1 DEF AckStep
    <2>2. s.una > s.iss /\ s.state \notin {"SYN_RCVD", "LAST_ACK"}
      BY <1>1, <1>9 DEF StateAgrees, Synchronized
    <2>3. /\ GoesOn(s, a, iss, n, k) /\ Calm(s, a)
          /\ a.una > a.iss /\ a.rnxt > iss /\ a.state = s.state /\ a.eof = s.eof
          /\ "APPLICATION_CONNECT" \notin a.flags
      <3>1. CASE s.una < g.ack /\ g.ack <= s.nxt
        <4>1. a = u /\ s.una <= g.ack
          BY <1>2, <1>3, <3>1
        <4> HIDE DEF u, a
        <4> QED
          BY <1>3, <1>5, <1>6, <2>2, <4>1
      <3>2. CASE ~(s.una < g.ack /\ g.ack <= s.nxt)
        <4>1. a = s
          BY <3>2
        <4> HIDE DEF u, a
        <4> QED
          BY <1>4, <1>7, <2>2, <4>1
      <3> QED
        BY <3>1, <3>2
    <2> HIDE DEF a, u
    <2>4. EndsAgree(a, iss, n, k) /\ StateAgrees(a, iss)
      BY <2>3 DEF GoesOn, Agreed
    <2>5. ASSUME NEW x \in {"FIN_WAIT_2", "CLOSED"}, Reached(s.state, x), x # s.state
          PROVE  /\ GoesOn(s, SetState(a, x), iss, n, k) /\ Calm(s, SetState(a, x))
                 /\ Reached(s.state, SetState(a, x).state)
      <3> DEFINE t == SetState(a, x)
      <3>1. CASE ~Running(a)
        <4>1. t = a
          BY <3>1 DEF SetState
        <4> HIDE DEF t
        <4> QED
          BY <2>3, <4>1 DEF Reached, t
      <3>2. CASE Running(a)
        <4>1. x \in TcpState \ {"LISTEN", "SYN_SENT", "SYN_RCVD"}
          BY DEF TcpState
        <4>2. Age[x] > Age[a.state]
          BY <2>3, <2>5, AgeFacts DEF Reached
        <4>3. a.eof <=> x \in AfterFin \cup {"CLOSED"}
          BY <1>1, <2>3, <2>5 DEF StateAgrees, AfterFin, Reached
        <4>4. GoesOn(a, t, iss, n, k) /\ Calm(a, t) /\ t.state = x
          BY <2>3, <2>4, <3>2, <4>1, <4>2, <4>3, SetStateAgrees
        <4> HIDE DEF t
        <4>5. GoesOn(s, t, iss, n, k) /\ Calm(s, t)
          BY <1>1, <2>3, <4>4, GoesOnTransitive DEF Calm
        <4> QED
          BY <2>5, <4>4, <4>5 DEF t
      <3> QED
        BY <3>1, <3>2
    <2>6. CASE s.state = "FIN_WAIT_1"
      <3>1. AckStep(s, g, s.state) \in {a, SetState(a, "FIN_WAIT_2")}
        BY <2>1, <2>6
      <3>2. Reached(s.state, "FIN_WAIT_2") /\ "FIN_WAIT_2" # s.state
        BY <2>6 DEF Reached
      <3> QED
        BY <2>2, <2>3, <2>5, <3>1, <3>2 DEF Reached
    <2>7. CASE s.state = "CLOSING"
      <3>1. AckStep(s, g, s.state) \in {a, SetState(a, "CLOSED")}
        BY <2>1, <2>7
      <3>2. Reached(s.state, "CLOSED") /\ "CLOSED" # s.state
        BY <2>7 DEF Reached
      <3> QED
        BY <2>2, <2>3, <2>5, <3>1, <3>2 DEF Reached
    <2>8. CASE s.state \notin {"FIN_WAIT_1", "CLOSING"}
      <3>1. AckStep(s, g, s.state) = a
        BY <2>1, <2>8
      <3> QED
        BY <2>2, <2>3, <3>1 DEF Reached
    <2> QED
      BY <2>6, <2>7, <2>8
  <1>10. CASE s.state = "LAST_ACK"
    <2>1. AckStep(s, g, s.state) = s
      BY <1>10 DEF AckStep, Synchronized
    <2> HIDE DEF u
    <2> QED
      BY <1>7, <1>10, <2>1 DEF Reached
  <1> QED
    BY <1>2, <1>8, <1>9, <1>10 DEF TcpState, Synchronized

(* What putting a payload into the receive buffer changes.                 *)
LEMMA DeliverType ==
  ASSUME NEW In, NEW Out, NEW s \in BlockOf(In, Out), Available(s) \in Nat,
         NEW g, g.len \in Nat \ {0}, g.off \in Nat
  PROVE  LET n == Lesser(g.len, Available(s))
             t == Deliver(s, g)
         IN /\ n \in Nat /\ n <= g.len /\ n <= Available(s)
            /\ t \in BlockOf(In, Out)
            /\ Len(t.got) = Len(s.got) + n
            /\ t.rnxt = s.rnxt + n /\ t.rwnd = Available(s) - n
            /\ t.rd = s.rd /\ t.taken = s.taken /\ t.finsent = s.finsent
            /\ t.iss = s.iss /\ t.wrote = s.wrote /\ t.closing = s.closing
            /\ t.una = s.una /\ t.irs = s.irs /\ t.nxt = s.nxt /\ t.thr = s.thr
            /\ t.eof = s.eof /\ t.state = s.state /\ t.flags = s.flags
  <1> DEFINE n    == Lesser(g.len, Available(s))
             new  == [i \in 1 .. n |-> g.off + i - 1]
             got  == s.got \o new
             rwnd == Available(s) - n
             t    == Deliver(s, g)
  <1>1. n \in Nat /\ n <= g.len /\ n <= Available(s)
    BY DEF Lesser
  <1>2. t = [s EXCEPT !.got = got, !.rwnd = rwnd, !.rnxt = @ + n]
    BY DEF Deliver
  <1>3. s.got \in Seq(Nat) /\ s.rnxt \in Nat
    BY DEF BlockOf
  <1> HIDE DEF n, t
  <1>4. rwnd \in Nat /\ s.rnxt + n \in Nat
    BY <1>1, <1>3
  <1>5. new \in Seq(Nat) /\ Len(new) = n
    <2>1. \A i \in 1 .. n : g.off + i - 1 \in Nat
      BY <1>1
    <2>2. new \in [1 .. n -> Nat]
      BY <2>1
    <2> QED
      BY <1>1, <2>2, SeqDef, LenProperties
  <1> HIDE DEF new
  <1>6. got \in Seq(Nat) /\ Len(got) = Len(s.got) + n
    BY <1>3, <1>5, ConcatProperties
  <1> HIDE DEF got, rwnd
  <1>7. /\ t \in BlockOf(In, Out) /\ t.got = got
        /\ t.rnxt = s.rnxt + n /\ t.rwnd = rwnd
        /\ t.rd = s.rd /\ t.taken = s.taken /\ t.finsent = s.finsent
        /\ t.iss = s.iss /\ t.wrote = s.wrote /\ t.closing = s.closing
        /\ t.una = s.una /\ t.irs = s.irs /\ t.nxt = s.nxt /\ t.thr = s.thr
        /\ t.eof = s.eof /\ t.state = s.state /\ t.flags = s.flags
    BY <1>2, <1>3, <1>4, <1>6 DEF BlockOf
  <1> QED
    BY <1>1, <1>6, <1>7 DEF n, t, rwnd

(* g is the segment expected next.                                         *)
InSequence(s, g) == g.seq = s.rnxt

(* RCV_NXT is beyond the peer's initial sequence number once it is known.  *)
LEMMA OpenedRnxt ==
  ASSUME NEW iss \in Nat, NEW s, Opened(s, iss), s.rnxt \in Nat, Len(s.got) \in Nat
  PROVE  s.rnxt > iss /\ s.rnxt > 0 /\ s.rnxt # 0
  <1>1. s.rnxt = iss + 1 + Len(s.got)
    BY DEF Opened, Synced
  <1>2. \A m \in Nat : iss + 1 + m > iss /\ iss + 1 + m > 0
    OBVIOUS
  <1>3. s.rnxt > iss /\ s.rnxt > 0
    BY <1>1, <1>2
  <1> QED
    BY <1>3

(* The payload of the next segment in sequence is within what the peer has *)
(* taken out of its send buffer, and the window shrinks with the buffer.   *)
LEMMA DeliverAgrees ==
  ASSUME NEW iss \in Nat, NEW n \in Nat, NEW k \in Nat, NEW w \in Nat, NEW c \in BOOLEAN,
         NEW s, Agreed(s, iss, n, k), Sound(s, iss, w, c), Opened(s, iss),
         NEW g \in SentBy(iss, w, c), g \in Carries(n, s.iss, k),
         ~Empty(g), InSequence(s, g)
  PROVE  LET t == Deliver(s, g)
         IN /\ GoesOn(s, t, iss, n, k)
            /\ t.state = s.state /\ t.eof = s.eof /\ t.thr = s.thr
            /\ s.rnxt > iss
  <1> DEFINE m    == Lesser(g.len, Available(s))
             t    == Deliver(s, g)
             In   == Carries(n, s.iss, k)
             Out  == Carries(s.rnxt, iss, s.taken)
  <1>1. EndsAgree(s, iss, n, k) /\ StateAgrees(s, iss)
    BY DEF Agreed
  <1>2. s \in BlockOf(In, Out)
    BY <1>1 DEF EndsAgree
  <1>3. /\ g.len \in Nat \ {0} /\ g.off \in Nat /\ g.seq = iss + g.off
        /\ g.off + g.len <= k + 1
    BY DEF SentBy, Segment, Carries, Empty
  <1>4. /\ Len(s.got) \in Nat /\ s.rnxt \in Nat /\ s.iss \in Nat
        /\ s.taken \in Nat /\ s.una \in Nat /\ Available(s) \in Nat /\ s.rd \in Nat
    BY SoundFields
  <1>0. s.rnxt = iss + 1 + Len(s.got)
    BY DEF Opened, Synced
  <1>20. s.rnxt > iss /\ s.rnxt > 0 /\ s.rnxt # 0
    BY <1>4, OpenedRnxt
  <1> HIDE DEF In, Out
  <1>5. /\ m \in Nat /\ m <= g.len /\ m <= Available(s)
        /\ t \in BlockOf(In, Out)
        /\ Len(t.got) = Len(s.got) + m
        /\ t.rnxt = s.rnxt + m /\ t.rwnd = Available(s) - m
        /\ t.rd = s.rd /\ t.taken = s.taken /\ t.finsent = s.finsent
        /\ t.iss = s.iss /\ t.wrote = s.wrote /\ t.closing = s.closing
        /\ t.una = s.una /\ t.irs = s.irs /\ t.nxt = s.nxt /\ t.thr = s.thr
        /\ t.eof = s.eof /\ t.state = s.state /\ t.flags = s.flags
    BY <1>2, <1>3, <1>4, DeliverType, SMTT(30)
  <1> HIDE DEF m, t
  <1>21. /\ m \in Nat /\ m <= g.len /\ m <= Available(s)
         /\ Len(t.got) = Len(s.got) + m /\ t.rnxt = s.rnxt + m
         /\ t.rwnd = Available(s) - m /\ t.rd = s.rd /\ t.taken = s.taken
    BY <1>5
  <1>6. t \in BlockOf(In, Carries(t.rnxt, iss, t.taken))
    <2>1. t.rnxt \in Nat /\ t.taken \in Nat /\ s.rnxt <= t.rnxt /\ s.taken <= t.taken
      <3>1. PICK a \in Nat, b \in Nat, e \in Nat : a = s.rnxt /\ b = s.taken /\ e = m
        BY <1>4, <1>21
      <3>2. a + e \in Nat /\ a <= a + e /\ b <= b
        OBVIOUS
      <3> QED
        BY <1>21, <3>1, <3>2
    <2>2. Out \subseteq Carries(t.rnxt, iss, t.taken)
      <3>1. PICK a \in Nat, b \in Nat, x \in Nat, y \in Nat :
              /\ a = s.rnxt /\ b = s.taken /\ x = t.rnxt /\ y = t.taken
              /\ a <= x /\ b <= y
        BY <1>4, <2>1
      <3>2. Carries(a, iss, b) \subseteq Carries(x, iss, y)
        BY <3>1, CarriesMonotonic
      <3> QED
        BY <3>1, <3>2 DEF Out
    <2> QED
      BY <1>5, <2>2, BlockMonotonic
  <1>7. t.rwnd <= Available(t)
    <2>1. Available(s) = BufSize - (Len(s.got) - s.rd)
          /\ Available(t) = BufSize - (Len(s.got) + m - s.rd)
      <3>1. Available(t) = BufSize - (Len(t.got) - t.rd)
        BY DEF Available
      <3> QED
        <4>1. Available(t) = BufSize - (Len(s.got) + m - s.rd)
          <5>1. Len(t.got) = Len(s.got) + m /\ t.rd = s.rd
            BY <1>21
          <5>2. Len(t.got) - t.rd = Len(s.got) + m - s.rd
            BY <1>4, <1>21, <5>1
          <5> QED
            BY <3>1, <5>2
        <4> QED
          BY <4>1 DEF Available
    <2>2. BufSize - (Len(s.got) + m - s.rd) = BufSize - (Len(s.got) - s.rd) - m
      <3>1. BufSize \in Nat /\ Len(s.got) \in Nat /\ s.rd \in Nat /\ m \in Nat
        BY <1>4, <1>21, TcbAssumption
      <3>2. \A b, x, y, z \in Nat : b - (x + z - y) = b - (x - y) - z
        OBVIOUS
      <3> QED
        BY <3>1, <3>2
    <2>3. t.rwnd = Available(t)
      BY <1>5, <2>1, <2>2
    <2> QED
      BY <1>4, <1>5, <2>3
  <1>8. Len(t.got) <= k
    <2>1. g.off = Len(s.got) + 1
      <3>1. \A a, b \in Nat : iss + a = iss + 1 + b => a = b + 1
        OBVIOUS
      <3>2. iss + g.off = iss + 1 + Len(s.got)
        BY <1>0, <1>3 DEF InSequence
      <3> QED
        BY <1>3, <1>4, <3>1, <3>2
    <2> QED
      <3>1. \A a, b, d \in Nat : a + 1 + d <= k + 1 /\ b <= d => a + b <= k
        OBVIOUS
      <3> QED
        BY <1>3, <1>4, <1>21, <2>1, <3>1
  <1>9. Met(t, iss) /\ t.rnxt > iss /\ s.rnxt > iss
    <2>1. s.irs = iss
      BY <1>1, <1>20 DEF EndsAgree, Met
    <2>2. t.rnxt = iss + 1 + Len(t.got)
      <3>1. \A a, b \in Nat : iss + 1 + a + b = iss + 1 + (a + b)
        OBVIOUS
      <3> QED
        <4>1. iss + 1 + Len(s.got) + m = iss + 1 + (Len(s.got) + m)
          BY <1>4, <1>21, <3>1
        <4>2. t.rnxt = (iss + 1 + Len(s.got)) + m
          BY <1>0, <1>21
        <4> QED
          BY <1>21, <4>1, <4>2
    <2>3. t.rnxt > iss
      BY <1>4, <1>5, <1>20
    <2> QED
      BY <1>5, <1>20, <2>1, <2>2, <2>3 DEF Met, Synced
  <1>10. EndsAgree(t, iss, n, k)
    BY <1>1, <1>5, <1>6, <1>7, <1>8, <1>9 DEF EndsAgree, In
  <1>11. StateAgrees(t, iss)
    <2>1. "APPLICATION_CONNECT" \notin t.flags /\ s.rnxt > 0 /\ t.rnxt > 0
      BY <1>4, <1>5, <1>20 DEF Opened
    <2> QED
      BY <1>1, <1>5, <1>9, <2>1 DEF StateAgrees, Running
  <1>12. Moves(s, t)
    <2>1. s.rnxt <= t.rnxt /\ s.una <= t.una /\ s.taken <= t.taken /\ Len(s.got) <= Len(t.got)
      <3>1. PICK a \in Nat, b \in Nat, e \in Nat, l \in Nat, u \in Nat :
              a = s.rnxt /\ b = s.taken /\ e = m /\ l = Len(s.got) /\ u = s.una
        BY <1>4, <1>21
      <3>2. a <= a + e /\ b <= b /\ l <= l + e /\ u <= u
        OBVIOUS
      <3>3. t.una = u
        BY <1>5, <3>1
      <3> QED
        BY <1>21, <3>1, <3>2, <3>3
    <2> QED
      BY <1>5, <2>1 DEF Moves
  <1> QED
    BY <1>5, <1>9, <1>10, <1>11, <1>12 DEF GoesOn, Agreed, t

(* ... and is acknowledged.                                                *)
LEMMA TextStepAgrees ==
  ASSUME NEW iss \in Nat, NEW n \in Nat, NEW k \in Nat, NEW w \in Nat, NEW c \in BOOLEAN,
         NEW s, Agreed(s, iss, n, k), Sound(s, iss, w, c), Opened(s, iss),
         NEW g \in SentBy(iss, w, c), g \in Carries(n, s.iss, k),
         InSequence(s, g), NEW st
  PROVE  LET t == TextStep(s, g, st)
         IN /\ GoesOn(s, t, iss, n, k)
            /\ t.state = s.state /\ t.eof = s.eof /\ t.thr = s.thr
            /\ Empty(g) => t = s
  <1>1. CASE TextStep(s, g, st) = s
    <2>1. Still(s, s) /\ s \in BlockOf(Carries(n, s.iss, k), Carries(s.rnxt, iss, s.taken))
      BY StillTransitive DEF Agreed, EndsAgree
    <2> QED
      BY <1>1, <2>1, StillAgrees DEF GoesOn
  <1>2. CASE TextStep(s, g, st) # s
    <2> DEFINE d == Deliver(s, g)
    <2>1. ~Empty(g) /\ TextStep(s, g, st) = SendAck(d)
      BY <1>2 DEF TextStep, Empty
    <2>2. /\ GoesOn(s, d, iss, n, k)
          /\ d.state = s.state /\ d.eof = s.eof /\ d.thr = s.thr
          /\ s.rnxt > iss
      BY <2>1, DeliverAgrees
    <2> HIDE DEF d
    <2>3. Agreed(d, iss, n, k) /\ EndsAgree(s, iss, n, k)
      BY <2>2 DEF GoesOn, Agreed
    <2>4. d.rnxt > iss
      <3>1. s.rnxt \in Nat /\ d.rnxt \in Nat /\ s.rnxt <= d.rnxt
        BY <2>2, <2>3, AgreedFields DEF Agreed, GoesOn, Moves
      <3> QED
        BY <2>2, <3>1
    <2>5. /\ GoesOn(d, SendAck(d), iss, n, k)
          /\ Still(d, SendAck(d)) /\ SendAck(d).thr = d.thr
      BY <2>3, <2>4, SendAckAgrees
    <2>6. GoesOn(s, SendAck(d), iss, n, k)
      BY <2>2, <2>3, <2>5, GoesOnTransitive
    <2> QED
      BY <2>1, <2>2, <2>5, <2>6 DEF Still, Unmoved, SameStream
  <1> QED
    BY <1>1, <1>2

(* A FIN is acknowledged, and closes the receive buffer as it moves the    *)
(* socket to a state that knows of it.                                     *)
LEMMA EndOfStreamAgrees ==
  ASSUME NEW iss \in Nat, NEW n, NEW k, NEW s, Agreed(s, iss, n, k), Running(s),
         s.rnxt > iss, s.una > s.iss,
         NEW st \in AfterFin \cup {"CLOSED"}, Age[st] > Age[s.state]
  PROVE  LET t == [SetState(SendAck(s), st) EXCEPT !.eof = TRUE]
         IN GoesOn(s, t, iss, n, k) /\ t.got = s.got
  <1> DEFINE a == SendAck(s)
             b == SetState(a, st)
             t == [b EXCEPT !.eof = TRUE]
  <1>1. GoesOn(s, a, iss, n, k) /\ Still(s, a) /\ a.thr = s.thr
    BY SendAckAgrees
  <1>2. EndsAgree(s, iss, n, k) /\ EndsAgree(a, iss, n, k) /\ StateAgrees(s, iss)
    BY <1>1 DEF GoesOn, Agreed
  <1>3. /\ a.state = s.state /\ a.una = s.una /\ a.iss = s.iss /\ a.rnxt = s.rnxt /\ a.got = s.got
        /\ "APPLICATION_CONNECT" \in a.flags <=> "APPLICATION_CONNECT" \in s.flags
    BY <1>1 DEF Still, Unmoved, SameStream
  <1>4. st \in TcpState \ {"LISTEN", "SYN_SENT", "SYN_RCVD"}
    BY DEF TcpState, AfterFin
  <1> HIDE DEF a
  <1>5. /\ EndsAgree(b, iss, n, k) /\ SameEnds(a, b) /\ b.eof = a.eof /\ b.thr = a.thr
        /\ "APPLICATION_CONNECT" \in b.flags <=> "APPLICATION_CONNECT" \in a.flags
        /\ b.state = st
    BY <1>1, <1>2, <1>4, SetStateFacts DEF Running
  <1>6. Moves(a, b) /\ Calm(a, b)
    BY <1>2, <1>3, <1>4, SetStateMoves
  <1> HIDE DEF b
  <1>7. b \in BlockOf(Carries(n, b.iss, k), Carries(b.rnxt, iss, b.taken))
    BY <1>5 DEF EndsAgree
  <1>8. /\ t \in BlockOf(Carries(n, b.iss, k), Carries(b.rnxt, iss, b.taken))
        /\ SameEnds(b, t) /\ t.eof /\ t.state = b.state /\ t.thr = b.thr /\ t.flags = b.flags
        /\ t.wrote = b.wrote /\ t.closing = b.closing /\ t.finsent = b.finsent /\ t.nxt = b.nxt
    <2> DEFINE In == Carries(n, b.iss, k)
               Out == Carries(b.rnxt, iss, b.taken)
    <2>1. b \in BlockOf(In, Out)
      BY <1>7
    <2> HIDE DEF In, Out
    <2>2. /\ t \in BlockOf(In, Out)
          /\ SameEnds(b, t) /\ t.eof /\ t.state = b.state /\ t.thr = b.thr /\ t.flags = b.flags
          /\ t.wrote = b.wrote /\ t.closing = b.closing /\ t.finsent = b.finsent /\ t.nxt = b.nxt
      BY <2>1 DEF BlockOf, SameEnds
    <2> QED
      BY <2>2 DEF In, Out
  <1> HIDE DEF t
  <1>9. EndsAgree(t, iss, n, k)
    BY <1>5, <1>8, SameEndsAgree
  <1>10. StateAgrees(t, iss)
    <2>1. s.rnxt > 0 /\ s.rnxt # 0
      BY <1>2, AgreedFields
    <2>2. "APPLICATION_CONNECT" \notin s.flags
      BY <1>2, <2>1 DEF StateAgrees
    <2>3. t.state = st /\ t.eof /\ t.una > t.iss /\ t.rnxt > 0 /\ t.thr # "spin"
          /\ "APPLICATION_CONNECT" \notin t.flags
      BY <1>1, <1>3, <1>5, <1>8, <2>1, <2>2 DEF SameEnds, Running
    <2> QED
      BY <1>4, <2>3 DEF StateAgrees
  <1>11. Moves(b, t) /\ t.got = b.got
    <2>1. b.rnxt \in Nat /\ b.una \in Nat /\ b.taken \in Nat /\ Len(b.got) \in Nat
      BY <1>5, AgreedFields
    <2> QED
      BY <1>8, <2>1 DEF Moves, SameEnds
  <1>12. Moves(s, t)
    <2>1. /\ s \in BlockOf(Carries(n, s.iss, k), Carries(s.rnxt, iss, s.taken))
          /\ a \in BlockOf(Carries(n, a.iss, k), Carries(a.rnxt, iss, a.taken))
          /\ t \in BlockOf(Carries(n, t.iss, k), Carries(t.rnxt, iss, t.taken))
      BY <1>2, <1>9 DEF EndsAgree
    <2> QED
      BY <1>1, <1>6, <1>7, <1>11, <2>1, MovesTransitive DEF GoesOn
  <1> QED
    BY <1>3, <1>5, <1>9, <1>10, <1>11, <1>12 DEF GoesOn, Agreed, SameEnds, t, b, a

(* The FIN of a segment in sequence: the state st that the segment found   *)
(* may have been left for the next by its acknowledgement (Reached).       *)
LEMMA FinStepAgrees ==
  ASSUME NEW iss \in Nat, NEW n, NEW k, NEW s, Agreed(s, iss, n, k), s.rnxt > iss,
         NEW g, NEW st \in TcpState \ {"CLOSED", "LISTEN", "SYN_SENT", "LAST_ACK"},
         Reached(st, s.state), st = "SYN_RCVD" /\ Running(s) => s.state = "ESTABLISHED"
  PROVE  LET t == FinStep(s, g, st)
         IN /\ GoesOn(s, t, iss, n, k) /\ t.got = s.got
            /\ st = "CLOSE_WAIT" => t.state = st
            /\ ~g.fin => t = s
  <1>1. EndsAgree(s, iss, n, k) /\ StateAgrees(s, iss)
    BY DEF Agreed
  <1>2. GoesOn(s, s, iss, n, k)
    <2>1. Still(s, s) /\ s \in BlockOf(Carries(n, s.iss, k), Carries(s.rnxt, iss, s.taken))
      BY <1>1, StillTransitive DEF EndsAgree
    <2> QED
      BY <2>1, StillAgrees DEF GoesOn
  <1>3. CASE ~Running(s) \/ ~g.fin
    <2>1. FinStep(s, g, st) = s
      BY <1>3 DEF FinStep
    <2> QED
      BY <1>2, <2>1 DEF Reached
  <1>4. CASE Running(s) /\ g.fin /\ st \in {"CLOSE_WAIT", "CLOSING"}
    <2>1. FinStep(s, g, st) = [s EXCEPT !.eof = TRUE]
      BY <1>4 DEF FinStep
    <2>2. s.eof = TRUE
      <3>1. s.state \in {"CLOSE_WAIT", "CLOSING", "CLOSED"} /\ s.rnxt > 0
        BY <1>1, <1>4, AgreedFields DEF Reached
      <3>2. s.eof \in BOOLEAN
        BY <1>1, AgreedFields
      <3> QED
        BY <1>1, <3>1, <3>2 DEF StateAgrees, AfterFin
    <2>3. [s EXCEPT !.eof = TRUE] = s
      <3> DEFINE In == Carries(n, s.iss, k)
                 Out == Carries(s.rnxt, iss, s.taken)
      <3>1. s \in BlockOf(In, Out)
        BY <1>1 DEF EndsAgree
      <3> HIDE DEF In, Out
      <3> QED
        BY <2>2, <3>1 DEF BlockOf
    <2> QED
      BY <1>2, <1>4, <2>1, <2>3 DEF Reached
  <1>5. CASE Running(s) /\ g.fin /\ st \notin {"CLOSE_WAIT", "CLOSING"}
    <2>1. st \in {"SYN_RCVD", "ESTABLISHED", "FIN_WAIT_1", "FIN_WAIT_2"}
      BY <1>5 DEF TcpState
    <2>2. s.una > s.iss
      BY <1>1, <1>5, <2>1 DEF StateAgrees, Synchronized, Reached
    <2>3. PICK x \in {"CLOSE_WAIT", "CLOSING", "CLOSED"} :
            /\ FinStep(s, g, st) = [SetState(SendAck(s), x) EXCEPT !.eof = TRUE]
            /\ st = "FIN_WAIT_1" => x # "CLOSE_WAIT"
            /\ st = "FIN_WAIT_2" => x = "CLOSED"
      <3>1. CASE st \in {"SYN_RCVD", "ESTABLISHED"}
        BY <1>5, <3>1 DEF FinStep
      <3>2. CASE st = "FIN_WAIT_1" /\ s.una = s.nxt
        BY <1>5, <3>2 DEF FinStep
      <3>3. CASE st = "FIN_WAIT_1" /\ s.una # s.nxt
        BY <1>5, <3>3 DEF FinStep
      <3>4. CASE st = "FIN_WAIT_2"
        BY <1>5, <3>4 DEF FinStep
      <3> QED
        BY <2>1, <3>1, <3>2, <3>3, <3>4
    <2>4. x \in AfterFin \cup {"CLOSED"}
      BY DEF AfterFin
    <2>5. Age[x] > Age[s.state]
      <3>1. \/ st \in {"SYN_RCVD", "ESTABLISHED"} /\ s.state = "ESTABLISHED"
            \/ st = "FIN_WAIT_1" /\ s.state \in {"FIN_WAIT_1", "FIN_WAIT_2"}
            \/ st = "FIN_WAIT_2" /\ s.state = "FIN_WAIT_2"
        BY <1>5, <2>1, SMTT(30) DEF Reached
      <3> QED
        BY <2>3, <3>1, AgeFacts
    <2>6. /\ GoesOn(s, FinStep(s, g, st), iss, n, k)
          /\ FinStep(s, g, st).got = s.got
      BY <1>5, <2>2, <2>3, <2>4, <2>5, EndOfStreamAgrees
    <2> QED
      BY <1>5, <2>6
  <1> QED
    BY <1>3, <1>4, <1>5

(* One packet does not both bring data and end the stream.                 *)
DataOrEnd(s, t) == t.got = s.got \/ t.eof = s.eof

(* A segment in sequence.                                                  *)
LEMMA InOrderAgrees ==
  ASSUME NEW iss \in Nat, NEW n \in Nat, NEW k \in Nat, NEW w \in Nat, NEW c \in BOOLEAN,
         NEW s, Agreed(s, iss, n, k), Sound(s, iss, w, c), Opened(s, iss), Running(s),
         s.state # "CLOSED",
         NEW g \in SentBy(iss, w, c), g \in Carries(n, s.iss, k), InSequence(s, g)
  PROVE  LET t == InOrder(s, g)
         IN /\ GoesOn(s, t, iss, n, k) /\ DataOrEnd(s, t)
            /\ s.state = "CLOSE_WAIT" => t.state = "CLOSE_WAIT"
  <1> DEFINE st == s.state
             a == AckStep(s, g, st)
             b == TextStep(a, g, st)
             f == FinStep(b, g, st)
             In(x) == Carries(n, x.iss, k)
             Out(x) == Carries(x.rnxt, iss, x.taken)
  <1>1. EndsAgree(s, iss, n, k) /\ StateAgrees(s, iss)
    BY DEF Agreed
  <1>2. /\ s.rnxt > iss /\ s.rnxt \in Nat /\ s.rnxt > 0 /\ st \in TcpState
        /\ st \notin {"CLOSED", "LISTEN", "SYN_SENT"}
    <2>1. s.rnxt \in Nat /\ Len(s.got) \in Nat /\ s.state \in TcpState
      BY <1>1, AgreedFields
    <2> QED
      BY <2>1, OpenedRnxt DEF Opened
  <1>3. ASSUME NEW u, EndsAgree(u, iss, n, k), GoesOn(s, u, iss, n, k)
        PROVE  /\ GoesOn(s, TakeFromOop(u), iss, n, k)
               /\ TakeFromOop(u).got = u.got /\ TakeFromOop(u).eof = u.eof
               /\ TakeFromOop(u).state = u.state
    <2>1. u \in BlockOf(In(u), Out(u)) /\ Agreed(u, iss, n, k)
      BY <1>3 DEF EndsAgree, GoesOn
    <2>2. TakeFromOop(u) \in BlockOf(In(u), Out(u)) /\ Still(u, TakeFromOop(u))
      BY <2>1, TakeFromOopType
    <2>3. GoesOn(u, TakeFromOop(u), iss, n, k)
      BY <2>1, <2>2, StillAgrees DEF GoesOn
    <2> QED
      BY <1>1, <1>3, <2>2, <2>3, GoesOnTransitive DEF Still, Unmoved, SameStream
  <1>4. GoesOn(s, s, iss, n, k)
    <2>1. s \in BlockOf(In(s), Out(s)) /\ Still(s, s)
      BY <1>1, StillTransitive DEF EndsAgree
    <2> QED
      BY <2>1, StillAgrees DEF GoesOn
  <1>5. CASE ~g.hasack
    <2>1. InOrder(s, g) = TakeFromOop(s)
      BY <1>5 DEF InOrder
    <2> QED
      BY <1>1, <1>3, <1>4, <2>1 DEF DataOrEnd
  <1>6. CASE g.hasack /\ st \in Synchronized /\ g.ack > s.nxt
    <2>1. InOrder(s, g) = SendAck(s)
      BY <1>6 DEF InOrder
    <2> QED
      BY <1>2, <2>1, SendAckAgrees DEF DataOrEnd, Still, Unmoved, SameStream
  <1>7. CASE st = "LAST_ACK" /\ g.hasack
    <2>1. InOrder(s, g) = SetState(s, "CLOSED")
      BY <1>7 DEF InOrder, Synchronized
    <2>2. "CLOSED" \in TcpState \ {"LISTEN", "SYN_SENT", "SYN_RCVD"}
      BY DEF TcpState
    <2>3. /\ s.una > s.iss /\ (s.eof <=> "CLOSED" \in AfterFin \cup {"CLOSED"})
          /\ "APPLICATION_CONNECT" \notin s.flags
      BY <1>1, <1>2, <1>7 DEF StateAgrees, AfterFin
    <2>4. Age["CLOSED"] > Age[s.state]
      BY <1>7, AgeFacts
    <2>5. GoesOn(s, SetState(s, "CLOSED"), iss, n, k) /\ Calm(s, SetState(s, "CLOSED"))
      BY <1>1, <1>2, <2>2, <2>3, <2>4, SetStateAgrees
    <2> QED
      BY <1>7, <2>1, <2>5 DEF DataOrEnd, Calm
  <1>8. CASE g.hasack /\ ~(st \in Synchronized /\ g.ack > s.nxt) /\ st # "LAST_ACK"
    <2>1. InOrder(s, g) = TakeFromOop(f)
      BY <1>8 DEF InOrder
    <2>2. SenderSound(s)
      BY DEF Sound
    <2>3. /\ GoesOn(s, a, iss, n, k) /\ Calm(s, a)
          /\ Reached(st, a.state)
          /\ st = "SYN_RCVD" /\ Running(a) => a.state = "ESTABLISHED"
      BY <1>2, <1>8, <2>2, AckStepAgrees
    <2>4. Follows(s, a, iss, w, c) /\ a.rnxt = s.rnxt
      <3> HIDE DEF a, b, f, st
      <3>1. ASSUME NEW x
            PROVE  Follows(s, AckStep(s, g, x), iss, w, c) /\ AckStep(s, g, x).rnxt = s.rnxt
        BY AckStepSound
      <3> QED
        BY <3>1 DEF a
    <2> HIDE DEF a
    <2>5. /\ Sound(a, iss, w, c) /\ Opened(a, iss) /\ Agreed(a, iss, n, k)
          /\ a.iss = s.iss
      BY <2>3, <2>4 DEF Follows, GoesOn, Moves
    <2>12. InSequence(a, g) /\ g \in Carries(n, a.iss, k)
      BY <2>4, <2>5 DEF InSequence
    <2>6. /\ GoesOn(a, b, iss, n, k)
          /\ b.state = a.state /\ b.eof = a.eof /\ b.thr = a.thr
          /\ Empty(g) => b = a
      BY <2>5, <2>12, TextStepAgrees
    <2> HIDE DEF b
    <2>7. GoesOn(s, b, iss, n, k) /\ Agreed(b, iss, n, k)
      BY <1>1, <2>3, <2>6, GoesOnTransitive DEF GoesOn
    <2>8. b.rnxt > iss
      <3>1. b.rnxt \in Nat /\ s.rnxt <= b.rnxt
        BY <2>7, AgreedFields DEF Agreed, GoesOn, Moves
      <3> QED
        BY <1>2, <3>1
    <2>9. /\ GoesOn(b, f, iss, n, k) /\ f.got = b.got
          /\ st = "CLOSE_WAIT" => f.state = st
          /\ ~g.fin => f = b
      BY <1>2, <1>8, <2>3, <2>6, <2>7, <2>8, FinStepAgrees DEF Running
    <2> HIDE DEF f
    <2>10. GoesOn(s, f, iss, n, k) /\ EndsAgree(f, iss, n, k)
      BY <1>1, <2>7, <2>9, GoesOnTransitive DEF GoesOn, Agreed
    <2>11. DataOrEnd(s, f)
      <3>1. g.fin => Empty(g)
        BY DEF SentBy, Segment, Empty
      <3> QED
        BY <2>3, <2>6, <2>9, <3>1 DEF DataOrEnd, Calm
    <2> QED
      BY <1>3, <2>1, <2>9, <2>10, <2>11 DEF DataOrEnd
  <1> QED
    BY <1>5, <1>6, <1>7, <1>8

(* A SYN tells where the peer's stream begins, before anything has come    *)
(* in.                                                                     *)
LEMMA SynchronizeAgrees ==
  ASSUME NEW iss \in Nat, NEW n \in Nat, NEW k \in Nat, NEW w \in Nat, NEW c \in BOOLEAN,
         NEW s, EndsAgree(s, iss, n, k), Sound(s, iss, w, c), Len(s.got) = 0,
         NEW g \in SentBy(iss, w, c), g.syn
  PROVE  LET t == Synchronize(s, g)
         IN /\ EndsAgree(t, iss, n, k) /\ Moves(s, t)
            /\ t.got = s.got /\ t.eof = s.eof /\ t.rnxt > iss
            /\ t.state = s.state /\ t.flags = s.flags /\ t.thr = s.thr
            /\ t.una = s.una /\ t.iss = s.iss
  <1> DEFINE t    == Synchronize(s, g)
             In   == Carries(n, s.iss, k)
             Out  == Carries(s.rnxt, iss, s.taken)
             rnxt == g.seq + 1
             room == Available(s)
  <1>1. s \in BlockOf(In, Out)
    BY DEF EndsAgree
  <1>2. /\ s.rnxt \in Nat /\ s.taken \in Nat /\ s.una \in Nat /\ s.iss \in Nat
        /\ room \in Nat /\ Len(s.got) \in Nat
    BY SoundFields
  <1>3. g.seq = iss /\ rnxt \in Nat /\ rnxt = iss + 1 /\ rnxt > iss
    BY DEF SentBy, Segment
  <1>4. s.rnxt <= rnxt
    <2>1. s.rnxt = 0 \/ s.rnxt = iss + 1 + 0
      BY DEF EndsAgree, Met, Synced
    <2> QED
      BY <1>3, <2>1
  <1>5. t = [s EXCEPT !.rnxt = rnxt, !.irs = g.seq, !.rwnd = room]
    BY DEF Synchronize
  <1> HIDE DEF t, rnxt, room
  <1>6. s \in BlockOf(In, Carries(rnxt, iss, s.taken))
    <2>1. Out \subseteq Carries(rnxt, iss, s.taken)
      <3>1. s.taken <= s.taken
        BY <1>2
      <3> HIDE DEF In
      <3> QED
        <4>1. PICK a \in Nat, r \in Nat, b \in Nat : a = s.rnxt /\ r = rnxt /\ b = s.taken
          BY <1>2, <1>3
        <4>2. a <= r /\ b <= b
          BY <1>4, <4>1
        <4>3. Carries(a, iss, b) \subseteq Carries(r, iss, b)
          BY <4>2, CarriesMonotonic
        <4> QED
          BY <4>1, <4>3
    <2> HIDE DEF In, Out
    <2> QED
      BY <1>1, <2>1, BlockMonotonic
  <1>7. /\ t \in BlockOf(In, Carries(rnxt, iss, s.taken))
        /\ t.rnxt = rnxt /\ t.irs = iss /\ t.rwnd = room
        /\ t.iss = s.iss /\ t.wrote = s.wrote /\ t.closing = s.closing
        /\ t.una = s.una /\ t.taken = s.taken /\ t.nxt = s.nxt /\ t.finsent = s.finsent
        /\ t.got = s.got /\ t.rd = s.rd /\ t.eof = s.eof
        /\ t.state = s.state /\ t.flags = s.flags /\ t.thr = s.thr
    <2> DEFINE Out2 == Carries(rnxt, iss, s.taken)
    <2>1. s \in BlockOf(In, Out2)
      BY <1>6
    <2> HIDE DEF In, Out2
    <2>2. /\ t \in BlockOf(In, Out2)
          /\ t.rnxt = rnxt /\ t.irs = iss /\ t.rwnd = room
          /\ t.iss = s.iss /\ t.wrote = s.wrote /\ t.closing = s.closing
          /\ t.una = s.una /\ t.taken = s.taken /\ t.nxt = s.nxt /\ t.finsent = s.finsent
          /\ t.got = s.got /\ t.rd = s.rd /\ t.eof = s.eof
          /\ t.state = s.state /\ t.flags = s.flags /\ t.thr = s.thr
      BY <1>2, <1>3, <1>5, <2>1 DEF BlockOf
    <2> QED
      BY <2>2 DEF Out2
  <1>8. Available(t) = room
    BY <1>7 DEF Available, room
  <1>9. Met(t, iss)
    <2>1. Len(t.got) = 0
      BY <1>7
    <2>2. t.rnxt = iss + 1 + Len(t.got)
      <3>1. iss + 1 + 0 = iss + 1
        OBVIOUS
      <3>2. t.rnxt = iss + 1
        BY <1>3, <1>7
      <3> QED
        BY <2>1, <3>1, <3>2
    <2> QED
      BY <1>7, <2>2 DEF Met, Synced
  <1>10. EndsAgree(t, iss, n, k)
    <2>1. t.rwnd <= Available(t)
      BY <1>2, <1>7, <1>8
    <2> QED
      BY <1>7, <1>9, <2>1 DEF EndsAgree, In
  <1>11. Moves(s, t)
    BY <1>2, <1>4, <1>7 DEF Moves
  <1> QED
    BY <1>3, <1>7, <1>10, <1>11 DEF t

(* The SYN that a server gets.                                             *)
LEMMA HandleListenAgrees ==
  ASSUME NEW iss \in Nat, NEW n \in Nat, NEW k \in Nat, NEW w \in Nat, NEW c \in BOOLEAN,
         NEW s, Agreed(s, iss, n, k), Sound(s, iss, w, c), StateSound(s, iss), Running(s),
         s.state = "LISTEN", NEW g \in SentBy(iss, w, c)
  PROVE  LET t == HandleListen(s, g)
         IN GoesOn(s, t, iss, n, k) /\ t.got = s.got
  <1> DEFINE t == Synchronize(s, g)
             u == SendSyn(t, TRUE)
             v == SetState(u, "SYN_RCVD")
  <1>1. EndsAgree(s, iss, n, k) /\ StateAgrees(s, iss)
    BY DEF Agreed
  <1>2. CASE ~g.syn
    <2>1. HandleListen(s, g) = s
      BY <1>2 DEF HandleListen
    <2>2. s \in BlockOf(Carries(n, s.iss, k), Carries(s.rnxt, iss, s.taken)) /\ Still(s, s)
      BY <1>1, StillTransitive DEF EndsAgree
    <2> QED
      BY <2>1, <2>2, StillAgrees DEF GoesOn
  <1>3. CASE g.syn
    <2>1. HandleListen(s, g) = v
      BY <1>3 DEF HandleListen
    <2>2. Len(s.got) = 0 /\ "APPLICATION_CONNECT" \notin s.flags
      BY DEF StateSound
    <2>3. ~s.eof /\ s.una = s.iss
      BY <1>1 DEF StateAgrees, AfterFin
    <2>4. /\ EndsAgree(t, iss, n, k) /\ Moves(s, t)
          /\ t.got = s.got /\ t.eof = s.eof /\ t.rnxt > iss
          /\ t.state = s.state /\ t.flags = s.flags /\ t.thr = s.thr
          /\ t.una = s.una /\ t.iss = s.iss
      BY <1>1, <1>3, <2>2, SynchronizeAgrees
    <2> HIDE DEF t
    <2>5. Agreed(t, iss, n, k)
      <3>1. StateAgrees(t, iss)
        BY <2>2, <2>3, <2>4 DEF StateAgrees, AfterFin, Running, Synchronized
      <3> QED
        BY <2>4, <3>1 DEF Agreed
    <2>6. GoesOn(t, u, iss, n, k) /\ Still(t, u)
      BY <2>4, <2>5, SendSynAgrees
    <2> HIDE DEF u
    <2>7. EndsAgree(u, iss, n, k) /\ GoesOn(s, u, iss, n, k)
      <3>1. GoesOn(s, t, iss, n, k)
        BY <2>4, <2>5 DEF GoesOn
      <3> QED
        BY <1>1, <2>6, <3>1, GoesOnTransitive DEF GoesOn, Agreed
    <2>8. /\ u.state = "LISTEN" /\ u.una = u.iss /\ ~u.eof /\ u.got = s.got
          /\ "APPLICATION_CONNECT" \notin u.flags
          /\ u.thr = "spin" => s.thr = "spin"
          /\ u.rnxt > iss
      BY <2>2, <2>3, <2>4, <2>6 DEF Still, Unmoved, SameStream
    <2>9. CASE ~Running(u)
      <3>1. v = u
        BY <2>9 DEF SetState
      <3> QED
        BY <2>1, <2>7, <2>8, <3>1
    <2>10. CASE Running(u)
      <3>1. "SYN_RCVD" \in TcpState /\ Age["SYN_RCVD"] > Age[u.state]
        BY <2>8, AgeFacts DEF TcpState
      <3>2. /\ EndsAgree(v, iss, n, k)
            /\ SameEnds(u, v) /\ v.eof = u.eof /\ v.thr = u.thr
            /\ "APPLICATION_CONNECT" \in v.flags <=> "APPLICATION_CONNECT" \in u.flags
            /\ v.state = "SYN_RCVD"
        BY <2>7, <2>10, <3>1, SetStateFacts
      <3>3. Moves(u, v)
        BY <2>7, <3>1, SetStateMoves
      <3> HIDE DEF v
      <3>4. StateAgrees(v, iss)
        BY <2>8, <2>10, <3>2 DEF StateAgrees, AfterFin, SameEnds, Running, Synchronized
      <3>5. GoesOn(s, v, iss, n, k)
        <4>1. GoesOn(u, v, iss, n, k)
          BY <3>2, <3>3, <3>4 DEF GoesOn, Agreed
        <4> QED
          BY <1>1, <2>7, <4>1, GoesOnTransitive
      <3> QED
        BY <2>1, <2>8, <3>2, <3>5 DEF SameEnds
    <2> QED
      BY <2>9, <2>10
  <1> QED
    BY <1>2, <1>3

(* The SYN/ACK that a client gets acknowledges its own SYN.                *)
LEMMA HandleSynSentAgrees ==
  ASSUME NEW iss \in Nat, NEW n \in Nat, NEW k \in Nat, NEW w \in Nat, NEW c \in BOOLEAN,
         NEW s, Agreed(s, iss, n, k), Sound(s, iss, w, c), StateSound(s, iss), Running(s),
         s.state = "SYN_SENT", NEW g \in SentBy(iss, w, c), g \in Carries(n, s.iss, k)
  PROVE  LET t == HandleSynSent(s, g)
         IN GoesOn(s, t, iss, n, k) /\ t.got = s.got
  <1> DEFINE u == ProcessQ([s EXCEPT !.una = g.ack])
             b == Synchronize(u, g)
             e == SetState(b, "ESTABLISHED")
             t == SendAck(e)
  <1>1. EndsAgree(s, iss, n, k) /\ StateAgrees(s, iss)
    BY DEF Agreed
  <1>2. CASE ~(g.hasack /\ s.una <= g.ack /\ g.ack <= s.nxt /\ g.syn)
    <2>1. HandleSynSent(s, g) = s
      BY <1>2 DEF HandleSynSent
    <2>2. s \in BlockOf(Carries(n, s.iss, k), Carries(s.rnxt, iss, s.taken)) /\ Still(s, s)
      BY <1>1, StillTransitive DEF EndsAgree
    <2> QED
      BY <2>1, <2>2, StillAgrees DEF GoesOn
  <1>3. CASE g.hasack /\ s.una <= g.ack /\ g.ack <= s.nxt /\ g.syn
    <2>1. g.ack \in Nat /\ g.ack > s.iss /\ g.ack <= n
      BY <1>3 DEF Carries, Segment
    <2>2. Len(s.got) = 0 /\ "APPLICATION_CONNECT" \notin s.flags /\ ~s.eof
      BY <1>1 DEF StateSound, StateAgrees, AfterFin
    <2>3. /\ EndsAgree(u, iss, n, k) /\ Moves(s, u) /\ Calm(s, u)
          /\ u.una = g.ack /\ u.iss = s.iss /\ u.rnxt = s.rnxt
          /\ u.state = s.state /\ u.eof = s.eof
          /\ u.thr = "spin" => s.thr = "spin"
          /\ "APPLICATION_CONNECT" \notin u.flags
      BY <1>1, <1>3, <2>1, <2>2, AckedFacts
    <2>4. Sound(u, iss, w, c)
      BY <2>1, ProcessQSound DEF Follows
    <2>5. CASE ~Running(u)
      <3>1. HandleSynSent(s, g) = u
        <4>1. SetState(u, "ESTABLISHED") = u /\ SetState(u, "SYN_RCVD") = u
          BY <2>5 DEF SetState
        <4>2. SendAck(u) = u /\ SendSyn(u, TRUE) = u
          BY <2>5 DEF SendAck, SendSyn, Send
        <4> QED
          BY <1>3, <2>5, <4>1, <4>2 DEF HandleSynSent
      <3> HIDE DEF u
      <3>2. StateAgrees(u, iss)
        BY <2>2, <2>3, <2>5, <1>1 DEF StateAgrees, AfterFin, Synchronized, Running
      <3> QED
        BY <2>3, <3>1, <3>2 DEF GoesOn, Agreed, Calm
    <2>6. CASE Running(u)
      <3>1. HandleSynSent(s, g) = IF b.una > b.iss THEN SendAck(e)
                                  ELSE SendSyn(SetState(b, "SYN_RCVD"), TRUE)
        BY <1>3, <2>6 DEF HandleSynSent
      <3> HIDE DEF u
      <3>2. Len(u.got) = 0
        BY <2>2, <2>3 DEF Calm
      <3>3. /\ EndsAgree(b, iss, n, k) /\ Moves(u, b)
            /\ b.got = u.got /\ b.eof = u.eof /\ b.rnxt > iss
            /\ b.state = u.state /\ b.flags = u.flags /\ b.thr = u.thr
            /\ b.una = u.una /\ b.iss = u.iss
        BY <1>3, <2>3, <2>4, <3>2, SynchronizeAgrees
      <3> HIDE DEF b
      <3>4. HandleSynSent(s, g) = t /\ b.una > b.iss
        BY <2>1, <2>3, <3>1, <3>3
      <3>5. /\ "ESTABLISHED" \in TcpState \ {"LISTEN", "SYN_SENT", "SYN_RCVD"}
            /\ Age["ESTABLISHED"] > Age[b.state]
            /\ b.eof <=> "ESTABLISHED" \in AfterFin \cup {"CLOSED"}
            /\ "APPLICATION_CONNECT" \notin b.flags /\ Running(b)
        <4>1. b.state = "SYN_SENT" /\ ~b.eof /\ "APPLICATION_CONNECT" \notin b.flags
          BY <2>2, <2>3, <3>3
        <4> QED
          BY <2>6, <3>3, <4>1, AgeFacts DEF TcpState, AfterFin, Running
      <3>6. GoesOn(b, e, iss, n, k) /\ Calm(b, e)
        BY <3>3, <3>4, <3>5, SetStateAgrees
      <3> HIDE DEF e
      <3>7. Agreed(e, iss, n, k) /\ e.rnxt > iss
        BY <3>3, <3>6 DEF GoesOn, Calm
      <3>8. GoesOn(e, t, iss, n, k) /\ Still(e, t)
        BY <3>7, SendAckAgrees
      <3> HIDE DEF t
      <3>9. Moves(s, t)
        <4>1. /\ s \in BlockOf(Carries(n, s.iss, k), Carries(s.rnxt, iss, s.taken))
              /\ u \in BlockOf(Carries(n, u.iss, k), Carries(u.rnxt, iss, u.taken))
              /\ b \in BlockOf(Carries(n, b.iss, k), Carries(b.rnxt, iss, b.taken))
              /\ e \in BlockOf(Carries(n, e.iss, k), Carries(e.rnxt, iss, e.taken))
              /\ t \in BlockOf(Carries(n, t.iss, k), Carries(t.rnxt, iss, t.taken))
          BY <1>1, <2>3, <3>3, <3>6, <3>8 DEF EndsAgree, GoesOn, Agreed
        <4>2. Moves(s, b)
          BY <2>3, <3>3, <4>1, MovesTransitive
        <4>3. Moves(s, e)
          BY <3>6, <4>1, <4>2, MovesTransitive DEF GoesOn
        <4> QED
          BY <3>8, <4>1, <4>3, MovesTransitive DEF GoesOn
      <3>10. t.got = s.got
        BY <2>3, <3>3, <3>6, <3>8 DEF Calm, Still, Unmoved, SameStream
      <3> QED
        BY <3>4, <3>8, <3>9, <3>10 DEF GoesOn
    <2> QED
      BY <2>5, <2>6
  <1> QED
    BY <1>2, <1>3

(* chitcpd_tcp_handle_packet, whatever the packet.                         *)
LEMMA HandlePacketAgrees ==
  ASSUME NEW iss \in Nat, NEW n \in Nat, NEW k \in Nat, NEW w \in Nat, NEW c \in BOOLEAN,
         NEW s, Agreed(s, iss, n, k), Sound(s, iss, w, c), StateSound(s, iss), Running(s),
         s.pend # <<>>
  PROVE  LET t == HandlePacket(s)
         IN /\ GoesOn(s, t, iss, n, k) /\ DataOrEnd(s, t)
            /\ s.state = "CLOSE_WAIT" => t.state = "CLOSE_WAIT"
  <1> DEFINE g   == Head(s.pend)
             a   == [s EXCEPT !.pend = Tail(@), !.wnd = g.wnd]
             In  == SentBy(iss, w, c)
             Out == SentBy(s.iss, s.wrote, s.closing)
             In2  == Carries(n, s.iss, k)
             Out2 == Carries(s.rnxt, iss, s.taken)
  <1>1. s \in BlockOf(In, Out) /\ s \in BlockOf(In2, Out2)
    BY DEF Sound, Agreed, EndsAgree
  <1>2. s.pend \in Seq(In) /\ s.pend \in Seq(In2)
    BY <1>1 DEF BlockOf
  <1>3. g \in In /\ g \in In2 /\ Tail(s.pend) \in Seq(In) /\ Tail(s.pend) \in Seq(In2)
    BY <1>2, HeadTailProperties
  <1>4. g.wnd \in Nat
    BY <1>3 DEF SentBy, Segment
  <1>5. a \in BlockOf(In, Out) /\ a \in BlockOf(In2, Out2) /\ Still(s, a) /\ a.thr = s.thr
    <2> HIDE DEF g, In, Out, In2, Out2
    <2>1. a \in BlockOf(In, Out) /\ a \in BlockOf(In2, Out2)
      BY <1>1, <1>3, <1>4 DEF BlockOf
    <2>2. Still(s, a) /\ a.thr = s.thr
      BY <1>1, <1>3, <1>4 DEF BlockOf, Still, Unmoved, SameStream, Running
    <2> QED
      BY <2>1, <2>2
  <1>6. Follows(s, a, iss, w, c) /\ StateSound(a, iss)
    BY <1>5, UnmovedFollows DEF Still
  <1>7. GoesOn(s, a, iss, n, k) /\ Calm(s, a) /\ Agreed(a, iss, n, k)
    BY <1>5, StillAgrees DEF GoesOn
  <1>8. /\ Sound(a, iss, w, c) /\ a.state = s.state /\ Running(a) /\ a.iss = s.iss
        /\ EndsAgree(s, iss, n, k)
    BY <1>5, <1>6 DEF Follows, Still, Unmoved, SameStream, Running, Agreed
  <1>9. HandlePacket(s) =
          CASE s.state = "CLOSED" -> a
            [] s.state = "LISTEN" -> HandleListen(a, g)
            [] s.state = "SYN_SENT" -> HandleSynSent(a, g)
            [] OTHER -> IF a.rwnd = 0 /\ SegLen(g) > 0 THEN SendAck(a)
                        ELSE IF g.seq = a.rnxt THEN InOrder(a, g)
                        ELSE IF InWindow(a, g) THEN Stash(a, g)
                        ELSE a
    BY DEF HandlePacket
  <1> HIDE DEF a, g
  <1>10. ASSUME NEW t, GoesOn(a, t, iss, n, k)
         PROVE  GoesOn(s, t, iss, n, k)
    BY <1>7, <1>8, <1>10, GoesOnTransitive
  <1>11. CASE s.state = "CLOSED"
    <2>1. HandlePacket(s) = a
      BY <1>9, <1>11
    <2> QED
      BY <1>7, <1>11, <2>1 DEF DataOrEnd, Calm
  <1>12. CASE s.state = "LISTEN"
    <2>1. HandlePacket(s) = HandleListen(a, g)
      BY <1>9, <1>12
    <2>2. /\ GoesOn(a, HandleListen(a, g), iss, n, k)
          /\ HandleListen(a, g).got = a.got
      BY <1>3, <1>6, <1>7, <1>8, <1>12, HandleListenAgrees
    <2> QED
      BY <1>7, <1>10, <1>12, <2>1, <2>2 DEF DataOrEnd, Calm
  <1>13. CASE s.state = "SYN_SENT"
    <2>1. HandlePacket(s) = HandleSynSent(a, g)
      BY <1>9, <1>13
    <2>2. g \in Carries(n, a.iss, k)
      BY <1>3, <1>8
    <2>3. /\ GoesOn(a, HandleSynSent(a, g), iss, n, k)
          /\ HandleSynSent(a, g).got = a.got
      BY <1>3, <1>6, <1>7, <1>8, <1>13, <2>2, HandleSynSentAgrees
    <2> QED
      BY <1>7, <1>10, <1>13, <2>1, <2>3 DEF DataOrEnd, Calm
  <1>14. CASE s.state \notin {"CLOSED", "LISTEN", "SYN_SENT"}
    <2>1. Opened(a, iss)
      BY <1>6, <1>8, <1>14, OpenedStateSound
    <2>2. a.rnxt > iss
      <3>1. a.rnxt \in Nat /\ Len(a.got) \in Nat
        BY <1>8, SoundFields
      <3> QED
        BY <2>1, <3>1, OpenedRnxt
    <2>3. \/ HandlePacket(s) \in {a, SendAck(a), Stash(a, g)}
          \/ InSequence(a, g) /\ HandlePacket(s) = InOrder(a, g)
      BY <1>9, <1>14 DEF InSequence
    <2>4. CASE HandlePacket(s) = a
      BY <1>7, <1>8, <2>4 DEF DataOrEnd, Calm
    <2>5. CASE HandlePacket(s) = SendAck(a)
      <3>1. GoesOn(a, SendAck(a), iss, n, k) /\ Still(a, SendAck(a))
        BY <1>7, <2>2, SendAckAgrees
      <3> QED
        BY <1>7, <1>8, <1>10, <2>5, <3>1 DEF DataOrEnd, Calm, Still, Unmoved, SameStream
    <2>6. CASE HandlePacket(s) = Stash(a, g)
      <3> DEFINE t == Stash(a, g)
      <3>1. a \in BlockOf(Carries(n, a.iss, k), Carries(a.rnxt, iss, a.taken))
            /\ g \in Carries(n, a.iss, k)
        BY <1>3, <1>7, <1>8 DEF Agreed, EndsAgree
      <3>2. t \in BlockOf(Carries(n, a.iss, k), Carries(a.rnxt, iss, a.taken)) /\ Still(a, t)
        BY <3>1, StashType
      <3> HIDE DEF t
      <3>3. GoesOn(a, t, iss, n, k)
        BY <1>7, <3>2, StillAgrees DEF GoesOn
      <3> QED
        BY <1>7, <1>8, <1>10, <2>6, <3>2, <3>3 DEF DataOrEnd, Calm, Still, Unmoved, SameStream, t
    <2>7. CASE InSequence(a, g) /\ HandlePacket(s) = InOrder(a, g)
      <3> DEFINE t == InOrder(a, g)
      <3>1. g \in Carries(n, a.iss, k) /\ a.state # "CLOSED"
        BY <1>3, <1>8, <1>14
      <3>2. /\ GoesOn(a, t, iss, n, k) /\ DataOrEnd(a, t)
            /\ a.state = "CLOSE_WAIT" => t.state = "CLOSE_WAIT"
        BY <1>3, <1>7, <1>8, <2>1, <2>7, <3>1, InOrderAgrees
      <3> HIDE DEF t
      <3> QED
        BY <1>7, <1>8, <1>10, <2>7, <3>2 DEF DataOrEnd, Calm, t
    <2> QED
      BY <2>3, <2>4, <2>5, <2>6, <2>7
  <1> QED
    BY <1>11, <1>12, <1>13, <1>14

-----------------------------------------------------------------------------
(***************************************************************************)
(* The event handlers: Advances says what a handler, or any other step of  *)
(* a socket, may have done to its block.                                   *)
(***************************************************************************)

Grows(s, t) ==
  /\ t.iss = s.iss
  /\ s.rnxt <= t.rnxt /\ s.una <= t.una /\ s.taken <= t.taken
  /\ s.finsent => t.finsent /\ t.nxt = s.nxt
  /\ Len(s.got) <= Len(t.got)
  /\ s.eof => t.eof
  /\ s.closing => t.closing

(* Only a handler of APPLICATION_CONNECT takes the state back.             *)
Ages(s, t) ==
  \/ t.state = s.state
  \/ Age[t.state] > Age[s.state]
  \/ s.state = "CLOSED" /\ t.state = "SYN_SENT" /\ s.rnxt = 0

(* A step does at most one thing to the two streams.                       *)
OneEffect(s, t) ==
  /\ t.wrote = s.wrote
  /\ DataOrEnd(s, t)
  /\ t.closing # s.closing => t.got = s.got /\ t.eof = s.eof

Advances(s, t, iss, n, k) ==
  Agreed(t, iss, n, k) /\ Grows(s, t) /\ Ages(s, t) /\ OneEffect(s, t)

(* What goes on advances, unless it both brings data and ends the stream.  *)
LEMMA GoesOnAdvances ==
  ASSUME NEW iss, NEW n, NEW k, NEW s, NEW t,
         GoesOn(s, t, iss, n, k), DataOrEnd(s, t)
  PROVE  Advances(s, t, iss, n, k)
  BY DEF GoesOn, Moves, Advances, Grows, Ages, OneEffect

(* A handler that does nothing.                                            *)
LEMMA StaysAdvances ==
  ASSUME NEW iss, NEW n, NEW k, NEW s, Agreed(s, iss, n, k)
  PROVE  Advances(s, s, iss, n, k) /\ GoesOn(s, s, iss, n, k)
  <1>1. s \in BlockOf(Carries(n, s.iss, k), Carries(s.rnxt, iss, s.taken)) /\ Still(s, s)
    BY StillTransitive DEF Agreed, EndsAgree
  <1>2. GoesOn(s, s, iss, n, k)
    BY <1>1, StillAgrees DEF GoesOn
  <1> QED
    BY <1>2, GoesOnAdvances DEF DataOrEnd

(* APPLICATION_CONNECT sends a SYN from a socket that has never received.  *)
LEMMA OnConnectAdvances ==
  ASSUME NEW iss \in Nat, NEW n \in Nat, NEW k \in Nat, NEW s, Agreed(s, iss, n, k),
         s.rnxt = 0, s.una = s.iss, "APPLICATION_CONNECT" \notin s.flags
  PROVE  Advances(s, OnConnect(s), iss, n, k)
  <1> DEFINE u == SendSyn(s, FALSE)
             t == SetState(u, "SYN_SENT")
  <1>1. CASE s.state # "CLOSED"
    BY <1>1, StaysAdvances DEF OnConnect
  <1>2. CASE s.state = "CLOSED"
    <2>1. OnConnect(s) = t
      BY <1>2 DEF OnConnect
    <2>2. GoesOn(s, u, iss, n, k) /\ Still(s, u)
      BY SendSynAgrees
    <2> HIDE DEF u
    <2>3. /\ u.state = "CLOSED" /\ u.rnxt = 0 /\ u.una = u.iss
          /\ "APPLICATION_CONNECT" \notin u.flags
          /\ SameStream(s, u) /\ u.una = s.una
      BY <1>2, <2>2 DEF Still, Unmoved, SameStream
    <2>4. EndsAgree(u, iss, n, k) /\ StateAgrees(u, iss)
      BY <2>2 DEF GoesOn, Agreed
    <2>5. "SYN_SENT" \in TcpState
      BY DEF TcpState
    <2>6. /\ EndsAgree(t, iss, n, k)
          /\ SameEnds(u, t) /\ t.eof = u.eof /\ t.thr = u.thr
          /\ t.wrote = u.wrote /\ t.closing = u.closing
          /\ t.finsent = u.finsent /\ t.nxt = u.nxt
          /\ "APPLICATION_CONNECT" \in t.flags <=> "APPLICATION_CONNECT" \in u.flags
          /\ t.state \in {"CLOSED", "SYN_SENT"}
      BY <2>3, <2>4, <2>5, SetStateFacts
    <2> HIDE DEF t
    <2>7. StateAgrees(t, iss)
      <3>1. ~(u.rnxt > 0) /\ ~(t.rnxt > 0)
        BY <2>3, <2>6 DEF SameEnds
      <3>2. ~u.eof
        BY <2>3, <2>4, <3>1 DEF StateAgrees, AfterFin
      <3>3. u.thr # "spin"
        <4>1. ~(u.rnxt > iss)
          BY <2>3
        <4> QED
          BY <2>4, <4>1 DEF StateAgrees
      <3>4. /\ t.una = t.iss /\ ~t.eof /\ "APPLICATION_CONNECT" \notin t.flags
            /\ t.thr # "spin"
        BY <2>3, <2>6, <3>2, <3>3, ZenonT(30) DEF SameEnds
      <3> QED
        BY <2>6, <3>1, <3>4 DEF StateAgrees, AfterFin, Synchronized
    <2>8. Ages(s, t)
      BY <1>2, <2>6 DEF Ages
    <2>9. Grows(s, t)
      <3>1. s.rnxt \in Nat /\ s.una \in Nat /\ s.taken \in Nat /\ Len(s.got) \in Nat
        BY AgreedFields DEF Agreed
      <3> QED
        BY <2>3, <2>6, <3>1 DEF Grows, SameStream, SameEnds
    <2>10. OneEffect(s, t)
      BY <2>3, <2>6 DEF OneEffect, DataOrEnd, SameStream, SameEnds
    <2> QED
      BY <2>1, <2>6, <2>7, <2>8, <2>9, <2>10 DEF Advances, Agreed
  <1> QED
    BY <1>1, <1>2

(* APPLICATION_SEND sends what the window admits.                          *)
LEMMA OnSendAdvances ==
  ASSUME NEW iss \in Nat, NEW n \in Nat, NEW k \in Nat, NEW w \in Nat, NEW c \in BOOLEAN,
         NEW s, Agreed(s, iss, n, k), Sound(s, iss, w, c), StateSound(s, iss)
  PROVE  Advances(s, OnSend(s), iss, n, k)
  <1>1. CASE s.state = "ESTABLISHED"
    <2>1. s.rnxt \in Nat /\ Len(s.got) \in Nat
      BY SoundFields
    <2>2. s.rnxt > iss
      BY <1>1, <2>1, OpenedRnxt, OpenedStateSound
    <2>3. GoesOn(s, ProcessSendBuffer(s), iss, n, k) /\ Calm(s, ProcessSendBuffer(s))
      BY <2>2, ProcessSendBufferAgrees
    <2> QED
      BY <1>1, <2>3, GoesOnAdvances DEF OnSend, Calm, DataOrEnd
  <1>2. CASE s.state # "ESTABLISHED"
    BY <1>2, StaysAdvances DEF OnSend
  <1> QED
    BY <1>1, <1>2

(* APPLICATION_RECEIVE opens the window as far as there is room.           *)
LEMMA OnReceiveAdvances ==
  ASSUME NEW iss \in Nat, NEW n \in Nat, NEW k \in Nat, NEW w \in Nat, NEW c \in BOOLEAN,
         NEW s, Agreed(s, iss, n, k), Sound(s, iss, w, c)
  PROVE  Advances(s, OnReceive(s), iss, n, k)
  <1> DEFINE rwnd == Available(s)
             t    == [s EXCEPT !.rwnd = rwnd]
             In   == Carries(n, s.iss, k)
             Out  == Carries(s.rnxt, iss, s.taken)
  <1>1. OnReceive(s) \in {s, t}
    BY DEF OnReceive
  <1>2. /\ s \in BlockOf(In, Out) /\ rwnd \in Nat
        /\ EndsAgree(s, iss, n, k) /\ StateAgrees(s, iss)
    BY SoundFields DEF Agreed, EndsAgree
  <1> HIDE DEF rwnd, In, Out
  <1>3. /\ t \in BlockOf(In, Out) /\ t.rwnd = rwnd
        /\ t.iss = s.iss /\ t.wrote = s.wrote /\ t.closing = s.closing
        /\ t.una = s.una /\ t.taken = s.taken /\ t.nxt = s.nxt /\ t.finsent = s.finsent
        /\ t.got = s.got /\ t.rd = s.rd /\ t.eof = s.eof /\ t.rnxt = s.rnxt
        /\ t.irs = s.irs /\ t.state = s.state /\ t.flags = s.flags /\ t.thr = s.thr
    BY <1>2 DEF BlockOf
  <1> HIDE DEF t
  <1>4. EndsAgree(t, iss, n, k)
    <2>1. Available(t) = rwnd /\ Met(t, iss) /\ rwnd <= rwnd
      <3>1. Available(t) = rwnd
        BY <1>3 DEF Available, rwnd
      <3>2. Met(t, iss)
        BY <1>2, <1>3 DEF EndsAgree, Met, Synced
      <3> QED
        BY <1>2, <3>1, <3>2
    <2>2. t \in BlockOf(Carries(n, t.iss, k), Carries(t.rnxt, iss, t.taken))
      BY <1>3 DEF In, Out
    <2>3. /\ Len(t.got) <= k /\ n <= t.iss + 1 + t.taken /\ t.iss <= t.una
          /\ t.una > t.iss => t.una <= n
      BY <1>2, <1>3 DEF EndsAgree
    <2> QED
      BY <1>3, <2>1, <2>2, <2>3 DEF EndsAgree
  <1>5. StateAgrees(t, iss)
    BY <1>2, <1>3 DEF StateAgrees, Running
  <1>6. Grows(s, t)
    <2>1. s.rnxt \in Nat /\ s.una \in Nat /\ s.taken \in Nat /\ Len(s.got) \in Nat
      BY <1>2, AgreedFields
    <2> QED
      BY <1>3, <2>1 DEF Grows
  <1>7. Ages(s, t) /\ OneEffect(s, t)
    BY <1>3 DEF Ages, OneEffect, DataOrEnd
  <1> QED
    BY <1>1, <1>4, <1>5, <1>6, <1>7, StaysAdvances DEF Advances, Agreed

(* APPLICATION_CLOSE sends the FIN, or what is left in the send buffer,    *)
(* and then leaves the state.                                              *)
LEMMA OnCloseAdvances ==
  ASSUME NEW iss \in Nat, NEW n \in Nat, NEW k \in Nat, NEW w \in Nat, NEW c \in BOOLEAN,
         NEW s, Agreed(s, iss, n, k), Sound(s, iss, w, c), StateSound(s, iss), s.rem = 0
  PROVE  Advances(s, OnClose(s), iss, n, k)
  <1> DEFINE d   == [s EXCEPT !.closing = TRUE]
             f   == IF Unsent(s) = 0 THEN SendFin(d) ELSE ProcessSendBuffer(d)
             In  == Carries(n, s.iss, k)
             Out == Carries(s.rnxt, iss, s.taken)
  <1>1. CASE s.state \notin {"ESTABLISHED", "CLOSE_WAIT"}
    BY <1>1, StaysAdvances DEF OnClose
  <1>2. CASE s.state \in {"ESTABLISHED", "CLOSE_WAIT"}
    <2>1. /\ s \in BlockOf(In, Out) /\ StateAgrees(s, iss)
          /\ s.rnxt \in Nat /\ Len(s.got) \in Nat /\ s.una \in Nat /\ s.taken \in Nat
      BY AgreedFields DEF Agreed
    <2>2. s.rnxt > iss
      BY <1>2, <2>1, OpenedRnxt, OpenedStateSound
    <2>3. /\ d \in BlockOf(In, Out) /\ d.closing = TRUE /\ d.wrote = s.wrote
          /\ d.finsent = s.finsent /\ d.nxt = s.nxt
          /\ Alike(s, d) /\ Unsent(d) = Unsent(s)
      <3> HIDE DEF In, Out
      <3> QED
        BY <2>1 DEF BlockOf, Alike, SameEnds, Running, Unsent
    <2>4. Agreed(d, iss, n, k) /\ d.rnxt > iss /\ Sound(d, iss, w, c)
      <3>1. Follows(s, d, iss, w, c)
        BY ClosingSound
      <3> HIDE DEF d
      <3> QED
        BY <2>2, <2>3, <3>1, AlikeAgrees DEF Follows, Alike, SameEnds
    <2>5. /\ OnClose(s) \in {f, SetState(f, "FIN_WAIT_1"), SetState(f, "LAST_ACK")}
          /\ s.state = "ESTABLISHED" => OnClose(s) = SetState(f, "FIN_WAIT_1")
          /\ s.state = "CLOSE_WAIT" => OnClose(s) \in {f, SetState(f, "LAST_ACK")}
      BY <1>2 DEF OnClose
    <2> HIDE DEF d
    <2>6. GoesOn(d, f, iss, n, k) /\ Calm(d, f) /\ f.state = d.state
      <3>1. /\ GoesOn(d, SendFin(d), iss, n, k) /\ Calm(d, SendFin(d))
            /\ SendFin(d).state = d.state
        BY <2>4, SendFinAgrees DEF Alike
      <3>2. /\ GoesOn(d, ProcessSendBuffer(d), iss, n, k) /\ Calm(d, ProcessSendBuffer(d))
            /\ ProcessSendBuffer(d).state = d.state
        BY <2>4, ProcessSendBufferAgrees
      <3> QED
        BY <3>1, <3>2
    <2> HIDE DEF f
    <2>7. PICK st \in {"FIN_WAIT_1", "LAST_ACK"} :
            /\ OnClose(s) \in {f, SetState(f, st)}
            /\ st = "FIN_WAIT_1" <=> s.state = "ESTABLISHED"
      BY <1>2, <2>5
    <2>8. /\ EndsAgree(f, iss, n, k) /\ StateAgrees(f, iss) /\ f.state = s.state
          /\ f.rnxt > iss /\ f.rnxt = s.rnxt
      BY <2>2, <2>3, <2>6 DEF GoesOn, Agreed, Calm, Alike, SameEnds
    <2>9. GoesOn(d, SetState(f, st), iss, n, k) /\ Calm(d, SetState(f, st))
      <3>1. CASE ~Running(f)
        BY <2>6, <3>1 DEF SetState
      <3>2. CASE Running(f)
        <4>1. /\ st \in TcpState \ {"LISTEN", "SYN_SENT", "SYN_RCVD"}
              /\ Age[st] > Age[f.state]
          BY <1>2, <2>7, <2>8, AgeFacts DEF TcpState
        <4>2. f.una > f.iss /\ "APPLICATION_CONNECT" \notin f.flags
          BY <1>2, <2>8 DEF StateAgrees, Synchronized
        <4>3. f.eof <=> st \in AfterFin \cup {"CLOSED"}
          BY <1>2, <2>7, <2>8 DEF StateAgrees, AfterFin
        <4>4. GoesOn(f, SetState(f, st), iss, n, k) /\ Calm(f, SetState(f, st))
          BY <2>8, <3>2, <4>1, <4>2, <4>3, SetStateAgrees
        <4> QED
          BY <2>4, <2>6, <4>4, GoesOnTransitive DEF Agreed, Calm
      <3> QED
        BY <3>1, <3>2
    <2>10. ASSUME NEW t, GoesOn(d, t, iss, n, k), Calm(d, t)
           PROVE  Advances(s, t, iss, n, k)
      <3>1. Grows(s, t)
        BY <2>1, <2>3, <2>10 DEF GoesOn, Moves, Grows, Alike, SameEnds
      <3>2. Ages(s, t)
        BY <2>3, <2>10 DEF GoesOn, Moves, Ages, Alike
      <3>3. OneEffect(s, t)
        BY <2>3, <2>10 DEF GoesOn, Moves, OneEffect, DataOrEnd, Alike, SameEnds, Calm
      <3> QED
        BY <2>10, <3>1, <3>2, <3>3 DEF GoesOn, Advances
    <2> QED
      BY <2>6, <2>7, <2>9, <2>10
  <1> QED
    BY <1>1, <1>2

(* PACKET_ARRIVAL: the packet, then the FIN or the data that waited for    *)
(* the window.                                                             *)
LEMMA OnPacketAdvances ==
  ASSUME NEW iss \in Nat, NEW n \in Nat, NEW k \in Nat, NEW w \in Nat, NEW c \in BOOLEAN,
         NEW s, Agreed(s, iss, n, k), Sound(s, iss, w, c), StateSound(s, iss), Running(s),
         s.pend # <<>>
  PROVE  Advances(s, OnPacket(s), iss, n, k)
  <1> DEFINE h == HandlePacket(s)
             f == SendFin(h)
             v == SetState(f, "CLOSING")
  <1>1. /\ GoesOn(s, h, iss, n, k) /\ DataOrEnd(s, h)
        /\ s.state = "CLOSE_WAIT" => h.state = "CLOSE_WAIT"
    BY HandlePacketAgrees
  <1>2. /\ Handled(s, h, iss, w, c)
        /\ Opened(s, iss) => Opened(h, iss)
    BY HandlePacketSound
  <1>3. \/ OnPacket(s) = h
        \/ /\ s.state \in {"FIN_WAIT_1", "CLOSE_WAIT"}
           /\ \/ OnPacket(s) \in {ProcessSendBuffer(h), f}
              \/ s.state = "CLOSE_WAIT" /\ OnPacket(s) = v
    BY DEF OnPacket
  <1> HIDE DEF h
  <1>4. Agreed(h, iss, n, k) /\ EndsAgree(s, iss, n, k) /\ Sound(h, iss, w, c)
    BY <1>1, <1>2 DEF GoesOn, Handled, Agreed
  <1>5. ASSUME NEW t, GoesOn(h, t, iss, n, k), Calm(h, t)
        PROVE  Advances(s, t, iss, n, k)
    BY <1>1, <1>4, <1>5, GoesOnTransitive, GoesOnAdvances DEF Calm, DataOrEnd
  <1>6. CASE OnPacket(s) = h
    BY <1>1, <1>6, GoesOnAdvances
  <1>7. CASE s.state \in {"FIN_WAIT_1", "CLOSE_WAIT"}
    <2>1. h.rnxt > iss
      <3>1. h.rnxt \in Nat /\ Len(h.got) \in Nat
        BY <1>4, SoundFields
      <3>2. Opened(h, iss)
        BY <1>2, <1>7, OpenedStateSound
      <3> QED
        BY <3>1, <3>2, OpenedRnxt
    <2>2. GoesOn(h, ProcessSendBuffer(h), iss, n, k) /\ Calm(h, ProcessSendBuffer(h))
      BY <1>4, <2>1, ProcessSendBufferAgrees
    <2>3. GoesOn(h, f, iss, n, k) /\ Calm(h, f) /\ Alike(h, f)
      BY <1>4, <2>1, SendFinAgrees
    <2> HIDE DEF f
    <2>4. CASE s.state = "CLOSE_WAIT" /\ OnPacket(s) = v
      <3>1. CASE ~Running(f)
        <4>1. v = f
          BY <3>1 DEF SetState
        <4> QED
          BY <1>5, <2>3, <2>4, <4>1
      <3>2. CASE Running(f)
        <4>1. /\ EndsAgree(f, iss, n, k) /\ StateAgrees(f, iss)
              /\ f.state = "CLOSE_WAIT" /\ f.rnxt > iss
          BY <1>1, <2>1, <2>3, <2>4 DEF GoesOn, Agreed, Alike, SameEnds
        <4>2. /\ "CLOSING" \in TcpState \ {"LISTEN", "SYN_SENT", "SYN_RCVD"}
              /\ Age["CLOSING"] > Age[f.state]
          BY <4>1, AgeFacts DEF TcpState
        <4>3. /\ f.una > f.iss /\ "APPLICATION_CONNECT" \notin f.flags
              /\ f.eof <=> "CLOSING" \in AfterFin \cup {"CLOSED"}
          <5>1. f.rnxt > 0 /\ f.rnxt # 0
            <6>1. f.rnxt \in Nat
              BY <4>1, AgreedFields
            <6> QED
              BY <4>1, <6>1
          <5> QED
            BY <4>1, <5>1 DEF StateAgrees, Synchronized, AfterFin
        <4>4. GoesOn(f, v, iss, n, k) /\ Calm(f, v)
          BY <3>2, <4>1, <4>2, <4>3, SetStateAgrees
        <4> HIDE DEF v
        <4>5. GoesOn(h, v, iss, n, k) /\ Calm(h, v)
          BY <1>4, <2>3, <4>4, GoesOnTransitive DEF Agreed, Calm
        <4> QED
          BY <1>5, <2>4, <4>5
      <3> QED
        BY <3>1, <3>2
    <2> QED
      BY <1>3, <1>5, <1>6, <2>2, <2>3, <2>4
  <1> QED
    BY <1>3, <1>6, <1>7

(* TIMEOUT sends again what has been sent.                                 *)
LEMMA OnTimeoutAdvances ==
  ASSUME NEW iss \in Nat, NEW n \in Nat, NEW k \in Nat, NEW s, Agreed(s, iss, n, k)
  PROVE  Advances(s, OnTimeout(s), iss, n, k)
  <1> DEFINE In  == Carries(n, s.iss, k)
             Out == Carries(s.rnxt, iss, s.taken)
             t   == ProcessTimeout(ProcessQ(s))
  <1>1. s \in BlockOf(In, Out)
    BY DEF Agreed, EndsAgree
  <1>2. ProcessQ(s) \in BlockOf(In, Out) /\ Still(s, ProcessQ(s))
    BY <1>1, ProcessQProperties, QueuesStill
  <1>3. t \in BlockOf(In, Out) /\ Still(ProcessQ(s), t)
    BY <1>2, ProcessTimeoutProperties, ProcessTimeoutStill
  <1>4. Still(s, t)
    BY <1>2, <1>3, StillTransitive
  <1>5. OnTimeout(s) \in {s, t}
    BY DEF OnTimeout
  <1> HIDE DEF t
  <1>6. GoesOn(s, t, iss, n, k) /\ Calm(s, t)
    BY <1>3, <1>4, StillAgrees DEF GoesOn
  <1> QED
    BY <1>5, <1>6, StaysAdvances, GoesOnAdvances DEF Calm, DataOrEnd

(* CLEANUP ends the thread.                                                *)
LEMMA OnCleanupAdvances ==
  ASSUME NEW iss \in Nat, NEW n \in Nat, NEW k \in Nat, NEW s, Agreed(s, iss, n, k)
  PROVE  Advances(s, OnCleanup(s), iss, n, k)
  <1> DEFINE In  == Carries(n, s.iss, k)
             Out == Carries(s.rnxt, iss, s.taken)
             t   == OnCleanup(s)
  <1>1. s \in BlockOf(In, Out)
    BY DEF Agreed, EndsAgree
  <1>2. t \in BlockOf(In, Out) /\ Still(s, t)
    <2> HIDE DEF In, Out
    <2> QED
      BY <1>1 DEF BlockOf, OnCleanup, Thread, Still, Unmoved, SameStream, Running
  <1> HIDE DEF t
  <1>3. GoesOn(s, t, iss, n, k) /\ Calm(s, t)
    BY <1>2, StillAgrees DEF GoesOn
  <1> QED
    BY <1>3, GoesOnAdvances DEF Calm, DataOrEnd, t

-----------------------------------------------------------------------------
(***************************************************************************)
(* The retransmission queue: whatever lies between SND_UNA and SND_NXT     *)
(* stays in it.                                                            *)
(***************************************************************************)

(* Every member that is not deleted from a queue is still in it.           *)
LEMMA PickComplete ==
  ASSUME NEW T, NEW q \in Seq(T), NEW I \in SUBSET DOMAIN q, NEW i \in I
  PROVE  \E k \in DOMAIN Pick(q, I) : Pick(q, I)[k] = q[i]
  <1> DEFINE Upto(j) == {l \in I : l <= j}
             k == Cardinality(Upto(i))
             At == CHOOSE j \in I : Cardinality(Upto(j)) = k
  <1>1. Len(q) \in Nat /\ DOMAIN q = 1 .. Len(q)
    BY LenProperties
  <1>2. I \in SUBSET Nat
    BY <1>1
  <1>3. IsFiniteSet(I) /\ Cardinality(I) \in Nat
    <2>1. IsFiniteSet(1 .. Len(q))
      BY <1>1, FS_Interval
    <2> QED
      BY <1>1, <2>1, FS_Subset, FS_CardinalityType
  <1>4. ASSUME NEW j \in I
        PROVE  /\ IsFiniteSet(Upto(j)) /\ Cardinality(Upto(j)) \in Nat
               /\ Cardinality(Upto(j)) \in 1 .. Cardinality(I)
    <2>1. Upto(j) \in SUBSET I /\ j \in Upto(j)
      BY <1>2
    <2>2. /\ IsFiniteSet(Upto(j)) /\ Cardinality(Upto(j)) \in Nat
          /\ Cardinality(Upto(j)) <= Cardinality(I)
      BY <1>3, <2>1, FS_Subset, FS_CardinalityType
    <2>3. Cardinality(Upto(j)) # 0
      BY <2>1, <2>2, FS_EmptySet
    <2> QED
      BY <1>3, <2>2, <2>3
  <1>5. ASSUME NEW a \in I, NEW b \in I, a < b
        PROVE  Cardinality(Upto(a)) # Cardinality(Upto(b))
    <2>1. \A j \in I : j <= a => j <= b
      BY <1>2, <1>5
    <2>2. b <= b /\ ~(b <= a)
      BY <1>2, <1>5
    <2>3. Upto(a) \in SUBSET Upto(b) /\ Upto(a) # Upto(b)
      BY <2>1, <2>2
    <2> QED
      BY <1>4, <2>3, FS_Subset
  <1>6. At \in I /\ Cardinality(Upto(At)) = k
    BY Zenon
  <1> HIDE DEF At
  <1>7. At = i
    <2>1. ~(At < i) /\ ~(i < At)
      BY <1>5, <1>6
    <2> QED
      BY <1>2, <1>6, <2>1
  <1>8. k \in 1 .. Cardinality(I)
    BY <1>4
  <1>9. Pick(q, I)[k] = q[At] /\ DOMAIN Pick(q, I) = 1 .. Cardinality(I)
    BY <1>8 DEF Pick, At
  <1> QED
    BY <1>7, <1>8, <1>9

(* Division with remainder.                                                *)
LEMMA Remainder ==
  ASSUME NEW x \in Nat, NEW c \in Nat \ {0}
  PROVE  /\ x % c \in Nat /\ x % c < c /\ x % c <= x
         /\ (x - (x % c)) % c = 0
  <1>1. x \div c \in Nat /\ x = ((x \div c) * c) + (x % c) /\ x % c \in Nat /\ x % c < c
    BY SMTT(60)
  <1>2. (x \div c) * c \in Nat
    BY <1>1, SMTT(60)
  <1>3. ((x \div c) * c) % c = 0
    <2>1. \A y \in Nat : (y * c) % c = 0
      BY SMTT(60)
    <2> QED
      BY <1>1, <2>1
  <1>4. PICK y \in Nat : y = (x \div c) * c
    BY <1>2
  <1>5. PICK r \in Nat : r = x % c
    BY <1>1
  <1>6. x = y + r /\ y % c = 0
    BY <1>1, <1>3, <1>4, <1>5
  <1>7. x - r = y /\ r <= x
    BY <1>6
  <1>8. (x - r) % c = 0
    BY <1>6, <1>7
  <1> QED
    BY <1>1, <1>5, <1>7, <1>8

(* The packets made of the send buffer carry every byte taken out of it.   *)
LEMMA ChunksComplete ==
  ASSUME NEW s, s.nxt \in Nat, NEW n \in Nat \ {0}, NEW k \in Nat \ {0},
         NEW m \in s.nxt .. s.nxt + n - 1
  PROVE  \E i \in DOMAIN Chunks(s, n, k) :
           LET g == Chunks(s, n, k)[i] IN g.seq <= m /\ m < g.seq + SegLen(g)
  <1> DEFINE seg(o) == MakeSegment(s, s.taken + o, Lesser(k, n - o + 1), FALSE, TRUE,
                                   s.nxt + o - 1, FALSE)
             all == [o \in 1 .. n |-> seg(o)]
             I == {o \in 1 .. n : (o - 1) % k = 0}
             T == {seg(o) : o \in 1 .. n}
  <1>1. PICK x \in Nat : m = s.nxt + x /\ x < n
    <2>1. m - s.nxt \in Nat /\ m = s.nxt + (m - s.nxt) /\ m - s.nxt < n
      OBVIOUS
    <2> QED
      BY <2>1
  <1>2. PICK r \in Nat : r < k /\ r <= x /\ (x - r) % k = 0
    BY Remainder
  <1>3. PICK o \in 1 .. n : o - 1 = x - r
    <2>1. x - r + 1 \in 1 .. n /\ x - r + 1 - 1 = x - r
      BY <1>1, <1>2
    <2> QED
      BY <2>1
  <1>4. o \in I
    BY <1>2, <1>3
  <1>5. all \in [1 .. n -> T] /\ all[o] = seg(o)
    OBVIOUS
  <1> HIDE DEF T, all
  <1>6. all \in Seq(T) /\ DOMAIN all = 1 .. n
    BY <1>5, SeqDef
  <1>7. I \in SUBSET DOMAIN all
    BY <1>6
  <1>8. Chunks(s, n, k) = Pick(all, I)
    BY DEF Chunks, all
  <1> HIDE DEF I, seg
  <1>9. PICK i \in DOMAIN Pick(all, I) : Pick(all, I)[i] = all[o]
    BY <1>4, <1>6, <1>7, PickComplete
  <1>10. PICK b \in Nat : b = n - o + 1 /\ b > r /\ x + b = n + r
    <2>1. n - o + 1 \in Nat /\ n - o + 1 > r /\ x + (n - o + 1) = n + r
      BY <1>1, <1>2, <1>3
    <2> QED
      BY <2>1
  <1>11. PICK l \in Nat : l = Lesser(k, n - o + 1) /\ l > r
    BY <1>2, <1>10 DEF Lesser
  <1>12. PICK f \in Nat : f = s.nxt + o - 1 /\ f + r = m
    <2>1. s.nxt + o - 1 \in Nat /\ (s.nxt + o - 1) + r = m
      BY <1>1, <1>3
    <2> QED
      BY <2>1
  <1>13. /\ seg(o).seq = f /\ seg(o).len = l
         /\ seg(o).syn = FALSE /\ seg(o).fin = FALSE
    BY <1>11, <1>12 DEF seg, MakeSegment
  <1>14. SegLen(seg(o)) = l
    BY <1>13 DEF SegLen, One
  <1>15. seg(o).seq <= m /\ m < seg(o).seq + SegLen(seg(o))
    BY <1>11, <1>12, <1>13, <1>14
  <1> QED
    BY <1>5, <1>8, <1>9, <1>15

(* What lies between SND_UNA and SND_NXT is queued in t if it is in s.     *)
Keeps(s, t) == Running(t) => Running(s) /\ (Backed(s) => Backed(t))

(* The queue and its two ends are the same.                                *)
SameQueue(s, t) ==
  /\ t.una = s.una /\ t.nxt = s.nxt /\ t.rtq = s.rtq
  /\ Running(t) => Running(s)

(* Keeps composes, as the calls of a handler do, and the same queue is     *)
(* kept.                                                                   *)
LEMMA KeepsTransitive ==
  ASSUME NEW s, NEW t, NEW u
  PROVE  /\ Keeps(s, t) /\ Keeps(t, u) => Keeps(s, u)
         /\ Keeps(s, s)
         /\ SameQueue(s, t) => Keeps(s, t)
  BY DEF Keeps, SameQueue, Backed

(* Arithmetic of the segments that are sent.                               *)
LEMMA SegLenType ==
  ASSUME NEW g \in Segment
  PROVE  g.seq \in Nat /\ SegLen(g) \in Nat
  BY DEF Segment, SegLen, One

(* A member of a queue of packets, and its sequence numbers.               *)
LEMMA QueueMember ==
  ASSUME NEW Out, Out \subseteq Segment, NEW q \in Seq(Member(Out)), NEW i \in DOMAIN q
  PROVE  /\ q[i].seg \in Segment /\ q[i].seg.seq \in Nat /\ SegLen(q[i].seg) \in Nat
         /\ i \in 1 .. Len(q) /\ Len(q) \in Nat
  <1>1. i \in 1 .. Len(q) /\ Len(q) \in Nat
    BY LenProperties
  <1>2. q[i] \in Member(Out)
    BY <1>1, ElementOfSeq
  <1>3. q[i].seg \in Segment
    BY <1>2 DEF Member
  <1> QED
    BY <1>1, <1>3, SegLenType

(* What is queued stays so when packets are added behind.                  *)
LEMMA QueuedAppended ==
  ASSUME NEW T, NEW q \in Seq(T), NEW r \in Seq(T), NEW n
  PROVE  Queued(q, n) \/ Queued(r, n) => Queued(q \o r, n)
  <1>1. /\ Len(q) \in Nat /\ Len(r) \in Nat /\ DOMAIN q = 1 .. Len(q)
        /\ DOMAIN r = 1 .. Len(r) /\ DOMAIN (q \o r) = 1 .. Len(q) + Len(r)
        /\ \A i \in 1 .. Len(q) : (q \o r)[i] = q[i]
        /\ \A i \in 1 .. Len(r) : (q \o r)[Len(q) + i] = r[i]
    <2>1. q \o r \in Seq(T) /\ Len(q \o r) = Len(q) + Len(r)
      BY ConcatProperties
    <2>2. Len(q) \in Nat /\ Len(r) \in Nat
      BY LenProperties
    <2>3. \A i \in 1 .. Len(q) : (q \o r)[i] = q[i]
      BY <2>2
    <2>4. \A i \in 1 .. Len(r) : (q \o r)[Len(q) + i] = r[i]
      BY <2>2
    <2> QED
      BY <2>1, <2>2, <2>3, <2>4, LenProperties
  <1>2. ASSUME NEW i \in DOMAIN q
        PROVE  i \in DOMAIN (q \o r) /\ (q \o r)[i] = q[i]
    BY <1>1
  <1>3. ASSUME NEW i \in DOMAIN r
        PROVE  Len(q) + i \in DOMAIN (q \o r) /\ (q \o r)[Len(q) + i] = r[i]
    BY <1>1
  <1> QED
    BY <1>2, <1>3 DEF Queued

(* chitcpd_update_tcp_state.                                               *)
LEMMA SetStateKeeps ==
  ASSUME NEW In, NEW Out, NEW s \in BlockOf(In, Out), NEW st
  PROVE  SameQueue(s, SetState(s, st))
  BY DEF BlockOf, SetState, SameQueue, Running

(* Packets that arrive out of order are none of ours.                      *)
LEMMA OopKeeps ==
  ASSUME NEW In, NEW Out, NEW s \in BlockOf(In, Out), NEW g
  PROVE  SameQueue(s, Stash(s, g)) /\ SameQueue(s, TakeFromOop(s))
  BY DEF BlockOf, Stash, TakeFromOop, SameQueue, Running

(* What is acknowledged need not be sent again.                            *)
LEMMA LaterUna ==
  ASSUME NEW In, NEW Out, NEW s \in BlockOf(In, Out), NEW ack \in Nat, s.una <= ack
  PROVE  LET u == [s EXCEPT !.una = ack]
         IN u \in BlockOf(In, Out) /\ Keeps(s, u)
  <1>1. s.una \in Nat /\ s.nxt \in Nat
    BY DEF BlockOf
  <1>2. PICK u : u = [s EXCEPT !.una = ack]
    OBVIOUS
  <1>3. /\ u \in BlockOf(In, Out)
        /\ u.una = ack /\ u.nxt = s.nxt /\ u.rtq = s.rtq /\ u.thr = s.thr
    BY <1>2 DEF BlockOf
  <1>4. ack .. s.nxt - 1 \subseteq s.una .. s.nxt - 1
    BY <1>1
  <1> QED
    BY <1>2, <1>3, <1>4 DEF Keeps, Backed, Running

(* process_q_after_ack drops packets wholly below SND_UNA.                 *)
LEMMA ProcessQKeeps ==
  ASSUME NEW In, NEW Out, Out \subseteq Segment, NEW s \in BlockOf(In, Out)
  PROVE  Keeps(s, ProcessQ(s))
  <1>1. CASE ~Running(s) \/ s.qlock
    BY <1>1 DEF ProcessQ, Keeps, Running, BlockOf
  <1>2. CASE Running(s) /\ ~s.qlock
    <2> DEFINE I == DOMAIN s.rtq \ Acked(s)
    <2>1. /\ s.rtq \in Seq(Member(Out)) /\ s.una \in Nat /\ s.nxt \in Nat
      BY DEF BlockOf
    <2>2. /\ ProcessQ(s).rtq = Pick(s.rtq, I)
          /\ ProcessQ(s).una = s.una /\ ProcessQ(s).nxt = s.nxt
      BY <1>2 DEF ProcessQ, BlockOf
    <2>3. ASSUME NEW m \in s.una .. s.nxt - 1, Queued(s.rtq, m)
          PROVE  Queued(Pick(s.rtq, I), m)
      <3>1. PICK i \in DOMAIN s.rtq :
              s.rtq[i].seg.seq <= m /\ m < s.rtq[i].seg.seq + SegLen(s.rtq[i].seg)
        BY <2>3 DEF Queued
      <3>2. s.rtq[i].seg.seq \in Nat /\ SegLen(s.rtq[i].seg) \in Nat
        BY <2>1, QueueMember
      <3>3. i \in I
        <4>1. ~(s.rtq[i].seg.seq + SegLen(s.rtq[i].seg) <= s.una)
          BY <2>1, <3>1, <3>2
        <4> QED
          BY <4>1 DEF Acked
      <3> HIDE DEF I
      <3>4. I \in SUBSET DOMAIN s.rtq
        BY DEF I
      <3>5. PICK k \in DOMAIN Pick(s.rtq, I) : Pick(s.rtq, I)[k] = s.rtq[i]
        BY <2>1, <3>3, <3>4, PickComplete
      <3> QED
        BY <3>1, <3>5 DEF Queued
    <2> QED
      BY <1>2, <2>2, <2>3 DEF Keeps, Backed
  <1> QED
    BY <1>1, <1>2

(* Rearming changes no packet.                                             *)
LEMMA RearmedQueued ==
  ASSUME NEW Out, NEW q \in Seq(Member(Out)), NEW n, Queued(q, n)
  PROVE  Queued(Rearmed(q), n)
  <1>1. PICK i \in DOMAIN q :
          q[i].seg.seq <= n /\ n < q[i].seg.seq + SegLen(q[i].seg)
    BY DEF Queued
  <1>2. q[i] \in Member(Out)
    <2>1. i \in 1 .. Len(q)
      BY LenProperties
    <2> QED
      BY <2>1, ElementOfSeq
  <1>3. i \in DOMAIN Rearmed(q) /\ Rearmed(q)[i].seg = q[i].seg
    BY <1>2 DEF Rearmed, Member
  <1> QED
    BY <1>1, <1>3 DEF Queued

(* process_timeout puts back what it sends again.                          *)
LEMMA ProcessTimeoutKeeps ==
  ASSUME NEW In, NEW Out, Out \subseteq Segment, NEW s \in BlockOf(In, Out)
  PROVE  Keeps(s, ProcessTimeout(s))
  <1> DEFINE again == Pick(s.rtq, Resent(s))
             rest == Pick(s.rtq, DOMAIN s.rtq \ Resent(s))
             t == [s EXCEPT
                    !.rtq  = rest \o Rearmed(again),
                    !.late = @ + Cardinality(Untimed(s, Resent(s))),
                    !.out  = @ \o Segments(again)]
  <1>1. CASE ProcessTimeout(s) # ProcessQ(t)
    <2>1. ProcessTimeout(s) \in {s, [s EXCEPT !.thr = "stuck"], [s EXCEPT !.qlock = TRUE]}
      BY <1>1 DEF ProcessTimeout
    <2> HIDE DEF t
    <2>2. SameQueue(s, ProcessTimeout(s))
      BY <2>1 DEF SameQueue, BlockOf, Running
    <2> QED
      BY <2>2, KeepsTransitive
  <1>2. CASE ProcessTimeout(s) = ProcessQ(t)
    <2>1. /\ s.rtq \in Seq(Member(Out)) /\ s.late \in Nat /\ s.out \in Seq(Out)
      BY DEF BlockOf
    <2>2. /\ Resent(s) \in SUBSET DOMAIN s.rtq
          /\ DOMAIN s.rtq \ Resent(s) \in SUBSET DOMAIN s.rtq
          /\ Untimed(s, Resent(s)) \in SUBSET DOMAIN s.rtq
      BY DEF Resent, Untimed
    <2>3. /\ again \in Seq(Member(Out)) /\ rest \in Seq(Member(Out))
          /\ Cardinality(Untimed(s, Resent(s))) \in Nat
      BY <2>1, <2>2, PickProperties
    <2>4. /\ Rearmed(again) \in Seq(Member(Out))
          /\ rest \o Rearmed(again) \in Seq(Member(Out))
          /\ s.late + Cardinality(Untimed(s, Resent(s))) \in Nat
          /\ s.out \o Segments(again) \in Seq(Out)
      BY <2>1, <2>3, RetransmissionTypes, ConcatProperties
    <2>5. ASSUME NEW m, Queued(s.rtq, m)
          PROVE  Queued(rest \o Rearmed(again), m)
      <3>1. PICK i \in DOMAIN s.rtq :
              s.rtq[i].seg.seq <= m /\ m < s.rtq[i].seg.seq + SegLen(s.rtq[i].seg)
        BY <2>5 DEF Queued
      <3>2. CASE i \in Resent(s)
        <4>1. PICK k \in DOMAIN again : again[k] = s.rtq[i]
          BY <2>1, <2>2, <3>2, PickComplete
        <4> HIDE DEF again, rest
        <4>2. Queued(again, m)
          BY <3>1, <4>1 DEF Queued
        <4>3. Queued(Rearmed(again), m)
          BY <2>3, <4>2, RearmedQueued
        <4> QED
          BY <2>3, <2>4, <4>3, QueuedAppended
      <3>3. CASE i \notin Resent(s)
        <4>1. i \in DOMAIN s.rtq \ Resent(s)
          BY <3>3
        <4>2. PICK k \in DOMAIN rest : rest[k] = s.rtq[i]
          BY <2>1, <2>2, <4>1, PickComplete
        <4> HIDE DEF again, rest
        <4>3. Queued(rest, m)
          BY <3>1, <4>2 DEF Queued
        <4> QED
          BY <2>3, <2>4, <4>3, QueuedAppended
      <3> QED
        BY <3>2, <3>3
    <2> HIDE DEF again, rest
    <2>6. /\ t \in BlockOf(In, Out) /\ t.rtq = rest \o Rearmed(again)
          /\ t.una = s.una /\ t.nxt = s.nxt /\ t.thr = s.thr
      BY <2>4 DEF BlockOf
    <2> HIDE DEF t
    <2>7. Keeps(s, t)
      BY <2>5, <2>6 DEF Keeps, Backed, Running
    <2>8. Keeps(t, ProcessQ(t))
      BY <2>6, ProcessQKeeps
    <2> QED
      BY <1>2, <2>7, <2>8, KeepsTransitive
  <1> QED
    BY <1>1, <1>2

(* A packet without payload leaves SND_NXT alone, and one with a SYN or a  *)
(* FIN is queued.                                                          *)
LEMMA SendKeeps ==
  ASSUME NEW In, NEW Out, Out \subseteq Segment, NEW s \in BlockOf(In, Out),
         NEW g \in Out, Empty(g)
  PROVE  /\ Keeps(s, Send(s, g))
         /\ Send(s, g).una = s.una /\ Send(s, g).nxt = s.nxt
         /\ Running(Send(s, g)) =>
              \A m \in g.seq .. g.seq + SegLen(g) - 1 : Queued(Send(s, g).rtq, m)
  <1> DEFINE member == [seg |-> g, due |-> FALSE]
  <1>1. s.rtq \in Seq(Member(Out)) /\ s.nxt \in Nat /\ g \in Segment
    BY DEF BlockOf
  <1>2. member \in Member(Out) /\ member.seg = g
    BY DEF Member
  <1>3. g.seq \in Nat /\ SegLen(g) \in Nat /\ s.nxt + g.len = s.nxt
    BY <1>1, SegLenType DEF Empty
  <1> HIDE DEF member, Member
  <1>4. /\ <<member>> \in Seq(Member(Out)) /\ Append(s.rtq, member) = s.rtq \o <<member>>
        /\ DOMAIN <<member>> = {1} /\ <<member>>[1] = member
    BY <1>1, <1>2
  <1>5. PICK t : t = Send(s, g)
    OBVIOUS
  <1>6. /\ t.una = s.una /\ t.nxt = s.nxt /\ (Running(t) => Running(s))
        /\ Running(t) => \/ t.rtq = s.rtq /\ ~(SegLen(g) > 0)
                         \/ t.rtq = s.rtq \o <<member>>
    <2>1. PICK x : x = s.rtq \o <<member>>
      OBVIOUS
    <2>2. PICK sent \in BlockOf(In, Out) :
             /\ sent = [s EXCEPT !.out = Append(@, g)]
             /\ sent.rtq = s.rtq /\ sent.nxt = s.nxt /\ sent.una = s.una
             /\ sent.qlock = s.qlock /\ sent.thr = s.thr
      <3>0. s.out \in Seq(Out) /\ Append(s.out, g) \in Seq(Out)
        BY DEF BlockOf
      <3>1. PICK out \in Seq(Out) : out = Append(s.out, g)
        BY <3>0
      <3> HIDE DEF Member
      <3>2. PICK sent : sent = [s EXCEPT !.out = out]
        OBVIOUS
      <3>3. /\ sent \in BlockOf(In, Out)
            /\ sent.rtq = s.rtq /\ sent.nxt = s.nxt /\ sent.una = s.una
            /\ sent.qlock = s.qlock /\ sent.thr = s.thr
        BY <3>2 DEF BlockOf
      <3> QED
        BY <3>1, <3>2, <3>3
    <2>3. PICK kept : kept = IF SegLen(g) > 0 THEN Enqueue(sent, g) ELSE sent
      OBVIOUS
    <2>4. /\ kept.una = s.una /\ kept.nxt = s.nxt
          /\ Running(kept) => \/ kept.rtq = s.rtq /\ ~(SegLen(g) > 0)
                              \/ kept.rtq = x
          /\ kept = [kept EXCEPT !.nxt = s.nxt]
      <3>1. CASE SegLen(g) > 0 /\ sent.qlock
        <4>1. kept = [sent EXCEPT !.thr = "stuck"]
          BY <2>3, <3>1 DEF Enqueue
        <4> QED
          BY <2>2, <4>1 DEF BlockOf, Running
      <3>2. CASE SegLen(g) > 0 /\ ~sent.qlock
        <4>1. kept = [sent EXCEPT !.rtq = x]
          BY <1>4, <2>1, <2>2, <2>3, <3>2 DEF Enqueue, member
        <4> QED
          BY <2>2, <4>1 DEF BlockOf
      <3>3. CASE ~(SegLen(g) > 0)
        <4>1. kept = sent
          BY <2>3, <3>3
        <4> QED
          BY <2>2, <3>3, <4>1 DEF BlockOf
      <3> QED
        BY <3>1, <3>2, <3>3
    <2>5. t = IF ~Running(s) THEN s
              ELSE IF Running(kept) THEN [kept EXCEPT !.nxt = kept.nxt + g.len] ELSE kept
      BY <1>5, <2>2, <2>3 DEF Send
    <2>6. (t = kept /\ Running(s)) \/ (t = s /\ ~Running(s))
      BY <1>3, <2>4, <2>5
    <2>7. CASE t = s /\ ~Running(s)
      BY <2>7
    <2>8. CASE t = kept /\ Running(s)
      BY <2>1, <2>4, <2>8
    <2> QED
      BY <2>6, <2>7, <2>8
  <1>7. \A m : Queued(s.rtq, m) => Queued(s.rtq \o <<member>>, m)
    BY <1>1, <1>4, QueuedAppended
  <1>8. Keeps(s, t)
    BY <1>6, <1>7 DEF Keeps, Backed
  <1>9. ASSUME NEW m \in g.seq .. g.seq + SegLen(g) - 1, Running(t)
        PROVE  Queued(t.rtq, m)
    <2>0. m \in Nat /\ g.seq <= m /\ m < g.seq + SegLen(g)
      BY <1>3
    <2>1. Queued(<<member>>, m)
      BY <1>2, <1>4, <2>0 DEF Queued
    <2>2. SegLen(g) > 0
      BY <1>3, <2>0
    <2> QED
      <3>1. Queued(s.rtq \o <<member>>, m)
        BY <1>1, <1>4, <2>1, QueuedAppended
      <3> QED
        BY <1>6, <1>9, <2>2, <3>1
  <1> QED
    BY <1>5, <1>6, <1>8, <1>9

(* A Sound block is a Block, and what the peer can have sent is a segment. *)
LEMMA SoundIsBlock ==
  ASSUME NEW iss, NEW w, NEW c, NEW s, Sound(s, iss, w, c)
  PROVE  s \in BlockOf(Segment, Segment) /\ SentBy(iss, w, c) \subseteq Segment
  <1>1. /\ SentBy(iss, w, c) \subseteq Segment
        /\ SentBy(s.iss, s.wrote, s.closing) \subseteq Segment
    BY DEF SentBy
  <1>2. s \in BlockOf(SentBy(iss, w, c), SentBy(s.iss, s.wrote, s.closing))
    BY DEF Sound
  <1> QED
    BY <1>1, <1>2, BlockMonotonic

(* Acknowledgements, SYN and FIN.                                          *)
LEMMA ControlKeeps ==
  ASSUME NEW s \in BlockOf(Segment, Segment), NEW hasack \in BOOLEAN
  PROVE  /\ Keeps(s, SendAck(s)) /\ SendAck(s) \in BlockOf(Segment, Segment)
         /\ Keeps(s, SendSyn(s, hasack))
         /\ SendSyn(s, hasack) \in BlockOf(Segment, Segment)
         /\ SendSyn(s, hasack).una = s.una /\ SendSyn(s, hasack).nxt = s.nxt
         /\ Running(SendSyn(s, hasack)) => Queued(SendSyn(s, hasack).rtq, s.iss)
         /\ Keeps(s, SendFin(s))
  <1> DEFINE ack == MakeSegment(s, 0, 0, FALSE, TRUE, s.nxt, FALSE)
             syn == MakeSegment(s, 0, 0, FALSE, hasack, s.iss, TRUE)
             fin == MakeSegment(s, 0, 0, TRUE, TRUE, s.nxt, FALSE)
  <1>1. /\ ack \in Segment /\ Empty(ack)
        /\ syn \in Segment /\ Empty(syn) /\ syn.seq = s.iss /\ syn.syn /\ ~syn.fin
        /\ fin \in Segment /\ Empty(fin)
    BY BlockFields DEF MakeSegment, Segment, Empty
  <1>2. SendAck(s) = Send(s, ack) /\ SendSyn(s, hasack) = Send(s, syn)
    BY DEF SendAck, SendSyn
  <1>3. \/ SendFin(s) \in {s, Send(s, fin)}
        \/ SendFin(s) = [Send(s, fin) EXCEPT !.finsent = TRUE]
    BY DEF SendFin
  <1> HIDE DEF ack, syn, fin
  <1>4. /\ Keeps(s, Send(s, ack)) /\ Send(s, ack) \in BlockOf(Segment, Segment)
        /\ Keeps(s, Send(s, syn)) /\ Send(s, syn) \in BlockOf(Segment, Segment)
        /\ Send(s, syn).una = s.una /\ Send(s, syn).nxt = s.nxt
        /\ Keeps(s, Send(s, fin)) /\ Send(s, fin) \in BlockOf(Segment, Segment)
    BY <1>1, SendKeeps, SendEmpty
  <1>5. Running(Send(s, syn)) => Queued(Send(s, syn).rtq, s.iss)
    <2>1. SegLen(syn) = 1
      BY <1>1 DEF SegLen, One, Empty
    <2>2. s.iss \in syn.seq .. syn.seq + SegLen(syn) - 1
      BY <1>1, <2>1, BlockFields
    <2> QED
      BY <1>1, <2>2, SendKeeps
  <1>6. Keeps(s, SendFin(s))
    <2>1. CASE SendFin(s) = [Send(s, fin) EXCEPT !.finsent = TRUE]
      <3>1. SameQueue(Send(s, fin), SendFin(s))
        BY <1>4, <2>1 DEF SameQueue, BlockOf, Running
      <3> QED
        BY <1>4, <3>1, KeepsTransitive
    <2> QED
      BY <1>3, <1>4, <2>1, KeepsTransitive
  <1> QED
    BY <1>2, <1>4, <1>5, <1>6

(* What process_send_buffer takes out of the send buffer is queued.        *)
LEMMA ProcessSendBufferKeeps ==
  ASSUME NEW iss, NEW w, NEW c, NEW s, Sound(s, iss, w, c)
  PROVE  Keeps(s, ProcessSendBuffer(s))
  <1> DEFINE n    == Lesser(Unsent(s), s.wnd)
             room == s.wnd - (s.nxt - s.una)
             k    == Lesser(MSS, room)
             gs   == Chunks(s, n, k)
             t    == ProcessSendBuffer(s)
             Out  == SentBy(s.iss, s.wrote, s.closing)
  <1>1. CASE ~Running(t) \/ ~Running(s) \/ n = 0
    BY <1>1, KeepsTransitive DEF ProcessSendBuffer, Keeps
  <1>2. CASE Running(t) /\ Running(s) /\ n # 0
    <2>1. n \in 1 .. Unsent(s) /\ n \in Nat \ {0} /\ room \in Int
      BY <1>2, SoundFields, SMTT(30) DEF Lesser
    <2>2. /\ s \in BlockOf(Segment, Segment)
          /\ s.una \in Nat /\ s.nxt \in Nat /\ s.rtq \in Seq(Member(Segment))
      <3>1. s \in BlockOf(Segment, Segment)
        BY SoundIsBlock
      <3> QED
        BY <3>1 DEF BlockOf
    <2>3. room > 0 /\ ~s.qlock
      <3>1. CASE room = 0
        <4>1. t.thr = "spin"
          BY <1>2, <2>2, <3>1 DEF ProcessSendBuffer, BlockOf
        <4> QED
          BY <1>2, <4>1 DEF Running
      <3>2. CASE room < 0
        <4>1. t.thr = "crash"
          BY <1>2, <2>1, <2>2, <3>2 DEF ProcessSendBuffer, BlockOf
        <4> QED
          BY <1>2, <4>1 DEF Running
      <3>3. CASE room > 0 /\ s.qlock
        <4>1. t = [[s EXCEPT !.taken = @ + n] EXCEPT !.thr = "stuck", !.out = Append(@, gs[1])]
          BY <1>2, <2>1, <3>3 DEF ProcessSendBuffer
        <4> HIDE DEF t, n, gs
        <4>2. t.thr = "stuck"
          BY <2>2, <4>1 DEF BlockOf
        <4> QED
          BY <1>2, <4>2 DEF Running
      <3> QED
        BY <2>1, <3>1, <3>2, <3>3
    <2>4. k \in Nat \ {0}
      BY <2>1, <2>3, TcbAssumption DEF Lesser
    <2>5. gs \in Seq(Segment)
      <3>1. gs \in Seq(Out)
        BY <1>2, <2>1, <2>4, ChunksProperties
      <3>2. Out \subseteq Segment
        BY DEF SentBy
      <3> QED
        BY <3>1, <3>2, SeqMonotonic
    <2>6. t = [s EXCEPT !.taken = @ + n, !.out = @ \o gs, !.rtq = @ \o Fresh(gs),
                        !.nxt = @ + n]
      BY <1>2, <2>1, <2>3 DEF ProcessSendBuffer
    <2>7. ASSUME NEW m \in s.nxt .. s.nxt + n - 1
          PROVE  Queued(Fresh(gs), m)
      <3>1. PICK i \in DOMAIN gs : gs[i].seq <= m /\ m < gs[i].seq + SegLen(gs[i])
        BY <2>1, <2>2, <2>4, ChunksComplete
      <3> HIDE DEF gs
      <3> QED
        BY <3>1 DEF Queued, Fresh
    <2> HIDE DEF gs, k, room, n
    <2>8. Fresh(gs) \in Seq(Member(Segment))
      <3>1. Len(gs) \in Nat /\ DOMAIN gs = 1 .. Len(gs)
        BY <2>5, LenProperties
      <3>2. \A i \in 1 .. Len(gs) : gs[i] \in Segment
        BY <2>5, ElementOfSeq
      <3>3. Fresh(gs) \in [1 .. Len(gs) -> Member(Segment)]
        BY <3>1, <3>2 DEF Fresh, Member
      <3> QED
        BY <3>1, <3>3, SeqDef
    <2>9. t.una = s.una /\ t.nxt = s.nxt + n /\ t.rtq = s.rtq \o Fresh(gs)
      BY <2>2, <2>6 DEF BlockOf
    <2>10. ASSUME Backed(s), NEW m \in t.una .. t.nxt - 1
           PROVE  Queued(t.rtq, m)
      <3>1. Queued(s.rtq, m) \/ Queued(Fresh(gs), m)
        <4>1. m \in s.una .. s.nxt - 1 \/ m \in s.nxt .. s.nxt + n - 1
          BY <2>1, <2>2, <2>9
        <4> QED
          BY <2>7, <2>10, <4>1 DEF Backed
      <3> QED
        BY <2>2, <2>8, <2>9, <3>1, QueuedAppended
    <2> QED
      BY <1>2, <2>10 DEF Keeps, Backed
  <1> QED
    BY <1>1, <1>2

(* process_q_after_ack after an acknowledgement that is not old.           *)
LEMMA AckedKeeps ==
  ASSUME NEW s \in BlockOf(Segment, Segment), NEW ack \in Nat, s.una <= ack
  PROVE  LET u == ProcessQ([s EXCEPT !.una = ack])
         IN u \in BlockOf(Segment, Segment) /\ Keeps(s, u)
  BY LaterUna, ProcessQKeeps, ProcessQProperties, KeepsTransitive

(* The acknowledgement of any packet of the peer.                          *)
LEMMA AckStepKeeps ==
  ASSUME NEW s \in BlockOf(Segment, Segment), NEW g \in Segment, NEW st
  PROVE  Keeps(s, AckStep(s, g, st))
  <1> DEFINE a == ProcessQ([s EXCEPT !.una = g.ack])
  <1>1. g.ack \in Nat /\ s.una \in Nat
    BY DEF Segment, BlockOf
  <1>2. s.una <= g.ack => a \in BlockOf(Segment, Segment) /\ Keeps(s, a)
    BY <1>1, AckedKeeps
  <1>3. \/ AckStep(s, g, st) = s
        \/ s.una <= g.ack /\ AckStep(s, g, st) = a
        \/ \E x : AckStep(s, g, st) = SetState(s, x)
        \/ s.una <= g.ack /\ \E x : AckStep(s, g, st) = SetState(a, x)
    <2>1. s.una < g.ack => s.una <= g.ack
      BY <1>1
    <2> HIDE DEF a
    <2> QED
      BY <2>1 DEF AckStep, a
  <1> HIDE DEF a
  <1>4. ASSUME NEW u \in BlockOf(Segment, Segment), NEW x
        PROVE  Keeps(u, SetState(u, x))
    BY SetStateKeeps, KeepsTransitive
  <1> QED
    BY <1>2, <1>3, <1>4, KeepsTransitive

(* The receiving side leaves the retransmission queue alone.               *)
LEMMA ReceivingKeeps ==
  ASSUME NEW s \in BlockOf(Segment, Segment), NEW g
  PROVE  SameQueue(s, Deliver(s, g)) /\ SameQueue(s, Synchronize(s, g))
  BY DEF BlockOf, Deliver, Synchronize, SameQueue, Running

(* The FIN of the peer is acknowledged.                                    *)
LEMMA FinStepKeeps ==
  ASSUME NEW s \in BlockOf(Segment, Segment), NEW g, NEW st
  PROVE  Keeps(s, FinStep(s, g, st))
  <1>1. SendAck(s) \in BlockOf(Segment, Segment) /\ Keeps(s, SendAck(s))
    BY ControlKeeps
  <1>2. \/ FinStep(s, g, st) = s
        \/ FinStep(s, g, st) = [s EXCEPT !.eof = TRUE]
        \/ \E x \in TcpState : FinStep(s, g, st) = [SetState(SendAck(s), x) EXCEPT !.eof = TRUE]
    BY DEF FinStep, TcpState
  <1>3. CASE FinStep(s, g, st) = [s EXCEPT !.eof = TRUE]
    <2>1. SameQueue(s, FinStep(s, g, st))
      BY <1>3 DEF SameQueue, BlockOf, Running
    <2> QED
      BY <2>1, KeepsTransitive
  <1>4. ASSUME NEW x \in TcpState,
               FinStep(s, g, st) = [SetState(SendAck(s), x) EXCEPT !.eof = TRUE]
        PROVE  Keeps(s, FinStep(s, g, st))
    <2>1. PICK a \in BlockOf(Segment, Segment) : a = SendAck(s) /\ Keeps(s, a)
      BY <1>1
    <2>2. PICK u \in BlockOf(Segment, Segment) : u = SetState(a, x) /\ SameQueue(a, u)
      BY SetStateProperties, SetStateKeeps
    <2>3. SameQueue(u, FinStep(s, g, st))
      BY <1>4, <2>1, <2>2 DEF SameQueue, BlockOf, Running
    <2> QED
      BY <2>1, <2>2, <2>3, KeepsTransitive
  <1> QED
    BY <1>2, <1>3, <1>4, KeepsTransitive

(* The next segment in sequence.                                           *)
LEMMA InOrderKeeps ==
  ASSUME NEW iss \in Nat, NEW w \in Nat, NEW c \in BOOLEAN,
         NEW s, Sound(s, iss, w, c), Opened(s, iss),
         NEW g \in SentBy(iss, w, c), g.seq = s.rnxt
  PROVE  Keeps(s, InOrder(s, g))
  <1> DEFINE st == s.state
             a == AckStep(s, g, st)
             b == TextStep(a, g, st)
             f == FinStep(b, g, st)
  <1>1. InOrder(s, g) \in
          {TakeFromOop(s), SendAck(s), SetState(s, "CLOSED"), TakeFromOop(f)}
    BY DEF InOrder
  <1>2. s \in BlockOf(Segment, Segment) /\ g \in Segment
    BY SoundIsBlock
  <1>3. ASSUME NEW u \in BlockOf(Segment, Segment)
        PROVE  Keeps(u, TakeFromOop(u)) /\ Keeps(u, SetState(u, "CLOSED"))
               /\ Keeps(u, SendAck(u))
    BY OopKeeps, SetStateKeeps, ControlKeeps, KeepsTransitive
  <1> HIDE DEF st
  <1>4. Follows(s, a, iss, w, c) /\ a.rnxt = s.rnxt
    BY AckStepSound
  <1>5. Keeps(s, a)
    BY <1>2, AckStepKeeps
  <1>6. Sound(a, iss, w, c) /\ Opened(a, iss) /\ g.seq = a.rnxt
    BY <1>4 DEF Follows
  <1> HIDE DEF a
  <1>7. /\ Follows(a, b, iss, w, c)
        /\ ~(g.len > 0) => b = a
    BY <1>6, TextStepSound
  <1>8. Keeps(a, b)
    <2>1. CASE b = a
      BY <2>1, KeepsTransitive
    <2>2. CASE b # a
      <3>1. g.len > 0 /\ b = SendAck(Deliver(a, g))
        BY <2>2 DEF TextStep
      <3>2. Follows(a, Deliver(a, g), iss, w, c)
        BY <1>6, <3>1, DeliverSound
      <3>3. /\ Deliver(a, g) \in BlockOf(Segment, Segment)
            /\ a \in BlockOf(Segment, Segment)
        BY <1>6, <3>2, SoundIsBlock DEF Follows
      <3>4. Keeps(a, Deliver(a, g))
        BY <3>3, ReceivingKeeps, KeepsTransitive
      <3>5. Keeps(Deliver(a, g), SendAck(Deliver(a, g)))
        BY <1>3, <3>3
      <3> QED
        BY <3>1, <3>4, <3>5, KeepsTransitive
    <2> QED
      BY <2>1, <2>2
  <1> HIDE DEF b
  <1>9. Sound(b, iss, w, c) /\ Opened(b, iss) /\ b \in BlockOf(Segment, Segment)
    BY <1>6, <1>7, SoundIsBlock DEF Follows
  <1>10. g.fin => g.seq = b.rnxt
    <2>1. g.fin => ~(g.len > 0)
      BY DEF SentBy
    <2> QED
      BY <1>6, <1>7, <2>1
  <1>11. Follows(b, f, iss, w, c)
    BY <1>9, <1>10, FinStepSound
  <1>12. Keeps(b, f)
    BY <1>9, FinStepKeeps
  <1> HIDE DEF f
  <1>13. f \in BlockOf(Segment, Segment)
    BY <1>11, SoundIsBlock DEF Follows
  <1>14. Keeps(s, TakeFromOop(f))
    BY <1>3, <1>5, <1>8, <1>12, <1>13, KeepsTransitive
  <1> QED
    BY <1>1, <1>2, <1>3, <1>14

(* What a handler makes of the retransmission queue: before the handshake  *)
(* SND_NXT stays where it is until the SYN is queued.                      *)
Backs(s, t) ==
  Running(t) =>
    /\ Running(s)
    /\ IF s.state \in {"CLOSED", "LISTEN"}
       THEN t.nxt = s.nxt /\ (t.state = s.state \/ Backed(t))
       ELSE Backed(s) => Backed(t)

(* The SYN has yet to be sent.                                             *)
Unsynced(s) == s.una = s.iss /\ s.nxt = s.iss + 1

(* A SYN covers all that there is in the beginning.                        *)
LEMMA SynBacks ==
  ASSUME NEW s \in BlockOf(Segment, Segment), Unsynced(s), NEW hasack \in BOOLEAN, NEW x
  PROVE  LET t == SetState(SendSyn(s, hasack), x)
         IN t.nxt = s.nxt /\ (Running(t) => Running(s) /\ Backed(t))
  <1>1. PICK u \in BlockOf(Segment, Segment) : u = SendSyn(s, hasack)
    BY ControlKeeps
  <1>2. /\ u.una = s.una /\ u.nxt = s.nxt
        /\ Running(u) => Running(s) /\ Queued(u.rtq, s.iss)
    BY <1>1, ControlKeeps DEF Keeps
  <1>3. PICK t : t = SetState(u, x)
    OBVIOUS
  <1>4. t.una = u.una /\ t.nxt = u.nxt /\ t.rtq = u.rtq /\ (Running(t) => Running(u))
    BY <1>3, SetStateKeeps DEF SameQueue
  <1>5. \A m \in s.una .. s.nxt - 1 : m = s.iss
    BY BlockFields DEF Unsynced
  <1> QED
    BY <1>1, <1>2, <1>3, <1>4, <1>5 DEF Backed

(* The SYN that a server gets.                                             *)
LEMMA HandleListenBacks ==
  ASSUME NEW iss \in Nat, NEW w \in Nat, NEW c \in BOOLEAN,
         NEW s, Sound(s, iss, w, c), StateSound(s, iss), s.state = "LISTEN",
         Running(s) => Unsynced(s), NEW g \in SentBy(iss, w, c)
  PROVE  Backs(s, HandleListen(s, g))
  <1>1. CASE ~g.syn \/ ~Running(s)
    <2>1. CASE ~g.syn
      BY <2>1 DEF HandleListen, Backs
    <2>2. CASE g.syn /\ ~Running(s)
      <3>1. s \in BlockOf(Segment, Segment)
        BY SoundIsBlock
      <3>2. PICK t : t = Synchronize(s, g)
        OBVIOUS
      <3>3. ~Running(t)
        BY <2>2, <3>1, <3>2 DEF Synchronize, Running, BlockOf
      <3>4. SetState(SendSyn(t, TRUE), "SYN_RCVD") = t
        BY <3>3 DEF SendSyn, Send, SetState
      <3>5. HandleListen(s, g) = t
        BY <2>2, <3>2, <3>4 DEF HandleListen
      <3> QED
        BY <3>3, <3>5 DEF Backs
    <2> QED
      BY <1>1, <2>1, <2>2
  <1>2. CASE g.syn /\ Running(s)
    <2>1. Len(s.got) = 0 /\ "APPLICATION_CONNECT" \notin s.flags
      BY DEF StateSound
    <2>2. PICK t : t = Synchronize(s, g)
      OBVIOUS
    <2>3. Sound(t, iss, w, c)
      BY <1>2, <2>1, <2>2, SynchronizeSound
    <2>4. s \in BlockOf(Segment, Segment) /\ t \in BlockOf(Segment, Segment)
      BY <2>3, SoundIsBlock
    <2>5. SameQueue(s, t) /\ t.iss = s.iss
      BY <2>2, <2>4, ReceivingKeeps DEF Synchronize, BlockOf
    <2>6. Unsynced(t)
      BY <1>2, <2>5 DEF Unsynced, SameQueue
    <2>7. HandleListen(s, g) = SetState(SendSyn(t, TRUE), "SYN_RCVD")
      BY <1>2, <2>2 DEF HandleListen
    <2>8. /\ HandleListen(s, g).nxt = t.nxt
          /\ Running(HandleListen(s, g)) => Backed(HandleListen(s, g))
      <3>1. PICK u : u = SetState(SendSyn(t, TRUE), "SYN_RCVD")
        OBVIOUS
      <3>2. u.nxt = t.nxt /\ (Running(u) => Backed(u))
        BY <2>4, <2>6, <3>1, SynBacks
      <3> QED
        BY <2>7, <3>1, <3>2
    <2> QED
      BY <1>2, <2>5, <2>8 DEF Backs, SameQueue
  <1> QED
    BY <1>1, <1>2

(* The SYN that a client gets for its own.                                 *)
LEMMA HandleSynSentKeeps ==
  ASSUME NEW iss \in Nat, NEW w \in Nat, NEW c \in BOOLEAN,
         NEW s, Sound(s, iss, w, c), StateSound(s, iss), s.state = "SYN_SENT",
         NEW g \in SentBy(iss, w, c)
  PROVE  Keeps(s, HandleSynSent(s, g))
  <1> DEFINE a == ProcessQ([s EXCEPT !.una = g.ack])
             b == Synchronize(a, g)
             e == SetState(b, "ESTABLISHED")
             r == SetState(b, "SYN_RCVD")
  <1>1. g.ack \in Nat /\ s \in BlockOf(Segment, Segment)
    BY SoundIsBlock DEF SentBy, Segment
  <1>2. Follows(s, a, iss, w, c) /\ Unmoved(s, a)
    BY <1>1, ProcessQSound
  <1>3. s.una <= g.ack => Keeps(s, a) /\ a \in BlockOf(Segment, Segment)
    BY <1>1, AckedKeeps
  <1>4. HandleSynSent(s, g) = s \/
          (s.una <= g.ack /\ g.syn /\
             IF Running(a)
             THEN HandleSynSent(s, g) \in {SendAck(e), SendSyn(r, TRUE)}
             ELSE HandleSynSent(s, g) = a)
    <2>1. CASE Running(a)
      BY <2>1 DEF HandleSynSent
    <2>2. CASE ~Running(a)
      <3>1. SetState(a, "ESTABLISHED") = a /\ SetState(a, "SYN_RCVD") = a
        BY <2>2 DEF SetState
      <3>2. SendAck(a) = a /\ SendSyn(a, TRUE) = a
        BY <2>2 DEF SendAck, SendSyn, Send
      <3> QED
        BY <2>2, <3>1, <3>2 DEF HandleSynSent
    <2> QED
      BY <2>1, <2>2
  <1> HIDE DEF a
  <1>5. ASSUME s.una <= g.ack, g.syn,
               HandleSynSent(s, g) \in {SendAck(e), SendSyn(r, TRUE)}
        PROVE  Keeps(s, HandleSynSent(s, g))
    <2>1. Len(a.got) = 0 /\ "APPLICATION_CONNECT" \notin a.flags
      BY <1>2 DEF StateSound, Unmoved, SameStream
    <2>2. Sound(a, iss, w, c)
      BY <1>2 DEF Follows
    <2>3. Sound(b, iss, w, c)
      BY <1>5, <2>1, <2>2, SynchronizeSound
    <2>4. Keeps(a, b) /\ b \in BlockOf(Segment, Segment)
      BY <1>3, <1>5, <2>3, SoundIsBlock, ReceivingKeeps, KeepsTransitive
    <2> HIDE DEF b
    <2>5. /\ e \in BlockOf(Segment, Segment) /\ Keeps(b, e)
          /\ r \in BlockOf(Segment, Segment) /\ Keeps(b, r)
      BY <2>4, SetStateProperties, SetStateKeeps, KeepsTransitive DEF TcpState
    <2> HIDE DEF e, r
    <2>6. Keeps(e, SendAck(e)) /\ Keeps(r, SendSyn(r, TRUE))
      BY <2>5, ControlKeeps
    <2> QED
      BY <1>3, <1>5, <2>4, <2>5, <2>6, KeepsTransitive
  <1> HIDE DEF e, r, b
  <1>6. \/ HandleSynSent(s, g) = s
        \/ s.una <= g.ack /\ HandleSynSent(s, g) = a
        \/ /\ s.una <= g.ack /\ g.syn
           /\ HandleSynSent(s, g) \in {SendAck(e), SendSyn(r, TRUE)}
    BY <1>4
  <1>7. Keeps(s, s)
    BY KeepsTransitive
  <1> QED
    BY <1>3, <1>5, <1>6, <1>7

(* chitcpd_tcp_handle_packet, whatever the packet.                         *)
LEMMA HandlePacketBacks ==
  ASSUME NEW iss \in Nat, NEW w \in Nat, NEW c \in BOOLEAN,
         NEW s, Sound(s, iss, w, c), StateSound(s, iss), s.pend # <<>>,
         Running(s) /\ s.state = "LISTEN" => Unsynced(s)
  PROVE  Backs(s, HandlePacket(s))
  <1> DEFINE g   == Head(s.pend)
             a   == [s EXCEPT !.pend = Tail(@), !.wnd = g.wnd]
             In  == SentBy(iss, w, c)
             Out == SentBy(s.iss, s.wrote, s.closing)
  <1>1. s \in BlockOf(In, Out)
    BY DEF Sound
  <1>2. s.pend \in Seq(In)
    BY <1>1 DEF BlockOf
  <1>3. g \in In /\ Tail(s.pend) \in Seq(In)
    BY <1>2, HeadTailProperties
  <1>4. g.wnd \in Nat
    BY <1>3 DEF SentBy, Segment
  <1>5. a \in BlockOf(In, Out) /\ Unmoved(s, a) /\ SameQueue(s, a) /\ a.thr = s.thr
    <2> HIDE DEF g, In, Out
    <2> QED
      BY <1>1, <1>3, <1>4 DEF BlockOf, Unmoved, SameStream, SameQueue, Running
  <1>6. Follows(s, a, iss, w, c) /\ StateSound(a, iss)
    BY <1>5, UnmovedFollows
  <1>7. Sound(a, iss, w, c) /\ a.state = s.state /\ a.iss = s.iss
    BY <1>5, <1>6 DEF Follows, Unmoved, SameStream
  <1>8. HandlePacket(s) =
          CASE s.state = "CLOSED" -> a
            [] s.state = "LISTEN" -> HandleListen(a, g)
            [] s.state = "SYN_SENT" -> HandleSynSent(a, g)
            [] OTHER -> IF a.rwnd = 0 /\ SegLen(g) > 0 THEN SendAck(a)
                        ELSE IF g.seq = a.rnxt THEN InOrder(a, g)
                        ELSE IF InWindow(a, g) THEN Stash(a, g)
                        ELSE a
    BY DEF HandlePacket
  <1> HIDE DEF a, g
  <1>9. a \in BlockOf(Segment, Segment) /\ Keeps(s, a)
    BY <1>5, <1>7, SoundIsBlock, KeepsTransitive
  <1>10. ASSUME Keeps(a, HandlePacket(s)), s.state \notin {"CLOSED", "LISTEN"}
         PROVE  Backs(s, HandlePacket(s))
    BY <1>9, <1>10, KeepsTransitive DEF Backs, Keeps
  <1>11. CASE s.state = "CLOSED"
    BY <1>5, <1>7, <1>8, <1>11 DEF Backs, SameQueue
  <1>12. CASE s.state = "LISTEN"
    <2>1. HandlePacket(s) = HandleListen(a, g)
      BY <1>8, <1>12
    <2>2. Running(a) => Unsynced(a)
      BY <1>5, <1>7, <1>12 DEF Unsynced, SameQueue
    <2>3. Backs(a, HandlePacket(s))
      BY <1>3, <1>6, <1>7, <1>12, <2>1, <2>2, HandleListenBacks
    <2> QED
      BY <1>5, <1>7, <1>12, <2>3 DEF Backs, SameQueue
  <1>13. CASE s.state = "SYN_SENT"
    <2>1. HandlePacket(s) = HandleSynSent(a, g)
      BY <1>8, <1>13
    <2>2. Keeps(a, HandleSynSent(a, g))
      BY <1>3, <1>6, <1>7, <1>13, HandleSynSentKeeps
    <2> QED
      BY <1>10, <1>13, <2>1, <2>2
  <1>14. CASE s.state \notin {"CLOSED", "LISTEN", "SYN_SENT"}
    <2>1. Opened(a, iss)
      BY <1>6, <1>7, <1>14, OpenedStateSound
    <2>2. \/ HandlePacket(s) \in {a, SendAck(a), Stash(a, g)}
          \/ g.seq = a.rnxt /\ HandlePacket(s) = InOrder(a, g)
      BY <1>8, <1>14
    <2>3. Keeps(a, a) /\ Keeps(a, SendAck(a)) /\ Keeps(a, Stash(a, g))
      BY <1>9, ControlKeeps, OopKeeps, KeepsTransitive
    <2>4. g.seq = a.rnxt => Keeps(a, InOrder(a, g))
      BY <1>3, <1>7, <2>1, InOrderKeeps
    <2>5. Keeps(a, HandlePacket(s))
      BY <2>2, <2>3, <2>4
    <2> QED
      BY <1>10, <1>14, <2>5
  <1> QED
    BY <1>11, <1>12, <1>13, <1>14

-----------------------------------------------------------------------------
(***************************************************************************)
(* The handlers of the events and the retransmission queue.                *)
(***************************************************************************)

(* A part of a handler that keeps the queue.                               *)
LEMMA KeepsBacks ==
  ASSUME NEW s, NEW t, Keeps(s, t)
  PROVE  /\ s.state \notin {"CLOSED", "LISTEN"} => Backs(s, t)
         /\ t.nxt = s.nxt /\ t.state = s.state => Backs(s, t)
         /\ \A r : Backs(r, s) /\ r.state \notin {"CLOSED", "LISTEN"} => Backs(r, t)
  BY DEF Keeps, Backs

(* APPLICATION_CONNECT sends the SYN.                                      *)
LEMMA OnConnectBacks ==
  ASSUME NEW s \in BlockOf(Segment, Segment), Unsynced(s)
  PROVE  Backs(s, OnConnect(s))
  <1>1. PICK t : t = SetState(SendSyn(s, FALSE), "SYN_SENT")
    OBVIOUS
  <1>2. t.nxt = s.nxt /\ (Running(t) => Running(s) /\ Backed(t))
    BY <1>1, SynBacks
  <1>3. OnConnect(s) = IF s.state = "CLOSED" THEN t ELSE s
    BY <1>1 DEF OnConnect
  <1> QED
    BY <1>2, <1>3, KeepsTransitive, KeepsBacks DEF Backs

(* APPLICATION_SEND sends the send buffer.                                 *)
LEMMA OnSendBacks ==
  ASSUME NEW iss, NEW w, NEW c, NEW s, Sound(s, iss, w, c)
  PROVE  Backs(s, OnSend(s))
  <1>1. Keeps(s, ProcessSendBuffer(s)) /\ Keeps(s, s)
    BY ProcessSendBufferKeeps, KeepsTransitive
  <1> QED
    BY <1>1, KeepsBacks DEF OnSend

(* APPLICATION_RECEIVE opens the window.                                   *)
LEMMA OnReceiveBacks ==
  ASSUME NEW s \in BlockOf(Segment, Segment)
  PROVE  Backs(s, OnReceive(s))
  <1>1. SameQueue(s, OnReceive(s)) /\ OnReceive(s).state = s.state
    BY DEF OnReceive, SameQueue, BlockOf, Running
  <1> QED
    BY <1>1, KeepsTransitive, KeepsBacks DEF SameQueue

(* APPLICATION_CLOSE sends the send buffer or the FIN.                     *)
LEMMA OnCloseBacks ==
  ASSUME NEW iss \in Nat, NEW w \in Nat, NEW c \in BOOLEAN,
         NEW s, Sound(s, iss, w, c), s.rem = 0
  PROVE  Backs(s, OnClose(s))
  <1> DEFINE d == [s EXCEPT !.closing = TRUE]
             f == IF Unsent(s) = 0 THEN SendFin(d) ELSE ProcessSendBuffer(d)
  <1>1. CASE s.state \notin {"ESTABLISHED", "CLOSE_WAIT"}
    <2>1. OnClose(s) = s
      BY <1>1 DEF OnClose
    <2> QED
      BY <2>1, KeepsTransitive, KeepsBacks
  <1>2. CASE s.state \in {"ESTABLISHED", "CLOSE_WAIT"}
    <2>1. s \in BlockOf(Segment, Segment)
      BY SoundIsBlock
    <2>2. Sound(d, iss, w, c) /\ d.closing
      BY ClosingSound DEF Follows
    <2>3. Keeps(s, d) /\ Unsent(d) = Unsent(s)
      <3>1. SameQueue(s, d) /\ Unsent(d) = Unsent(s)
        BY <2>1 DEF SameQueue, Unsent, BlockOf, Running
      <3> QED
        BY <3>1, KeepsTransitive
    <2>4. OnClose(s) \in {f, SetState(f, "FIN_WAIT_1"), SetState(f, "LAST_ACK")}
      BY <1>2 DEF OnClose
    <2> HIDE DEF d
    <2>5. Keeps(d, f)
      <3>1. d \in BlockOf(Segment, Segment)
        BY <2>2, SoundIsBlock
      <3>2. Keeps(d, SendFin(d)) /\ Keeps(d, ProcessSendBuffer(d))
        BY <2>2, <3>1, ControlKeeps, ProcessSendBufferKeeps
      <3> QED
        BY <3>2
    <2>6. f \in BlockOf(Segment, Segment)
      <3>1. Follows(d, f, iss, w, c)
        BY <2>2, <2>3, SendFinSound, ProcessSendBufferSound
      <3> HIDE DEF f
      <3> QED
        BY <3>1, SoundIsBlock DEF Follows
    <2> HIDE DEF f
    <2>7. \A x : Keeps(f, SetState(f, x))
      BY <2>6, SetStateKeeps, KeepsTransitive
    <2>8. Keeps(s, OnClose(s))
      BY <2>3, <2>4, <2>5, <2>7, KeepsTransitive
    <2> QED
      BY <1>2, <2>8, KeepsBacks
  <1> QED
    BY <1>1, <1>2

(* PACKET_ARRIVAL handles a packet, and may send the send buffer or the    *)
(* FIN.                                                                    *)
LEMMA OnPacketBacks ==
  ASSUME NEW iss \in Nat, NEW w \in Nat, NEW c \in BOOLEAN,
         NEW s, Sound(s, iss, w, c), StateSound(s, iss), s.pend # <<>>,
         Running(s) /\ s.state = "LISTEN" => Unsynced(s)
  PROVE  Backs(s, OnPacket(s))
  <1> DEFINE h == HandlePacket(s)
  <1>1. Backs(s, h)
    BY HandlePacketBacks
  <1>2. Sound(h, iss, w, c)
    BY HandlePacketSound DEF Handled
  <1>3. \/ OnPacket(s) = h
        \/ /\ s.state \in {"FIN_WAIT_1", "CLOSE_WAIT"}
           /\ \/ OnPacket(s) = ProcessSendBuffer(h)
              \/ /\ Unsent(h) = 0 /\ h.closing
                 /\ OnPacket(s) \in {SendFin(h), SetState(SendFin(h), "CLOSING")}
    BY DEF OnPacket
  <1> HIDE DEF h
  <1>4. h \in BlockOf(Segment, Segment)
    BY <1>2, SoundIsBlock
  <1>5. Keeps(h, ProcessSendBuffer(h)) /\ Keeps(h, SendFin(h))
    BY <1>2, <1>4, ProcessSendBufferKeeps, ControlKeeps
  <1>6. ASSUME Unsent(h) = 0, h.closing
        PROVE  Keeps(h, SetState(SendFin(h), "CLOSING"))
    <2>1. Follows(h, SendFin(h), iss, w, c)
      BY <1>2, <1>6, SendFinSound
    <2>2. SendFin(h) \in BlockOf(Segment, Segment)
      BY <2>1, SoundIsBlock DEF Follows
    <2>3. Keeps(SendFin(h), SetState(SendFin(h), "CLOSING"))
      BY <2>2, SetStateKeeps, KeepsTransitive
    <2> QED
      BY <1>5, <2>3, KeepsTransitive
  <1>7. CASE OnPacket(s) = h
    BY <1>1, <1>7
  <1>8. ASSUME s.state \in {"FIN_WAIT_1", "CLOSE_WAIT"}, NEW t, Keeps(h, t)
        PROVE  Backs(s, t)
    BY <1>1, <1>8, KeepsBacks
  <1> QED
    BY <1>3, <1>5, <1>6, <1>7, <1>8

(* TIMEOUT puts back what it sends again.                                  *)
LEMMA OnTimeoutBacks ==
  ASSUME NEW s \in BlockOf(Segment, Segment)
  PROVE  Backs(s, OnTimeout(s))
  <1>1. PICK q \in BlockOf(Segment, Segment) : q = ProcessQ(s) /\ Keeps(s, q)
    BY ProcessQProperties, ProcessQKeeps
  <1>2. Keeps(q, ProcessTimeout(q))
    BY ProcessTimeoutKeeps
  <1>3. Keeps(s, OnTimeout(s)) /\ (s.state \notin Retransmitting => OnTimeout(s) = s)
    BY <1>1, <1>2, KeepsTransitive DEF OnTimeout
  <1>4. s.state \in Retransmitting => s.state \notin {"CLOSED", "LISTEN"}
    BY DEF Retransmitting, Synchronized
  <1> QED
    BY <1>3, <1>4, KeepsBacks

(* CLEANUP ends the thread.                                                *)
LEMMA OnCleanupBacks ==
  ASSUME NEW s \in BlockOf(Segment, Segment)
  PROVE  Backs(s, OnCleanup(s))
  <1>1. ~Running(OnCleanup(s))
    BY DEF OnCleanup, Running, BlockOf
  <1> QED
    BY <1>1 DEF Backs
=============================================================================
