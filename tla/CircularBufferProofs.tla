------------------------ MODULE CircularBufferProofs ------------------------
(***************************************************************************)
(* The circular buffer is a bounded queue, for every size, number of       *)
(* threads and length of the calls; a sleeping writer is never forgotten,  *)
(* and neither is the reader, if there is only one.                        *)
(***************************************************************************)
EXTENDS CircularBuffer, SequenceTheorems, TLAPS

Status == {"idle", "asleep", "woken"}

-----------------------------------------------------------------------------
(* Condition variables                                                     *)

(* A signal changes nobody but a sleeper, and wakes one if there is one.   *)
LEMMA SignalWakes ==
  ASSUME NEW p \in [Thread -> Status], NEW S \in SUBSET Thread,
         NEW q \in Signal(p, S)
  PROVE  /\ q \in [Thread -> Status]
         /\ \A t \in Thread : p[t] # "asleep" \/ t \notin S => q[t] = p[t]
         /\ \A t \in Thread : q[t] = "asleep" => p[t] = "asleep"
         /\ \A t \in Thread : q[t] = "idle" => p[t] = "idle"
         /\ (\E t \in S : p[t] = "asleep") => \E t \in S : q[t] = "woken"
  <1> DEFINE A == {t \in S : p[t] = "asleep"}
  <1>1. CASE A = {}
    <2>1. q = p
      BY <1>1 DEF Signal
    <2> QED
      BY <1>1, <2>1
  <1>2. CASE A # {}
    <2>1. PICK u \in A : q = [p EXCEPT ![u] = "woken"]
      BY <1>2 DEF Signal
    <2>2. u \in S /\ u \in Thread /\ p[u] = "asleep"
      BY <2>1
    <2> HIDE DEF A
    <2> QED
      BY <2>1, <2>2 DEF Status
  <1> QED
    BY <1>1, <1>2

-----------------------------------------------------------------------------
(* The array                                                               *)

(* Copying in k bytes that fit leaves the others in place.                 *)
LEMMA PutKeepsLayout ==
  ASSUME TypeOK, Layout, NEW k \in 0 .. MaxSize - count, Put(k),
         UNCHANGED <<start, seqStart>>
  PROVE  /\ data' \in [Slot -> Nat] /\ end' \in 0 .. MaxSize
         /\ count' \in 0 .. MaxSize /\ seqEnd' \in Nat
         /\ count' = count + k
         /\ Layout'
  <1> USE BufferAssumption DEF TypeOK
  <1>1. data' \in [Slot -> Nat]
    BY DEF Put, Slot
  <1>2. /\ end' \in 0 .. MaxSize /\ count' = count + k
        /\ count' \in 0 .. MaxSize /\ seqEnd' \in Nat
    BY DEF Put, Wrapped
  <1>3. seqEnd' = seqStart' + count'
    BY DEF Put, Layout
  <1>4. start' + count' = end' \/ start' + count' = end' + MaxSize
    BY DEF Put, Layout, Wrapped
  <1>5. ASSUME NEW i \in 0 .. count' - 1
        PROVE  data'[At(start' + i)] = seqStart' + i + 1
    <2> DEFINE j == At(start + i)
    <2>1. i \in Nat /\ i < count + k /\ j \in Slot
      BY <1>2 DEF At, Slot
    <2>2. CASE i < count
      <3>1. ~(end <= j /\ j < end + k) /\ ~(j + MaxSize < end + k)
        BY <2>1, <2>2 DEF Layout, At
      <3>2. data'[j] = data[j]
        BY <2>1, <3>1 DEF Put
      <3>3. i \in 0 .. count - 1
        BY <2>1, <2>2
      <3>4. data[j] = seqStart + i + 1
        BY <3>3 DEF Layout
      <3> QED
        BY <3>2, <3>4
    <2>3. CASE i >= count
      <3>1. \/ end <= j /\ j < end + k /\ j - end = i - count
            \/ /\ ~(end <= j) /\ j + MaxSize < end + k
               /\ j + MaxSize - end = i - count
        BY <2>1, <2>3 DEF Layout, At
      <3>2. data'[j] = seqEnd + (i - count) + 1
        BY <2>1, <3>1 DEF Put
      <3> QED
        BY <2>1, <3>2 DEF Layout
    <2> QED
      BY <2>1, <2>2, <2>3
  <1> QED
    BY <1>1, <1>2, <1>3, <1>4, <1>5 DEF Layout

(* Taking k bytes out leaves the others in place.                          *)
LEMMA TakeKeepsLayout ==
  ASSUME TypeOK, Layout, NEW k \in 0 .. count,
         start' = Wrapped(start + k), count' = count - k,
         seqStart' = seqStart + k, UNCHANGED <<data, end, seqEnd>>
  PROVE  /\ start' \in 0 .. MaxSize /\ count' \in 0 .. MaxSize
         /\ seqStart' \in Nat
         /\ Layout'
  <1> USE BufferAssumption DEF TypeOK
  <1>1. start' \in 0 .. MaxSize /\ count' \in 0 .. MaxSize /\ seqStart' \in Nat
    BY DEF Wrapped
  <1>2. seqEnd' = seqStart' + count'
    BY DEF Layout
  <1>3. start' + count' = end' \/ start' + count' = end' + MaxSize
    BY DEF Layout, Wrapped
  <1>4. ASSUME NEW i \in 0 .. count' - 1
        PROVE  data'[At(start' + i)] = seqStart' + i + 1
    <2>1. k + i \in 0 .. count - 1
      OBVIOUS
    <2>2. At(start' + i) = At(start + (k + i))
      BY <2>1 DEF At, Wrapped
    <2>3. data[At(start + (k + i))] = seqStart + (k + i) + 1
      BY <2>1 DEF Layout
    <2> QED
      BY <2>1, <2>2, <2>3
  <1> QED
    BY <1>1, <1>2, <1>3, <1>4 DEF Layout

-----------------------------------------------------------------------------
(* The invariant                                                           *)

(* A stretch of writing keeps it: it leaves bytes behind it, so that other *)
(* writers who sleep will be signalled by their reader.                    *)
LEMMA FillKeepsInv ==
  ASSUME Inv, NEW w \in Writer, NEW n \in 1 .. MaxSize, Fill(w, n)
  PROVE  Inv'
  <1> DEFINE k == Lesser(n, MaxSize - count)
  <1> USE BufferAssumption DEF Inv
  <1>1. /\ k \in 0 .. MaxSize - count /\ k <= n
        /\ k < n => count + k = MaxSize
    BY DEF TypeOK, Lesser
  <1>2. /\ Put(k)
        /\ left' = [left EXCEPT ![w] = n - k]
        /\ \/ k < n /\ pc' = [pc EXCEPT ![w] = "asleep"]
           \/ k = n /\ pc' \in Signal([pc EXCEPT ![w] = "idle"], Reader)
        /\ UNCHANGED <<start, closed, seqStart, want, out>>
    BY DEF Fill, AfterWrite
  <1> HIDE DEF k
  <1>3. /\ data' \in [Slot -> Nat] /\ end' \in 0 .. MaxSize
        /\ count' \in 0 .. MaxSize /\ seqEnd' \in Nat
        /\ count' = count + k
        /\ Layout'
    BY <1>1, <1>2, PutKeepsLayout
  <1>4. count' > 0
    BY <1>1, <1>3 DEF TypeOK
  <1>5. /\ left' \in [Writer -> 0 .. MaxSize]
        /\ k < n => left'[w] > 0
        /\ \A v \in Writer \ {w} : left'[v] = left[v]
    BY <1>1, <1>2 DEF TypeOK
  <1>6. /\ pc' \in [Thread -> Status]
        /\ k = n => pc'[w] = "idle"
        /\ \A t \in Thread \ {w} : pc'[t] # "idle" => pc[t] # "idle"
    <2>1. CASE k < n
      BY <1>2, <2>1 DEF TypeOK, Status
    <2>2. CASE k = n
      <3> DEFINE p == [pc EXCEPT ![w] = "idle"]
      <3>1. p \in [Thread -> Status] /\ p[w] = "idle"
        BY DEF TypeOK, Status, Thread
      <3>2. pc' \in Signal(p, Reader)
        BY <1>1, <1>2, <2>2
      <3>3. \A t \in Thread \ {w} : p[t] = pc[t]
        BY DEF TypeOK
      <3>4. w \in Thread /\ Reader \in SUBSET Thread
        BY DEF Thread
      <3> HIDE DEF p
      <3>5. /\ pc' \in [Thread -> Status]
            /\ \A t \in Thread : p[t] # "asleep" \/ t \notin Reader => pc'[t] = p[t]
        BY <3>1, <3>2, <3>4, SignalWakes
      <3> QED
        BY <3>1, <3>3, <3>4, <3>5
    <2> QED
      BY <1>1, <2>1, <2>2 DEF TypeOK
  <1>7. TypeOK'
    BY <1>2, <1>3, <1>5, <1>6 DEF TypeOK, Status
  <1>8. CallsKnown'
    <2>1. ASSUME NEW v \in Writer, pc'[v] # "idle" PROVE left'[v] > 0
      BY <1>1, <1>5, <1>6, <2>1 DEF CallsKnown, Thread, TypeOK
    <2>2. ASSUME NEW r \in Reader, pc'[r] # "idle" PROVE want'[r].len > 0
      BY <1>2, <1>6, <2>2 DEF CallsKnown, Thread
    <2> QED
      BY <2>1, <2>2 DEF CallsKnown
  <1> QED
    BY <1>3, <1>4, <1>7, <1>8 DEF WritersRemembered

(* Reading keeps it: whoever empties the buffer signals a writer.          *)
LEMMA DrainKeepsInv ==
  ASSUME Inv, NEW r \in Reader, NEW q \in Request, Drain(r, q)
  PROVE  Inv'
  <1> DEFINE k == Lesser(q.len, count)
             p == [pc EXCEPT ![r] = "idle"]
  <1> USE BufferAssumption DEF Inv
  <1>1. k \in 0 .. count /\ count \in 0 .. MaxSize
    BY DEF TypeOK, Lesser, Request
  <1>2. /\ out' = [i \in 1 .. k |-> data[At(start + i - 1)]]
        /\ IF q.peeking
           THEN UNCHANGED <<start, count, seqStart>>
           ELSE /\ start' = Wrapped(start + k)
                /\ count' = count - k
                /\ seqStart' = seqStart + k
        /\ want' = [want EXCEPT ![r] = NoRequest]
        /\ pc' \in Signal(p, Writer)
        /\ UNCHANGED <<data, end, closed, seqEnd, left>>
    BY DEF Drain, AfterRead, Contents
  <1>3. /\ p \in [Thread -> Status] /\ p[r] = "idle"
        /\ \A t \in Thread \ {r} : p[t] = pc[t]
        /\ r \in Thread /\ r \notin Writer /\ Writer \in SUBSET Thread
    BY DEF TypeOK, Status, Thread
  <1> HIDE DEF k, p
  <1>4. /\ start' \in 0 .. MaxSize /\ count' \in 0 .. MaxSize
        /\ seqStart' \in Nat
        /\ Layout'
    <2>1. CASE q.peeking
      BY <1>2, <2>1 DEF TypeOK, Layout
    <2>2. CASE ~q.peeking
      BY <1>1, <1>2, <2>2, TakeKeepsLayout
    <2> QED
      BY <2>1, <2>2
  <1>5. out' \in Seq(Nat)
    <2>1. ASSUME NEW i \in 1 .. k PROVE data[At(start + i - 1)] \in Nat
      <3>1. At(start + i - 1) \in Slot
        BY <1>1 DEF At, Slot, TypeOK
      <3> QED
        BY <3>1 DEF TypeOK
    <2> QED
      BY <1>1, <1>2, <2>1, IsASeq
  <1>6. /\ pc' \in [Thread -> Status]
        /\ \A t \in Thread : p[t] # "asleep" \/ t \notin Writer => pc'[t] = p[t]
        /\ \A t \in Thread : pc'[t] = "asleep" => p[t] = "asleep"
        /\ (\E t \in Writer : p[t] = "asleep") => \E t \in Writer : pc'[t] = "woken"
        /\ \A t \in Thread : pc'[t] # "idle" => p[t] # "idle"
    BY <1>2, <1>3, SignalWakes
  <1>7. want' \in [Reader -> Request]
    BY <1>2 DEF TypeOK, NoRequest, Request
  <1>8. TypeOK'
    BY <1>2, <1>4, <1>5, <1>6, <1>7 DEF TypeOK, Status
  <1>9. CallsKnown'
    <2>1. ASSUME NEW v \in Writer, pc'[v] # "idle" PROVE left'[v] > 0
      BY <1>2, <1>3, <1>6, <2>1 DEF CallsKnown, Thread
    <2>2. ASSUME NEW s \in Reader, pc'[s] # "idle" PROVE want'[s].len > 0
      BY <1>2, <1>3, <1>6, <2>2 DEF CallsKnown, Thread, TypeOK
    <2> QED
      BY <2>1, <2>2 DEF CallsKnown
  <1>10. WritersRemembered'
    BY <1>3, <1>6 DEF WritersRemembered
  <1> QED
    BY <1>4, <1>8, <1>9, <1>10

(* ... and so does a reader that finds nothing.                            *)
LEMMA ServeKeepsInv ==
  ASSUME Inv, NEW r \in Reader, NEW q \in Request, q.len > 0, Serve(r, q)
  PROVE  Inv'
  <1> USE BufferAssumption DEF Inv
  <1>1. r \in Thread /\ r \notin Writer
    BY DEF Thread
  <1>2. CASE Drain(r, q)
    BY <1>2, DrainKeepsInv
  <1>3. CASE Sleep(r, q)
    <2>1. /\ want' = [want EXCEPT ![r] = q]
          /\ pc' = [pc EXCEPT ![r] = "asleep"]
          /\ UNCHANGED <<data, start, end, count, closed, seqStart, seqEnd, left, out>>
      BY <1>3 DEF Sleep, SleepForData
    <2>2. TypeOK'
      BY <2>1 DEF TypeOK
    <2>3. Layout'
      BY <2>1 DEF Layout
    <2>4. CallsKnown' /\ WritersRemembered'
      BY <1>1, <2>1 DEF CallsKnown, WritersRemembered, TypeOK, Thread
    <2> QED
      BY <2>2, <2>3, <2>4
  <1>4. CASE ReturnZero(r)
    <2>1. /\ want' = [want EXCEPT ![r] = NoRequest]
          /\ pc' = [pc EXCEPT ![r] = "idle"]
          /\ out' = <<>>
          /\ UNCHANGED <<data, start, end, count, closed, seqStart, seqEnd, left>>
      BY <1>4 DEF ReturnZero
    <2>2. TypeOK'
      <3>1. want' \in [Reader -> Request] /\ out' \in Seq(Nat)
        BY <2>1 DEF TypeOK, NoRequest, Request
      <3> QED
        BY <2>1, <3>1 DEF TypeOK
    <2>3. Layout'
      BY <2>1 DEF Layout
    <2>4. CallsKnown' /\ WritersRemembered'
      BY <1>1, <2>1 DEF CallsKnown, WritersRemembered, TypeOK, Thread
    <2> QED
      BY <2>2, <2>3, <2>4
  <1> QED
    BY <1>2, <1>3, <1>4 DEF Serve

(* A closing thread and a wait that ends unasked change only who sleeps.   *)
LEMMA WakingKeepsInv ==
  ASSUME Inv, Close \/ \E t \in Thread : WakeUnasked(t)
  PROVE  Inv'
  <1> USE DEF Inv
  <1>1. CASE Close
    <2>1. /\ pc' = [t \in Thread |-> IF t \in Reader /\ pc[t] = "asleep"
                                      THEN "woken" ELSE pc[t]]
          /\ closed' = TRUE
          /\ UNCHANGED <<data, start, end, count, seqStart, seqEnd, left, want, out>>
      BY <1>1 DEF Close, Broadcast
    <2>2. TypeOK' /\ Layout'
      BY <2>1 DEF TypeOK, Layout
    <2>3. CallsKnown' /\ WritersRemembered'
      BY <2>1, BufferAssumption DEF CallsKnown, WritersRemembered, Thread
    <2> QED
      BY <2>2, <2>3
  <1>2. ASSUME NEW t \in Thread, WakeUnasked(t) PROVE Inv'
    <2>1. /\ pc[t] = "asleep" /\ pc' = [pc EXCEPT ![t] = "woken"]
          /\ UNCHANGED <<data, start, end, count, closed, seqStart, seqEnd, left, want, out>>
      BY <1>2 DEF WakeUnasked
    <2>2. TypeOK' /\ Layout'
      BY <2>1 DEF TypeOK, Layout
    <2>3. CallsKnown' /\ WritersRemembered'
      BY <2>1 DEF CallsKnown, WritersRemembered, Thread, TypeOK
    <2> QED
      BY <2>2, <2>3
  <1> QED
    BY <1>1, <1>2

(* What each kind of step is, in terms of the lemmas above.                *)
LEMMA Steps ==
  ASSUME Inv, Next
  PROVE  \/ \E w \in Writer, n \in 1 .. MaxSize : Fill(w, n)
         \/ \E r \in Reader, q \in Request :
              /\ q.len > 0 /\ Serve(r, q)
              /\ pc[r] = "idle" \/ pc[r] = "woken"
         \/ Close
         \/ \E t \in Thread : WakeUnasked(t)
  <1> USE BufferAssumption DEF Inv
  <1>1. ASSUME NEW w \in Writer, NEW n \in 1 .. MaxLen, NEW b \in BOOLEAN,
               Write(w, n, b)
        PROVE  \E m \in 1 .. MaxSize : Fill(w, m)
    <2>1. Lesser(n, MaxSize) \in 1 .. MaxSize
      BY DEF Lesser
    <2> QED
      BY <1>1, <2>1 DEF Write
  <1>2. ASSUME NEW w \in Writer, ResumeWrite(w)
        PROVE  \E m \in 1 .. MaxSize : Fill(w, m)
    <2>1. left[w] \in 1 .. MaxSize
      <3>1. left[w] \in 0 .. MaxSize /\ left[w] > 0
        BY <1>2 DEF ResumeWrite, CallsKnown, TypeOK
      <3> QED
        BY <3>1
    <2> QED
      BY <1>2, <2>1 DEF ResumeWrite
  <1>3. ASSUME NEW r \in Reader, AnyRead(r)
        PROVE  \E q \in Request : q.len > 0 /\ Serve(r, q) /\ pc[r] = "idle"
    <2>1. PICK n \in 1 .. MaxLen, peeking, blocking \in BOOLEAN :
            Read(r, [len |-> n, peeking |-> peeking], blocking)
      BY <1>3 DEF AnyRead
    <2> DEFINE q == [len |-> n, peeking |-> peeking]
    <2>2. q \in Request /\ q.len > 0
      BY DEF Request
    <2> HIDE DEF q
    <2> QED
      BY <2>1, <2>2 DEF Read, q
  <1>4. ASSUME NEW r \in Reader, ResumeRead(r)
        PROVE  \E q \in Request : q.len > 0 /\ Serve(r, q) /\ pc[r] = "woken"
    <2>1. want[r] \in Request /\ want[r].len > 0
      BY <1>4 DEF ResumeRead, CallsKnown, TypeOK
    <2> QED
      BY <1>4, <2>1 DEF ResumeRead
  <1> QED
    BY <1>1, <1>2, <1>3, <1>4 DEF Next

(* The bytes lie in their slots, every thread in a call knows what it has  *)
(* left to do, and no writer sleeps over an empty buffer with nobody on    *)
(* the way to signal it.                                                   *)
THEOREM Invariance == Spec => []Inv
  <1> USE BufferAssumption
  <1>1. Init => Inv
    <2> SUFFICES ASSUME Init PROVE Inv
      OBVIOUS
    <2>1. TypeOK
      <3>1. want \in [Reader -> Request] /\ out \in Seq(Nat)
        BY DEF Init, NoRequest, Request
      <3>2. /\ start \in 0 .. MaxSize /\ end \in 0 .. MaxSize /\ count \in 0 .. MaxSize
            /\ left \in [Writer -> 0 .. MaxSize]
        BY DEF Init
      <3>3. data \in [Slot -> Nat] /\ pc \in [Thread -> Status]
        BY DEF Init, Status
      <3> QED
        BY <3>1, <3>2, <3>3 DEF Init, TypeOK, Status
    <2>2. Layout
      BY DEF Init, Layout
    <2>3. CallsKnown /\ WritersRemembered
      BY DEF Init, CallsKnown, WritersRemembered, Thread
    <2> QED
      BY <2>1, <2>2, <2>3 DEF Inv
  <1>2. Inv /\ [Next]_vars => Inv'
    <2> SUFFICES ASSUME Inv, [Next]_vars PROVE Inv'
      OBVIOUS
    <2>1. CASE Next
      BY <2>1, Steps, FillKeepsInv, ServeKeepsInv, WakingKeepsInv
    <2>2. CASE UNCHANGED vars
      BY <2>2 DEF vars, Inv, TypeOK, Layout, CallsKnown, WritersRemembered
    <2> QED
      BY <2>1, <2>2
  <1> QED
    BY <1>1, <1>2, PTL DEF Spec

-----------------------------------------------------------------------------
(* The only reader is not forgotten                                        *)

(* With a single reader, nobody sleeps beside data or beside a closed      *)
(* buffer: a writer that would wait without having signalled found bytes   *)
(* in the buffer, so the reader was not asleep.                            *)
THEOREM ReaderNeverForgotten ==
  ASSUME \A r, s \in Reader : r = s
  PROVE  Spec => []ReadersRemembered
  <1> USE BufferAssumption
  <1>1. Init => ReadersRemembered
    BY DEF Init, ReadersRemembered
  <1>2. Inv /\ ReadersRemembered /\ [Next]_vars => ReadersRemembered'
    <2> SUFFICES ASSUME Inv, ReadersRemembered, [Next]_vars,
                        NEW r \in Reader, pc'[r] = "asleep"
                 PROVE  count' = 0 /\ ~closed'
      BY DEF ReadersRemembered
    <2>0. r \in Thread /\ Reader \in SUBSET Thread /\ \A t \in Reader : t = r
      BY DEF Thread
    <2>1. ASSUME NEW w \in Writer, NEW n \in 1 .. MaxSize, Fill(w, n) PROVE FALSE
      <3> DEFINE k == Lesser(n, MaxSize - count)
                 p == [pc EXCEPT ![w] = "idle"]
      <3>1. /\ p \in [Thread -> Status] /\ p[r] = pc[r] /\ w # r
        BY <2>0 DEF Inv, TypeOK, Status, Thread
      <3>2. \/ k < n /\ pc' = [pc EXCEPT ![w] = "asleep"]
            \/ k = n /\ pc' \in Signal(p, Reader)
        BY <2>1 DEF Fill, AfterWrite
      <3>3. pc[r] = "asleep" => count = 0
        BY <2>0 DEF ReadersRemembered
      <3>4. CASE k < n
        <4>1. pc[r] = "asleep"
          BY <2>0, <3>1, <3>2, <3>4 DEF Inv, TypeOK
        <4>2. k = n
          BY <3>3, <4>1 DEF Lesser
        <4> QED
          BY <3>4, <4>2
      <3>5. CASE k = n
        <4> HIDE DEF k, p
        <4>1. pc' \in Signal(p, Reader)
          BY <3>2, <3>5
        <4>2. /\ \A t \in Thread : pc'[t] = "asleep" => p[t] = "asleep"
              /\ (\E t \in Reader : p[t] = "asleep") => \E t \in Reader : pc'[t] = "woken"
          BY <2>0, <3>1, <4>1, SignalWakes
        <4>3. pc'[r] = "woken"
          BY <2>0, <4>2
        <4> QED
          BY <4>3
      <3> QED
        BY <3>2, <3>4, <3>5
    <2>2. ASSUME NEW s \in Reader, NEW q \in Request, q.len > 0, Serve(s, q)
          PROVE  count' = 0 /\ ~closed'
      <3>1. s = r
        BY <2>0
      <3>2. CASE Drain(s, q)
        <4> DEFINE p == [pc EXCEPT ![r] = "idle"]
        <4>1. p \in [Thread -> Status] /\ p[r] = "idle" /\ Writer \in SUBSET Thread
          BY <2>0 DEF Inv, TypeOK, Status, Thread
        <4>2. pc' \in Signal(p, Writer)
          BY <3>1, <3>2 DEF Drain, AfterRead
        <4> HIDE DEF p
        <4>3. \A t \in Thread : pc'[t] = "asleep" => p[t] = "asleep"
          BY <4>1, <4>2, SignalWakes
        <4> QED
          BY <2>0, <4>1, <4>3
      <3>3. CASE Sleep(s, q)
        BY <3>3 DEF Sleep, SleepForData
      <3>4. CASE ReturnZero(s)
        BY <2>0, <3>1, <3>4 DEF ReturnZero, Inv, TypeOK
      <3> QED
        BY <2>2, <3>2, <3>3, <3>4 DEF Serve
    <2>3. CASE Close
      <3>1. pc'[r] # "asleep"
        BY <2>0, <2>3 DEF Close, Broadcast
      <3> QED
        BY <3>1
    <2>4. ASSUME NEW t \in Thread, WakeUnasked(t) PROVE count' = 0 /\ ~closed'
      <3>1. pc[r] = "asleep" /\ count' = count /\ closed' = closed
        BY <2>0, <2>4 DEF WakeUnasked, Inv, TypeOK
      <3> QED
        BY <2>0, <3>1 DEF ReadersRemembered
    <2>5. CASE UNCHANGED vars
      <3>1. pc[r] = "asleep" /\ count' = count /\ closed' = closed
        BY <2>5 DEF vars
      <3> QED
        BY <2>0, <3>1 DEF ReadersRemembered
    <2>6. CASE Next
      BY <2>1, <2>2, <2>3, <2>4, <2>6, Steps
    <2> QED
      BY <2>5, <2>6
  <1> QED
    BY <1>1, <1>2, Invariance, PTL DEF Spec

-----------------------------------------------------------------------------
(* The buffer is a bounded queue                                           *)

(* b consecutive numbers from s on.                                        *)
Stretch(s, b) == [i \in 1 .. b |-> s + i]

LEMMA StretchFacts ==
  ASSUME NEW s \in Nat, NEW b \in Nat
  PROVE  /\ Stretch(s, b) \in Seq(Nat) /\ Len(Stretch(s, b)) = b
         /\ \A i \in 1 .. b : Stretch(s, b)[i] = s + i
  <1>1. \A i \in 1 .. b : s + i \in Nat
    OBVIOUS
  <1>2. Stretch(s, b) \in Seq(Nat)
    BY <1>1, IsASeq DEF Stretch
  <1> QED
    BY <1>2 DEF Stretch

LEMMA StretchConcat ==
  ASSUME NEW s \in Nat, NEW a \in Nat, NEW b \in Nat
  PROVE  Stretch(s, a) \o Stretch(s + a, b) = Stretch(s, a + b)
  <1> DEFINE u == Stretch(s, a)
             v == Stretch(s + a, b)
             w == Stretch(s, a + b)
  <1>1. /\ u \in Seq(Nat) /\ Len(u) = a /\ \A i \in 1 .. a : u[i] = s + i
        /\ v \in Seq(Nat) /\ Len(v) = b /\ \A i \in 1 .. b : v[i] = s + a + i
        /\ w \in Seq(Nat) /\ Len(w) = a + b /\ \A i \in 1 .. a + b : w[i] = s + i
    <2>1. s + a \in Nat /\ a + b \in Nat
      OBVIOUS
    <2>2. u \in Seq(Nat) /\ Len(u) = a /\ \A i \in 1 .. a : u[i] = s + i
      BY StretchFacts
    <2>3. v \in Seq(Nat) /\ Len(v) = b /\ \A i \in 1 .. b : v[i] = s + a + i
      BY <2>1, StretchFacts
    <2>4. w \in Seq(Nat) /\ Len(w) = a + b /\ \A i \in 1 .. a + b : w[i] = s + i
      BY <2>1, StretchFacts
    <2> QED
      BY <2>2, <2>3, <2>4
  <1> HIDE DEF u, v, w
  <1>2. u \o v \in Seq(Nat) /\ Len(u \o v) = a + b
    BY <1>1, ConcatProperties
  <1>3. ASSUME NEW i \in 1 .. a + b PROVE (u \o v)[i] = w[i]
    <2>1. (u \o v)[i] = IF i <= a THEN u[i] ELSE v[i - a]
      BY <1>1, ConcatProperties
    <2>2. CASE i <= a
      <3>1. i \in 1 .. a
        BY <2>2
      <3> QED
        BY <1>1, <2>1, <3>1, <2>2
    <2>3. CASE ~(i <= a)
      <3>1. i - a \in 1 .. b /\ s + a + (i - a) = s + i
        BY <2>3
      <3>2. v[i - a] = s + a + (i - a)
        BY <1>1, <3>1
      <3> QED
        BY <1>1, <2>1, <2>3, <3>1, <3>2
    <2> QED
      BY <2>2, <2>3
  <1> QED
    BY <1>1, <1>2, <1>3, SeqEqual DEF u, v, w

LEMMA StretchPart ==
  ASSUME NEW s \in Nat, NEW b \in Nat, NEW m \in 0 .. b, NEW n \in m .. b
  PROVE  SubSeq(Stretch(s, b), m + 1, n) = Stretch(s + m, n - m)
  <1> DEFINE u == Stretch(s, b)
             v == SubSeq(u, m + 1, n)
             w == Stretch(s + m, n - m)
  <1>1. /\ u \in Seq(Nat) /\ Len(u) = b /\ \A i \in 1 .. b : u[i] = s + i
        /\ w \in Seq(Nat) /\ Len(w) = n - m /\ \A i \in 1 .. n - m : w[i] = s + m + i
    <2>1. s + m \in Nat /\ n - m \in Nat
      OBVIOUS
    <2>2. u \in Seq(Nat) /\ Len(u) = b /\ \A i \in 1 .. b : u[i] = s + i
      BY StretchFacts
    <2>3. w \in Seq(Nat) /\ Len(w) = n - m /\ \A i \in 1 .. n - m : w[i] = s + m + i
      BY <2>1, StretchFacts
    <2> QED
      BY <2>2, <2>3
  <1> HIDE DEF u, w
  <1>2. /\ v \in Seq(Nat) /\ Len(v) = n - m
        /\ \A i \in 1 .. n - m : v[i] = u[m + i]
    <2>1. m + 1 \in Int /\ n \in Int /\ n - (m + 1) + 1 = n - m
          /\ \A i \in 1 .. n - m : m + 1 + i - 1 = m + i
      OBVIOUS
    <2>2. \A i \in m + 1 .. n : u[i] \in Nat
      BY <1>1
    <2>3. /\ v \in Seq(Nat) /\ Len(v) = IF m + 1 <= n THEN n - (m + 1) + 1 ELSE 0
          /\ \A i \in 1 .. n - (m + 1) + 1 : v[i] = u[m + 1 + i - 1]
      BY <2>1, <2>2, SubSeqProperties
    <2> HIDE DEF v
    <2>4. Len(v) = n - m
      BY <2>3
    <2> QED
      BY <2>1, <2>3, <2>4
  <1>3. ASSUME NEW i \in 1 .. n - m PROVE v[i] = w[i]
    BY <1>1, <1>2
  <1> QED
    BY <1>1, <1>2, <1>3, SeqEqual DEF u, w

(* What is in the buffer is the stretch of the stream from seqStart on.    *)
ContentsKnown ==
  /\ \A k \in 0 .. count : Contents(k) = Stretch(seqStart, k)
  /\ seqEnd = seqStart + count
  /\ seqStart \in Nat /\ count \in 0 .. MaxSize

LEMMA QueueIsStretch == Inv => ContentsKnown
  <1> SUFFICES ASSUME Inv PROVE ContentsKnown
    OBVIOUS
  <1> USE BufferAssumption DEF Inv
  <1>1. seqEnd = seqStart + count /\ seqStart \in Nat /\ count \in 0 .. MaxSize
        /\ start \in 0 .. MaxSize
    BY DEF TypeOK, Layout
  <1>2. ASSUME NEW k \in 0 .. count
        PROVE  Contents(k) = Stretch(seqStart, k)
    <2>1. ASSUME NEW i \in 1 .. k PROVE data[At(start + i - 1)] = seqStart + i
      <3>1. i - 1 \in 0 .. count - 1
        BY <1>1
      <3>2. data[At(start + (i - 1))] = seqStart + (i - 1) + 1
        BY <3>1 DEF Layout
      <3>3. start + (i - 1) = start + i - 1 /\ seqStart + (i - 1) + 1 = seqStart + i
        BY <1>1
      <3> QED
        BY <3>2, <3>3
    <2> QED
      BY <2>1 DEF Stretch, Contents
  <1> QED
    BY <1>1, <1>2 DEF ContentsKnown

(* Writing, reading, closing and waiting are steps of the bounded queue or *)
(* change nothing of it: first in, first out, nothing lost or overwritten, *)
(* a read returns nothing only at the end.                                 *)
THEOREM ImplementsQueue == Spec => BoundedFifo
  <1> USE BufferAssumption
  <1>1. Init => Queue!Init
    <2> SUFFICES ASSUME Init PROVE Queue!Init
      OBVIOUS
    <2>1. Contents(count) = <<>>
      BY DEF Init, Contents
    <2> QED
      BY <2>1 DEF Init, Queue!Init
  <1>2. Inv' => ContentsKnown'
    BY QueueIsStretch, PTL
  <1>3. Inv /\ Inv' /\ [Next]_vars => [Queue!Next]_(Queue!vars)
    <2> SUFFICES ASSUME Inv, Inv', [Next]_vars
                 PROVE  [Queue!Next]_(Queue!vars)
      OBVIOUS
    <2> DEFINE Q == Contents(count)
    <2>1. ContentsKnown /\ ContentsKnown'
      BY <1>2, QueueIsStretch
    <2>2. /\ Q = Stretch(seqStart, count) /\ Q' = Stretch(seqStart', count')
          /\ seqEnd = seqStart + count
          /\ seqStart \in Nat /\ count \in 0 .. MaxSize
          /\ seqStart' \in Nat /\ count' \in 0 .. MaxSize
      <3>1. /\ seqEnd = seqStart + count
            /\ seqStart \in Nat /\ count \in 0 .. MaxSize
            /\ seqStart' \in Nat /\ count' \in 0 .. MaxSize
        BY <2>1 DEF ContentsKnown
      <3>2. count \in 0 .. count /\ count' \in 0 .. count'
        BY <3>1
      <3>3. Q = Stretch(seqStart, count)
        BY <2>1, <3>2 DEF ContentsKnown
      <3>4. Q' = Stretch(seqStart', count')
        BY <2>1, <3>2 DEF ContentsKnown
      <3> QED
        BY <3>1, <3>3, <3>4
    <2>3. Len(Q) = count
      BY <2>2, StretchFacts
    <2> HIDE DEF Q
    <2>4. ASSUME NEW w \in Writer, NEW n \in 1 .. MaxSize, Fill(w, n)
          PROVE  [Queue!Next]_(Queue!vars)
      <3> DEFINE k == Lesser(n, MaxSize - count)
      <3>1. k \in 0 .. MaxSize - count
        BY <2>2 DEF Lesser
      <3>2. /\ count' = count + k /\ seqEnd' = seqEnd + k
            /\ UNCHANGED <<seqStart, closed, out>>
        BY <2>4 DEF Fill, Put
      <3> HIDE DEF k
      <3>3. [i \in 1 .. k |-> seqEnd + i] = Stretch(seqStart + count, k)
        BY <2>2 DEF Stretch
      <3>4. Q' = Q \o [i \in 1 .. k |-> seqEnd + i]
        <4>1. Stretch(seqStart, count) \o Stretch(seqStart + count, k)
                = Stretch(seqStart, count + k)
          <5>1. seqStart \in Nat /\ count \in Nat /\ k \in Nat
            BY <2>2, <3>1
          <5> QED
            BY <5>1, StretchConcat
        <4> QED
          BY <2>2, <3>2, <3>3, <4>1
      <3>5. CASE k = 0
        BY <2>2, <3>2, <3>5 DEF Queue!vars, Q
      <3>6. CASE k # 0
        <4>1. Len(Q) + k <= MaxSize
          BY <2>2, <2>3, <3>1
        <4>2. Queue!Put(k)
          BY <3>2, <3>4, <4>1 DEF Queue!Put, Q
        <4>3. k \in 1 .. MaxSize
          BY <2>2, <3>1, <3>6
        <4> QED
          BY <4>2, <4>3 DEF Queue!Next
      <3> QED
        BY <3>5, <3>6
    <2>5. ASSUME NEW r \in Reader, NEW q \in Request, q.len > 0, Drain(r, q)
          PROVE  [Queue!Next]_(Queue!vars)
      <3> DEFINE k == Lesser(q.len, count)
      <3>1. count > 0 /\ k \in 1 .. count /\ k \in 1 .. MaxSize
        BY <2>2, <2>5 DEF Lesser, Request, Drain
      <3>2. /\ out' = Contents(k)
            /\ IF q.peeking
               THEN UNCHANGED <<start, count, seqStart>>
               ELSE count' = count - k /\ seqStart' = seqStart + k
            /\ UNCHANGED <<data, closed, seqEnd>>
        BY <2>5 DEF Drain, Contents
      <3> HIDE DEF k
      <3>3. out' = SubSeq(Q, 1, k)
        <4>1. Contents(k) = Stretch(seqStart, k)
          BY <2>1, <3>1 DEF ContentsKnown
        <4>2. /\ seqStart \in Nat /\ count \in Nat
              /\ 0 \in 0 .. count /\ k \in 0 .. count
          BY <2>2, <3>1
        <4>3. SubSeq(Stretch(seqStart, count), 0 + 1, k) = Stretch(seqStart + 0, k - 0)
          BY <4>2, StretchPart, ZenonT(60)
        <4>4. 0 + 1 = 1 /\ seqStart + 0 = seqStart /\ k - 0 = k
          BY <4>2
        <4> QED
          BY <2>2, <3>2, <4>1, <4>3, <4>4
      <3>4. CASE q.peeking
        <4>1. Q' = Q
          BY <2>2, <3>2, <3>4
        <4>2. Queue!Peek(k)
          BY <2>3, <3>1, <3>2, <3>3, <4>1 DEF Queue!Peek, Q
        <4> QED
          BY <3>1, <4>2 DEF Queue!Next
      <3>5. CASE ~q.peeking
        <4>1. SubSeq(Q, k + 1, count) = Stretch(seqStart + k, count - k)
          <5>1. /\ seqStart \in Nat /\ count \in Nat
                /\ k \in 0 .. count /\ count \in k .. count
            BY <2>2, <3>1
          <5> QED
            BY <2>2, <5>1, StretchPart, ZenonT(60)
        <4>2. Q' = SubSeq(Q, k + 1, Len(Q))
          BY <2>2, <2>3, <3>2, <3>5, <4>1
        <4>3. Queue!Get(k)
          BY <2>3, <3>1, <3>2, <3>3, <4>2 DEF Queue!Get, Q
        <4> QED
          BY <3>1, <4>3 DEF Queue!Next
      <3> QED
        BY <3>4, <3>5
    <2>6. ASSUME NEW r \in Reader, NEW q \in Request, Sleep(r, q)
          PROVE  UNCHANGED Queue!vars
      BY <2>6 DEF Sleep, SleepForData, Queue!vars, Contents
    <2>7. ASSUME NEW r \in Reader, ReturnZero(r)
          PROVE  [Queue!Next]_(Queue!vars)
      <3>1. /\ count = 0 /\ closed /\ out' = <<>>
            /\ UNCHANGED <<data, start, count, closed, seqEnd>>
        BY <2>7 DEF ReturnZero
      <3>2. Q = <<>> /\ Q' = Q
        BY <3>1 DEF Q, Contents
      <3>3. Queue!GetNothing
        BY <3>1, <3>2 DEF Queue!GetNothing, Q
      <3> QED
        BY <3>3 DEF Queue!Next
    <2>8. CASE Close
      <3>1. Queue!Close
        BY <2>8 DEF Close, Queue!Close, Contents
      <3> QED
        BY <3>1 DEF Queue!Next
    <2>9. CASE \E t \in Thread : WakeUnasked(t)
      BY <2>9 DEF WakeUnasked, Queue!vars, Contents
    <2>10. CASE UNCHANGED vars
      BY <2>10 DEF vars, Queue!vars, Contents
    <2>11. CASE Next
      BY <2>4, <2>5, <2>6, <2>7, <2>8, <2>9, <2>11, Steps DEF Serve
    <2> QED
      BY <2>10, <2>11
  <1> QED
    BY <1>1, <1>3, Invariance, PTL DEF Spec, BoundedFifo, Queue!Spec
=============================================================================
