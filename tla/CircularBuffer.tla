--------------------------- MODULE CircularBuffer ---------------------------
(***************************************************************************)
(* The circular buffer of libchitcp (buffer.c) under the threads that use  *)
(* it.  A thread holds the lock from its call, or from the moment          *)
(* pthread_cond_wait gives it back, to its return or its next wait: that   *)
(* is one step.  A byte is its position in the stream of all bytes put in. *)
(*                                                                         *)
(* Not here: 32-bit wrap-around of the sequence numbers, which start at 0; *)
(* and count and capacity read without the lock, which is the business of  *)
(* the callers.                                                            *)
(***************************************************************************)
EXTENDS Naturals, Sequences

CONSTANTS
  Writer, Reader,  (* the threads that call write, and read or peek         *)
  MaxSize,         (* maxsize                                               *)
  MaxLen,          (* bound: the longest length given to a call             *)
  MaxBytes         (* bound: no write begins after so many bytes            *)

ASSUME BufferAssumption ==
  /\ MaxSize \in Nat \ {0} /\ MaxLen \in Nat \ {0} /\ MaxBytes \in Nat
  /\ Writer \cap Reader = {}

VARIABLES
  data, start, end, count, closed,  (* the fields of circular_buffer_t      *)
  seqStart, seqEnd,                 (* seq_start and seq_end                *)
  pc,       (* what each thread does: no call, asleep on its condition      *)
            (* variable, or woken and waiting for the lock                  *)
  left,     (* how many bytes a writer in a call has still to write         *)
  want,     (* what a reader in a call has asked for                        *)
  out       (* the bytes the last read or peek copied to dst                *)

vars == <<data, start, end, count, closed, seqStart, seqEnd, pc, left, want, out>>

Thread == Writer \cup Reader
Slot == 0 .. MaxSize - 1
Request == [len : 0 .. MaxLen, peeking : BOOLEAN]
NoRequest == [len |-> 0, peeking |-> FALSE]

TypeOK ==
  /\ data \in [Slot -> Nat]
  /\ start \in 0 .. MaxSize /\ end \in 0 .. MaxSize /\ count \in 0 .. MaxSize
  /\ closed \in BOOLEAN
  /\ seqStart \in Nat /\ seqEnd \in Nat
  /\ pc \in [Thread -> {"idle", "asleep", "woken"}]
  /\ left \in [Writer -> 0 .. MaxSize]
  /\ want \in [Reader -> Request]
  /\ out \in Seq(Nat)

Init ==
  /\ data = [i \in Slot |-> 0]
  /\ start = 0 /\ end = 0 /\ count = 0
  /\ closed = FALSE
  /\ seqStart = 0 /\ seqEnd = 0
  /\ pc = [t \in Thread |-> "idle"]
  /\ left = [w \in Writer |-> 0]
  /\ want = [r \in Reader |-> NoRequest]
  /\ out = <<>>

Lesser(a, b) == IF a < b THEN a ELSE b

(* (Mistake: to start over at slot 0 without the bytes already there.)     *)
WrappedToStart(i) == IF i > MaxSize THEN 0 ELSE i

(* start and end stay at MaxSize when they come to it exactly ...          *)
Wrapped(i) == IF i > MaxSize THEN i - MaxSize ELSE i

(* ... and mean slot 0 then.                                               *)
At(i) == IF i < MaxSize THEN i ELSE i - MaxSize

(* pthread_cond_signal: some thread that sleeps on the condition variable  *)
(* of these threads wakes, if any does.                                    *)
Signal(p, threads) ==
  LET asleep == {t \in threads : p[t] = "asleep"}
  IN  IF asleep = {} THEN {p} ELSE {[p EXCEPT ![t] = "woken"] : t \in asleep}

Broadcast(p, threads) ==
  [t \in Thread |-> IF t \in threads /\ p[t] = "asleep" THEN "woken" ELSE p[t]]

(* The end of a write.  (Mistake: to signal the other condition variable.) *)
AfterWriteToWriters(p) == Signal(p, Writer)
AfterWrite(p) == Signal(p, Reader)

(* The end of a read or a peek.  (Mistakes: to signal only when the buffer *)
(* was full, or the other condition variable.)                             *)
AfterReadIfFull(p) == IF count = MaxSize THEN Signal(p, Writer) ELSE {p}
AfterReadToReaders(p) == Signal(p, Reader)
AfterRead(p) == Signal(p, Writer)

-----------------------------------------------------------------------------
(* Writing                                                                 *)

(* k bytes are copied in behind the last one.                              *)
Put(k) ==
  /\ data' = [j \in Slot |->
       IF end <= j /\ j < end + k THEN seqEnd + (j - end) + 1
       ELSE IF j + MaxSize < end + k THEN seqEnd + (j + MaxSize - end) + 1
       ELSE data[j]]
  /\ end' = Wrapped(end + k)
  /\ count' = count + k
  /\ seqEnd' = seqEnd + k

(* The loop of circular_buffer_write for n bytes, up to its next wait or   *)
(* to the return.  A wait does not signal cv_notempty.                     *)
Fill(w, n) ==
  LET k == Lesser(n, MaxSize - count)
  IN  /\ Put(k)
      /\ left' = [left EXCEPT ![w] = n - k]
      /\ \/ k < n /\ pc' = [pc EXCEPT ![w] = "asleep"]
         \/ k = n /\ pc' \in AfterWrite([pc EXCEPT ![w] = "idle"])
      /\ UNCHANGED <<start, closed, seqStart, want, out>>

(* A call that does not block is refused when it does not fit.             *)
Write(w, n, blocking) ==
  /\ pc[w] = "idle" /\ seqEnd < MaxBytes
  /\ blocking \/ count + n <= MaxSize
  /\ Fill(w, Lesser(n, MaxSize))

ResumeWrite(w) == pc[w] = "woken" /\ Fill(w, left[w])

-----------------------------------------------------------------------------
(* Reading                                                                 *)

(* The first k bytes.                                                      *)
Contents(k) == [i \in 1 .. k |-> data[At(start + i - 1)]]

Drain(r, q) ==
  LET k == Lesser(q.len, count)
  IN  /\ count > 0
      /\ out' = Contents(k)
      /\ IF q.peeking
         THEN UNCHANGED <<start, count, seqStart>>
         ELSE /\ start' = Wrapped(start + k)
              /\ count' = count - k
              /\ seqStart' = seqStart + k
      /\ want' = [want EXCEPT ![r] = NoRequest]
      /\ pc' \in AfterRead([pc EXCEPT ![r] = "idle"])
      /\ UNCHANGED <<data, end, closed, seqEnd, left>>

(* (Mistake: to wait for data only, though none will come.)                *)
SleepForData(r, q) ==
  /\ count = 0
  /\ want' = [want EXCEPT ![r] = q]
  /\ pc' = [pc EXCEPT ![r] = "asleep"]
  /\ UNCHANGED <<data, start, end, count, closed, seqStart, seqEnd, left, out>>

Sleep(r, q) == ~closed /\ SleepForData(r, q)

ReturnZero(r) ==
  /\ count = 0 /\ closed
  /\ out' = <<>>
  /\ want' = [want EXCEPT ![r] = NoRequest]
  /\ pc' = [pc EXCEPT ![r] = "idle"]
  /\ UNCHANGED <<data, start, end, count, closed, seqStart, seqEnd, left>>

Serve(r, q) == Drain(r, q) \/ Sleep(r, q) \/ ReturnZero(r)

(* A call that does not block is refused when the buffer is empty.         *)
Read(r, q, blocking) ==
  /\ pc[r] = "idle"
  /\ blocking \/ count > 0
  /\ Serve(r, q)

ResumeRead(r) == pc[r] = "woken" /\ Serve(r, want[r])

-----------------------------------------------------------------------------
(* Closing wakes those who wait for data, and only those.                  *)
Close ==
  /\ closed' = TRUE
  /\ pc' = Broadcast(pc, Reader)
  /\ UNCHANGED <<data, start, end, count, seqStart, seqEnd, left, want, out>>

(* pthread_cond_wait may return unasked.                                   *)
WakeUnasked(t) ==
  /\ pc[t] = "asleep"
  /\ pc' = [pc EXCEPT ![t] = "woken"]
  /\ UNCHANGED <<data, start, end, count, closed, seqStart, seqEnd, left, want, out>>

AnyRead(r) ==
  \E n \in 1 .. MaxLen, peeking, blocking \in BOOLEAN :
    Read(r, [len |-> n, peeking |-> peeking], blocking)

Next ==
  \/ \E w \in Writer :
       \/ \E n \in 1 .. MaxLen, blocking \in BOOLEAN : Write(w, n, blocking)
       \/ ResumeWrite(w)
  \/ \E r \in Reader : AnyRead(r) \/ ResumeRead(r)
  \/ Close
  \/ \E t \in Thread : WakeUnasked(t)

Spec == Init /\ [][Next]_vars

(* A thread that has been woken gets the lock, and as long as there is     *)
(* something to read somebody reads it.                                    *)
Consume ==
  \E r \in Reader, n \in 1 .. MaxLen :
    count > 0 /\ Read(r, [len |-> n, peeking |-> FALSE], TRUE)

Fairness ==
  /\ \A w \in Writer : WF_vars(ResumeWrite(w))
  /\ \A r \in Reader : WF_vars(ResumeRead(r))
  /\ WF_vars(Consume)

FairSpec == Spec /\ Fairness

-----------------------------------------------------------------------------
(* The bytes of the stream that are in the buffer lie in its slots in      *)
(* order from start on, around the end of the array.                       *)
Layout ==
  /\ seqEnd = seqStart + count
  /\ start + count = end \/ start + count = end + MaxSize
  /\ \A i \in 0 .. count - 1 : data[At(start + i)] = seqStart + i + 1

(* A writer sleeps only while there is something to read, whose reader     *)
(* will signal it, or another writer is on its way: with an empty buffer   *)
(* nobody would ever signal cv_notfull again.                              *)
WritersRemembered ==
  \/ \A w \in Writer : pc[w] # "asleep"
  \/ \E w \in Writer : pc[w] = "woken"
  \/ count > 0

(* A thread that waits in a call knows what it still has to do.            *)
CallsKnown ==
  /\ \A w \in Writer : pc[w] # "idle" => left[w] > 0
  /\ \A r \in Reader : pc[r] # "idle" => want[r].len > 0

Inv == TypeOK /\ Layout /\ CallsKnown /\ WritersRemembered

(* buffer.h on reading: "if the buffer is empty ... the function will      *)
(* block until there is data in the buffer", or until it is closed.  So    *)
(* nobody sleeps beside data, or beside a closed buffer, unless a thread   *)
(* that has been woken is on its way to it.                                *)
ReadersRemembered ==
  (\E r \in Reader : pc[r] = "asleep")
    => \/ count = 0 /\ ~closed
       \/ \E r \in Reader : pc[r] = "woken"

(* The buffer is a bounded queue: nothing is lost, reordered, overwritten  *)
(* or read twice, though the bytes wrap around and writes happen in parts. *)
Queue == INSTANCE BoundedQueue WITH
  Capacity <- MaxSize, queue <- Contents(count), next <- seqEnd

BoundedFifo == Queue!Spec

(* A blocking write returns, once the writers beside it have written what  *)
(* they want to write: closing is not needed for that, reading is.         *)
WritersReturn ==
  \A w \in Writer : pc[w] # "idle" ~> pc[w] = "idle"

(* A blocking read returns when there is data or the buffer is closed.     *)
ReadersReturn ==
  \A r \in Reader : (pc[r] # "idle" /\ (count > 0 \/ closed)) ~> pc[r] = "idle"

=============================================================================
