---------------------------- MODULE BoundedQueue ----------------------------
(***************************************************************************)
(* What buffer.h promises of a circular buffer: a queue of bytes of        *)
(* limited capacity.  Bytes come out in the order they went in, each once; *)
(* a peek sees what a read would return; and a read returns nothing only   *)
(* when the buffer has been closed and is empty.                           *)
(***************************************************************************)
EXTENDS Naturals, Sequences

CONSTANT Capacity

VARIABLES
  queue,     (* the bytes in the buffer, each named by its position in the  *)
             (* stream of all bytes ever put in                             *)
  next,      (* how many have been put in                                   *)
  closed,    (* no more are to come                                         *)
  out        (* what the last read or peek returned                         *)

vars == <<queue, next, closed, out>>

Init == queue = <<>> /\ next = 0 /\ closed = FALSE /\ out = <<>>

Put(k) ==
  /\ Len(queue) + k <= Capacity
  /\ queue' = queue \o [i \in 1 .. k |-> next + i]
  /\ next' = next + k
  /\ UNCHANGED <<closed, out>>

Peek(k) ==
  /\ k <= Len(queue)
  /\ out' = SubSeq(queue, 1, k)
  /\ UNCHANGED <<queue, next, closed>>

Get(k) ==
  /\ k <= Len(queue)
  /\ out' = SubSeq(queue, 1, k)
  /\ queue' = SubSeq(queue, k + 1, Len(queue))
  /\ UNCHANGED <<next, closed>>

GetNothing ==
  /\ closed /\ queue = <<>>
  /\ out' = <<>>
  /\ UNCHANGED <<queue, next, closed>>

Close ==
  /\ closed' = TRUE
  /\ UNCHANGED <<queue, next, out>>

Next ==
  \/ \E k \in 1 .. Capacity : Put(k) \/ Peek(k) \/ Get(k)
  \/ GetNothing
  \/ Close

Spec == Init /\ [][Next]_vars
=============================================================================
