----------------------------- MODULE ByteStream -----------------------------
(***************************************************************************)
(* What a connection promises its two applications, whatever the network   *)
(* does and whenever timers expire: a byte stream in each direction.  The  *)
(* bytes an application wrote reach the other side in the order written,   *)
(* each once, and the end of the stream is announced only when the writer  *)
(* has closed and its last byte has arrived.                               *)
(***************************************************************************)
EXTENDS Naturals, Sequences

CONSTANTS
  Peer,         (* the two ends                                             *)
  OtherEnd(_)   (* the opposite end                                         *)

VARIABLES
  written,      (* [Peer -> Nat]: bytes the application at p has written    *)
  closed,       (* [Peer -> BOOLEAN]: it has closed its direction           *)
  delivered,    (* [Peer -> Seq(Nat)]: bytes that have arrived at p, each   *)
                (* named by its position in the other end's stream          *)
  ended         (* [Peer -> BOOLEAN]: p has been told there are no more     *)

vars == <<written, closed, delivered, ended>>

Init ==
  /\ written = [p \in Peer |-> 0]
  /\ closed = [p \in Peer |-> FALSE]
  /\ delivered = [p \in Peer |-> <<>>]
  /\ ended = [p \in Peer |-> FALSE]

Write(p) ==
  /\ ~closed[p]
  /\ written'[p] > written[p]
  /\ written' = [written EXCEPT ![p] = written'[p]]
  /\ UNCHANGED <<closed, delivered, ended>>

Close(p) ==
  /\ ~closed[p]
  /\ closed' = [closed EXCEPT ![p] = TRUE]
  /\ UNCHANGED <<written, delivered, ended>>

(* The next bytes of the other end's stream arrive.                        *)
Deliver(p) ==
  /\ ~ended[p]
  /\ \E m \in (Len(delivered[p]) + 1) .. written[OtherEnd(p)] :
       delivered' = [delivered EXCEPT ![p] = [i \in 1 .. m |-> i]]
  /\ UNCHANGED <<written, closed, ended>>

End(p) ==
  /\ ~ended[p]
  /\ closed[OtherEnd(p)]
  /\ Len(delivered[p]) = written[OtherEnd(p)]
  /\ ended' = [ended EXCEPT ![p] = TRUE]
  /\ UNCHANGED <<written, closed, delivered>>

Next == \E p \in Peer : Write(p) \/ Close(p) \/ Deliver(p) \/ End(p)

Spec == Init /\ [][Next]_vars
=============================================================================
