-------------------------- MODULE EventLoopProofs --------------------------
(***************************************************************************)
(* The safety properties of module EventLoop, for any number of packets    *)
(* and calls.  NoLostPacket says what holds when the TCP thread waits; to  *)
(* be preserved it has to follow a packet through the thread's own steps.  *)
(***************************************************************************)
EXTENDS EventLoop, TLAPS

(* Only net_recv takes the thread through fetching and looking again.      *)
OnNetRecv == tpc \in {"fetch", "recheck", "reflag"} => event = "net_recv"

(* Somebody knows of the packets that are pending: a flag, a thread about  *)
(* to raise it, or the TCP thread, which looks again before it waits.      *)
PacketsKnown ==
  pending > 0 =>
    \/ "net_recv" \in flags \/ cpc = "queued" \/ apc = "signal"
    \/ event = "net_recv" /\ tpc # "wait"
    \/ tpc \in {"cleanup", "done"}

(* Somebody knows that the socket is closed.                               *)
ClosedKnown ==
  state = "CLOSED" => "cleanup" \in flags \/ hpc = "closed" \/ tpc = "done"

(* The inductive invariant.                                                *)
LoopInv == TypeOK /\ OnNetRecv /\ PacketsKnown /\ ClosedKnown
-----------------------------------------------------------------------------
(* The bounds allow one more packet or call than there have been.          *)
LEMMA OneMore ==
  ASSUME NEW n \in Nat, NEW m \in 0 .. n, m < n
  PROVE  m + 1 \in 0 .. n
OBVIOUS

(* A handler moves a socket to a phase, and to CLOSED only from CLOSING.   *)
LEMMA AfterPhase ==
  ASSUME NEW s \in Phase
  PROVE  After(s) \subseteq Phase
BY DEF After, Phase

(* The first state.                                                        *)
LEMMA InitLoopInv == Init => LoopInv
BY EventLoopAssumption
   DEF Init, LoopInv, TypeOK, OnNetRecv, PacketsKnown, ClosedKnown, Phase, Event

(* The steps of the TCP thread: it waits only after it has looked again,   *)
(* and closes a socket only by a step that raises CLEANUP.                 *)
LEMMA TcpThreadKeepsLoopInv == LoopInv /\ TcpThread => LoopInv'
<1> SUFFICES ASSUME LoopInv, TcpThread PROVE LoopInv'
  OBVIOUS
<1> USE EventLoopAssumption
    DEF LoopInv, TypeOK, OnNetRecv, PacketsKnown, ClosedKnown, Event
<1>1. ASSUME NEW e \in Event, Take(e) PROVE LoopInv'
  BY <1>1, ZenonT(40) DEF Take
<1>2. CASE Dispatch
  BY <1>2 DEF Dispatch
<1>3. CASE Fetch
  BY <1>3 DEF Fetch
<1>4. CASE Work
  <2>1. state' \in Phase
    BY <1>4, AfterPhase DEF Work, Phase
  <2>2. flags' \subseteq Event /\ pending' \in Nat /\ oop' \in Nat
    <3>1. flags' = flags \/ flags' = flags \cup {"cleanup"}
      BY <1>4 DEF Work
    <3>2. pending' \in Nat /\ oop' \in Nat
      BY <1>4 DEF Work
    <3> QED BY <3>1, <3>2
  <2>3. TypeOK'
    <3>1. tpc' \in {"wait", "recheck"}
      BY <1>4 DEF Work
    <3>2. UNCHANGED <<event, seen, cpc, apc, hpc, arrived, calls, fate>>
      BY <1>4 DEF Work
    <3> QED BY <2>1, <2>2, <3>1, <3>2
  <2>4. OnNetRecv'
    BY <1>4 DEF Work
  <2>5. PacketsKnown'
    BY <1>4 DEF Work
  <2>6. ClosedKnown'
    BY <1>4 DEF Work
  <2> QED BY <2>3, <2>4, <2>5, <2>6
<1>5. CASE Recheck
  BY <1>5 DEF Recheck
<1>6. CASE Reflag
  BY <1>6 DEF Reflag
<1>7. CASE Cleanup
  <2>1. CASE state # "CLOSED"
    BY <1>7, <2>1 DEF Cleanup
  <2>2. CASE state = "CLOSED"
    <3>1. /\ flags' = {} /\ pending' = 0 /\ oop' = 0 /\ tpc' = "done"
          /\ UNCHANGED <<state, event, seen, cpc, apc, hpc, arrived, calls, fate>>
      BY <1>7, <2>2 DEF Cleanup
    <3> QED BY <3>1
  <2> QED BY <2>1, <2>2
<1> HIDE DEF LoopInv, TypeOK, OnNetRecv, PacketsKnown, ClosedKnown, Event
<1> QED BY <1>1, <1>2, <1>3, <1>4, <1>5, <1>6, <1>7 DEF TcpThread

(* The steps of the other threads: who appends a packet or closes the      *)
(* socket still has to raise the flag.                                     *)
LEMMA OthersKeepLoopInv ==
  ASSUME LoopInv,
         \/ ConnectionThread \/ AcceptSignals \/ AcceptReturns \/ HandlerThread
         \/ \E e \in {"app_close", "app_recv", "app_send"} : AppCall(e)
         \/ TimerExpires
  PROVE  LoopInv'
<1> USE EventLoopAssumption
    DEF LoopInv, TypeOK, OnNetRecv, PacketsKnown, ClosedKnown, Event, Raise
<1>1. CASE LookupSocket
  <2>1. arrived' \in 0 .. MaxPackets
    BY <1>1, OneMore DEF LookupSocket
  <2> QED BY <1>1, <2>1 DEF LookupSocket
<1>2. CASE EnqueuePacket
  BY <1>2 DEF EnqueuePacket
<1>3. CASE SignalPacket
  BY <1>3 DEF SignalPacket
<1>4. CASE AcceptSignals
  BY <1>4 DEF AcceptSignals
<1>5. CASE AcceptReturns
  BY <1>5 DEF AcceptReturns
<1>6. CASE ForceClosed
  BY <1>6 DEF ForceClosed, Phase
<1>7. CASE ForceCleanup
  BY <1>7, ZenonT(40) DEF ForceCleanup
<1>8. ASSUME NEW e \in {"app_close", "app_recv", "app_send"}, AppCall(e)
      PROVE  LoopInv'
  <2>1. calls' \in 0 .. MaxCalls
    BY <1>8, OneMore DEF AppCall
  <2> QED BY <1>8, <2>1 DEF AppCall
<1>9. CASE TimerExpires
  <2>1. calls' \in 0 .. MaxCalls
    BY <1>9, OneMore DEF TimerExpires
  <2> QED BY <1>9, <2>1 DEF TimerExpires
<1> HIDE DEF LoopInv, TypeOK, OnNetRecv, PacketsKnown, ClosedKnown, Event, Raise
<1> QED
  BY <1>1, <1>2, <1>3, <1>4, <1>5, <1>6, <1>7, <1>8, <1>9
     DEF ConnectionThread, HandlerThread

(* Every step.                                                             *)
LEMMA NextKeepsLoopInv == LoopInv /\ [Next]_vars => LoopInv'
<1> SUFFICES ASSUME LoopInv, [Next]_vars PROVE LoopInv'
  OBVIOUS
<1>1. CASE Next
  BY <1>1, TcpThreadKeepsLoopInv, OthersKeepLoopInv DEF Next
<1>2. CASE UNCHANGED vars
  BY <1>2 DEF vars, LoopInv, TypeOK, OnNetRecv, PacketsKnown, ClosedKnown
<1> QED BY <1>1, <1>2

(* The event loop, the threads that raise its events and the handler only  *)
(* reach phases, flags and places in their code that there are.            *)
THEOREM LoopTypes == Spec => []TypeOK
<1>1. LoopInv => TypeOK
  BY DEF LoopInv
<1> QED BY InitLoopInv, NextKeepsLoopInv, <1>1, PTL DEF Spec

(* However the threads of chitcpd_tcp_thread_func, chitcpd_enqueue_packet  *)
(* and the handlers interleave, a pending packet does not go unnoticed.    *)
THEOREM PacketNeverLost == Spec => []NoLostPacket
<1>1. LoopInv => NoLostPacket
  BY DEF LoopInv, PacketsKnown, NoLostPacket
<1> QED BY InitLoopInv, NextKeepsLoopInv, <1>1, PTL DEF Spec

(* However they interleave, a socket that is CLOSED is not forgotten.      *)
THEOREM ClosedNeverForgotten == Spec => []ClosedIsCleanedUp
<1>1. LoopInv => ClosedIsCleanedUp
  BY DEF LoopInv, ClosedKnown, ClosedIsCleanedUp
<1> QED BY InitLoopInv, NextKeepsLoopInv, <1>1, PTL DEF Spec
=============================================================================
