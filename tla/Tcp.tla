-------------------------------- MODULE Tcp --------------------------------
(***************************************************************************)
(* One connection between two chiTCP daemons: the socket of the active     *)
(* opener (Client) and the one accept() made of its SYN (Server).  Each    *)
(* has a TCP thread that takes one event at a time in the order of         *)
(* chitcpd_tcp_thread_func, an application calling send, recv and close,   *)
(* and a timer thread per queued packet.  The daemons exchange packets     *)
(* over a byte stream, so net is first-in first-out; the debug responses   *)
(* DROP, WITHHOLD, DUPLICATE and DRAW_WITHHELD make it lose, delay,        *)
(* duplicate and reorder them.                                             *)
(*                                                                         *)
(* A handler is one action: the other threads touch a block only by        *)
(* setting flags, by appending to the pending packets, by writing to the   *)
(* send buffer and by reading from the receive buffer, and a handler takes *)
(* each of these once.  The event flag net_recv is "pend is not empty"     *)
(* here; module EventLoop models how the two drift apart.                  *)
(*                                                                         *)
(* An application makes one call after the other.  The handlers of SEND    *)
(* and CLOSE do not ask whether a CLOSE is under way (handlers.c:788-821,  *)
(* 1074-1087): a second thread that sends on a socket while it is being    *)
(* closed, or closes it again, is outside this module.                     *)
(***************************************************************************)
EXTENDS Tcb

CONSTANTS
  Client, Server,   (* the two sockets                                      *)
  ISS,              (* [Peer -> Nat]: initial sequence numbers              *)
  Data,             (* [Peer -> Nat]: bytes each application may send       *)
  MaxExpiries,      (* bound: timers that expire                            *)
  MaxFaults,        (* bound: packets that are not simply enqueued          *)
  SpinCap           (* bound: packets of a spinning thread at its peer      *)

Peer == {Client, Server}

ASSUME TcpAssumption ==
  /\ Client # Server
  /\ ISS \in [Peer -> Nat]
  /\ Data \in [Peer -> Nat]
  /\ MaxExpiries \in Nat /\ MaxFaults \in Nat /\ SpinCap \in Nat

VARIABLES
  tcb,        (* [Peer -> Block]                                            *)
  net,        (* net[p]: the segments on their way to p                     *)
  expiries,   (* how many timers have expired early or late                *)
  faults      (* how many packets met with a fault                          *)

vars == <<tcb, net, expiries, faults>>

Other(p) == IF p = Client THEN Server ELSE Client

(* The client has called connect; the server's socket stands for the one   *)
(* accept() makes as soon as the SYN has come in, and is in LISTEN until   *)
(* its TCP thread handles that SYN.                                        *)
Init ==
  /\ tcb = [p \in Peer |->
       IF p = Client
       THEN NewBlock("CLOSED", ISS[p], BufSize, {"APPLICATION_CONNECT"})
       ELSE NewBlock("LISTEN", ISS[p], 0, {})]
  /\ net = [p \in Peer |-> <<>>]
  /\ expiries = 0
  /\ faults = 0
-----------------------------------------------------------------------------
(***************************************************************************)
(* The TCP thread.                                                         *)
(***************************************************************************)

Priority ==
  <<"APPLICATION_CLOSE", "APPLICATION_CONNECT", "APPLICATION_RECEIVE",
    "APPLICATION_SEND", "PACKET_ARRIVAL", "CLEANUP", "TIMEOUT">>

Raised(s) ==
  s.flags \cup (IF s.pend # <<>> THEN {"PACKET_ARRIVAL"} ELSE {})

(* e is the event the loop takes next.                                     *)
Selected(s, e) ==
  /\ Running(s)
  /\ \E i \in DOMAIN Priority :
       /\ Priority[i] = e
       /\ e \in Raised(s)
       /\ \A j \in 1 .. i - 1 : Priority[j] \notin Raised(s)

(* The handler turns the block of p, with the event's flag cleared, into s *)
(* and its segments go out on the connection.  Of the late timer threads   *)
(* no more are counted than the bound lets expire.                         *)
Commit(p, s) ==
  /\ tcb' = [tcb EXCEPT ![p] =
       [s EXCEPT !.out = <<>>, !.late = Lesser(@, MaxExpiries - expiries)]]
  /\ net' = [net EXCEPT ![Other(p)] = @ \o s.out]
  /\ UNCHANGED <<expiries, faults>>

Cleared(p, e) == [tcb[p] EXCEPT !.flags = @ \ {e}]

ApplicationClose(p) ==
  /\ Selected(tcb[p], "APPLICATION_CLOSE")
  /\ Commit(p, OnClose(Cleared(p, "APPLICATION_CLOSE")))

ApplicationConnect(p) ==
  /\ Selected(tcb[p], "APPLICATION_CONNECT")
  /\ Commit(p, OnConnect(Cleared(p, "APPLICATION_CONNECT")))

ApplicationReceive(p) ==
  /\ Selected(tcb[p], "APPLICATION_RECEIVE")
  /\ Commit(p, OnReceive(Cleared(p, "APPLICATION_RECEIVE")))

ApplicationSend(p) ==
  /\ Selected(tcb[p], "APPLICATION_SEND")
  /\ Commit(p, OnSend(Cleared(p, "APPLICATION_SEND")))

PacketArrival(p) ==
  /\ Selected(tcb[p], "PACKET_ARRIVAL")
  /\ Commit(p, OnPacket(tcb[p]))

(* CLEANUP frees the entry; a packet for it then finds no socket.          *)
Cleanup(p) ==
  /\ Selected(tcb[p], "CLEANUP")
  /\ Commit(p, OnCleanup(Cleared(p, "CLEANUP")))

Timeout(p) ==
  /\ Selected(tcb[p], "TIMEOUT")
  /\ Commit(p, OnTimeout(Cleared(p, "TIMEOUT")))

(* A thread in the endless loop of process_send_buffer.                    *)
Spin(p) ==
  /\ tcb[p].thr = "spin"
  /\ LET q == Other(p)
     IN Len(net[q]) + Len(tcb[q].pend) + Len(tcb[q].oop) < SpinCap
  /\ Commit(p, [tcb[p] EXCEPT !.out =
       <<MakeSegment(tcb[p], 0, 0, FALSE, TRUE, tcb[p].nxt, FALSE)>>])
-----------------------------------------------------------------------------
(***************************************************************************)
(* Timer threads.  The timeout is a constant from the first acknowledgement*)
(* on and larger than the initial one, so timers expire in queue order.    *)
(***************************************************************************)

Raise(s, e) == [s EXCEPT !.flags = @ \cup {e}]

(* The TCP thread has something to do.                                     *)
Busy(p) == Running(tcb[p]) /\ Raised(tcb[p]) # {}

(* Nothing is on its way: a timer that expires now is not early.  (When a  *)
(* TCP thread has stopped over unhandled packets, no more are added.)      *)
Quiet == \A p \in Peer : net[p] = <<>> /\ tcb[p].pend = <<>> /\ ~Busy(p)

(* The next member of the retransmission queue whose time will be over.    *)
NextDue(s, i) ==
  /\ i \in DOMAIN s.rtq
  /\ ~s.rtq[i].due
  /\ \A j \in 1 .. i - 1 : s.rtq[j].due

Expired(s, i) == [s EXCEPT !.rtq[i].due = TRUE]
Delayed(s) == [s EXCEPT !.late = @ + 1]

TimerExpires(p) ==
  LET s == tcb[p]
  IN /\ Running(s) /\ Quiet
     /\ \E i \in DOMAIN s.rtq :
          NextDue(s, i) /\ tcb' = [tcb EXCEPT ![p] = Raise(Expired(s, i), "TIMEOUT")]
     /\ UNCHANGED <<net, expiries, faults>>

(* A packet's time is over before its acknowledgement could come; its      *)
(* thread says so now or a little later.                                   *)
EarlyTimer(p) ==
  LET s == tcb[p]
  IN /\ Running(s)
     /\ expiries < MaxExpiries
     /\ \E i \in DOMAIN s.rtq :
          /\ NextDue(s, i)
          /\ \/ tcb' = [tcb EXCEPT ![p] = Raise(Expired(s, i), "TIMEOUT")]
             \/ tcb' = [tcb EXCEPT ![p] = Delayed(Expired(s, i))]
     /\ expiries' = expiries + 1
     /\ UNCHANGED <<net, faults>>

(* A thread whose packet has been seen to be due, has left the queue before*)
(* the thread began to wait, or was resent with another.                   *)
LateTimer(p) ==
  LET s == tcb[p]
  IN /\ Running(s)
     /\ s.late > 0
     /\ expiries < MaxExpiries
     /\ tcb' = [tcb EXCEPT ![p] = Raise([s EXCEPT !.late = @ - 1], "TIMEOUT")]
     /\ expiries' = expiries + 1
     /\ UNCHANGED <<net, faults>>
-----------------------------------------------------------------------------
(***************************************************************************)
(* The applications: the SEND, RECV and CLOSE handlers of handlers.c.  An  *)
(* application sends and then closes, one call after the other and closing *)
(* once; it may read from another thread.  What a call waits for before it *)
(* returns to an application is left out where it changes no state.        *)
(***************************************************************************)

Update(p, s) == tcb' = [tcb EXCEPT ![p] = s] /\ UNCHANGED <<net, expiries, faults>>

(* States in which SEND is accepted.  The server's application learns of   *)
(* its socket when accept() has seen ESTABLISHED.                          *)
CanSend(p) ==
  {"ESTABLISHED", "CLOSE_WAIT"} \cup
  (IF p = Client THEN {"SYN_SENT", "SYN_RCVD"} ELSE {})

(* What a blocking write does at once of n bytes it has left: fill the     *)
(* buffer, and tell the TCP thread only when all has been written.         *)
Fill(s, n) ==
  LET k == Lesser(n, BufSize - Unsent(s))
      w == [s EXCEPT !.wrote = @ + k, !.rem = n - k]
  IN IF k = n /\ s.state \in {"ESTABLISHED", "CLOSE_WAIT"}
     THEN Raise(w, "APPLICATION_SEND") ELSE w

SocketSend(p, n) ==
  LET s == tcb[p]
  IN /\ s.state \in CanSend(p) /\ s.thr # "done"
     /\ s.rem = 0
     /\ ~s.closing /\ "APPLICATION_CLOSE" \notin s.flags
     /\ s.wrote + n <= Data[p]
     /\ Update(p, Fill(s, n))

(* The blocked writer is woken when the TCP thread has made room.          *)
SocketSendResumes(p) ==
  LET s == tcb[p]
  IN /\ s.rem > 0 /\ s.thr # "done"
     /\ Unsent(s) < BufSize
     /\ Update(p, Fill(s, s.rem))

SocketRecv(p, n) ==
  LET s == tcb[p]
  IN /\ s.state \notin {"CLOSED", "LISTEN", "LAST_ACK", "CLOSING"} /\ s.thr # "done"
     /\ n <= Len(s.got) - s.rd
     /\ LET r == [s EXCEPT !.rd = @ + n]
        IN Update(p, IF s.state \in {"ESTABLISHED", "FIN_WAIT_1", "FIN_WAIT_2"}
                     THEN Raise(r, "APPLICATION_RECEIVE") ELSE r)

SocketClose(p) ==
  LET s == tcb[p]
  IN /\ s.state \in {"ESTABLISHED", "CLOSE_WAIT"}
     /\ s.rem = 0
     /\ ~s.closing /\ "APPLICATION_CLOSE" \notin s.flags
     /\ Update(p, Raise(s, "APPLICATION_CLOSE"))
-----------------------------------------------------------------------------
(***************************************************************************)
(* The connection thread: chitcpd_recv_tcp_packet, chitcpd_enqueue_packet. *)
(***************************************************************************)

Arriving(p) == net[p] # <<>>

Received(p) == net' = [net EXCEPT ![p] = Tail(@)] /\ UNCHANGED expiries

(* DBG_RESP_NONE                                                           *)
EnqueuePacket(p) ==
  /\ Arriving(p) /\ tcb[p].thr # "done"
  /\ tcb' = [tcb EXCEPT ![p].pend = Append(@, Head(net[p]))]
  /\ Received(p) /\ UNCHANGED faults

(* The socket's entry has been freed.                                      *)
NoSocket(p) ==
  /\ Arriving(p) /\ tcb[p].thr = "done"
  /\ Received(p) /\ UNCHANGED <<tcb, faults>>

Fault(p) ==
  /\ Arriving(p) /\ tcb[p].thr # "done"
  /\ faults < MaxFaults
  /\ faults' = faults + 1
  /\ Received(p)

DropPacket(p) == Fault(p) /\ UNCHANGED tcb

WithholdPacket(p) ==
  /\ Fault(p)
  /\ tcb' = [tcb EXCEPT ![p].held = Append(@, Head(net[p]))]

DuplicatePacket(p) ==
  /\ Fault(p)
  /\ tcb' = [tcb EXCEPT ![p].held = Append(@, Head(net[p])),
                        ![p].pend = Append(@, Head(net[p]))]

(* The oldest withheld packet is enqueued before the one that arrived.     *)
DrawWithheld(p) ==
  /\ Fault(p)
  /\ tcb[p].held # <<>>
  /\ tcb' = [tcb EXCEPT ![p].held = Tail(@),
                        ![p].pend = @ \o <<Head(tcb[p].held), Head(net[p])>>]
-----------------------------------------------------------------------------
TcpThread(p) ==
  \/ ApplicationClose(p) \/ ApplicationConnect(p) \/ ApplicationReceive(p)
  \/ ApplicationSend(p) \/ PacketArrival(p) \/ Cleanup(p) \/ Timeout(p)
  \/ Spin(p)

Timers(p) == TimerExpires(p) \/ EarlyTimer(p) \/ LateTimer(p)

Application(p) ==
  \/ \E n \in 1 .. BufSize : SocketSend(p, n) \/ SocketRecv(p, n)
  \/ SocketSendResumes(p)
  \/ SocketClose(p)

Connection(p) ==
  \/ EnqueuePacket(p) \/ NoSocket(p)
  \/ DropPacket(p) \/ WithholdPacket(p) \/ DuplicatePacket(p) \/ DrawWithheld(p)

Next == \E p \in Peer : TcpThread(p) \/ Timers(p) \/ Application(p) \/ Connection(p)

Spec == Init /\ [][Next]_vars

(* The daemon's threads run and packets arrive (for the TCP thread this is *)
(* weak fairness of TcpThread(p), enabled when the thread is busy, written *)
(* out for TLC's sake).  A timer that is not cancelled expires, also when  *)
(* the network is busy time and again.                                     *)
DaemonFairness ==
  \A p \in Peer :
    /\ []<>~Busy(p) \/ []<><<TcpThread(p)>>_vars
    /\ WF_vars(EnqueuePacket(p))
    /\ WF_vars(SocketSendResumes(p))
    /\ SF_vars(TimerExpires(p))

(* The applications read what arrives and, once connected, close.          *)
ApplicationFairness ==
  \A p \in Peer :
    /\ WF_vars(\E n \in 1 .. BufSize : SocketRecv(p, n))
    /\ WF_vars(SocketClose(p))

DaemonSpec == Spec /\ DaemonFairness
FairSpec == DaemonSpec /\ ApplicationFairness
=============================================================================
