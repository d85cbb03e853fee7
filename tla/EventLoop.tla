----------------------------- MODULE EventLoop -----------------------------
(***************************************************************************)
(* The event loop of one active socket (chitcpd_tcp_thread_func) and the   *)
(* threads that raise its events: the connection thread, which enqueues a  *)
(* packet and raises net_recv in two critical sections; accept(), which    *)
(* raises the first net_recv; the handler thread, which forces the socket  *)
(* CLOSED when its client has gone; applications and timers.  Module Tcp   *)
(* takes enqueueing and raising as one step; here they are two, and what   *)
(* the handlers do with a packet is left open.                             *)
(*                                                                         *)
(* lock_event is held only for one of the steps below, except from the     *)
(* moment CLEANUP is seen until the entry has been freed.                  *)
(***************************************************************************)
EXTENDS Naturals

CONSTANTS
  MaxPackets,   (* bound: packets that arrive after the first              *)
  MaxCalls      (* bound: calls of applications and timers that expire     *)

ASSUME EventLoopAssumption == MaxPackets \in Nat /\ MaxCalls \in Nat

VARIABLES
  state,        (* tcp_state, as far as it matters here: see Phase         *)
  flags,        (* the event flags that are raised                         *)
  pending,      (* how many packets pending_packets holds                  *)
  oop,          (* how many packets oop_packet_list holds                  *)
  event,        (* the event the TCP thread is handling                    *)
  seen,         (* the state it was dispatched on                          *)
  tpc,          (* where the TCP thread is                                 *)
  cpc,          (* where the connection thread is                          *)
  apc,          (* where accept() is                                       *)
  hpc,          (* where the handler thread is in closing the socket       *)
  arrived,      (* packets that have arrived after the first               *)
  calls,        (* application calls and timers so far                     *)
  fate          (* what has become of the daemon                           *)

vars == <<state, flags, pending, oop, event, seen, tpc, cpc, apc, hpc,
          arrived, calls, fate>>

(* "OPENING": LISTEN and SYN_RCVD; "CLOSING": the states between           *)
(* ESTABLISHED and CLOSED.                                                 *)
Phase == {"OPENING", "ESTABLISHED", "CLOSING", "CLOSED"}

(* The phases a handler may move a socket to that it found in phase s: a   *)
(* packet any of them, APPLICATION_CLOSE only CLOSING.                     *)
After(s) ==
  CASE s = "OPENING" -> {"ESTABLISHED", "CLOSING"}
    [] s = "ESTABLISHED" -> {"CLOSING"}
    [] s = "CLOSING" -> {"CLOSING", "CLOSED"}
    [] OTHER -> {}

Event == {"app_close", "app_recv", "app_send", "net_recv", "cleanup", "timeout"}

(* The order in which the loop looks at the flags.                         *)
Rank == [app_close |-> 1, app_recv |-> 2, app_send |-> 3, net_recv |-> 4,
         cleanup |-> 5, timeout |-> 6]

TypeOK ==
  /\ state \in Phase /\ seen \in Phase
  /\ flags \subseteq Event /\ event \in Event
  /\ pending \in Nat /\ oop \in Nat
  /\ tpc \in {"wait", "dispatch", "fetch", "work", "recheck", "reflag", "cleanup", "done"}
  /\ cpc \in {"idle", "found", "queued"}
  /\ apc \in {"signal", "wait", "done"}
  /\ hpc \in {"idle", "closed", "done"}
  /\ arrived \in 0 .. MaxPackets /\ calls \in 0 .. MaxCalls
  /\ fate \in {"alive", "crashed", "aborted"}

(* accept() has stored the SYN with the socket and started its TCP thread. *)
Init ==
  /\ state = "OPENING" /\ seen = "OPENING"
  /\ flags = {} /\ event = "net_recv"
  /\ pending = 1 /\ oop = 0
  /\ tpc = "wait" /\ cpc = "idle" /\ apc = "signal" /\ hpc = "idle"
  /\ arrived = 0 /\ calls = 0
  /\ fate = "alive"

Alive == fate = "alive"

(* Another thread raises a flag, when it gets lock_event.                  *)
Raise(e) == tpc # "cleanup" /\ flags' = flags \cup {e}
-----------------------------------------------------------------------------
(***************************************************************************)
(* The TCP thread.                                                         *)
(***************************************************************************)

(* Mutant: all flags are lowered.                                          *)
TakeAll(e) ==
  /\ Alive /\ tpc = "wait"
  /\ e \in flags /\ \A f \in flags : Rank[e] <= Rank[f]
  /\ event' = e
  /\ flags' = {}
  /\ tpc' = IF e = "cleanup" THEN "cleanup" ELSE "dispatch"
  /\ UNCHANGED <<state, pending, oop, seen, cpc, apc, hpc, arrived, calls, fate>>

(* The flag is lowered before the event is handled; that of CLEANUP stays, *)
(* and so does the lock.                                                   *)
Take(e) ==
  /\ Alive /\ tpc = "wait"
  /\ e \in flags /\ \A f \in flags : Rank[e] <= Rank[f]
  /\ event' = e
  /\ IF e = "cleanup" THEN tpc' = "cleanup" /\ UNCHANGED flags
                      ELSE tpc' = "dispatch" /\ flags' = flags \ {e}
  /\ UNCHANGED <<state, pending, oop, seen, cpc, apc, hpc, arrived, calls, fate>>

(* chitcpd_dispatch_tcp picks the handler by the state it reads once.      *)
Dispatch ==
  /\ Alive /\ tpc = "dispatch"
  /\ seen' = state
  /\ tpc' = IF event = "net_recv" THEN "fetch" ELSE "work"
  /\ UNCHANGED <<state, flags, pending, oop, event, cpc, apc, hpc, arrived, calls, fate>>

(* Mutant: the list is taken to hold a packet.                             *)
FetchBlindly ==
  /\ Alive /\ tpc = "fetch"
  /\ pending' = pending - 1 /\ tpc' = "work"
  /\ UNCHANGED <<state, flags, oop, event, seen, cpc, apc, hpc, arrived, calls, fate>>

(* chitcpd_tcp_handle_packet takes the first pending packet, and reads     *)
(* through a NULL pointer if there is none.                                *)
Fetch ==
  /\ Alive /\ tpc = "fetch"
  /\ IF pending = 0 THEN fate' = "crashed" /\ UNCHANGED <<pending, tpc>>
                    ELSE pending' = pending - 1 /\ tpc' = "work" /\ UNCHANGED fate
  /\ UNCHANGED <<state, flags, oop, event, seen, cpc, apc, hpc, arrived, calls>>

(* Mutant: the state is assigned without chitcpd_update_tcp_state.         *)
WorkQuietly ==
  /\ Alive /\ tpc = "work"
  /\ \/ UNCHANGED state
     \/ event = "net_recv" /\ state' \in After(seen)
  /\ tpc' = IF event = "net_recv" THEN "recheck" ELSE "wait"
  /\ UNCHANGED <<flags, pending, oop, event, seen, cpc, apc, hpc, arrived, calls, fate>>

(* The rest of a handler: a packet may be put on the out-of-order list, or *)
(* may bring one back from it; the packet or an APPLICATION_CLOSE may move *)
(* the socket on, the packet also to CLOSED.                               *)
Work ==
  /\ Alive /\ tpc = "work"
  /\ \/ UNCHANGED <<state, flags, pending, oop>>
     \/ /\ event \in {"net_recv", "app_close"}
        /\ state' \in After(seen) \ {"CLOSED"}
        /\ UNCHANGED <<flags, pending, oop>>
     \/ /\ event = "net_recv"
        /\ "CLOSED" \in After(seen)
        /\ state' = "CLOSED" /\ flags' = flags \cup {"cleanup"}
        /\ UNCHANGED <<pending, oop>>
     \/ /\ event = "net_recv" /\ seen # "CLOSED"
        /\ oop' = oop + 1
        /\ UNCHANGED <<state, flags, pending>>
     \/ /\ event = "net_recv" /\ seen # "CLOSED"
        /\ oop > 0 /\ oop' = oop - 1 /\ pending' = pending + 1
        /\ UNCHANGED <<state, flags>>
  /\ tpc' = IF event = "net_recv" THEN "recheck" ELSE "wait"
  /\ UNCHANGED <<event, seen, cpc, apc, hpc, arrived, calls, fate>>

(* Mutant: one event, one packet.                                          *)
RecheckNever ==
  /\ Alive /\ tpc = "recheck"
  /\ tpc' = "wait"
  /\ UNCHANGED <<state, flags, pending, oop, event, seen, cpc, apc, hpc, arrived, calls, fate>>

(* "If there are more packets to process, set net_recv to 1 again"         *)
Recheck ==
  /\ Alive /\ tpc = "recheck"
  /\ tpc' = IF pending > 0 THEN "reflag" ELSE "wait"
  /\ UNCHANGED <<state, flags, pending, oop, event, seen, cpc, apc, hpc, arrived, calls, fate>>

(* Mutant: the other flags are overwritten.                                *)
ReflagAlone ==
  /\ Alive /\ tpc = "reflag"
  /\ flags' = {"net_recv"}
  /\ tpc' = "wait"
  /\ UNCHANGED <<state, pending, oop, event, seen, cpc, apc, hpc, arrived, calls, fate>>

Reflag ==
  /\ Alive /\ tpc = "reflag"
  /\ flags' = flags \cup {"net_recv"}
  /\ tpc' = "wait"
  /\ UNCHANGED <<state, pending, oop, event, seen, cpc, apc, hpc, arrived, calls, fate>>

(* The assertion, and chitcpd_free_socket_entry.                           *)
Cleanup ==
  /\ Alive /\ tpc = "cleanup"
  /\ IF state # "CLOSED"
     THEN fate' = "aborted" /\ UNCHANGED <<flags, pending, oop, tpc>>
     ELSE flags' = {} /\ pending' = 0 /\ oop' = 0 /\ tpc' = "done" /\ UNCHANGED fate
  /\ UNCHANGED <<state, event, seen, cpc, apc, hpc, arrived, calls>>
-----------------------------------------------------------------------------
(***************************************************************************)
(* The other threads.                                                      *)
(***************************************************************************)

(* chitcpd_recv_tcp_packet finds the entry ...                             *)
LookupSocket ==
  /\ Alive /\ cpc = "idle" /\ tpc # "done"
  /\ arrived < MaxPackets /\ arrived' = arrived + 1
  /\ cpc' = "found"
  /\ UNCHANGED <<state, flags, pending, oop, event, seen, tpc, apc, hpc, calls, fate>>

(* ... chitcpd_enqueue_packet appends the packet, to a list that is gone   *)
(* if the entry has been freed meanwhile ...                               *)
EnqueuePacket ==
  /\ Alive /\ cpc = "found"
  /\ IF tpc = "done" THEN fate' = "crashed" /\ UNCHANGED <<pending, cpc>>
                     ELSE pending' = pending + 1 /\ cpc' = "queued" /\ UNCHANGED fate
  /\ UNCHANGED <<state, flags, oop, event, seen, tpc, apc, hpc, arrived, calls>>

(* ... and raises net_recv.                                                *)
SignalPacket ==
  /\ Alive /\ cpc = "queued"
  /\ Raise("net_recv")
  /\ cpc' = "idle"
  /\ UNCHANGED <<state, pending, oop, event, seen, tpc, apc, hpc, arrived, calls, fate>>

(* accept() signals the TCP thread it has started.                         *)
AcceptSignals ==
  /\ Alive /\ apc = "signal"
  /\ Raise("net_recv")
  /\ apc' = "wait"
  /\ UNCHANGED <<state, pending, oop, event, seen, tpc, cpc, hpc, arrived, calls, fate>>

(* It looks whether the socket is ESTABLISHED, now and whenever the state  *)
(* has changed; other threads may run before it looks.                     *)
AcceptReturns ==
  /\ Alive /\ apc = "wait" /\ state = "ESTABLISHED"
  /\ apc' = "done"
  /\ UNCHANGED <<state, flags, pending, oop, event, seen, tpc, cpc, hpc, arrived, calls, fate>>

(* The daemon's client has disconnected: chitcpd_update_tcp_state(CLOSED)  *)
(* from another thread, the one that was in accept() before.               *)
ForceClosed ==
  /\ Alive /\ apc = "done" /\ hpc = "idle" /\ tpc # "done"
  /\ state' = "CLOSED" /\ hpc' = "closed"
  /\ UNCHANGED <<flags, pending, oop, event, seen, tpc, cpc, apc, arrived, calls, fate>>

(* A freed entry is no longer of type SOCKET_ACTIVE.                       *)
ForceCleanup ==
  /\ Alive /\ hpc = "closed"
  /\ IF tpc = "done" THEN UNCHANGED flags ELSE Raise("cleanup")
  /\ hpc' = "done"
  /\ UNCHANGED <<state, pending, oop, event, seen, tpc, cpc, apc, arrived, calls, fate>>

(* The SEND, RECV and CLOSE handlers.                                      *)
AppCall(e) ==
  /\ Alive /\ tpc # "done" /\ state # "CLOSED" /\ apc = "done" /\ hpc = "idle"
  /\ calls < MaxCalls /\ calls' = calls + 1
  /\ Raise(e)
  /\ UNCHANGED <<state, pending, oop, event, seen, tpc, cpc, apc, hpc, arrived, fate>>

(* chitcpd_timeout, by a timer thread that may outlive the socket.         *)
TimerExpires ==
  /\ Alive
  /\ calls < MaxCalls /\ calls' = calls + 1
  /\ Raise("timeout")
  /\ UNCHANGED <<state, pending, oop, event, seen, tpc, cpc, apc, hpc, arrived, fate>>
-----------------------------------------------------------------------------
TcpThread ==
  \/ \E e \in Event : Take(e)
  \/ Dispatch \/ Fetch \/ Work \/ Recheck \/ Reflag \/ Cleanup

ConnectionThread == LookupSocket \/ EnqueuePacket \/ SignalPacket

HandlerThread == ForceClosed \/ ForceCleanup

Next ==
  \/ TcpThread
  \/ ConnectionThread
  \/ AcceptSignals \/ AcceptReturns
  \/ HandlerThread
  \/ \E e \in {"app_close", "app_recv", "app_send"} : AppCall(e)
  \/ TimerExpires

Spec == Init /\ [][Next]_vars

(* Threads that have begun go on; nobody has to call, send or disconnect.  *)
Fairness ==
  /\ WF_vars(TcpThread)
  /\ WF_vars(EnqueuePacket \/ SignalPacket)
  /\ WF_vars(AcceptSignals) /\ WF_vars(AcceptReturns)
  /\ WF_vars(ForceCleanup)

FairSpec == Spec /\ Fairness
-----------------------------------------------------------------------------
(* The condition the loop waits on misses no packet: whenever the TCP      *)
(* thread is about to wait and a packet is pending, net_recv is raised or  *)
(* a thread is about to raise it.                                          *)
NoLostPacket ==
  pending > 0 /\ tpc = "wait" =>
    "net_recv" \in flags \/ cpc = "queued" \/ apc = "signal"

(* A socket that is CLOSED is going to be freed: CLEANUP is raised or the  *)
(* thread that closed it is about to raise it.                             *)
ClosedIsCleanedUp ==
  state = "CLOSED" /\ tpc = "wait" => "cleanup" \in flags \/ hpc = "closed"

(* The pending packets are taken, unless the daemon dies: the event loop   *)
(* does not forget net_recv over events of higher priority.                *)
PacketsTaken == pending > 0 ~> pending = 0 \/ ~Alive

(* A socket whose cleanup flag is up is freed, unless the daemon dies: the *)
(* flag survives the other events, which nearly all come before it.        *)
ClosedFreed == "cleanup" \in flags ~> tpc = "done" \/ ~Alive

(* "Wait for socket to enter ESTABLISHED state": accept() returns once the *)
(* socket has entered it.                                                  *)
EstablishedIsSeen == state = "ESTABLISHED" ~> apc = "done" \/ ~Alive
=============================================================================
