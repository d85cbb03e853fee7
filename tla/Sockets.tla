------------------------------ MODULE Sockets ------------------------------
(***************************************************************************)
(* The socket table and the port table of chitcpd, and those who change    *)
(* them: the handler threads, one for each client (chitcpd/handlers.c),    *)
(* the TCP threads of active sockets, the connection thread that looks for *)
(* the socket of a SYN (chitcpd/connection.c), and the server thread that  *)
(* stops the daemon (chitcpd/server.c).  Hardly any of it takes a lock, so *)
(* a handler is divided where others may come in between.                  *)
(*                                                                         *)
(* What TCP does is left to module Tcp: here a TCP thread moves its socket *)
(* from state to state as packets might.  "OPENING" stands for SYN_SENT    *)
(* and SYN_RCVD, "ENDING" for FIN_WAIT_2, CLOSING and TIME_WAIT.           *)
(*                                                                         *)
(* Any client may name any socket in its calls, whoever made it, bind it   *)
(* again and connect it after that, and bind ephemeral ports: the handlers *)
(* ask only whether the entry is in use and CLOSED.  Clients do not bind   *)
(* port 0, and there is one local address beside the wildcard.             *)
(***************************************************************************)
EXTENDS Naturals, Sequences, FiniteSets

CONSTANTS NHandlers,        \* handler threads, in the order of handler_thread_list
          NSockets,         \* chisocket_table_size
          EphemeralStart,   \* ephemeral_port_start
          LastPort,         \* port_table_size - 1, and (uint16_t) -1
          Remotes,          \* addresses and ports of peers
          MaxCalls,         \* bound: requests of clients that are not refused
          MaxSyns,          \* bound: SYNs that arrive
          Null

ASSUME SocketsAssumption ==
  /\ NHandlers \in Nat \ {0} /\ NSockets \in Nat \ {0}
  /\ EphemeralStart \in Nat \ {0} /\ LastPort \in Nat /\ EphemeralStart <= LastPort
  /\ MaxCalls \in Nat /\ MaxSyns \in Nat
  /\ Null \notin Remotes \union Nat

VARIABLES
  sock,         \* chisocket_table
  port_table,   \* the socket each port is assigned to
  hnd,          \* what each handler thread is doing
  found,        \* the socket the connection thread has found for a SYN
  daemon,       \* the state of the daemon
  turn,         \* the handler thread the server thread ends next
  calls, syns,  \* requests and SYNs so far
  rebound,      \* history: sockets given a port on top of another, or while free
  spoiled       \* history: ports given to two, or given back by another's free

vars == <<sock, port_table, hnd, found, daemon, turn, calls, syns, rebound, spoiled>>

history == <<rebound, spoiled>>

Handlers == 1..NHandlers
Socket == 1..NSockets
Port == 1..LastPort

TcpState == {"CLOSED", "LISTEN", "OPENING", "ESTABLISHED",
             "FIN_WAIT_1", "ENDING", "CLOSE_WAIT", "LAST_ACK"}

(* An entry after memset, and calloc of the table.  lport = 0: no address  *)
(* is set.  any: the local address is the wildcard.  remote = Null: the    *)
(* remote address is.  kept: lock_tcp_state is never released again.       *)
Cleared == [available |-> TRUE, type |-> "uninitialized", state |-> "CLOSED",
            creator |-> Null, lport |-> 0, any |-> TRUE, remote |-> Null,
            pending |-> <<>>, flags |-> {}, kept |-> FALSE]

Waiting == [pc |-> "idle", s |-> Null, p |-> 0, c |-> Null, until |-> {},
            i |-> 1, shut |-> FALSE]

Init == /\ sock = [s \in Socket |-> Cleared]
        /\ port_table = [p \in Port |-> Null]
        /\ hnd = [h \in Handlers |-> Waiting]
        /\ found = Null
        /\ daemon = "running" /\ turn = 1
        /\ calls = 0 /\ syns = 0
        /\ rebound = {} /\ spoiled = {}

At(h, label) == hnd[h].pc = label

Running == daemon \notin {"aborted", "stopped", "undefined"}

Ready(h, label) == Running /\ At(h, label)

InUse(s) == ~sock[s].available

(* Locks that have been destroyed, or a TCP thread's data set up again     *)
(* beneath it: nothing is said of what happens after that.                 *)
Undefined == /\ daemon' = "undefined"
             /\ UNCHANGED <<sock, port_table, hnd, found, turn, syns, history>>
-----------------------------------------------------------------------------
(***************************************************************************)
(* Serverinfo: operators on the tables.                                    *)
(***************************************************************************)

(* chitcpd_allocate_socket: the first available entry.  An address a late  *)
(* BIND has left in it stays.                                              *)
FirstAvailable == {s \in Socket : sock[s].available
                                  /\ \A r \in 1..(s - 1) : InUse(r)}

Allocated(h, s) == [sock[s] EXCEPT !.available = FALSE, !.creator = h,
                                   !.type = "uninitialized", !.state = "CLOSED",
                                   !.kept = FALSE]

(* chitcpd_find_ephemeral_port: -1 does not survive in a uint16_t.         *)
EphemeralPortFirst == EphemeralStart
NoPortIsFree == \A p \in EphemeralStart..LastPort : port_table[p] # Null
EphemeralPort ==
  LET free == {p \in EphemeralStart..LastPort : port_table[p] = Null}
  IN IF free = {} THEN LastPort
     ELSE CHOOSE p \in free : \A q \in free : p <= q

(* chitcpd_free_socket_entry gives back the port the socket has as its     *)
(* local one, also when that is its listener's; a socket without a local   *)
(* address has the last port.                                              *)
PortsKept(s) == port_table
LocalPort(s) == IF sock[s].lport = 0 THEN LastPort ELSE sock[s].lport
PortsWithout(s) == [port_table EXCEPT ![LocalPort(s)] = Null]

FreeEntry(s) ==
  /\ sock' = [sock EXCEPT ![s] = Cleared]
  /\ port_table' = PortsWithout(s)
  /\ spoiled' = IF port_table[LocalPort(s)] \in {Null, s} THEN spoiled
                ELSE spoiled \union {LocalPort(s)}
  /\ rebound' = rebound

(* chitcpd_lookup_socket: the first of the sockets that fit the packet     *)
(* with the fewest wildcards.                                              *)
Fits(s, p, r) == InUse(s) /\ sock[s].lport = p /\ sock[s].remote \in {Null, r}

Wildcards(s) == (IF sock[s].any THEN 1 ELSE 0)
                + (IF sock[s].remote = Null THEN 1 ELSE 0)

LookupFirst(p, r) ==
  IF \E s \in Socket : Fits(s, p, r)
    THEN CHOOSE s \in Socket : Fits(s, p, r) /\ \A u \in 1..(s - 1) : ~Fits(u, p, r)
    ELSE Null
Lookup(p, r) ==
  LET fit == {s \in Socket : Fits(s, p, r)}
  IN IF fit = {} THEN Null
     ELSE CHOOSE s \in fit : \A u \in fit \ {s} :
            \/ Wildcards(s) < Wildcards(u)
            \/ Wildcards(s) = Wildcards(u) /\ s < u
-----------------------------------------------------------------------------
(***************************************************************************)
(* A handler thread: chitcpd_handler_dispatch.                             *)
(***************************************************************************)

(* A request is received, before handler_lock is taken.                    *)
Request(h) == /\ Ready(h, "idle") /\ ~hnd[h].shut
              /\ calls < MaxCalls
              /\ hnd' = [hnd EXCEPT ![h].pc = "read"]
              /\ UNCHANGED <<sock, port_table, found, daemon, turn, calls, syns, history>>

(* The client goes, or the socket it is connected with is shut down.       *)
Exit(h) == /\ Ready(h, "idle")
           /\ hnd' = [hnd EXCEPT ![h].pc = "exit"]
           /\ UNCHANGED <<sock, port_table, found, daemon, turn, calls, syns, history>>

(* handler_lock is held while a request is handled and answered.           *)
HoldsLockToTheEnd(h) == hnd[h].pc \notin {"idle", "read"}
HoldsLock(h) == hnd[h].pc \notin {"idle", "read", "exit", "gone"}

Idle(h) == hnd' = [hnd EXCEPT ![h] = [Waiting EXCEPT !.shut = hnd[h].shut]]

Goto(h, label, s) == hnd' = [hnd EXCEPT ![h].pc = label, ![h].s = s]

Wait(h, s, states) ==
  hnd' = [hnd EXCEPT ![h].pc = "wait", ![h].s = s, ![h].until = states]

(* A request is handled; each call refuses the sockets it has no use for,  *)
(* and SOCKET a full table, BIND a port that is taken: for every socket    *)
(* there is such a call, and it changes nothing.                           *)
Handled(h) == /\ Ready(h, "read")
              /\ calls < MaxCalls
              /\ calls' = calls + 1

Refuse(h) == /\ Ready(h, "read")
             /\ Idle(h)
             /\ UNCHANGED <<sock, port_table, found, daemon, turn, calls, syns, history>>

(* SOCKET, under lock_chisocket_table.                                     *)
SocketCall(h) ==
  /\ Handled(h)
  /\ \E s \in FirstAvailable : sock' = [sock EXCEPT ![s] = Allocated(h, s)]
  /\ Idle(h)
  /\ UNCHANGED <<port_table, found, daemon, turn, syns, history>>

(* What BIND, LISTEN and CONNECT ask of a socket.                          *)
MayBeSetUp(s) == InUse(s) /\ sock[s].state = "CLOSED"

(* BIND and CONNECT find a port free and take it later.  Another handler   *)
(* may have chosen it, too, or no port may be free for CONNECT.            *)
Chosen(g, p) == hnd[g].pc \in {"bind", "connect"} /\ hnd[g].p = p

Choose(h, s, p, label) ==
  /\ hnd' = [hnd EXCEPT ![h].pc = label, ![h].s = s, ![h].p = p]
  /\ spoiled' = IF \/ \E g \in Handlers : Chosen(g, p)
                   \/ label = "connect" /\ NoPortIsFree
                THEN spoiled \union {p} ELSE spoiled
  /\ UNCHANGED <<sock, port_table, found, daemon, turn, syns, rebound>>

(* h gives the socket it works on the port p, whatever it had before.      *)
Rebinds(s, p) == sock[s].available \/ sock[s].lport \notin {0, p}

NowOn(s, p) == rebound' = IF Rebinds(s, p) THEN rebound \union {s} ELSE rebound

(* Nobody asks whether the socket is bound already.                        *)
Bind(h, s, p) ==
  /\ Handled(h)
  /\ MayBeSetUp(s)
  /\ port_table[p] = Null
  /\ Choose(h, s, p, "bind")

Bound(h) ==
  LET s == hnd[h].s
      p == hnd[h].p
  IN /\ Ready(h, "bind")
     /\ \E any \in BOOLEAN :
          sock' = [sock EXCEPT ![s].lport = p, ![s].any = any, ![s].remote = Null]
     /\ port_table' = [port_table EXCEPT ![p] = s]
     /\ NowOn(s, p)
     /\ Idle(h)
     /\ UNCHANGED <<found, daemon, turn, calls, syns, spoiled>>

(* LISTEN does not ask whether the socket is bound, or an active one whose *)
(* TCP thread has not begun or not ended yet.                              *)
Listen(h, s) ==
  /\ Handled(h)
  /\ MayBeSetUp(s) /\ sock[s].type # "active"
  /\ sock' = [sock EXCEPT ![s].type = "passive", ![s].state = "LISTEN", ![s].pending = <<>>]
  /\ Idle(h)
  /\ UNCHANGED <<port_table, found, daemon, turn, syns, history>>

ListenActive(h, s) ==
  /\ Handled(h)
  /\ MayBeSetUp(s) /\ sock[s].type = "active"
  /\ Undefined

(* ACCEPT waits for a pending connection.                                  *)
Accept(h, s) ==
  /\ Handled(h)
  /\ InUse(s) /\ sock[s].type = "passive" /\ sock[s].state = "LISTEN"
  /\ Goto(h, "accept", s)
  /\ UNCHANGED <<sock, port_table, found, daemon, turn, syns, history>>

(* It takes the first one and allocates an entry; if there is none, the    *)
(* pending connection is lost.                                             *)
FetchPending(h) ==
  /\ Ready(h, "accept")
  /\ sock[hnd[h].s].pending # <<>>
  /\ LET l == hnd[h].s
         fetched == [sock EXCEPT ![l].pending = Tail(@)]
     IN IF FirstAvailable = {} THEN sock' = fetched /\ Idle(h)
        ELSE \E s \in FirstAvailable :
               /\ sock' = [fetched EXCEPT ![s] = Allocated(h, s)]
               /\ hnd' = [hnd EXCEPT ![h].pc = "spawn", ![h].s = s,
                                     ![h].c = Head(sock[l].pending)]
  /\ UNCHANGED <<port_table, found, daemon, turn, calls, syns, history>>

(* What ACCEPT and CONNECT go on with takes for granted.                   *)
IsBlank(s) == InUse(s) /\ sock[s].type = "uninitialized"

(* The active socket has the addresses of the SYN: it shares the port of   *)
(* its listener, and port_table does not know of it.                       *)
Spawn(h) ==
  LET s == hnd[h].s
      c == hnd[h].c
  IN /\ Ready(h, "spawn")
     /\ IsBlank(s)
     /\ sock' = [sock EXCEPT ![s] =
                   [@ EXCEPT !.type = "active", !.state = "LISTEN", !.any = FALSE,
                             !.lport = c.p, !.remote = c.r, !.flags = {}]]
     /\ rebound' = IF sock[s].lport \notin {0, c.p} THEN rebound \union {s} ELSE rebound
     /\ Wait(h, s, {"ESTABLISHED"})
     /\ UNCHANGED <<port_table, found, daemon, turn, calls, syns, spoiled>>

(* CONNECT chooses a port and takes it later.                              *)
Connect(h, s) ==
  /\ Handled(h)
  /\ MayBeSetUp(s)
  /\ Choose(h, s, EphemeralPort, "connect")

(* The port the socket may have been bound to stays in the table.          *)
Connected(h, r) ==
  LET s == hnd[h].s
      p == hnd[h].p
  IN /\ Ready(h, "connect")
     /\ IsBlank(s)
     /\ sock' = [sock EXCEPT ![s] =
                   [@ EXCEPT !.type = "active", !.any = TRUE, !.lport = p,
                             !.remote = r, !.flags = {"app_connect"}]]
     /\ port_table' = [port_table EXCEPT ![p] = s]
     /\ NowOn(s, p)
     /\ Wait(h, s, {"ESTABLISHED"})
     /\ UNCHANGED <<found, daemon, turn, calls, syns, spoiled>>

(* Another client has set the socket up meanwhile, or closed it; or it was *)
(* an active one before, which CONNECT does not ask.                       *)
TooLate(h) == /\ Ready(h, "spawn") \/ Ready(h, "connect")
              /\ ~IsBlank(hnd[h].s)
              /\ Undefined /\ calls' = calls

(* CLOSE of a passive socket, and of a connection.                         *)
ClosePassive(h, s) ==
  /\ Handled(h)
  /\ InUse(s) /\ sock[s].type = "passive"
  /\ FreeEntry(s)
  /\ Idle(h)
  /\ UNCHANGED <<found, daemon, turn, syns>>

Open == {"ESTABLISHED", "CLOSE_WAIT"}

Close(h, s) ==
  /\ Handled(h)
  /\ InUse(s) /\ sock[s].type = "active" /\ sock[s].state \in Open
  /\ Goto(h, "close", s)
  /\ UNCHANGED <<sock, port_table, found, daemon, turn, syns, history>>

(* The state is read again under lock_tcp_state; when it has moved on, the *)
(* call fails and keeps the lock.                                          *)
Closing(h) ==
  LET s == hnd[h].s IN
  /\ Ready(h, "close")
  /\ ~sock[s].kept
  /\ IF sock[s].state \in Open
       THEN /\ sock' = [sock EXCEPT ![s].flags = @ \union {"app_close"}]
            /\ Wait(h, s, IF sock[s].state = "ESTABLISHED"
                            THEN {"ENDING", "CLOSED"} ELSE {"LAST_ACK"})
       ELSE /\ sock' = [sock EXCEPT ![s].flags = @ \union {"app_close"}, ![s].kept = TRUE]
            /\ Idle(h)
  /\ UNCHANGED <<port_table, found, daemon, turn, calls, syns, history>>

(* pthread_cond_wait on cv_tcp_state returns and finds what it waits for.  *)
Woken(h) ==
  /\ Ready(h, "wait")
  /\ sock[hnd[h].s].state \in hnd[h].until
  /\ ~sock[hnd[h].s].kept
  /\ Idle(h)
  /\ UNCHANGED <<sock, port_table, found, daemon, turn, calls, syns, history>>

(* Before it ends, a handler thread goes through the table: what is active *)
(* of its sockets is forced CLOSED, what is passive is freed, and what is  *)
(* neither is left as it is.                                               *)
ForcedQuietly(s) == [sock EXCEPT ![s].state = "CLOSED"]
Forced(s) == [sock EXCEPT ![s].state = "CLOSED", ![s].flags = @ \union {"cleanup"}]

FreeSockets(h) ==
  LET s == hnd[h].i
      mine == InUse(s) /\ sock[s].creator = h
  IN /\ Ready(h, "exit")
     /\ CASE mine /\ sock[s].type = "active"  -> /\ ~sock[s].kept
                                                 /\ sock' = Forced(s)
                                                 /\ UNCHANGED <<port_table, history>>
          [] mine /\ sock[s].type = "passive" -> FreeEntry(s)
          [] OTHER -> UNCHANGED <<sock, port_table, history>>
     /\ hnd' = [hnd EXCEPT ![h].i = @ + 1,
                           ![h].pc = IF s = NSockets THEN "gone" ELSE "exit"]
     /\ UNCHANGED <<found, daemon, turn, calls, syns>>
-----------------------------------------------------------------------------
(***************************************************************************)
(* The TCP thread of an active socket.                                     *)
(***************************************************************************)
MovesOn(state, closing) ==
  CASE state = "LISTEN"      -> {"OPENING"}
    [] state = "OPENING"     -> {"ESTABLISHED", "CLOSE_WAIT"}
    [] state = "ESTABLISHED" -> {"CLOSE_WAIT"} \union (IF closing THEN {"FIN_WAIT_1"} ELSE {})
    [] state = "FIN_WAIT_1"  -> {"ENDING", "CLOSED"}
    [] state = "CLOSE_WAIT"  -> IF closing THEN {"LAST_ACK", "ENDING"} ELSE {}
    [] state \in {"ENDING", "LAST_ACK"} -> {"CLOSED"}
    [] OTHER -> {}

(* chitcpd_update_tcp_state: CLOSED raises cleanup.                        *)
Moved(s, state) ==
  [sock EXCEPT ![s].state = state,
               ![s].flags = IF state = "CLOSED" THEN @ \union {"cleanup"} ELSE @]

TcpStep(s) ==
  /\ Running
  /\ sock[s].type = "active" /\ ~sock[s].kept
  /\ \E state \in MovesOn(sock[s].state, "app_close" \in sock[s].flags) :
        sock' = Moved(s, state)
  /\ UNCHANGED <<port_table, hnd, found, daemon, turn, calls, syns, history>>

(* APPLICATION_CONNECT, which the loop looks at before CLEANUP.            *)
SendSyn(s) ==
  /\ Running
  /\ "app_connect" \in sock[s].flags /\ ~sock[s].kept
  /\ sock' = [sock EXCEPT ![s].flags = @ \ {"app_connect"}, ![s].state = "OPENING"]
  /\ UNCHANGED <<port_table, hnd, found, daemon, turn, calls, syns, history>>

(* The assertion before CLEANUP ends the daemon when it fails.             *)
Cleanup(s) ==
  /\ Running
  /\ "cleanup" \in sock[s].flags /\ "app_connect" \notin sock[s].flags
  /\ IF sock[s].state = "CLOSED"
       THEN FreeEntry(s) /\ daemon' = daemon
       ELSE daemon' = "aborted" /\ UNCHANGED <<sock, port_table, history>>
  /\ UNCHANGED <<hnd, found, turn, calls, syns>>
-----------------------------------------------------------------------------
(***************************************************************************)
(* The connection thread: chitcpd_recv_tcp_packet with the SYN of a peer.  *)
(* It is looked up without a lock and appended to what has been found.     *)
(***************************************************************************)
SynArrives(p, r) ==
  /\ Running
  /\ found = Null /\ syns < MaxSyns
  /\ syns' = syns + 1
  /\ Lookup(p, r) # Null
  /\ found' = [s |-> Lookup(p, r), p |-> p, r |-> r]
  /\ UNCHANGED <<sock, port_table, hnd, daemon, turn, calls, history>>

AppendPending ==
  /\ Running
  /\ found # Null
  /\ sock' = IF sock[found.s].type = "passive"
               THEN [sock EXCEPT ![found.s].pending =
                       Append(@, [p |-> found.p, r |-> found.r])]
               ELSE sock
  /\ found' = Null
  /\ UNCHANGED <<port_table, hnd, daemon, turn, calls, syns, history>>
-----------------------------------------------------------------------------
(***************************************************************************)
(* Stopping the daemon: chitcpd_server_stop and the end of                 *)
(* chitcpd_server_thread_func.                                             *)
(***************************************************************************)
StopServer == /\ daemon = "running"
              /\ daemon' = "stopping"
              /\ UNCHANGED <<sock, port_table, hnd, found, turn, calls, syns, history>>

ShutdownHandler ==
  /\ daemon = "stopping" /\ turn <= NHandlers
  /\ ~HoldsLock(turn) /\ ~hnd[turn].shut
  /\ hnd' = [hnd EXCEPT ![turn].shut = TRUE]
  /\ UNCHANGED <<sock, port_table, found, daemon, turn, calls, syns, history>>

Join == /\ daemon = "stopping" /\ turn <= NHandlers
        /\ hnd[turn].shut /\ At(turn, "gone")
        /\ turn' = turn + 1
        /\ daemon' = IF turn = NHandlers THEN "stopped" ELSE daemon
        /\ UNCHANGED <<sock, port_table, hnd, found, calls, syns, history>>
-----------------------------------------------------------------------------
(* What a handler thread goes on with, and what a client asks for.         *)
Continue(h) == \/ Bound(h) \/ FetchPending(h) \/ Spawn(h) \/ TooLate(h)
               \/ \E r \in Remotes : Connected(h, r)
               \/ Closing(h) \/ Woken(h) \/ FreeSockets(h)

Serve(h) == \/ Refuse(h) \/ SocketCall(h)
            \/ \E s \in Socket : \/ \E p \in Port : Bind(h, s, p)
                                 \/ Listen(h, s) \/ ListenActive(h, s)
                                 \/ Accept(h, s) \/ Connect(h, s)
                                 \/ ClosePassive(h, s) \/ Close(h, s)

Next == \/ \E h \in Handlers : Request(h) \/ Exit(h) \/ Serve(h) \/ Continue(h)
        \/ \E s \in Socket : TcpStep(s) \/ SendSyn(s) \/ Cleanup(s)
        \/ \E p \in Port, r \in Remotes : SynArrives(p, r)
        \/ AppendPending
        \/ StopServer \/ ShutdownHandler \/ Join

Spec == Init /\ [][Next]_vars

(* Each thread goes on with what it has to do: a handler with a request it *)
(* has read, or its end when its socket has been shut down.  Nothing is    *)
(* promised of clients and peers.                                          *)
HandlerRuns(h) == Continue(h) \/ Serve(h) \/ (hnd[h].shut /\ Exit(h))

Fairness == /\ \A h \in Handlers : WF_vars(HandlerRuns(h))
            /\ \A s \in Socket : WF_vars(SendSyn(s) \/ Cleanup(s))
            /\ WF_vars(AppendPending)
            /\ WF_vars(ShutdownHandler \/ Join)

FairSpec == Spec /\ Fairness
-----------------------------------------------------------------------------
(***************************************************************************)
(* Properties.                                                             *)
(***************************************************************************)
TypeOK ==
  /\ \A s \in Socket :
       /\ sock[s].available \in BOOLEAN /\ sock[s].kept \in BOOLEAN
       /\ sock[s].any \in BOOLEAN
       /\ sock[s].type \in {"uninitialized", "active", "passive"}
       /\ sock[s].state \in TcpState
       /\ sock[s].creator \in Handlers \union {Null}
       /\ sock[s].lport \in 0..LastPort
       /\ sock[s].remote \in Remotes \union {Null}
       /\ sock[s].flags \subseteq {"app_connect", "app_close", "cleanup"}
       /\ InUse(s) <=> sock[s].creator # Null
  /\ port_table \in [Port -> Socket \union {Null}]
  /\ \A h \in Handlers : hnd[h].s \in Socket \union {Null} /\ hnd[h].i \in 1..(NSockets + 1)
  /\ daemon \in {"running", "stopping", "stopped", "aborted", "undefined"}
  /\ turn \in 1..(NHandlers + 1)
  /\ calls \in 0..MaxCalls /\ syns \in 0..MaxSyns
  /\ rebound \subseteq Socket /\ spoiled \subseteq Port

Connection(s) == InUse(s) /\ sock[s].type = "active"

(* The packets of a connection reach a socket of this connection, never a  *)
(* listener or another bound socket on the same port, wherever in the      *)
(* table they are (chitcpd_lookup_socket).  For one that connect() made,   *)
(* whose local address is the wildcard, a socket bound to an address fits  *)
(* as well: then its port must not be spoiled.                             *)
LookupExact == \A s \in Socket :
   Connection(s) /\ sock[s].remote # Null /\ (sock[s].any => sock[s].lport \notin spoiled) =>
     LET u == Lookup(sock[s].lport, sock[s].remote)
     IN Connection(u) /\ sock[u].lport = sock[s].lport /\ sock[u].remote = sock[s].remote

(* A port is assigned to a socket that is there and has it as its local    *)
(* port, also when the socket was freed by another thread than the one     *)
(* that took the port (BIND, CONNECT, chitcpd_free_socket_entry).  Only a  *)
(* socket that has been given a port on top of another one, or after it    *)
(* was freed, leaves a port in the table that it does not have.            *)
PortOwnerUsesIt == \A p \in Port :
   port_table[p] \notin rebound \union {Null} =>
     InUse(port_table[p]) /\ sock[port_table[p]].lport = p

Inv == TypeOK /\ PortOwnerUsesIt

(* Two connections that connect() made share a port in three cases only    *)
(* (chitcpd_find_ephemeral_port): two handlers found it free before either *)
(* took it, no port was free, or another socket gave it back when it was   *)
(* freed.  Binding it, accepting on it, reusing entries or appending a SYN *)
(* late is not enough.                                                     *)
Originated(s) == Connection(s) /\ sock[s].any /\ sock[s].remote # Null

ConnectionsApart == \A s, u \in Socket :
   Originated(s) /\ Originated(u) /\ s # u /\ sock[s].lport = sock[u].lport =>
     sock[s].lport \in spoiled

(* A passive or active socket that a handler thread comes to before it     *)
(* ends is freed, an active one by its TCP thread, unless a failed close() *)
(* has kept lock_tcp_state or the daemon aborts.  A socket that is neither *)
(* is left: it stays in use for ever, and so does the port it is bound to. *)
Left(s) == \E h \in Handlers : /\ At(h, "exit") /\ hnd[h].i = s
                                /\ InUse(s) /\ sock[s].creator = h

ExitFrees == \A s \in Socket :
   Left(s) /\ sock[s].type # "uninitialized" ~> ~Running \/ ~InUse(s) \/ sock[s].kept

(* The daemon stops, unless a handler is blocked for ever in a call or by  *)
(* the lock such a close() has kept (chitcpd_server_thread_func).          *)
Blocked == \/ \E h \in Handlers : hnd[h].pc \in {"accept", "wait"}
           \/ \E s \in Socket : sock[s].kept

ServerStops == <>[](daemon = "stopping") => <>[]Blocked

(* serverinfo.h: "If an entry is NULL, the port is available."  A listener *)
(* is on no such port.                                                     *)
FreePortHasNoListener == \A p \in Port : port_table[p] = Null =>
   ~\E s \in Socket : InUse(s) /\ sock[s].type = "passive" /\ sock[s].lport = p
=============================================================================
