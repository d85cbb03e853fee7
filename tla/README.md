# A TLA+ development for chiTCP and its neighbours

The repository is the course work of one student: C exercises, systems
projects, Racket homework, and three networked programs in
`src/cs233-win-15-amsadowski-nolanwinkler`. The three programs carry the logic
worth specifying:

* **chiTCP** (`chitcp/`), a TCP implementation in a user-space daemon,
  `chitcpd`, with a client library, `libchitcp`;
* **chirc** (`chirc/`), an IRC server with one thread per client;
* **simple-router** (`simple-router/router/`), an IP router with an ARP cache.

The student's own part of chiTCP is `tcp.c`; it is also where the hardest
behaviour is, and where this development starts. Paths below are relative to
`chitcp/src` unless they say otherwise.

## Inventory

| Component | State | Operations | Interacts with |
|---|---|---|---|
| TCP state machine, `chitcpd/tcp.c` | `tcp_data_t` per socket: sequence variables, send and receive buffer, retransmission queue, out-of-order list, `closing`, `finsent`; the socket's `tcp_state` | one handler per state, by event: connect, send, receive, close, packet, timeout, cleanup | called by the event loop; sends through `connection.c`; starts a timer thread per packet |
| Event loop, `chitcpd/tcp_thread.c` | event flags, `lock_event`, `cv_event` | wait, take the first flag in a fixed order, dispatch, raise net_recv again while packets are pending | flags are raised by handlers, timers, the connection thread and the TCP thread itself |
| Connection thread, `chitcpd/connection.c` | table of real connections, pending and withheld packets | receive, look the socket up, enqueue; drop, withhold, duplicate or draw a withheld packet when a debug monitor says so | socket table, event flags |
| Socket handlers, `chitcpd/handlers.c` | none of their own | socket, bind, listen, accept, connect, send, recv, close, forced close when a client disconnects | wait for TCP states on `cv_tcp_state`, block in the circular buffers, raise flags |
| Socket table, `chitcpd/serverinfo.c` | `chisocket_table`, `port_table` | allocate, free, look up, change state, find a port | everybody, mostly without a lock |
| Circular buffer, `libchitcp/buffer.c` | bytes, start, end, count, closed | blocking and non-blocking read and write, peek, close | handlers on one side, TCP thread on the other |
| Debug monitor, `chitcpd/breakpoint.c` | reference count, `dying`, locks | breakpoint, attach, detach | called with socket locks held |
| Server, `chitcpd/server.c` | handler threads, state | start, stop | `handler_lock` of each handler; ends the handler threads one by one |
| ARP cache, `simple-router/router/sr_arpcache.c` | cache entries, request queue | lookup, insert, queue, sweep every second | packet handler and sweep thread |
| Forwarding, `simple-router/router/sr_router.c` | routing table, interfaces | handle ARP and IP packets, ICMP errors | ARP cache |
| IRC connections, `chirc/src/main.c`, `handlers.c` | client list, `listLock` | accept, NICK, USER, LUSERS, QUIT, ... | one thread per client, all on one list |
| IRC channels, `chirc/src/channel.c` | channel list, member lists | JOIN, PART, TOPIC, MODE, ... | the same threads |

Left aside: `simclist`, `bstrlib`, `sha1`, `sr_vns_comm`, the `.svn` copies,
`nolanwinkler-cs151-sum-13` (a duplicate), `chitcpd/localtcp.c` (an older copy
of `tcp.c` that is not built), and the small sequential exercises under
`src/C`, `src/Systems`, `src/Racket` and `src/Databases`.
`PROJECT.json` lists every component with its status.

### What is hard

* Loss, delay, duplication and reordering of packets, which the debug
  responses of `connection.c` produce on purpose, against the acknowledgement,
  out-of-order and retransmission logic.
* Timers: every packet has a detached thread of its own, which may signal
  after its packet was acknowledged or sent again.
* Closing: the FIN must wait for the send buffer; both ends may close at once;
  `SND_NXT` does not count the FIN.
* The receive buffer and the window at their limits.
* The event flags: they are raised and lowered by several threads, one bit for
  any number of events.
* Handlers waiting for a state that may come and go before they look.

What makes the components correct: TCP - the connection is a byte stream in
each direction, both ends agree on the handshake, nothing unacknowledged is
forgotten, connections end; event loop - no event is forgotten and none is
handled that has not happened; circular buffer - first in, first out, without
blocked threads that could go on; socket table - one socket per port and per
connection; handlers - a call that can return does; ARP cache - a queued
packet is sent or answered once; chirc - nicknames and channels are unique and
membership agrees on both sides.

## Plan

1. *Core of TCP* (done): `Tcb`, `Tcp`, the abstract `ByteStream`, and proofs of
   an inductive invariant; `EventLoop` with its proofs (done).
2. `CircularBuffer` (locks and condition variables of `buffer.c`) implementing
   an abstract bounded queue, with proofs of the refinement and of what keeps
   sleepers from being forgotten (done).
3. `Sockets`: the socket table and the port table under handler threads, TCP
   threads, connection thread and shutdown, with what accept, connect and close
   wait for (done).
4. `DebugMonitor`: the monitors of `breakpoint.c`, counted and destroyed by the
   last thread out (done).
5. `Router`: forwarding, ARP cache and sweep of simple-router (done).
6. `Irc` and `Channels`: connections, registration and channels of chirc (done).
7. Proofs: the safety properties of the modules above and the refinement of
   `ByteStream` by `Tcp` (done).

## Modules

| Module | What it is |
|---|---|
| `Tcb` | The control block and the functions of `tcp.c` as operators from block to block |
| `Tcp` | One connection: two blocks, the network, timers, applications; each handler is one action |
| `ByteStream` | What a connection promises: an abstract specification |
| `TcpProperties` | Type invariant, safety, action and liveness properties of `Tcp` |
| `TcpInvariant` | The inductive invariant: `Inv` for each socket, `Agreement` for both |
| `TcbProofs`, `TcpProofs` | Proofs: what each operator of `Tcb` preserves; `Spec => [](Inv /\ Agreement)` and what follows |
| `EventLoop`, `EventLoopProofs` | The event flags of one socket under all interleavings; proofs of its safety properties |
| `CircularBuffer` | `buffer.c` under the threads that use it |
| `BoundedQueue` | What `buffer.h` promises: an abstract specification |
| `CircularBufferProofs` | Proofs: the invariant, the refinement, the only reader is not forgotten |
| `MCTcp` | Values of the constants of `Tcp` for the runs |
| `DebugMonitor`, `DebugMonitorProofs` | `breakpoint.c`: monitors shared by sockets and threads; proofs of its safety properties |
| `Sockets`, `SocketsProofs` | `handlers.c` and `serverinfo.c`: sockets, ports, the end of clients and of the daemon; proofs about the two tables |
| `Router`, `MCRouter`, `RouterProofs` | `sr_router.c` and `sr_arpcache.c` under their two threads; values of the constants; proofs |
| `Irc` | `main.c`, `threads.c` and the registration of `handlers.c` of chirc |
| `Channels`, `MCChannels`, `ChannelsProofs` | `channel.c` and the channel handlers of chirc, beside `Irc`; symmetry for the run; proofs about both |

### `Tcb` and `Tcp`

A block is a record: the fields of `tcp_data_t`, the socket's state and flags,
and what the buffers hold. A byte is its position in its writer's stream: the
send buffer is given by how many bytes were put in (`wrote`) and taken out
(`taken`), the receive buffer is the sequence `got` of all bytes put in, of
which the application has read `rd`. So "in order, once, nothing lost" is
`got = <<1, ..., n>>`. A segment carries the position (`off`) and number
(`len`) of its bytes instead of the bytes.

The TCP thread of a socket handles one event at a time and the other threads
touch the block only by raising flags, by appending to the pending packets, by
writing to the send buffer and by reading from the receive buffer. A handler
uses each of these once or in a way that does not depend on the moment, so it
is one action. `Selected` is the fixed order in which the loop looks at the
flags. The flag net_recv is "there is a pending packet" in `Tcp`; the module
`EventLoop` has the flag itself.

What a handler does when things go wrong is kept: the field `thr` says that a
TCP thread is waiting for a lock it holds itself (`stuck`), is in the endless
loop of `process_send_buffer` when the window has no room (`spin`), or has died
of a negative length (`crash`); `qlock` says that `process_timeout` has
returned with `lock_retrans_q` locked.

Abstractions of `Tcp`, beyond the data:

* One connection. The listening socket, the socket table, ports and the
  connection table are not here; the server's block stands for the one that
  `accept` makes when the SYN arrives. Of a freed socket only `thr = "done"`
  is left, and a packet for it finds no socket.
* 32-bit wrap-around of sequence numbers is left out: the initial ones are at
  most 254000 (`tcp.c:945`) and the streams short.
* An application makes one call after the other. The handlers of SEND and CLOSE do
  not look whether a CLOSE is under way (`handlers.c:788-821`, `1074-1087`), so a
  second thread that sends on a socket while it is being closed is outside the
  module, and `FinIsLast` says nothing of it.
* Time is left out. A timer may expire when nothing else is on its way
  (`TimerExpires`), at most `MaxExpiries` times also before that
  (`EarlyTimer`), and the detached thread of a packet that has left the queue
  may still signal (`LateTimer`), under the same bound. `update_rto` matters
  only for how long a timeout is.
* `to_delete` in `process_timeout` is allocated too small (`tcp.c:343`); the
  allocator's slack covers queues of six entries, and the runs stay below it.

### `EventLoop`

The loop of `tcp_thread.c` in nine steps, with the connection thread (lookup,
append, raise), `accept` (raise, wait for ESTABLISHED), the handler thread
that forces a socket closed (set the state, raise cleanup), applications and
timers. What packets do is left open: a handler may move the socket on, put a
packet on the out-of-order list or bring one back. `fate` is "crashed" when
the daemon reads through a null pointer or a freed list, "aborted" when the
assertion of `tcp_thread.c:334` fails. That assertion does fail in this model:
a handler that was dispatched before the state was forced to CLOSED sets its
own state afterwards, and cleanup is already raised.

### `CircularBuffer`

`Tcb` has the two buffers as numbers and a sequence; this module has the array,
the lock and the two condition variables. A thread holds the lock from its call
or from the end of a wait to its return or its next wait, and nothing else
looks at the fields it changes except `count`, which callers read without the
lock; so such a stretch is one action. `Fill` is one pass through the loop of
`circular_buffer_write`: a pass either writes all that is left or fills the
buffer, and then the next one begins with a wait. `WakeUnasked` is the spurious
wake-up that POSIX allows. As in the code, `Close` wakes only readers and
nothing but a read looks at `closed`: what `buffer.h` says of writes to a
closed buffer is not so.

Any thread of an application may use a socket, over a connection to the daemon
of its own (`daemon_api.c`), so several writers and readers are possible.

### `DebugMonitor`

An entry of the socket table has `available` and `debug_monitor`, a monitor its
lock, the two counts and `dying`. A section under `lock_debug_monitor` or
`lock_numwaiters` is one step; `lock_sockfd`, which is held for as long as the
debugger takes to answer, is a field. What a thread does between is a label:
it waits, looks whether the entry still has the monitor, asks, takes the
monitor out of the table socket by socket, releases it, destroys it. A thread
that frees an entry reads `debug_monitor` without a lock, twice
(`chitcpd_free_socket_entry`, `chitcpd_debug_detach_monitor`): the monitor may
be gone the second time, and the thread is then left in the label "undefined".
The properties therefore speak of threads at a breakpoint. Monitors are not
used again after they were freed.

### `Sockets`

The handlers of `handlers.c` are divided where another thread may come between:
BIND and CONNECT look at the port table and write it later, ACCEPT allocates an
entry and fills it later, CLOSE looks at the state before and after it takes
`lock_tcp_state`, and a handler thread that ends goes through the table entry by
entry. What TCP does is a state that moves on (`MovesOn`). `kept` says that
CLOSE has failed with `lock_tcp_state` taken (`handlers.c:1090`): nobody gets it
any more. An entry has a creator thread, a local port, whether its address is
the wildcard, and a remote address; that is all `chitcpd_lookup_socket` sees.

The handlers ask little: BIND, LISTEN and CONNECT only whether the entry is in use
and CLOSED (`handlers.c:308-326`, with a TODO about sockets that are bound already).
So any client may name any socket, whoever made it, bind it again, on an ephemeral
port or not, connect it after it was bound, and any number of clients may connect at
once. A call that is refused changes nothing (`Refuse`). What the handlers
take for granted may be gone when they act: if the data and locks of a TCP thread
are set up a second time beneath it, or after they were destroyed, `daemon` becomes
"undefined" (`ListenActive`, `TooLate`) and nothing follows.

Two variables only remember. `rebound` has the sockets that were given a port on top
of another one or while the entry was free: the port they had stays in `port_table`
and names them. `spoiled` has the ports on which two sockets may be by a race or by
mistake: two handlers found the port free before either took it; no ephemeral port
was free and CONNECT took the last one (-1 does not survive in a `uint16_t`,
`serverinfo.c:216`); or a socket gave the port back although it was assigned to
another. `LookupExact`, `PortOwnerUsesIt` and `ConnectionsApart` say that what goes
wrong goes wrong only then. `Blocked` in `ServerStops` names what may keep the daemon
from stopping: a call that waits, or the lock that CLOSE has kept. Clients do not bind
port 0, and there is one local address beside the wildcard.

### `Router`

The sweep holds the cache's lock for its whole round; the packet thread takes it
for each operation but not in `handle_cached_request`, which it calls for a
packet it has just queued. Both calls are the same decisions, `Decision`,
`Resent` and `Refused`, in separate steps. The packet thread's `times_sent++` is
a read and a write. If the sweep destroys the request meanwhile the packet
thread goes on with freed memory; and a packet is refused by way of the route to its
source, which `handle_cached_request` uses without asking whether there is one
(`sr_arpcache.c:38-39`; `Answerable` are the packets whose source has a route).
In both cases `fate` becomes "undefined" and nothing
follows. A request keeps its number, so that reuse of memory does not hide
this. Seconds are ages, cut off where they stop to matter: `difftime > 1`
means that a request is sent every other second. `outcome` is a set: what has
been done for a packet so far, or "waiting"; `refusals` counts how often it was
answered with host unreachable, which happens twice when the sweep comes to a
request that the packet thread has refused and waits to destroy.

### `Irc`

A thread reads the descriptor of its connection from the server thread's local
variable, which may have changed (`main.c:175`); two threads may then serve one
connection and none another. A call that looks in the list of clients or adds
to it is one step; what an unlocked lookup may see in the middle of a change of this
list is left out. QUIT takes no lock and is four steps: it looks its client up, looks
for the position of the first client that compares equal (by nickname, so the first
of those without one), deletes at that position, whoever is there by then, and closes
the descriptor. A thread whose client closed by QUIT goes on with
the descriptor's number, which the next connection gets, and with the messages it has
received before; which these are is not kept, so any message may still come
(`Receive`). `contended` remembers
the nicknames for which two threads were between the look and the write, the
only way to share one. `fate` becomes "crashed" where `list_seek` returns NULL
and is used, by LUSERS and MOTD after registration as well as by themselves.
`Inform` stands for the other messages that look a client up and answer (WHOIS,
AWAY, OPER).

### `Channels`

Extends `Irc` by the handlers of JOIN, PART, PRIVMSG, NOTICE, TOPIC, MODE, NAMES
and LIST. `task[t]` is the handler that thread `t` is in: `pc` is its next step,
`op` the message (`"REMOVE"` and `"MEMBER"` are the second `isUserInChannel` of
PART and of MODE). A step is one call on a list, one access to a counter, or an
iteration that nobody can change. Where the code looks and acts in two moves the
model has two steps: `findChannel` locates a position and then gets what is there
(`FindLocate`, `FindGet`); `isUserInChannel` and `messageAllUsers` copy the head of
the list of members before they lock it (`Copy`, `Check`), so that the copy may
have an old length or the mark of a list that somebody iterates (`busy`), and then
nobody is found; `nusers` is read and written without a lock. `misuse` says that
freed memory, an entry beyond the end of a list or a link that is not set was used;
nothing follows.

`findChannel` takes no lock, and `list_append` changes the list under its hands: it
links the new entry before the entry's own pointers are set, and counts it before the
pointer to the middle follows (`simclist.c:478-492`). An addition therefore is two
steps, `Create` and `Link`, and while another thread is between them (`Halfway`) a
lookup by name may miss the new channel (`LocateHalfway`), one by position may arrive
one entry off or at nothing (`GetHalfway`), and each, as well as the search and the
deletion of PART, may follow a link that is not set (`Astray`).

Four variables only remember: `late`, the threads behind whose lookup the list of
channels has changed or was changing, and `raced`, the names such a thread has added; `blind`, the
descriptors that joined while the members were iterated; `overlapped`, that a PART
or a TOPIC, the handlers that free, ran beside another handler, or that a lookup went
wrong beside an addition. The properties
say that what goes wrong goes wrong only then.

Modes (of clients, channels and members) and the text of topics are left out: what
the code does depending on a mode is open. A run begins `Fresh`, to register, or
`Connected`, with two registered clients and no channel or two.

## Runs

All with `tlc -workers 2 -config <cfg> <module>`. Deadlock is not checked: a
connection ends, a daemon stops or crashes, and the bounded applications,
requests and faults run out.

| Run | Checks | Bounds | States |
|---|---|---|---|
| `tcp_faults` | `HandshakeAgreed`, `StreamService`, `Onward` | 2 bytes one way, MSS 1, buffers of 2, 2 faults | 2.1 million |
| `tcp_timers` | `Inv`, `AckedIsDelivered`, `WindowIsBacked`, `OutstandingIsQueued`, `ClosedAfterFin`, `FinIsLast`, `EofState` | 3 bytes one way through buffers of 2, 1 early or late timer | 2.4 million |
| `tcp_live` | `Terminates` | 2 bytes and 1, buffers of 3, fairness | 0.2 million |
| `event_loop` | `TypeOK`, `NoLostPacket`, `ClosedIsCleanedUp`, `PacketsTaken`, `ClosedFreed` | 2 packets after the SYN, 2 calls or timers, fairness | 57 thousand |
| `circular_buffer` | `Inv`, `ReadersRemembered`, `BoundedFifo`, `WritersReturn`, `ReadersReturn` | 2 writers, 1 reader, 3 bytes, calls of up to 4, fairness | 28 thousand |
| `debug_monitor` | `Inv`, `BreakpointIsSafe`, `NoDanglingMonitor`, `BreakpointReturns`, `DyingIsDestroyed` | 3 threads, 2 sockets, 2 monitors, 6 calls, fairness | 137 thousand |
| `sockets` | `Inv`, `LookupExact`, `ConnectionsApart`, `ExitFrees`, `ServerStops` | 2 handlers, 2 sockets, 2 ephemeral ports, 4 requests, 1 SYN, fairness | 613 thousand |
| `router` | `Inv`, `DecidedOnce`, `KnownNotAsked`, `Decided` | 2 packets (1 `Answerable`), 3 hosts, cache of 2, 2 requests, 2 replies, fairness | 369 thousand |
| `irc` (module `MCChannels`) | `Inv`, `SharedOnlyByRace`, `ChannelInv`, `NameOnce`, `MemberOnce` | 3 connections, 2 descriptors, 2 nicknames, 4 messages; 2 names of channels, 3 messages about them | 1.6 million |

Why the bounds are enough to be of interest: two faults allow a loss and a
reordering of the same two segments, or a duplicate that arrives after the FIN;
segments of one byte make two of them in flight, so one can be put aside out of
order; a fault also forces retransmission by `TimerExpires`, which is not
bounded. Three bytes through buffers of two are the smallest case in which a
writer blocks, the window closes, a payload is cut, and a sender is caught in
its loop. One early or late timer is enough to leave `lock_retrans_q` locked.
A buffer of three with calls of up to four wraps around at every offset and
cuts a write that is too long; with two writers one may sleep while the other
takes the room it was woken for. `SpinCap` bounds the packets of a sender in its endless loop.
Three threads at two sockets let one wait for a monitor that a second is asked
about and a third detaches; six calls are two sockets made, a debugger
attached, and three breakpoints or frees in any order. Four requests make,
bind and listen on a socket and accept the SYN (what is left open is freed when the
client goes), make two sockets and connect both, at once or one on the port of the
other, or make, bind and connect one socket beside a second; two entries let a
connection come before or after its listener in the table, and both ports are
ephemeral, so that a listener may be on one that connect() chooses from. Two packets for one address meet in one request; two replies
fill the cache, one of them too late. Three connections over two descriptors
are the fewest in which a descriptor is used again while another thread that
has the same number is still about; four messages are two nicknames that are set at
once, beside a user name and a QUIT. From two registered clients, three messages about channels are
two JOINs of one new channel and a PART, or a PART that destroys a channel beside
a JOIN and a NAMES; with the two channels at the start, a lookup can be overtaken
by the removal of the channel before the one it has found. The bounds of the routers' constants (two requests sent
instead of five, a second instead of fifteen) only shorten what repeats.

### Properties

* `StreamService`: `Tcp` implements `ByteStream`. `written`, `closed`,
  `delivered` and `ended` of the abstract specification are `wrote`,
  `closing`, `got` and `eof`.
* `AckedIsDelivered`, `OutstandingIsQueued`: a byte is never in nobody's hands.
* `WindowIsBacked`: the advertised window is never larger than the room.
* `HandshakeAgreed`, `Onward`, `FinIsLast`, `ClosedAfterFin`, `EofState`: the
  life of a connection; `EofState` is the assertion of the recv handler.
* `Terminates`: see fairness.
* `NoLostPacket`, `ClosedIsCleanedUp`, `PacketsTaken`, `ClosedFreed`: the
  flags of the event loop.
* `BoundedFifo`: `CircularBuffer` implements `BoundedQueue`.
* `WritersRemembered` (in `Inv`), `ReadersRemembered`: what is needed lest
  signals, which wake one thread each, leave somebody asleep for ever.
* `WritersReturn`, `ReadersReturn`: see fairness.
* `WaitersCounted`, `RefCovers` (in `Inv` of `DebugMonitor`), `BreakpointIsSafe`,
  `NoDanglingMonitor`, `DyingIsDestroyed`: reference counting; the counts and the
  flag together let exactly one thread destroy a monitor, and not too early.
* `BreakpointReturns`: `lock_sockfd` is given back on every path.
* `PortOwnerUsesIt` (in `Inv` of `Sockets`), `ConnectionsApart`, `LookupExact`:
  socket table and port table agree, although neither is locked, up to the races and
  second bindings that the properties name.
* `ExitFrees`, `ServerStops`: the ends of a client and of the daemon. A socket that is
  neither active nor passive is not freed (see below).
* `QueueExact`, `WaitingIsKept` (in `Inv` of `Router`), `DecidedOnce`, `Decided`,
  `KnownNotAsked`: a packet that waits has one request and is decided; it meets one
  end, and is refused a second time only beside the destruction of its request by
  both threads.
* `NamedIsRegistered`, `RegisteredIsNamed` (both in `Inv` of `Irc`): registration
  works although any thread may set either name without looking at the other.
* `SharedOnlyByRace`: nicknames are unique up to the race in NICK.
* `Tidy` (in `ChannelInv`), `NameOnce`, `MemberOnce`: channels are freed once and
  forgotten, their names are unique, and a client is a member once, up to the
  races that the properties name: PART and TOPIC beside others, and `findChannel`
  beside an addition.

### Where the code does something else

Three runs check what a comment of the repository says and find a behaviour
that contradicts it. `PROJECT.json` quotes the lines.

| Run | Statement | What happens |
|---|---|---|
| `event_loop_accept` | accept returns when the socket has become ESTABLISHED | it may look too late, and waits for ever |
| `sockets_ports` | a port whose entry is NULL is available | the listener of a freed connection is still on it |
| `router_mac` | the mapping of an ARP reply is inserted | our own MAC address is |

Other behaviour that was met while modelling and that the models contain:

* `tcp.c:754` takes `SND_UNA = SND_NXT` for the acknowledgement of the FIN, which
  `SND_NXT` does not count, so FIN_WAIT_2 may be entered early.
* `process_timeout` returns with `lock_retrans_q` locked when nothing is due
  (`tcp.c:367`), which a timer thread can cause that has come too late.
* A resent SYN/ACK is outside the window of a client that is ESTABLISHED and is
  not answered (`tcp.c:846`): after the loss of the client's acknowledgement the
  server stays in SYN_RCVD until the client sends.
* net_recv may be raised for a packet that has been taken already; the handler
  fetches from an empty list (`connection.c:590-598`, `tcp.c:617`).
* With two readers of one circular buffer, one may go on sleeping beside data
  (`buffer.c:126` signals once).
* A handler thread that ends frees its active and passive sockets only
  (`handlers.c:227-231`): one that was made, or bound, and no more keeps its entry and
  its port for ever, although `server.c:539-541` says that all are freed.
* A socket may be bound twice, or connected after it was bound: the first port stays
  in `port_table` and names it, also after it was freed (`handlers.c:325`).
* While the packet thread waits to destroy a request it has refused, the sweep refuses
  the same packets again and destroys the request first; the packet thread then frees
  it a second time (`sr_arpcache.c:55-57`).
* A packet whose source has no route cannot be refused: `handle_cached_request` uses
  the route it has not found (`sr_arpcache.c:38-39`).
* The first route that fits is taken, not the longest (`sr_router.c:148`), and a
  packet that arrives with a time to live of 0 goes on with 255.
* QUIT deletes the first client with the same nickname, or who has come to its
  position in the meantime (`handlers.c:139`). MOTD, which follows registration, uses
  a null pointer if its client is gone by then (`handlers.c:277`).
* `findChannel` walks the list of channels without a lock while JOIN adds to it
  (`channel.c:196`, `simclist.c:478-492`), and may follow a pointer that is not set.
* While NAMES iterates the members of a channel, `isUserInChannel` finds nobody,
  and a user may join twice (`channel.c:62-71`). `destroyChannel` leaves a channel
  in the list that LIST is iterating, though it frees it (`channel.c:117`).
* MODE by a user who is not in the channel and NAMES of an unknown channel use a
  null pointer (`handlers.c:614`, `handlers.c:812`). From QUIT on the files are those
  of `chirc/src`.

### Fairness

`DaemonFairness`: threads of the daemon that can run do (weak fairness of the
TCP thread, of the connection thread's `EnqueuePacket` and of a blocked writer
that has room again), and a timer that is not cancelled expires (strong
fairness: the moment at which it may be interrupted by traffic again and again
is an artefact of `Quiet`). `ApplicationFairness`: applications read what has
arrived and close once they are connected. Nothing forces an application to
send, and `Terminates` excludes faults and early timers, because with them the
code does get stuck (see the list above). It also needs buffers larger than
what one application sends: with a full receive buffer in FIN_WAIT_1 or
FIN_WAIT_2 the window stays closed, since APPLICATION_RECEIVE is ignored there.

In `EventLoop`, threads that have begun a critical section go on; nobody has to
call, send or disconnect.

In `CircularBuffer`, a thread that has been woken gets the lock, and somebody
reads as long as there are bytes: for the send buffer that is the TCP thread,
for the receive buffer the application, without which no writer could return.
`MaxBytes` makes the other writers stop: that a writer is not overtaken for
ever by others is not claimed.

In `DebugMonitor`, a thread that has begun a call goes on, and a debugger that is
asked answers or goes away. The lock needs no more than weak fairness of each
thread because calls are bounded; that a thread is not overtaken for ever is not
claimed.

In `Sockets`, threads go on; nobody has to call, connect or send. The fairness
of `HandlerRuns` is one for each handler thread: it goes on with a call it is in,
handles a request it has received, as one that succeeds or is refused, and ends when
its socket has been shut down. In `Router`, both threads go on and time passes
(`sleep(1)`); packets and replies need not come.

## Proofs

`tlapm` checks eight modules of proofs. Each theorem is proved from an inductive
invariant, whose preservation has one lemma per action; what it says is what the
runs alone do not show, namely why the property holds for every number of
threads, sockets, bytes, packets and names. All these invariants were also run as
invariants of the configurations above before they were proved. The assumptions
are those of the modules (`TcbAssumption`, `TcpAssumption`, `SocketsAssumption`
and so on): types of the constants, that `Null` is none of the values it stands
beside, and that there is an ephemeral port.

| Module | Theorems | Inductive invariant |
|---|---|---|
| `TcpProofs` (with `TcbProofs`) | `Invariance`, `TypeCorrect`, `FinComesLast`, `EndsAgreeAlways`, `WindowsAreBacked`, `AcknowledgedIsDelivered`, `HandshakeAgrees`, `ClosesAfterFin`, `EofOnlyAfterFin`, `OnlyOnward`, `IsByteStream`, `OutstandingStaysQueued` | `Inv /\ Agreement`, and `Backlog` for the last |
| `EventLoopProofs` | `LoopTypes`, `PacketNeverLost`, `ClosedNeverForgotten` | `LoopInv` |
| `CircularBufferProofs` | `Invariance`, `ReaderNeverForgotten`, `ImplementsQueue` | `Inv` |
| `DebugMonitorProofs` | `CountersAreTrue`, `BreakpointsAreSafe`, `TableIsClean` | `Safe` |
| `SocketsProofs` | `PortsHaveOwners`, `LookupsAreExact`, `EphemeralPortsAreNotShared` | `Safe`: `TableSafe`, `Owners`, `Reserved` |
| `RouterProofs` | `QueueIsExact`, `PacketsAreDecidedOnce`, `AnsweredIsNotAsked` | `Safe` |
| `ChannelsProofs` | `NamesAndRegistration`, `NicknamesAreShared`, `ChannelNamesAreShared`, `MembersAreListedOnce`, `ChannelsAreTidy` | `IrcSafe /\ ChannelSafe`, and `Orderly` for the last |

### `Tcp`

`TypeOK` alone is not inductive: that `process_send_buffer` builds
segments of natural length, or that the receive buffer takes no byte twice,
depends on where the sequence numbers come from. `Inv` therefore says

* `SentBy`: a segment, wherever it is stored (in the network, pending,
  withheld, out of order or in the retransmission queue), has the bytes its
  sequence number says, and none its sender's application has not written; a
  FIN has the number after the last byte, and its sender has closed;
* `BuffersSound`, `SenderSound`, `ReceiverSound`: a block agrees with the
  stream it sends and with the one it receives;
* `StateSound`: RCV_NXT follows the receive buffer from the peer's SYN on.

`TcbProofs` shows for each operator of `Tcb` that it preserves the invariant of
its own block, given that the packets it is handed were sent by the peer.
`TcpProofs` adds that a step of one socket leaves the other one sound (what was
written only grows), and combines the actions.

What a socket may believe of its peer is a second invariant, `Agreement`, which
is inductive because `Inv` is. A segment acknowledges no more than its sender's
RCV_NXT and carries no more than its sender has taken out of its send buffer
(`Carries`); hence SND_UNA never passes the peer's RCV_NXT, the receive buffer
never holds what the peer has not taken, and the state of a socket follows from
what has come in (`StateAgrees`). `WindowIsBacked`, `AckedIsDelivered`,
`HandshakeAgreed`, `ClosedAfterFin` and `EofState` follow from the two together.
`Onward` is proved action by action, each a step of one block that `GoesForward`
relates, and so is `StreamService`: in every step the application writes, closes
or reads, or the receive buffer grows by the next bytes of the peer's stream, or
nothing of this changes.

`OutstandingIsQueued` needs a third invariant, `Backlog`, one per socket. A part
of a handler either `Keeps` the queue (if every number from SND_UNA to SND_NXT
was queued before it, it is afterwards) or sends the SYN, which covers all there
is as long as SND_UNA is the initial number and SND_NXT the next (`Unsynced`);
`Backs` is the two together for a whole handler. `PickComplete` shows that
`process_q_after_ack` and `process_timeout` lose no member that they do not
delete, `ChunksComplete` that the segments of `process_send_buffer` leave no gap
between them; what `process_timeout` takes out it puts back at the end
(`ProcessTimeoutKeeps`). A thread that is stuck at the queue's lock, spins or has
ended is exempt: it sends nothing again.

### `EventLoop` and `CircularBuffer`

`NoLostPacket` and `ClosedIsCleanedUp` hold for any number of
packets and calls. `NoLostPacket` speaks of the moments in which the TCP thread
waits; the invariant `PacketsKnown` follows a packet through the other steps
(while it handles net_recv, the thread itself will look again).

`CircularBufferProofs` has `Spec => []Inv` and `Spec => BoundedFifo` for
every size and any number of threads. `Layout` says where each byte lies, with
`start` and `end` equal to `maxsize` as well as 0; from it the contents are a
stretch of the stream (`QueueIsStretch`), and each step appends to it or takes
from its front. `ReadersRemembered` is proved for a single reader, which is
when it holds: a writer that would wait without having signalled found bytes in
the buffer, so that the reader was not asleep.

### `DebugMonitor`

The counts are cardinalities (`Waiters`, `Attached`), so the proof adds and
removes one element at a time. What makes them enough is who may touch a monitor:
the holder of its lock and those who wait at a breakpoint keep it alive
(`HoldersLock`, `WaitersLive`); an entry refers to a dying monitor only until its
thread has come by (`DyingIsRemoved`); and the thread that destroys it is the
last that knows it (`DestroyedIsForgotten`).

### `Sockets`

`TableSafe` says of an entry what its type implies (`Entry`: only an active socket has
a remote address, and a port with it) and of a handler between two steps what it holds
(`Doing`). No more can be said of the entry it is about to fill, since any other client
may name it. A port is entered in `port_table` in the step that gives it to the socket
and given back in the step that frees the entry, so `PortOwnerUsesIt` fails only of
sockets in `rebound`.

`Owners` and `Reserved` carry `ConnectionsApart`. A socket that has its port from BIND or
CONNECT (`Owner`), and not from the listener whose accept() made it, is the one
`port_table` names, and a port that a handler has chosen is on no such socket and chosen
by nobody else - unless the port is spoiled. Two connections that connect() made are
both owners, so they cannot be on one port that is not. Each exception in `spoiled` is
where the proof needs it: without the second, CONNECT takes the last port from its
owner; without the third, freeing the socket of an accept() clears the entry of the
listener, and another handler may choose its port while an owner is on it.

`LookupExact` is about wildcards. The address of a socket that accept() made is not the
wildcard, so it fits its packets with none, and whoever else does has the same port and
the same peer. One that connect() made has the wildcard as its local address: a listener
that is bound to an address and to the same port fits as well as it does, and comes
first if it is first in the table. Both are owners, so the port is spoiled.

### `Router`

The proof rests on where the lock is held. While the sweep goes round nobody else
takes a request off the queue, so what it still has to look at is queued
(`Positions`). The packet thread's request may be freed under its hands, but its
packets do not meet a second end: the packets of a request have met none until the
thread that will destroy it gives them one (`Held`, `DealtWith`), and they are refused
as often as there are threads about to destroy it (`Refusals`), which is at most two. `Counts` bounds
`times_sent` across the packet thread's read and write. Nothing is said of the
time after freed memory was used (`fate` is "undefined"); no step follows.

### `Irc` and `Channels`

`IrcSafe` holds a client to its thread (`Listed`) and a nickname that was looked
up to those who look it up (`Choosing`). `ChannelSafe` adds what a handler knows
of the list it has searched: if the list has not changed (the thread is not
`late`), the position is in it and no channel has the name it will create
(`UpToDate`); if nobody iterated the members, a descriptor that was not found is
beyond the ones looked at, or not there (`NotYetIn`). A lookup in the middle of an
addition makes its thread `late`. Every step of `Irc` and of
every channel handler preserves both. The attempt found an inaccuracy of the
model, not of the code: `Connected` admitted more registered clients than the
instance has connections; the initial state now says that it needs two.

`ChannelsAreTidy` needs a third invariant, `Orderly`, which says something only as
long as no PART and no TOPIC has run beside another handler (`~overlapped`; in the
code nothing keeps them apart, and with one beside another freed memory is used), and
no lookup has gone wrong beside an addition (`Astray` and the like set `overlapped`;
nor does the code keep these apart).
Its parts support each other:

* `Alone` and `OthersIdle`: while a PART or a TOPIC is in a handler, nobody else
  is, so what it has read is what it finds (`Parting`);
* `Valid` and `Present`: a listed channel, and the one of a handler, is not freed;
* `UsersCounted`: `nusers`, which JOIN reads and writes without a lock, may lag
  behind the list of members when two JOINs overwrite each other's count, but it
  leads it by no more than the JOINs between counting and appending. Hence it is 0
  when PART has removed the last member, and PART destroys the channel. (When it
  lags, PART destroys a channel that still has members; they lose it, but nothing
  that has been freed is used.)
* `Peopled`: a listed channel without members has a handler that brings one or is
  about to destroy it (`Carries`). When all handlers have ended there is none, which
  is the last part of `Tidy`.

### What is only model-checked

* Liveness (`Terminates`, `PacketsTaken`, `ClosedFreed`, `WritersReturn`,
  `ReadersReturn`, `BreakpointReturns`, `DyingIsDestroyed`, `ExitFrees`,
  `ServerStops`, `Decided`): TLAPS does not reason about fairness and ENABLED here.

## Not modelled

* How long a timeout is (`timespec_*`, `update_rto`), the message format between
  client library and daemon, logging, the tester.
* The table of connections between daemons and the network thread
  (`connection.c:100-400`, `server.c`): sockets of the operating system.
* In `Sockets`, port 0, and several local addresses beside the wildcard.
* In `Tcp`, two threads that call the same socket: a SEND beside a CLOSE.
* A lookup in the list of clients of chirc in the middle of a change of it, and the
  search of PART missing the last channel in the middle of an addition (other than by
  going astray).
* SEND and RECV in `Sockets`: they are in `Tcp`; no run composes the two, since
  `Sockets` needs several connections and `Tcp` one in detail.
* Modes in chirc (AWAY, OPER and what MODE sets), the text of topics and
  messages, and everything after memory that is no longer valid was used. The
  parser keeps no state.
* The construction of packets in simple-router, and its answers to ARP requests.
* Libraries (`simclist` but for its lists of channels, `bstrlib`, `sha1`) and the
  exercises.

Hazards of these parts are in `PROJECT.json` with a note.
