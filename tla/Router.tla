------------------------------- MODULE Router -------------------------------
(***************************************************************************)
(* simple-router: forwarding (router/sr_router.c) and the ARP cache with   *)
(* its queue of requests (router/sr_arpcache.c).  Two threads share them:  *)
(* the one that receives packets and the one that sweeps the cache every   *)
(* second.  The sweep holds the lock of the cache from beginning to end;   *)
(* the packet thread takes it for each operation on the cache, but not in  *)
(* handle_cached_request, which both of them call.                         *)
(*                                                                         *)
(* A packet is a name; what it holds is chosen when it arrives.  A MAC     *)
(* address is named by its owner, Self for the router's interfaces.        *)
(* Seconds are counted from what happened last and no further than         *)
(* matters; a sweep takes less than a second.                              *)
(***************************************************************************)
EXTENDS Naturals, FiniteSets, SequencesExt

CONSTANTS Hosts,        \* hosts in the networks of the router
          Self,         \* an address of the router itself
          Routes,       \* the routing table: <<network, network, ...>>
          Packets,      \* the packets that arrive
          Answerable,   \* those whose source has a route
          CacheSize,    \* SR_ARPCACHE_SZ
          Timeout,      \* SR_ARPCACHE_TO
          MaxSent,      \* the 5 of handle_cached_request
          MaxRequests,  \* bound: requests queued so far
          MaxReplies    \* bound: ARP replies that arrive

ASSUME RouterAssumption ==
  /\ Self \notin Hosts
  /\ Routes \in Seq(SUBSET Hosts)
  /\ IsFiniteSet(Packets) /\ Answerable \subseteq Packets
  /\ CacheSize \in Nat /\ Timeout \in Nat /\ MaxSent \in Nat \ {0}
  /\ MaxRequests \in Nat /\ MaxReplies \in Nat

VARIABLES
  entries,      \* the cache
  req,          \* every request that was ever queued
  requests,     \* the queue, the latest first
  outcome,      \* what became of each packet
  refusals,     \* how often each packet was answered with host unreachable
  pkt,          \* the packet thread
  swp,          \* the sweep thread
  tick,         \* a second has passed since the last sweep
  replies,      \* ARP replies so far
  fate          \* "undefined": freed memory or a NULL pointer has been used

vars == <<entries, req, requests, outcome, refusals, pkt, swp, tick, replies, fate>>

Request == 1..MaxRequests
Entry == 1..CacheSize

Outcome == {"dropped", "echo_reply", "port_unreachable", "time_exceeded",
            "net_unreachable", "host_unreachable", "forwarded"}

Invalid == [valid |-> FALSE, ip |-> Self, mac |-> Self, age |-> 0]

(* sent is the number of seconds since the request was sent, Long when     *)
(* more than one has passed or it never was.                               *)
Long == 2

NoRequest == [state |-> "unused", ip |-> Self, sent |-> Long, times_sent |-> 0,
              packets |-> {}]

Asleep == [pc |-> "idle", q |-> 0, n |-> 0, rest |-> <<>>]

Init == /\ entries = [e \in Entry |-> Invalid]
        /\ req = [q \in Request |-> NoRequest]
        /\ requests = <<>>
        /\ outcome = [p \in Packets |-> {"expected"}]
        /\ refusals = [p \in Packets |-> 0]
        /\ pkt = Asleep /\ swp = Asleep
        /\ tick = FALSE /\ replies = 0
        /\ fate = "alive"

Alive == fate = "alive"

(* The sweep thread holds the lock of the cache.                           *)
Locked == swp.pc # "idle"

Without(s, q) == RemoveFirst(s, q)
-----------------------------------------------------------------------------
(***************************************************************************)
(* The cache: what sr_arpcache.c does under its lock.                      *)
(***************************************************************************)

(* sr_arpcache_lookup takes the last valid entry.                          *)
LookedUp(ip) == {e \in Entry : /\ entries[e].valid /\ entries[e].ip = ip
                               /\ \A f \in Entry : f > e =>
                                    ~(entries[f].valid /\ entries[f].ip = ip)}

(* sr_arpcache_queuereq joins the request for the address, if there is one.*)
QueuedFor(ip) == {q \in Request : req[q].state = "queued" /\ req[q].ip = ip}

Fresh == {q \in Request : /\ req[q].state = "unused"
                          /\ \A r \in 1..(q - 1) : req[r].state # "unused"}

JoinedFirst(q, ip, p) ==
  [req EXCEPT ![q].state = "queued", ![q].ip = ip,
              ![q].packets = IF @ = {} THEN {p} ELSE @]
Joined(q, ip, p) ==
  [req EXCEPT ![q].state = "queued", ![q].ip = ip, ![q].packets = @ \union {p}]

(* sr_arpcache_insert takes the request for the address off the queue and  *)
(* fills the first entry that is not valid; an older entry stays.          *)
UnlinkedNever(ip) == requests
Unlinked(ip) == RemoveFirstMatch(requests, LAMBDA r : req[r].ip = ip)

Inserted(ip, mac) ==
  [e \in Entry |-> IF ~entries[e].valid /\ \A f \in 1..(e - 1) : entries[f].valid
                     THEN [valid |-> TRUE, ip |-> ip, mac |-> mac, age |-> 0]
                     ELSE entries[e]]

(* sr_arpreq_destroy.                                                      *)
Destroyed(q) == [req EXCEPT ![q] = [NoRequest EXCEPT !.state = "freed"]]
-----------------------------------------------------------------------------
(***************************************************************************)
(* handle_cached_request, for the thread whose variable is t: it looks at  *)
(* the request, acts on what it saw, and destroys it.                      *)
(***************************************************************************)
Freed(q) == req[q].state = "freed"

Decision(q) == IF req[q].sent < Long THEN "done"
               ELSE IF req[q].times_sent >= MaxSent THEN "unreachable" ELSE "resend"

(* The request is sent again, for the n-th time so far; one without        *)
(* packets is given up instead.                                            *)
ResentUncounted(q, n) == [req EXCEPT ![q].sent = 0]
Resent(q, n) == [req EXCEPT ![q].sent = 0,
                            ![q].times_sent = IF req[q].packets = {} THEN MaxSent ELSE n + 1]

(* ICMP host unreachable to the source of every packet that waits, by the  *)
(* route to it: find_rt_match returns NULL when there is none, and is not  *)
(* asked.                                                                  *)
Refused(q) == [p \in Packets |-> IF p \in req[q].packets
                                   THEN (outcome[p] \ {"waiting"}) \union {"host_unreachable"}
                                   ELSE outcome[p]]
OnceMore(q) == [p \in Packets |-> IF p \in req[q].packets THEN refusals[p] + 1
                                                          ELSE refusals[p]]

(* What the program does once it has used freed memory or a NULL pointer   *)
(* has no meaning and is not followed.                                     *)
Undefined == /\ fate' = "undefined"
             /\ UNCHANGED <<entries, req, requests, outcome, refusals, pkt, swp, tick, replies>>
-----------------------------------------------------------------------------
(***************************************************************************)
(* The packet thread: sr_handlepacket.                                     *)
(***************************************************************************)

(* find_rt_match: the first route that fits, not the longest.              *)
RouteOf(ip) == {i \in DOMAIN Routes : /\ ip \in Routes[i]
                                      /\ \A j \in 1..(i - 1) : ip \notin Routes[j]}

Become(p, what) == outcome' = [outcome EXCEPT ![p] = {what}]

Arrives(p) == Alive /\ pkt.pc = "idle" /\ outcome[p] = {"expected"}

(* To an interface of the router: only an echo request and what is not     *)
(* ICMP are answered.                                                      *)
ForRouter(p) ==
  /\ Arrives(p)
  /\ \E what \in {"echo_reply", "dropped", "port_unreachable"} : Become(p, what)
  /\ UNCHANGED <<entries, req, requests, refusals, pkt, swp, tick, replies, fate>>

(* The time to live is a byte: what arrives with 0 goes on with 255.       *)
Lived(ttl) == (ttl + 255) % 256

TimeExceeded(p, ttl) ==
  /\ Arrives(p)
  /\ Lived(ttl) = 0
  /\ Become(p, "time_exceeded")
  /\ UNCHANGED <<entries, req, requests, refusals, pkt, swp, tick, replies, fate>>

NoRoute(p, ttl, ip) ==
  /\ Arrives(p)
  /\ Lived(ttl) > 0 /\ RouteOf(ip) = {}
  /\ Become(p, "net_unreachable")
  /\ UNCHANGED <<entries, req, requests, refusals, pkt, swp, tick, replies, fate>>

Forward(p, ttl, ip) ==
  /\ Arrives(p) /\ ~Locked
  /\ Lived(ttl) > 0 /\ RouteOf(ip) # {}
  /\ LookedUp(ip) # {}
  /\ Become(p, "forwarded")
  /\ UNCHANGED <<entries, req, requests, refusals, pkt, swp, tick, replies, fate>>

(* The address is not in the cache: the packet is queued, and the request  *)
(* looked after at once, without the lock.                                 *)
Queue(p, ttl, ip) ==
  /\ Arrives(p) /\ ~Locked
  /\ Lived(ttl) > 0 /\ RouteOf(ip) # {}
  /\ LookedUp(ip) = {}
  /\ Become(p, "waiting")
  /\ \E q \in IF QueuedFor(ip) # {} THEN QueuedFor(ip) ELSE Fresh :
       /\ req' = Joined(q, ip, p)
       /\ requests' = IF QueuedFor(ip) # {} THEN requests ELSE <<q>> \o requests
       /\ pkt' = [pkt EXCEPT !.pc = "check", !.q = q]
  /\ UNCHANGED <<entries, refusals, swp, tick, replies, fate>>

(* An ARP reply: the sender's address is inserted with the MAC address of  *)
(* our own interface; the packets that waited go to the sender's.          *)
ArpReply(ip) ==
  /\ Alive /\ pkt.pc = "idle" /\ ~Locked
  /\ replies < MaxReplies
  /\ replies' = replies + 1
  /\ entries' = Inserted(ip, Self)
  /\ requests' = Unlinked(ip)
  /\ IF QueuedFor(ip) = {} THEN pkt' = pkt /\ req' = req
     ELSE \E q \in QueuedFor(ip) :
            /\ pkt' = [pkt EXCEPT !.pc = "send", !.q = q]
            /\ req' = [req EXCEPT ![q].state = "unlinked"]
  /\ UNCHANGED <<outcome, refusals, swp, tick, fate>>

SendWaiting ==
  /\ Alive /\ pkt.pc = "send"
  /\ outcome' = [p \in Packets |-> IF p \in req[pkt.q].packets
                                     THEN (outcome[p] \ {"waiting"}) \union {"forwarded"}
                                     ELSE outcome[p]]
  /\ pkt' = [pkt EXCEPT !.pc = "sent"]
  /\ UNCHANGED <<entries, req, requests, refusals, swp, tick, replies, fate>>

Sent ==
  /\ Alive /\ pkt.pc = "sent" /\ ~Locked
  /\ req' = Destroyed(pkt.q)
  /\ requests' = Without(requests, pkt.q)
  /\ pkt' = Asleep
  /\ UNCHANGED <<entries, outcome, refusals, swp, tick, replies, fate>>

(* handle_cached_request, in the packet thread.  The sweep may have        *)
(* destroyed the request.                                                  *)
PacketCheck ==
  /\ Alive /\ pkt.pc = "check"
  /\ IF Freed(pkt.q) THEN Undefined
     ELSE /\ pkt' = IF Decision(pkt.q) = "done" THEN Asleep
                                                ELSE [pkt EXCEPT !.pc = Decision(pkt.q)]
          /\ UNCHANGED <<entries, req, requests, outcome, refusals, swp, tick, replies, fate>>

(* times_sent is read and written back, and the sweep may count in between.*)
PacketRead ==
  /\ Alive /\ pkt.pc = "resend"
  /\ IF Freed(pkt.q) THEN Undefined
     ELSE /\ pkt' = [pkt EXCEPT !.pc = "count", !.n = req[pkt.q].times_sent]
          /\ UNCHANGED <<entries, req, requests, outcome, refusals, swp, tick, replies, fate>>

PacketResend ==
  /\ Alive /\ pkt.pc = "count"
  /\ IF Freed(pkt.q) THEN Undefined
     ELSE /\ req' = Resent(pkt.q, pkt.n)
          /\ pkt' = Asleep
          /\ UNCHANGED <<entries, requests, outcome, refusals, swp, tick, replies, fate>>

PacketRefuse ==
  /\ Alive /\ pkt.pc = "unreachable"
  /\ IF Freed(pkt.q) \/ ~(req[pkt.q].packets \subseteq Answerable) THEN Undefined
     ELSE /\ outcome' = Refused(pkt.q)
          /\ refusals' = OnceMore(pkt.q)
          /\ pkt' = [pkt EXCEPT !.pc = "destroy"]
          /\ UNCHANGED <<entries, req, requests, swp, tick, replies, fate>>

PacketDestroy ==
  /\ Alive /\ pkt.pc = "destroy" /\ ~Locked
  /\ IF Freed(pkt.q) THEN Undefined
     ELSE /\ req' = Destroyed(pkt.q)
          /\ requests' = Without(requests, pkt.q)
          /\ pkt' = Asleep
          /\ UNCHANGED <<entries, outcome, refusals, swp, tick, replies, fate>>
-----------------------------------------------------------------------------
(***************************************************************************)
(* The sweep thread: sr_arpcache_timeout and sr_arpcache_sweepreqs.        *)
(***************************************************************************)
Older(n, bound) == IF n < bound THEN n + 1 ELSE n

(* A second passes.                                                        *)
Tick ==
  /\ Alive /\ ~tick /\ ~Locked
  /\ tick' = TRUE
  /\ req' = [q \in Request |-> IF req[q].state = "queued"
                                 THEN [req[q] EXCEPT !.sent = Older(@, Long)]
                                 ELSE req[q]]
  /\ entries' = [e \in Entry |-> IF entries[e].valid
                                   THEN [entries[e] EXCEPT !.age = Older(@, Timeout + 1)]
                                   ELSE entries[e]]
  /\ UNCHANGED <<requests, outcome, refusals, pkt, swp, replies, fate>>

(* It takes the lock and invalidates what is too old.                      *)
Sweep ==
  /\ Alive /\ tick /\ ~Locked
  /\ tick' = FALSE
  /\ entries' = [e \in Entry |-> IF entries[e].age > Timeout
                                   THEN [entries[e] EXCEPT !.valid = FALSE, !.age = 0]
                                   ELSE entries[e]]
  /\ swp' = [Asleep EXCEPT !.pc = "next", !.rest = requests]
  /\ UNCHANGED <<req, requests, outcome, refusals, pkt, replies, fate>>

(* The pointer to the next request is saved before the request is looked   *)
(* after, which may destroy it.                                            *)
SweepNext ==
  /\ Alive /\ swp.pc = "next"
  /\ swp' = IF swp.rest = <<>> THEN Asleep
            ELSE [Asleep EXCEPT !.pc = "check", !.q = Head(swp.rest),
                                 !.rest = Tail(swp.rest)]
  /\ UNCHANGED <<entries, req, requests, outcome, refusals, pkt, tick, replies, fate>>

SweepCheck ==
  /\ Alive /\ swp.pc = "check"
  /\ swp' = [swp EXCEPT !.pc = IF Decision(swp.q) = "done" THEN "next"
                                                           ELSE Decision(swp.q)]
  /\ UNCHANGED <<entries, req, requests, outcome, refusals, pkt, tick, replies, fate>>

SweepResend ==
  /\ Alive /\ swp.pc = "resend"
  /\ req' = Resent(swp.q, req[swp.q].times_sent)
  /\ swp' = [swp EXCEPT !.pc = "next"]
  /\ UNCHANGED <<entries, requests, outcome, refusals, pkt, tick, replies, fate>>

SweepRefuse ==
  /\ Alive /\ swp.pc = "unreachable"
  /\ IF ~(req[swp.q].packets \subseteq Answerable) THEN Undefined
     ELSE /\ outcome' = Refused(swp.q)
          /\ refusals' = OnceMore(swp.q)
          /\ swp' = [swp EXCEPT !.pc = "destroy"]
          /\ UNCHANGED <<entries, req, requests, pkt, tick, replies, fate>>

SweepDestroy ==
  /\ Alive /\ swp.pc = "destroy"
  /\ req' = Destroyed(swp.q)
  /\ requests' = Without(requests, swp.q)
  /\ swp' = [swp EXCEPT !.pc = "next"]
  /\ UNCHANGED <<entries, outcome, refusals, pkt, tick, replies, fate>>
-----------------------------------------------------------------------------
PacketThread == \/ SendWaiting \/ Sent \/ PacketCheck \/ PacketRead \/ PacketResend
                \/ PacketRefuse \/ PacketDestroy

SweepThread == \/ Sweep \/ SweepNext \/ SweepCheck \/ SweepResend
               \/ SweepRefuse \/ SweepDestroy

Arrival == \/ \E p \in Packets :
                \/ ForRouter(p)
                \/ \E ttl \in 0..2 : \/ TimeExceeded(p, ttl)
                                     \/ \E ip \in Hosts : \/ NoRoute(p, ttl, ip)
                                                          \/ Forward(p, ttl, ip)
                                                          \/ Queue(p, ttl, ip)
           \/ \E ip \in Hosts : ArpReply(ip)

Next == PacketThread \/ SweepThread \/ Arrival \/ Tick

Spec == Init /\ [][Next]_vars

(* Both threads go on and time passes; packets and replies need not come.  *)
FairSpec == Spec /\ WF_vars(PacketThread) /\ WF_vars(SweepThread) /\ WF_vars(Tick)
-----------------------------------------------------------------------------
(***************************************************************************)
(* Properties.                                                             *)
(***************************************************************************)
TypeOK ==
  /\ \A e \in Entry : /\ entries[e].valid \in BOOLEAN
                       /\ entries[e].ip \in Hosts \union {Self}
                       /\ entries[e].mac \in Hosts \union {Self}
                       /\ entries[e].age \in 0..(Timeout + 1)
  /\ \A q \in Request : /\ req[q].state \in {"unused", "queued", "unlinked", "freed"}
                         /\ req[q].ip \in Hosts \union {Self}
                         /\ req[q].sent \in 0..Long
                         /\ req[q].times_sent \in 0..(MaxSent + 1)
                         /\ req[q].packets \subseteq Packets
  /\ requests \in Seq(Request)
  /\ outcome \in [Packets -> SUBSET (Outcome \union {"expected", "waiting"})]
  /\ refusals \in [Packets -> 0..2]
  /\ pkt.q \in 0..MaxRequests /\ swp.q \in 0..MaxRequests
  /\ tick \in BOOLEAN /\ replies \in 0..MaxReplies
  /\ fate \in {"alive", "undefined"}

(* The queue holds every request that is neither unlinked nor freed, once, *)
(* and one for each address.                                               *)
QueueExact ==
  /\ \A q \in Request : req[q].state = "queued" <=> \E i \in DOMAIN requests : requests[i] = q
  /\ \A i, j \in DOMAIN requests : i # j => req[requests[i]].ip # req[requests[j]].ip

(* A packet that waits is kept by a request, and what a request keeps has  *)
(* either not been decided or is being decided: no packet is forgotten     *)
(* when its request is unlinked or destroyed (sr_arpreq_destroy frees the  *)
(* packets with it).                                                       *)
WaitingIsKept == \A p \in Packets : "waiting" \in outcome[p] =>
   \E q \in Request : req[q].state \in {"queued", "unlinked"} /\ p \in req[q].packets

(* With these, the race of the two threads sends a request at most once    *)
(* too often (handle_cached_request counts without the lock): TypeOK.      *)
Inv == TypeOK /\ QueueExact /\ WaitingIsKept

(* A packet meets one end.  It is not both forwarded and refused: a        *)
(* request that has been answered is out of reach of the sweep before its  *)
(* packets are sent.  It is refused a second time only by the other thread *)
(* while the packet thread is about to destroy the same request, which is  *)
(* then freed twice (handle_cached_request, sr_arpreq_destroy).            *)
DecidedOnce == \A p \in Packets :
  /\ Cardinality(outcome[p]) = 1
  /\ refusals[p] <= (IF pkt.pc = "destroy" THEN 2 ELSE 1)
  /\ "forwarded" \in outcome[p] => refusals[p] = 0

(* Nobody goes on asking for an address that is in the cache               *)
(* (sr_arpcache_insert does both in one critical section).                 *)
KnownNotAsked == \A i \in DOMAIN requests : LookedUp(req[requests[i]].ip) = {}

(* A packet that waits is forwarded or refused some time: the requests for *)
(* its address end, answered or not.                                       *)
Decided == \A p \in Packets : "waiting" \in outcome[p] ~> "waiting" \notin outcome[p] \/ ~Alive

(* sr_arpcache.h: the mapping that is inserted when an ARP reply is        *)
(* serviced is that of the reply.                                          *)
CacheTruthful == \A e \in Entry : entries[e].valid => entries[e].mac = entries[e].ip
=============================================================================
