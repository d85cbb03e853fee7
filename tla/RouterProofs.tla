---------------------------- MODULE RouterProofs ----------------------------
(***************************************************************************)
(* Theorems about the ARP cache and its queue of requests (module Router), *)
(* for any number of hosts, routes, packets and cache entries.             *)
(*                                                                         *)
(* The argument rests on where the lock is held.  While the sweep runs,    *)
(* nobody else takes a request off the queue, so what it has still to look *)
(* after is queued (Positions).  The packet thread handles one request at  *)
(* a time, which the sweep can free under its hands but cannot change in   *)
(* what it has decided (DealtWith); the packets of a request have met no   *)
(* end until the thread that will destroy it gives them one (Held), and    *)
(* are refused as often as there are threads about to destroy it           *)
(* (Refusals).                                                             *)
(***************************************************************************)
EXTENDS Router, TLAPS, WellFoundedInduction, SequenceTheorems, FiniteSetTheorems

(***************************************************************************)
(* The inductive invariant.                                                *)
(***************************************************************************)
Handling == {"check", "resend", "count", "unreachable", "destroy"}
Replying == {"send", "sent"}
AnyOutcome == Outcome \union {"expected", "waiting"}

EntryRec == [valid : BOOLEAN, ip : Hosts \union {Self}, mac : Hosts \union {Self},
             age : 0..(Timeout + 1)]
RequestRec == [state : {"unused", "queued", "unlinked", "freed"}, ip : Hosts \union {Self},
               sent : 0..Long, times_sent : 0..(MaxSent + 1), packets : SUBSET Packets]
PacketRec == [pc : {"idle"} \union Handling \union Replying, q : 0..MaxRequests,
              n : 0..MaxSent, rest : {<<>>}]
SweepRec == [pc : {"idle", "next"} \union (Handling \ {"count"}), q : 0..MaxRequests,
             n : {0}, rest : Seq(Request)]

Types ==
  /\ entries \in [Entry -> EntryRec]
  /\ req \in [Request -> RequestRec]
  /\ requests \in Seq(Request)
  /\ pkt \in PacketRec
  /\ swp \in SweepRec
  /\ tick \in BOOLEAN /\ replies \in 0..MaxReplies
  /\ fate \in {"alive", "undefined"}

Member(s, x) == \E i \in 1..Len(s) : s[i] = x
Distinct(s) == \A i, j \in 1..Len(s) : i # j => s[i] # s[j]

(* QueueExact, without the positions in the queue.                         *)
Queued ==
  /\ Distinct(requests)
  /\ \A q \in Request : req[q].state = "queued" <=> Member(requests, q)
  /\ \A q, r \in Request :
       q # r /\ req[q].state = "queued" /\ req[r].state = "queued" => req[q].ip # req[r].ip

(* A packet has met one end at most.                                       *)
OneOutcome == outcome \in [Packets -> {{o} : o \in AnyOutcome}]

(* Where the two threads are.  The request of the packet thread may have   *)
(* been freed by the sweep, those of the sweep are in the queue: nobody    *)
(* else changes it while the sweep has the lock.                           *)
Positions ==
  /\ pkt.pc \in Replying => pkt.q \in Request /\ req[pkt.q].state = "unlinked"
  /\ pkt.pc \in Handling => pkt.q \in Request /\ req[pkt.q].state \in {"queued", "freed"}
  /\ swp.pc = "idle" => swp.rest = <<>>
  /\ swp.pc \in Handling =>
       /\ swp.q \in Request /\ req[swp.q].state = "queued"
       /\ \A i \in 1..Len(swp.rest) : swp.rest[i] # swp.q
  /\ \A i \in 1..Len(swp.rest) : req[swp.rest[i]].state = "queued"
  /\ \A i, j \in 1..Len(swp.rest) : i # j => swp.rest[i] # swp.rest[j]

(* The count of a request while both threads may send it once more.        *)
Counts ==
  /\ pkt.pc \in {"resend", "count"} => req[pkt.q].times_sent <= MaxSent
  /\ pkt.pc = "count" /\ ~Freed(pkt.q) => pkt.n <= req[pkt.q].times_sent
  /\ swp.pc = "resend" => req[swp.q].times_sent <= MaxSent
  /\ swp.pc = "resend" /\ pkt.pc \in {"resend", "count"} /\ pkt.q = swp.q =>
       req[swp.q].times_sent < MaxSent

(* What becomes of the packets a request keeps.                            *)
Held ==
  \A q \in Request : \A p \in req[q].packets :
    \/ outcome[p] = {"waiting"}
    \/ outcome[p] = {"forwarded"} /\ pkt.pc = "sent" /\ pkt.q = q
    \/ /\ outcome[p] = {"host_unreachable"}
       /\ \/ pkt.pc = "destroy" /\ pkt.q = q
          \/ swp.pc = "destroy" /\ swp.q = q

(* A packet is in the list of one request.                                 *)
KeptOnce ==
  \A q, r \in Request : q # r => req[q].packets \intersect req[r].packets = {}

(* What a thread is about to destroy it has dealt with.                    *)
DealtWith ==
  /\ pkt.pc = "sent" =>
       \A p \in req[pkt.q].packets : outcome[p] = {"forwarded"}
  /\ pkt.pc = "destroy" =>
       \A p \in req[pkt.q].packets : outcome[p] = {"host_unreachable"}
  /\ swp.pc = "destroy" =>
       \A p \in req[swp.q].packets : outcome[p] = {"host_unreachable"}

(* No valid entry for an address that is asked for.                        *)
NotKnown ==
  \A q \in Request : \A e \in Entry :
    req[q].state = "queued" /\ entries[e].valid => entries[e].ip # req[q].ip

(* A packet in the list of a request has been refused by the threads that  *)
(* are about to destroy the request; refused twice, by both.               *)
Told(t, q) == IF t.pc = "destroy" /\ t.q = q THEN 1 ELSE 0

Refusals ==
  /\ refusals \in [Packets -> 0..2]
  /\ \A q \in Request : \A p \in req[q].packets : refusals[p] = Told(pkt, q) + Told(swp, q)
  /\ \A p \in Packets : outcome[p] \in {{"expected"}, {"forwarded"}} => refusals[p] = 0
  /\ \A p \in Packets : refusals[p] = 2 =>
       pkt.pc = "destroy" /\ (Freed(pkt.q) \/ p \in req[pkt.q].packets)

Safe == /\ Types /\ OneOutcome /\ Queued /\ WaitingIsKept
        /\ Positions /\ Counts /\ Held /\ KeptOnce /\ DealtWith /\ NotKnown
-----------------------------------------------------------------------------
(***************************************************************************)
(* The queue.                                                              *)
(***************************************************************************)
(* A set of natural numbers has a least element.                           *)
LEMMA HasLeast ==
  ASSUME NEW S \in SUBSET Nat, S # {}
  PROVE  \E m \in S : \A n \in S : m <= n
  <1>1. IsWellFoundedOn(OpToRel(<, Nat), Nat)
    BY NatLessThanWellFounded
  <1>2. PICK m \in S : \A n \in S : ~(<<n, m>> \in OpToRel(<, Nat))
    <2> HIDE DEF OpToRel
    <2> QED
      BY <1>1, WFMin
  <1>3. \A n \in S : ~(n < m)
    BY <1>2 DEF OpToRel
  <1> QED
    BY <1>3

LEMMA LeastOfSet ==
  ASSUME NEW S \in SUBSET Nat, S # {}
  PROVE  Min(S) \in S /\ \A n \in S : Min(S) <= n
  BY HasLeast DEF Min

LEMMA RemoveAtFacts ==
  ASSUME NEW T, NEW s \in Seq(T), NEW i \in 1..Len(s)
  PROVE  LET r == RemoveAt(s, i)
         IN /\ r \in Seq(T) /\ Len(r) = Len(s) - 1
            /\ \A j \in 1..Len(r) : r[j] = IF j < i THEN s[j] ELSE s[j + 1]
  <1> DEFINE a == SubSeq(s, 1, i - 1)
             b == SubSeq(s, i + 1, Len(s))
  <1>1. a \in Seq(T) /\ Len(a) = i - 1 /\ \A j \in 1..(i - 1) : a[j] = s[j]
    OBVIOUS
  <1>2. b \in Seq(T) /\ Len(b) = Len(s) - i /\ \A j \in 1..(Len(s) - i) : b[j] = s[j + i]
    OBVIOUS
  <1>3. RemoveAt(s, i) = a \o b
    BY DEF RemoveAt
  <1>0. Len(s) \in Nat
    OBVIOUS
  <1> HIDE DEF a, b
  <1>4. a \o b \in Seq(T) /\ Len(a \o b) = Len(s) - 1
    <2>1. a \o b \in Seq(T) /\ Len(a \o b) = Len(a) + Len(b)
      <3>1. a \in Seq(T) /\ b \in Seq(T)
        BY <1>1, <1>2
      <3> QED
        BY <3>1, ConcatProperties
    <2> QED
      BY <1>0, <1>1, <1>2, <2>1
  <1>5. ASSUME NEW j \in 1..(Len(s) - 1)
        PROVE  (a \o b)[j] = IF j < i THEN s[j] ELSE s[j + 1]
    <2>1. CASE j < i
      BY <1>1, <1>2, <2>1
    <2>2. CASE ~(j < i)
      <3>1. j - (i - 1) \in 1..(Len(s) - i) /\ (j - (i - 1)) + i = j + 1
        BY <2>2
      <3>2. (a \o b)[j] = b[j - (i - 1)]
        BY <1>1, <1>2, <2>2
      <3> QED
        BY <1>2, <2>2, <3>1, <3>2
    <2> QED
      BY <2>1, <2>2
  <1> QED
    BY <1>3, <1>4, <1>5

(* What is left is what was there, but for the one that was taken out.     *)
LEMMA RemoveAtKeeps ==
  ASSUME NEW T, NEW s \in Seq(T), NEW i \in 1..Len(s),
         \A j, k \in 1..Len(s) : j # k => s[j] # s[k]
  PROVE  LET r == RemoveAt(s, i)
         IN /\ r \in Seq(T)
            /\ \A j, k \in 1..Len(r) : j # k => r[j] # r[k]
            /\ \A x : (\E j \in 1..Len(r) : r[j] = x)
                     <=> x # s[i] /\ \E j \in 1..Len(s) : s[j] = x
  <1> DEFINE r == RemoveAt(s, i)
  <1>1. /\ r \in Seq(T) /\ Len(r) = Len(s) - 1 /\ Len(s) \in Nat
        /\ \A j \in 1..Len(r) : r[j] = IF j < i THEN s[j] ELSE s[j + 1]
    BY RemoveAtFacts
  <1> HIDE DEF r
  <1>2. ASSUME NEW j \in 1..Len(r), NEW k \in 1..Len(r), j # k PROVE r[j] # r[k]
    BY <1>1, <1>2
  <1>3. ASSUME NEW x, NEW j \in 1..Len(r), r[j] = x
        PROVE  x # s[i] /\ \E l \in 1..Len(s) : s[l] = x
    BY <1>1, <1>3
  <1>4. ASSUME NEW x, x # s[i], NEW j \in 1..Len(s), s[j] = x
        PROVE  \E l \in 1..Len(r) : r[l] = x
    <2>1. CASE j < i
      BY <1>1, <1>4, <2>1
    <2>2. CASE j > i
      <3>1. j - 1 \in 1..Len(r) /\ ~(j - 1 < i) /\ (j - 1) + 1 = j
        BY <1>1, <2>2
      <3> QED
        BY <1>1, <1>4, <3>1
    <2> QED
      BY <1>4, <2>1, <2>2
  <1> QED
    BY <1>1, <1>2, <1>3, <1>4 DEF r

LEMMA WithoutKeeps ==
  ASSUME NEW T, NEW s \in Seq(T), Distinct(s), NEW q
  PROVE  /\ Without(s, q) \in Seq(T) /\ Distinct(Without(s, q))
         /\ \A x : Member(Without(s, q), x) <=> x # q /\ Member(s, x)
  <1> DEFINE I == {i \in 1..Len(s) : s[i] = q}
  <1>1. CASE Member(s, q)
    <2>1. I \in SUBSET Nat /\ I # {}
      BY <1>1 DEF Member
    <2>2. Min(I) \in I
      BY <2>1, LeastOfSet
    <2>3. Without(s, q) = RemoveAt(s, Min(I))
      BY <1>1, <2>1 DEF Without, RemoveFirst, SelectInSeq, Member
    <2>4. Min(I) \in 1..Len(s) /\ s[Min(I)] = q
      BY <2>2
    <2> HIDE DEF I
    <2>5. LET r == RemoveAt(s, Min(I))
          IN /\ r \in Seq(T)
             /\ \A j, k \in 1..Len(r) : j # k => r[j] # r[k]
             /\ \A x : (\E j \in 1..Len(r) : r[j] = x)
                      <=> x # s[Min(I)] /\ \E j \in 1..Len(s) : s[j] = x
      BY <2>4, RemoveAtKeeps DEF Distinct
    <2>6. \A x : Member(RemoveAt(s, Min(I)), x) <=> x # q /\ Member(s, x)
      BY <2>4, <2>5 DEF Member
    <2> QED
      BY <2>3, <2>5, <2>6 DEF Distinct
  <1>2. CASE ~Member(s, q)
    <2>1. Without(s, q) = s
      BY <1>2 DEF Without, RemoveFirst, Member
    <2> QED
      BY <1>2, <2>1
  <1> QED
    BY <1>1, <1>2

LEMMA UnlinkedKeeps ==
  ASSUME requests \in Seq(Request), NEW ip,
         Queued
  PROVE  /\ Unlinked(ip) \in Seq(Request) /\ Distinct(Unlinked(ip))
         /\ \A x : Member(Unlinked(ip), x) <=> req[x].ip # ip /\ Member(requests, x)
  <1> DEFINE I == {i \in 1..Len(requests) : req[requests[i]].ip = ip}
             s == requests
  <1>0. Distinct(s)
    BY DEF Queued
  <1>1. CASE \E i \in 1..Len(s) : req[s[i]].ip = ip
    <2>1. I \in SUBSET Nat /\ I # {}
      BY <1>1
    <2>2. Min(I) \in I
      BY <2>1, LeastOfSet
    <2>3. Unlinked(ip) = RemoveAt(s, Min(I))
      BY <1>1, <2>1 DEF Unlinked, RemoveFirstMatch, SelectInSeq
    <2>4. Min(I) \in 1..Len(s) /\ req[s[Min(I)]].ip = ip
      BY <2>2
    <2> HIDE DEF I
    <2>5. LET r == RemoveAt(s, Min(I))
          IN /\ r \in Seq(Request)
             /\ \A j, k \in 1..Len(r) : j # k => r[j] # r[k]
             /\ \A x : (\E j \in 1..Len(r) : r[j] = x)
                      <=> x # s[Min(I)] /\ \E j \in 1..Len(s) : s[j] = x
      BY <1>0, <2>4, RemoveAtKeeps DEF Distinct
    <2>6. ASSUME NEW x, Member(s, x)
          PROVE  x # s[Min(I)] <=> req[x].ip # ip
      <3>1. s[Min(I)] \in Request /\ x \in Request /\ Member(s, s[Min(I)])
        BY <2>4, <2>6 DEF Member
      <3> QED
        BY <2>4, <2>6, <3>1 DEF Queued
    <2> QED
      BY <2>3, <2>5, <2>6 DEF Distinct, Member
  <1>2. CASE ~\E i \in 1..Len(s) : req[s[i]].ip = ip
    <2>1. Unlinked(ip) = s
      BY <1>2 DEF Unlinked, RemoveFirstMatch
    <2> QED
      BY <1>0, <1>2, <2>1 DEF Member
  <1> QED
    BY <1>1, <1>2

(* sr_arpcache_lookup finds an entry if there is one.                      *)
LEMMA LookupFinds ==
  ASSUME NEW ip
  PROVE  LookedUp(ip) = {} <=> \A e \in Entry : ~(entries[e].valid /\ entries[e].ip = ip)
  <1> DEFINE V == {e \in Entry : entries[e].valid /\ entries[e].ip = ip}
  <1>1. ASSUME V # {} PROVE LookedUp(ip) # {}
    <2> DEFINE D == {CacheSize - e : e \in V}
    <2>1. D \in SUBSET Nat /\ D # {}
      BY <1>1, RouterAssumption DEF Entry
    <2>2. PICK d \in D : \A x \in D : d <= x
      BY <2>1, HasLeast
    <2>3. PICK e \in V : d = CacheSize - e
      BY <2>2
    <2>4. ASSUME NEW f \in V PROVE f <= e
      <3>1. CacheSize - e <= CacheSize - f
        BY <2>2, <2>3
      <3> QED
        BY <3>1, RouterAssumption DEF Entry
    <2>5. ASSUME NEW f \in Entry, f > e
          PROVE  ~(entries[f].valid /\ entries[f].ip = ip)
      BY <2>4, <2>5 DEF Entry
    <2> QED
      BY <2>3, <2>5 DEF LookedUp
  <1> QED
    BY <1>1 DEF LookedUp
-----------------------------------------------------------------------------
(***************************************************************************)
(* What handle_cached_request does to a request and its packets.           *)
(***************************************************************************)

LEMMA ResentFacts ==
  ASSUME req \in [Request -> RequestRec], NEW q \in Request, NEW n \in 0..MaxSent
  PROVE  LET r == Resent(q, n)
         IN /\ r \in [Request -> RequestRec]
            /\ \A x \in Request : /\ r[x].state = req[x].state /\ r[x].ip = req[x].ip
                                  /\ r[x].packets = req[x].packets
                                  /\ x # q => r[x] = req[x]
            /\ r[q].times_sent = MaxSent \/ r[q].times_sent = n + 1
  <1> DEFINE k == IF req[q].packets = {} THEN MaxSent ELSE n + 1
             y == [req[q] EXCEPT !.sent = 0, !.times_sent = k]
  <1>1. Resent(q, n) = [req EXCEPT ![q] = y]
    BY DEF Resent
  <1>2. k \in 0..(MaxSent + 1) /\ (k = MaxSent \/ k = n + 1)
    BY RouterAssumption
  <1> HIDE DEF k
  <1>3. /\ y \in RequestRec /\ y.state = req[q].state /\ y.ip = req[q].ip
        /\ y.packets = req[q].packets /\ y.times_sent = k
    <2>1. req[q] \in RequestRec /\ 0 \in 0..Long
      BY DEF Long
    <2> QED
      BY <1>2, <2>1 DEF RequestRec
  <1> HIDE DEF y
  <1> QED
    BY <1>1, <1>2, <1>3

LEMMA DestroyedFacts ==
  ASSUME req \in [Request -> RequestRec], NEW q \in Request
  PROVE  LET r == Destroyed(q)
         IN /\ r \in [Request -> RequestRec]
            /\ \A x \in Request \ {q} : r[x] = req[x]
            /\ r[q].state = "freed" /\ r[q].packets = {} /\ r[q].times_sent = 0
  <1> DEFINE y == [NoRequest EXCEPT !.state = "freed"]
  <1>1. Destroyed(q) = [req EXCEPT ![q] = y]
    BY DEF Destroyed
  <1>2. y \in RequestRec /\ y.state = "freed" /\ y.packets = {} /\ y.times_sent = 0
    BY RouterAssumption DEF RequestRec, NoRequest, Long
  <1> HIDE DEF y
  <1> QED
    BY <1>1, <1>2

LEMMA EndReplaces ==
  ASSUME NEW x, x # "waiting", NEW o, o = {"waiting"} \/ o = {x}
  PROVE  (o \ {"waiting"}) \union {x} = {x}
  OBVIOUS

LEMMA RefusedFacts ==
  ASSUME OneOutcome, NEW q \in Request,
         \A p \in req[q].packets : outcome[p] \in {{"waiting"}, {"host_unreachable"}}
  PROVE  LET o == Refused(q)
         IN /\ o \in [Packets -> {{x} : x \in AnyOutcome}]
            /\ \A p \in Packets : o[p] = IF p \in req[q].packets THEN {"host_unreachable"}
                                                                 ELSE outcome[p]
  <1> DEFINE o == Refused(q)
  <1>1. o = [p \in Packets |-> IF p \in req[q].packets
                                 THEN (outcome[p] \ {"waiting"}) \union {"host_unreachable"}
                                 ELSE outcome[p]]
    BY DEF Refused
  <1>2. ASSUME NEW p \in Packets, p \in req[q].packets
        PROVE  (outcome[p] \ {"waiting"}) \union {"host_unreachable"} = {"host_unreachable"}
    <2>1. outcome[p] = {"waiting"} \/ outcome[p] = {"host_unreachable"}
      BY <1>2
    <2> QED
      BY <2>1, EndReplaces
  <1>3. {"host_unreachable"} \in {{x} : x \in AnyOutcome}
    BY DEF AnyOutcome, Outcome
  <1> HIDE DEF o
  <1>4. \A p \in Packets : o[p] = IF p \in req[q].packets THEN {"host_unreachable"}
                                                          ELSE outcome[p]
    BY <1>1, <1>2
  <1>5. \A p \in Packets : o[p] \in {{x} : x \in AnyOutcome}
    BY <1>3, <1>4 DEF OneOutcome
  <1> QED
    BY <1>1, <1>4, <1>5 DEF o

LEMMA DecisionFacts ==
  ASSUME NEW q
  PROVE  /\ Decision(q) \in {"done", "unreachable", "resend"}
         /\ Decision(q) = "resend" => ~(req[q].times_sent >= MaxSent)
  BY DEF Decision
-----------------------------------------------------------------------------
(***************************************************************************)
(* Every step keeps the invariant.                                         *)
(***************************************************************************)

(* What is not queued meets its end at once.                               *)
LEMMA BecomeSafe ==
  ASSUME Safe, NEW p \in Packets, NEW what \in Outcome,
         outcome[p] = {"expected"}, Become(p, what),
         UNCHANGED <<entries, req, requests, pkt, swp, tick, replies, fate>>
  PROVE  Safe'
  <1>1. /\ Types /\ OneOutcome /\ Queued /\ WaitingIsKept
        /\ Positions /\ Counts /\ Held /\ KeptOnce /\ DealtWith /\ NotKnown
    BY DEF Safe
  <1>2. /\ pkt.pc \in {"send", "sent", "check", "resend", "count", "unreachable", "destroy"} =>
             pkt.q \in Request
        /\ swp.pc \in {"check", "resend", "unreachable", "destroy"} =>
             swp.q \in Request
        /\ \A q \in Request : req[q].packets \subseteq Packets /\ req[q] \in RequestRec
        /\ \A i \in 1..Len(swp.rest) : swp.rest[i] \in Request
        /\ MaxSent \in Nat
    BY <1>1, RouterAssumption DEF Positions, Handling, Replying, Types, RequestRec, SweepRec
  <1>3. /\ \A r \in Packets \ {p} : outcome'[r] = outcome[r]
        /\ outcome'[p] = {what} /\ what # "waiting"
        /\ outcome' \in [Packets -> {{o} : o \in AnyOutcome}]
    <2>1. {what} \in {{o} : o \in AnyOutcome}
      BY DEF AnyOutcome
    <2> QED
      BY <1>1, <2>1 DEF Become, OneOutcome, Outcome
  <1>4. \A q \in Request : p \notin req[q].packets
    BY <1>1 DEF Held
  <1>5. /\ entries' = entries /\ req' = req /\ requests' = requests /\ pkt' = pkt
        /\ swp' = swp /\ tick' = tick /\ replies' = replies /\ fate' = fate
    OBVIOUS
  <1>6. Types'
    BY <1>1, <1>2, <1>3, <1>4, <1>5 DEF Types
  <1>7. OneOutcome'
    BY <1>1, <1>2, <1>3, <1>4, <1>5 DEF OneOutcome
  <1>8. Queued'
    BY <1>1, <1>2, <1>3, <1>4, <1>5 DEF Queued
  <1>9. WaitingIsKept'
    BY <1>1, <1>2, <1>3, <1>4, <1>5 DEF WaitingIsKept
  <1>10. Positions'
    BY <1>1, <1>2, <1>3, <1>4, <1>5 DEF Positions, Handling, Replying
  <1>11. Counts'
    BY <1>1, <1>2, <1>3, <1>4, <1>5 DEF Counts, Freed
  <1>12. Held'
    BY <1>1, <1>2, <1>3, <1>4, <1>5 DEF Held
  <1>13. KeptOnce'
    BY <1>1, <1>2, <1>3, <1>4, <1>5 DEF KeptOnce
  <1>14. DealtWith'
    BY <1>1, <1>2, <1>3, <1>4, <1>5 DEF DealtWith
  <1>15. NotKnown'
    BY <1>1, <1>2, <1>3, <1>4, <1>5 DEF NotKnown
  <1> QED
    BY <1>6, <1>7, <1>8, <1>9, <1>10, <1>11, <1>12, <1>13, <1>14, <1>15 DEF Safe

(* The packets of a request that was answered are sent.                    *)
LEMMA SendWaitingSafe ==
  ASSUME Safe, SendWaiting
  PROVE  Safe'
  <1>1. /\ Types /\ OneOutcome /\ Queued /\ WaitingIsKept
        /\ Positions /\ Counts /\ Held /\ KeptOnce /\ DealtWith /\ NotKnown
    BY DEF Safe
  <1>2. /\ pkt.pc \in {"send", "sent", "check", "resend", "count", "unreachable", "destroy"} =>
             pkt.q \in Request
        /\ swp.pc \in {"check", "resend", "unreachable", "destroy"} =>
             swp.q \in Request
        /\ \A q \in Request : req[q].packets \subseteq Packets /\ req[q] \in RequestRec
        /\ \A i \in 1..Len(swp.rest) : swp.rest[i] \in Request
        /\ MaxSent \in Nat
    BY <1>1, RouterAssumption DEF Positions, Handling, Replying, Types, RequestRec, SweepRec
  <1>3. pkt.pc = "send" /\ pkt.q \in Request /\ req[pkt.q].state = "unlinked"
    BY <1>1 DEF SendWaiting, Positions, Replying
  <1>4. \A p \in req[pkt.q].packets : outcome[p] = {"waiting"}
    BY <1>1, <1>2, <1>3 DEF Held, Positions, Handling
  <1>5. /\ outcome' \in [Packets -> {{o} : o \in AnyOutcome}]
        /\ \A p \in Packets : outcome'[p] = IF p \in req[pkt.q].packets THEN {"forwarded"}
                                                                        ELSE outcome[p]
    <2>1. outcome' = [p \in Packets |-> IF p \in req[pkt.q].packets
                                          THEN (outcome[p] \ {"waiting"}) \union {"forwarded"}
                                          ELSE outcome[p]]
      BY DEF SendWaiting
    <2>2. ASSUME NEW p \in Packets, p \in req[pkt.q].packets
          PROVE  (outcome[p] \ {"waiting"}) \union {"forwarded"} = {"forwarded"}
      BY <1>4, <2>2, EndReplaces
    <2>3. {"forwarded"} \in {{x} : x \in AnyOutcome}
      BY DEF AnyOutcome, Outcome
    <2>4. \A p \in Packets : outcome'[p] = IF p \in req[pkt.q].packets THEN {"forwarded"}
                                                                       ELSE outcome[p]
      BY <2>1, <2>2
    <2>5. \A p \in Packets : outcome'[p] \in {{x} : x \in AnyOutcome}
      BY <1>1, <2>3, <2>4 DEF OneOutcome
    <2> QED
      BY <2>1, <2>4, <2>5
  <1>6. pkt' \in PacketRec /\ pkt'.pc = "sent" /\ pkt'.q = pkt.q
    BY <1>1, <1>2 DEF SendWaiting, Types, PacketRec, Replying
  <1>7. /\ entries' = entries /\ req' = req /\ requests' = requests /\ swp' = swp
        /\ tick' = tick /\ replies' = replies /\ fate' = fate
    BY DEF SendWaiting
  <1>8. Types'
    BY <1>1, <1>2, <1>3, <1>4, <1>5, <1>6, <1>7 DEF Types
  <1>9. OneOutcome'
    BY <1>1, <1>2, <1>3, <1>4, <1>5, <1>6, <1>7 DEF OneOutcome
  <1>10. Queued'
    BY <1>1, <1>2, <1>3, <1>4, <1>5, <1>6, <1>7 DEF Queued
  <1>11. WaitingIsKept'
    BY <1>1, <1>2, <1>3, <1>4, <1>5, <1>6, <1>7 DEF WaitingIsKept
  <1>12. Positions'
    BY <1>1, <1>2, <1>3, <1>4, <1>5, <1>6, <1>7 DEF Positions, Handling, Replying
  <1>13. Counts'
    BY <1>1, <1>2, <1>3, <1>4, <1>5, <1>6, <1>7 DEF Counts, Freed
  <1>14. Held'
    BY <1>1, <1>2, <1>3, <1>4, <1>5, <1>6, <1>7 DEF Held, KeptOnce
  <1>15. KeptOnce'
    BY <1>1, <1>2, <1>3, <1>4, <1>5, <1>6, <1>7 DEF KeptOnce
  <1>16. DealtWith'
    BY <1>1, <1>2, <1>3, <1>4, <1>5, <1>6, <1>7 DEF DealtWith
  <1>17. NotKnown'
    BY <1>1, <1>2, <1>3, <1>4, <1>5, <1>6, <1>7 DEF NotKnown
  <1> QED
    BY <1>8, <1>9, <1>10, <1>11, <1>12, <1>13, <1>14, <1>15, <1>16, <1>17 DEF Safe

(* The request that was answered is destroyed.                             *)
LEMMA SentSafe ==
  ASSUME Safe, Sent
  PROVE  Safe'
  <1>1. /\ Types /\ OneOutcome /\ Queued /\ WaitingIsKept
        /\ Positions /\ Counts /\ Held /\ KeptOnce /\ DealtWith /\ NotKnown
    BY DEF Safe
  <1>2. /\ pkt.pc \in {"send", "sent", "check", "resend", "count", "unreachable", "destroy"} =>
             pkt.q \in Request
        /\ swp.pc \in {"check", "resend", "unreachable", "destroy"} =>
             swp.q \in Request
        /\ \A q \in Request : req[q].packets \subseteq Packets /\ req[q] \in RequestRec
        /\ \A i \in 1..Len(swp.rest) : swp.rest[i] \in Request
        /\ MaxSent \in Nat
    BY <1>1, RouterAssumption DEF Positions, Handling, Replying, Types, RequestRec, SweepRec
  <1>3. pkt.pc = "sent" /\ pkt.q \in Request /\ req[pkt.q].state = "unlinked" /\ swp.pc = "idle"
    BY <1>1 DEF Sent, Positions, Replying, Locked
  <1>4. /\ req' \in [Request -> RequestRec]
        /\ \A x \in Request \ {pkt.q} : req'[x] = req[x]
        /\ req'[pkt.q].state = "freed" /\ req'[pkt.q].packets = {} /\ req'[pkt.q].times_sent = 0
    <2>1. req \in [Request -> RequestRec]
      BY <1>1 DEF Types
    <2>2. req' = Destroyed(pkt.q)
      BY <1>3 DEF Sent, Freed
    <2> QED
      BY <2>1, <2>2, <1>3, DestroyedFacts
  <1>5. /\ requests' \in Seq(Request) /\ Distinct(requests')
        /\ \A x : Member(requests', x) <=> x # pkt.q /\ Member(requests, x)
    <2>1. Distinct(requests)
      BY <1>1 DEF Queued
    <2>2. requests \in Seq(Request)
      BY <1>1 DEF Types
    <2>3. requests' = Without(requests, pkt.q)
      BY <1>3 DEF Sent, Freed
    <2> QED
      BY <2>1, <2>2, <2>3, WithoutKeeps
  <1>6. pkt' \in PacketRec /\ pkt'.pc = "idle"
    BY RouterAssumption DEF Sent, Asleep, PacketRec
  <1>7. /\ entries' = entries /\ outcome' = outcome /\ swp' = swp /\ tick' = tick
        /\ replies' = replies /\ fate' = fate
    BY DEF Sent
  <1>8. Types'
    BY <1>1, <1>2, <1>3, <1>4, <1>5, <1>6, <1>7 DEF Types
  <1>9. OneOutcome'
    BY <1>1, <1>2, <1>3, <1>4, <1>5, <1>6, <1>7 DEF OneOutcome
  <1>10. Queued'
    BY <1>1, <1>2, <1>3, <1>4, <1>5, <1>6, <1>7 DEF Queued
  <1>11. WaitingIsKept'
    BY <1>1, <1>2, <1>3, <1>4, <1>5, <1>6, <1>7 DEF WaitingIsKept, DealtWith
  <1>12. Positions'
    BY <1>1, <1>2, <1>3, <1>4, <1>5, <1>6, <1>7 DEF Positions, Handling, Replying
  <1>13. Counts'
    BY <1>1, <1>2, <1>3, <1>4, <1>5, <1>6, <1>7 DEF Counts, Freed
  <1>14. Held'
    BY <1>1, <1>2, <1>3, <1>4, <1>5, <1>6, <1>7 DEF Held
  <1>15. KeptOnce'
    BY <1>1, <1>2, <1>3, <1>4, <1>5, <1>6, <1>7 DEF KeptOnce
  <1>16. DealtWith'
    BY <1>1, <1>2, <1>3, <1>4, <1>5, <1>6, <1>7 DEF DealtWith
  <1>17. NotKnown'
    BY <1>1, <1>2, <1>3, <1>4, <1>5, <1>6, <1>7 DEF NotKnown
  <1> QED
    BY <1>8, <1>9, <1>10, <1>11, <1>12, <1>13, <1>14, <1>15, <1>16, <1>17 DEF Safe

LEMMA UndefinedSafe ==
  ASSUME Safe, Undefined
  PROVE  Safe'
  <1>1. /\ Types /\ OneOutcome /\ Queued /\ WaitingIsKept
        /\ Positions /\ Counts /\ Held /\ KeptOnce /\ DealtWith /\ NotKnown
    BY DEF Safe
  <1>2. /\ pkt.pc \in {"send", "sent", "check", "resend", "count", "unreachable", "destroy"} =>
             pkt.q \in Request
        /\ swp.pc \in {"check", "resend", "unreachable", "destroy"} =>
             swp.q \in Request
        /\ \A q \in Request : req[q].packets \subseteq Packets /\ req[q] \in RequestRec
        /\ \A i \in 1..Len(swp.rest) : swp.rest[i] \in Request
        /\ MaxSent \in Nat
    BY <1>1, RouterAssumption DEF Positions, Handling, Replying, Types, RequestRec, SweepRec
  <1>3. fate' = "undefined"
    BY DEF Undefined
  <1>4. /\ entries' = entries /\ req' = req /\ requests' = requests /\ outcome' = outcome
        /\ pkt' = pkt /\ swp' = swp /\ tick' = tick /\ replies' = replies
    BY DEF Undefined
  <1>5. Types'
    BY <1>1, <1>2, <1>3, <1>4 DEF Types
  <1>6. OneOutcome'
    BY <1>1, <1>2, <1>3, <1>4 DEF OneOutcome
  <1>7. Queued'
    BY <1>1, <1>2, <1>3, <1>4 DEF Queued
  <1>8. WaitingIsKept'
    BY <1>1, <1>2, <1>3, <1>4 DEF WaitingIsKept
  <1>9. Positions'
    BY <1>1, <1>2, <1>3, <1>4 DEF Positions, Handling, Replying
  <1>10. Counts'
    BY <1>1, <1>2, <1>3, <1>4 DEF Counts, Freed
  <1>11. Held'
    BY <1>1, <1>2, <1>3, <1>4 DEF Held
  <1>12. KeptOnce'
    BY <1>1, <1>2, <1>3, <1>4 DEF KeptOnce
  <1>13. DealtWith'
    BY <1>1, <1>2, <1>3, <1>4 DEF DealtWith
  <1>14. NotKnown'
    BY <1>1, <1>2, <1>3, <1>4 DEF NotKnown
  <1> QED
    BY <1>5, <1>6, <1>7, <1>8, <1>9, <1>10, <1>11, <1>12, <1>13, <1>14 DEF Safe

(* handle_cached_request in the packet thread, of a request that is there.  *)
LEMMA PacketCheckSafe ==
  ASSUME Safe, PacketCheck, ~Freed(pkt.q)
  PROVE  Safe'
  <1>1. /\ Types /\ OneOutcome /\ Queued /\ WaitingIsKept
        /\ Positions /\ Counts /\ Held /\ KeptOnce /\ DealtWith /\ NotKnown
    BY DEF Safe
  <1>2. /\ pkt.pc \in {"send", "sent", "check", "resend", "count", "unreachable", "destroy"} =>
             pkt.q \in Request
        /\ swp.pc \in {"check", "resend", "unreachable", "destroy"} =>
             swp.q \in Request
        /\ \A q \in Request : req[q].packets \subseteq Packets /\ req[q] \in RequestRec
        /\ \A i \in 1..Len(swp.rest) : swp.rest[i] \in Request
        /\ MaxSent \in Nat
    BY <1>1, RouterAssumption DEF Positions, Handling, Replying, Types, RequestRec, SweepRec
  <1>3. pkt.pc = "check" /\ pkt.q \in Request /\ req[pkt.q].state = "queued"
    BY <1>1 DEF PacketCheck, Positions, Handling, Freed
  <1>4. /\ pkt' \in PacketRec /\ pkt'.pc \in {"idle", "unreachable", "resend"}
        /\ pkt'.pc = "idle" \/ pkt'.q = pkt.q
        /\ pkt'.pc = "resend" => req[pkt.q].times_sent < MaxSent
    <2>1. pkt \in PacketRec /\ Asleep \in PacketRec /\ Asleep.pc = "idle"
      BY <1>1, RouterAssumption DEF Types, Asleep, PacketRec
    <2>2. pkt' = IF Decision(pkt.q) = "done" THEN Asleep ELSE [pkt EXCEPT !.pc = Decision(pkt.q)]
      BY <1>3 DEF PacketCheck, Freed
    <2>3. req[pkt.q].times_sent \in Nat
      BY <1>2, <1>3 DEF RequestRec
    <2>4. CASE Decision(pkt.q) = "done"
      BY <2>1, <2>2, <2>4
    <2>5. CASE Decision(pkt.q) \in {"unreachable", "resend"}
      <3>1. [pkt EXCEPT !.pc = Decision(pkt.q)] \in PacketRec
        BY <2>1, <2>5 DEF PacketRec, Handling
      <3>2. /\ [pkt EXCEPT !.pc = Decision(pkt.q)].pc = Decision(pkt.q)
            /\ [pkt EXCEPT !.pc = Decision(pkt.q)].q = pkt.q
        BY <2>1 DEF PacketRec
      <3> QED
        BY <2>2, <2>3, <2>5, <3>1, <3>2, DecisionFacts, RouterAssumption
    <2> QED
      BY <2>4, <2>5, DecisionFacts
  <1>5. /\ entries' = entries /\ req' = req /\ requests' = requests /\ outcome' = outcome
        /\ swp' = swp /\ tick' = tick /\ replies' = replies /\ fate' = fate
    BY <1>3 DEF PacketCheck, Freed
  <1>6. req[pkt.q].times_sent \in Nat /\ MaxSent \in Nat
    BY <1>2, <1>3, RouterAssumption DEF RequestRec
  <1>7. Types'
    BY <1>1, <1>2, <1>3, <1>4, <1>5, <1>6 DEF Types
  <1>8. OneOutcome'
    BY <1>1, <1>2, <1>3, <1>4, <1>5, <1>6 DEF OneOutcome
  <1>9. Queued'
    BY <1>1, <1>2, <1>3, <1>4, <1>5, <1>6 DEF Queued
  <1>10. WaitingIsKept'
    BY <1>1, <1>2, <1>3, <1>4, <1>5, <1>6 DEF WaitingIsKept
  <1>11. Positions'
    BY <1>1, <1>2, <1>3, <1>4, <1>5, <1>6 DEF Positions, Handling, Replying
  <1>12. Counts'
    BY <1>1, <1>2, <1>3, <1>4, <1>5, <1>6 DEF Counts, Freed
  <1>13. Held'
    BY <1>1, <1>2, <1>3, <1>4, <1>5, <1>6 DEF Held
  <1>14. KeptOnce'
    BY <1>1, <1>2, <1>3, <1>4, <1>5, <1>6 DEF KeptOnce
  <1>15. DealtWith'
    BY <1>1, <1>2, <1>3, <1>4, <1>5, <1>6 DEF DealtWith
  <1>16. NotKnown'
    BY <1>1, <1>2, <1>3, <1>4, <1>5, <1>6 DEF NotKnown
  <1> QED
    BY <1>7, <1>8, <1>9, <1>10, <1>11, <1>12, <1>13, <1>14, <1>15, <1>16 DEF Safe

LEMMA PacketReadSafe ==
  ASSUME Safe, PacketRead, ~Freed(pkt.q)
  PROVE  Safe'
  <1>1. /\ Types /\ OneOutcome /\ Queued /\ WaitingIsKept
        /\ Positions /\ Counts /\ Held /\ KeptOnce /\ DealtWith /\ NotKnown
    BY DEF Safe
  <1>2. /\ pkt.pc \in {"send", "sent", "check", "resend", "count", "unreachable", "destroy"} =>
             pkt.q \in Request
        /\ swp.pc \in {"check", "resend", "unreachable", "destroy"} =>
             swp.q \in Request
        /\ \A q \in Request : req[q].packets \subseteq Packets /\ req[q] \in RequestRec
        /\ \A i \in 1..Len(swp.rest) : swp.rest[i] \in Request
        /\ MaxSent \in Nat
    BY <1>1, RouterAssumption DEF Positions, Handling, Replying, Types, RequestRec, SweepRec
  <1>3. pkt.pc = "resend" /\ pkt.q \in Request /\ req[pkt.q].state = "queued"
    BY <1>1 DEF PacketRead, Positions, Handling, Freed
  <1>4. pkt' \in PacketRec /\ pkt'.pc = "count" /\ pkt'.q = pkt.q /\ pkt'.n = req[pkt.q].times_sent
    <2>1. pkt \in PacketRec /\ req[pkt.q].times_sent \in 0..MaxSent
      BY <1>1, <1>2, <1>3, RouterAssumption DEF Types, Counts, RequestRec
    <2>2. pkt' = [pkt EXCEPT !.pc = "count", !.n = req[pkt.q].times_sent]
      BY <1>3 DEF PacketRead, Freed
    <2> QED
      BY <2>1, <2>2 DEF PacketRec, Handling
  <1>5. /\ entries' = entries /\ req' = req /\ requests' = requests /\ outcome' = outcome
        /\ swp' = swp /\ tick' = tick /\ replies' = replies /\ fate' = fate
    BY <1>3 DEF PacketRead, Freed
  <1>6. Types'
    BY <1>1, <1>2, <1>3, <1>4, <1>5 DEF Types
  <1>7. OneOutcome'
    BY <1>1, <1>2, <1>3, <1>4, <1>5 DEF OneOutcome
  <1>8. Queued'
    BY <1>1, <1>2, <1>3, <1>4, <1>5 DEF Queued
  <1>9. WaitingIsKept'
    BY <1>1, <1>2, <1>3, <1>4, <1>5 DEF WaitingIsKept
  <1>10. Positions'
    BY <1>1, <1>2, <1>3, <1>4, <1>5 DEF Positions, Handling, Replying
  <1>11. Counts'
    <2>1. req[pkt.q].times_sent <= req[pkt.q].times_sent
      BY <1>2, <1>3 DEF RequestRec
    <2> QED
      BY <1>1, <1>2, <1>3, <1>4, <1>5, <2>1 DEF Counts, Freed
  <1>12. Held'
    BY <1>1, <1>2, <1>3, <1>4, <1>5 DEF Held
  <1>13. KeptOnce'
    BY <1>1, <1>2, <1>3, <1>4, <1>5 DEF KeptOnce
  <1>14. DealtWith'
    BY <1>1, <1>2, <1>3, <1>4, <1>5 DEF DealtWith
  <1>15. NotKnown'
    BY <1>1, <1>2, <1>3, <1>4, <1>5 DEF NotKnown
  <1> QED
    BY <1>6, <1>7, <1>8, <1>9, <1>10, <1>11, <1>12, <1>13, <1>14, <1>15 DEF Safe

LEMMA PacketResendSafe ==
  ASSUME Safe, PacketResend, ~Freed(pkt.q)
  PROVE  Safe'
  <1>1. /\ Types /\ OneOutcome /\ Queued /\ WaitingIsKept
        /\ Positions /\ Counts /\ Held /\ KeptOnce /\ DealtWith /\ NotKnown
    BY DEF Safe
  <1>2. /\ pkt.pc \in {"send", "sent", "check", "resend", "count", "unreachable", "destroy"} =>
             pkt.q \in Request
        /\ swp.pc \in {"check", "resend", "unreachable", "destroy"} =>
             swp.q \in Request
        /\ \A q \in Request : req[q].packets \subseteq Packets /\ req[q] \in RequestRec
        /\ \A i \in 1..Len(swp.rest) : swp.rest[i] \in Request
        /\ MaxSent \in Nat
    BY <1>1, RouterAssumption DEF Positions, Handling, Replying, Types, RequestRec, SweepRec
  <1>3. pkt.pc = "count" /\ pkt.q \in Request /\ req[pkt.q].state = "queued"
    BY <1>1 DEF PacketResend, Positions, Handling, Freed
  <1>4. /\ req' \in [Request -> RequestRec]
        /\ \A x \in Request : /\ req'[x].state = req[x].state /\ req'[x].ip = req[x].ip
                              /\ req'[x].packets = req[x].packets
                              /\ x # pkt.q => req'[x] = req[x]
        /\ req'[pkt.q].times_sent = MaxSent \/ req'[pkt.q].times_sent = pkt.n + 1
        /\ pkt.n \in 0..MaxSent
    <2>1. req \in [Request -> RequestRec]
      BY <1>1 DEF Types
    <2>2. pkt.n \in 0..MaxSent
      BY <1>1 DEF Types, PacketRec
    <2>3. req' = Resent(pkt.q, pkt.n)
      BY <1>3 DEF PacketResend, Freed
    <2> QED
      BY <1>3, <2>1, <2>2, <2>3, ResentFacts
  <1>5. pkt' \in PacketRec /\ pkt'.pc = "idle"
    BY <1>3, RouterAssumption DEF PacketResend, Freed, Asleep, PacketRec
  <1>6. swp.pc = "resend" => req'[swp.q].times_sent <= MaxSent
    <2>1. CASE swp.pc = "resend" /\ swp.q = pkt.q
      <3>1. pkt.n <= req[pkt.q].times_sent /\ req[pkt.q].times_sent < MaxSent
        BY <1>1, <1>3, <2>1 DEF Counts, Freed
      <3>2. req[pkt.q].times_sent \in Nat
        BY <1>2, <1>3 DEF RequestRec
      <3> QED
        BY <1>4, <2>1, <3>1, <3>2, RouterAssumption
    <2>2. CASE swp.pc = "resend" /\ swp.q # pkt.q
      BY <1>1, <1>2, <1>4, <2>2 DEF Counts
    <2> QED
      BY <2>1, <2>2
  <1>7. /\ entries' = entries /\ requests' = requests /\ outcome' = outcome /\ swp' = swp
        /\ tick' = tick /\ replies' = replies /\ fate' = fate
    BY <1>3 DEF PacketResend, Freed
  <1>8. Types'
    BY <1>1, <1>2, <1>3, <1>4, <1>5, <1>6, <1>7 DEF Types
  <1>9. OneOutcome'
    BY <1>1, <1>2, <1>3, <1>4, <1>5, <1>6, <1>7 DEF OneOutcome
  <1>10. Queued'
    BY <1>1, <1>2, <1>3, <1>4, <1>5, <1>6, <1>7 DEF Queued
  <1>11. WaitingIsKept'
    BY <1>1, <1>2, <1>3, <1>4, <1>5, <1>6, <1>7 DEF WaitingIsKept
  <1>12. Positions'
    BY <1>1, <1>2, <1>3, <1>4, <1>5, <1>6, <1>7 DEF Positions, Handling, Replying
  <1>13. Counts'
    BY <1>1, <1>2, <1>3, <1>4, <1>5, <1>6, <1>7 DEF Counts, Freed
  <1>14. Held'
    BY <1>1, <1>2, <1>3, <1>4, <1>5, <1>6, <1>7 DEF Held
  <1>15. KeptOnce'
    BY <1>1, <1>2, <1>3, <1>4, <1>5, <1>6, <1>7 DEF KeptOnce
  <1>16. DealtWith'
    BY <1>1, <1>2, <1>3, <1>4, <1>5, <1>6, <1>7 DEF DealtWith
  <1>17. NotKnown'
    BY <1>1, <1>2, <1>3, <1>4, <1>5, <1>6, <1>7 DEF NotKnown
  <1> QED
    BY <1>8, <1>9, <1>10, <1>11, <1>12, <1>13, <1>14, <1>15, <1>16, <1>17 DEF Safe

LEMMA PacketRefuseSafe ==
  ASSUME Safe, PacketRefuse, ~Freed(pkt.q), req[pkt.q].packets \subseteq Answerable
  PROVE  Safe'
  <1>1. /\ Types /\ OneOutcome /\ Queued /\ WaitingIsKept
        /\ Positions /\ Counts /\ Held /\ KeptOnce /\ DealtWith /\ NotKnown
    BY DEF Safe
  <1>2. /\ pkt.pc \in {"send", "sent", "check", "resend", "count", "unreachable", "destroy"} =>
             pkt.q \in Request
        /\ swp.pc \in {"check", "resend", "unreachable", "destroy"} =>
             swp.q \in Request
        /\ \A q \in Request : req[q].packets \subseteq Packets /\ req[q] \in RequestRec
        /\ \A i \in 1..Len(swp.rest) : swp.rest[i] \in Request
        /\ MaxSent \in Nat
    BY <1>1, RouterAssumption DEF Positions, Handling, Replying, Types, RequestRec, SweepRec
  <1>3. pkt.pc = "unreachable" /\ pkt.q \in Request /\ req[pkt.q].state = "queued"
    BY <1>1 DEF PacketRefuse, Positions, Handling, Freed
  <1>4. /\ outcome' \in [Packets -> {{x} : x \in AnyOutcome}]
        /\ \A p \in Packets : outcome'[p] = IF p \in req[pkt.q].packets THEN {"host_unreachable"}
                                                                      ELSE outcome[p]
    <2>1. \A p \in req[pkt.q].packets : outcome[p] \in {{"waiting"}, {"host_unreachable"}}
      BY <1>1, <1>2, <1>3 DEF Held, Positions, Replying
    <2>2. outcome' = Refused(pkt.q)
      BY <1>3 DEF PacketRefuse, Freed
    <2> QED
      BY <1>1, <1>3, <2>1, <2>2, RefusedFacts
  <1>5. pkt' \in PacketRec /\ pkt'.pc = "destroy" /\ pkt'.q = pkt.q
    BY <1>1, <1>3 DEF PacketRefuse, Freed, Types, PacketRec, Handling
  <1>6. /\ entries' = entries /\ req' = req /\ requests' = requests /\ swp' = swp
        /\ tick' = tick /\ replies' = replies /\ fate' = fate
    BY <1>3 DEF PacketRefuse, Freed
  <1>7. Types'
    BY <1>1, <1>2, <1>3, <1>4, <1>5, <1>6 DEF Types
  <1>8. OneOutcome'
    BY <1>1, <1>2, <1>3, <1>4, <1>5, <1>6 DEF OneOutcome
  <1>9. Queued'
    BY <1>1, <1>2, <1>3, <1>4, <1>5, <1>6 DEF Queued
  <1>10. WaitingIsKept'
    BY <1>1, <1>2, <1>3, <1>4, <1>5, <1>6 DEF WaitingIsKept
  <1>11. Positions'
    BY <1>1, <1>2, <1>3, <1>4, <1>5, <1>6 DEF Positions, Handling, Replying
  <1>12. Counts'
    BY <1>1, <1>2, <1>3, <1>4, <1>5, <1>6 DEF Counts, Freed
  <1>13. Held'
    BY <1>1, <1>2, <1>3, <1>4, <1>5, <1>6 DEF Held, KeptOnce
  <1>14. KeptOnce'
    BY <1>1, <1>2, <1>3, <1>4, <1>5, <1>6 DEF KeptOnce
  <1>15. DealtWith'
    BY <1>1, <1>2, <1>3, <1>4, <1>5, <1>6 DEF DealtWith
  <1>16. NotKnown'
    BY <1>1, <1>2, <1>3, <1>4, <1>5, <1>6 DEF NotKnown
  <1> QED
    BY <1>7, <1>8, <1>9, <1>10, <1>11, <1>12, <1>13, <1>14, <1>15, <1>16 DEF Safe

LEMMA PacketDestroySafe ==
  ASSUME Safe, PacketDestroy, ~Freed(pkt.q)
  PROVE  Safe'
  <1>1. /\ Types /\ OneOutcome /\ Queued /\ WaitingIsKept
        /\ Positions /\ Counts /\ Held /\ KeptOnce /\ DealtWith /\ NotKnown
    BY DEF Safe
  <1>2. /\ pkt.pc \in {"send", "sent", "check", "resend", "count", "unreachable", "destroy"} =>
             pkt.q \in Request
        /\ swp.pc \in {"check", "resend", "unreachable", "destroy"} =>
             swp.q \in Request
        /\ \A q \in Request : req[q].packets \subseteq Packets /\ req[q] \in RequestRec
        /\ \A i \in 1..Len(swp.rest) : swp.rest[i] \in Request
        /\ MaxSent \in Nat
    BY <1>1, RouterAssumption DEF Positions, Handling, Replying, Types, RequestRec, SweepRec
  <1>3. /\ pkt.pc = "destroy" /\ pkt.q \in Request /\ req[pkt.q].state = "queued"
        /\ swp.pc = "idle" /\ swp.rest = <<>>
    BY <1>1 DEF PacketDestroy, Positions, Handling, Freed, Locked
  <1>4. /\ req' \in [Request -> RequestRec]
        /\ \A x \in Request \ {pkt.q} : req'[x] = req[x]
        /\ req'[pkt.q].state = "freed" /\ req'[pkt.q].packets = {} /\ req'[pkt.q].times_sent = 0
    <2>1. req \in [Request -> RequestRec]
      BY <1>1 DEF Types
    <2>2. req' = Destroyed(pkt.q)
      BY <1>3 DEF PacketDestroy, Freed
    <2> QED
      BY <2>1, <2>2, <1>3, DestroyedFacts
  <1>5. /\ requests' \in Seq(Request) /\ Distinct(requests')
        /\ \A x : Member(requests', x) <=> x # pkt.q /\ Member(requests, x)
    <2>1. Distinct(requests)
      BY <1>1 DEF Queued
    <2>2. requests \in Seq(Request)
      BY <1>1 DEF Types
    <2>3. requests' = Without(requests, pkt.q)
      BY <1>3 DEF PacketDestroy, Freed
    <2> QED
      BY <2>1, <2>2, <2>3, WithoutKeeps
  <1>6. pkt' \in PacketRec /\ pkt'.pc = "idle"
    BY <1>3, RouterAssumption DEF PacketDestroy, Freed, Asleep, PacketRec
  <1>7. /\ entries' = entries /\ outcome' = outcome /\ swp' = swp /\ tick' = tick
        /\ replies' = replies /\ fate' = fate
    BY <1>3 DEF PacketDestroy, Freed
  <1>8. Types'
    BY <1>1, <1>2, <1>3, <1>4, <1>5, <1>6, <1>7 DEF Types
  <1>9. OneOutcome'
    BY <1>1, <1>2, <1>3, <1>4, <1>5, <1>6, <1>7 DEF OneOutcome
  <1>10. Queued'
    BY <1>1, <1>2, <1>3, <1>4, <1>5, <1>6, <1>7 DEF Queued
  <1>11. WaitingIsKept'
    BY <1>1, <1>2, <1>3, <1>4, <1>5, <1>6, <1>7 DEF WaitingIsKept, DealtWith
  <1>12. Positions'
    BY <1>1, <1>2, <1>3, <1>4, <1>5, <1>6, <1>7 DEF Positions, Handling, Replying
  <1>13. Counts'
    BY <1>1, <1>2, <1>3, <1>4, <1>5, <1>6, <1>7 DEF Counts, Freed
  <1>14. Held'
    BY <1>1, <1>2, <1>3, <1>4, <1>5, <1>6, <1>7 DEF Held
  <1>15. KeptOnce'
    BY <1>1, <1>2, <1>3, <1>4, <1>5, <1>6, <1>7 DEF KeptOnce
  <1>16. DealtWith'
    BY <1>1, <1>2, <1>3, <1>4, <1>5, <1>6, <1>7 DEF DealtWith
  <1>17. NotKnown'
    BY <1>1, <1>2, <1>3, <1>4, <1>5, <1>6, <1>7 DEF NotKnown
  <1> QED
    BY <1>8, <1>9, <1>10, <1>11, <1>12, <1>13, <1>14, <1>15, <1>16, <1>17 DEF Safe

(* The sweep goes from one request to the next.                            *)
LEMMA SweepNextSafe ==
  ASSUME Safe, SweepNext
  PROVE  Safe'
  <1>1. /\ Types /\ OneOutcome /\ Queued /\ WaitingIsKept
        /\ Positions /\ Counts /\ Held /\ KeptOnce /\ DealtWith /\ NotKnown
    BY DEF Safe
  <1>2. /\ pkt.pc \in {"send", "sent", "check", "resend", "count", "unreachable", "destroy"} =>
             pkt.q \in Request
        /\ swp.pc \in {"check", "resend", "unreachable", "destroy"} =>
             swp.q \in Request
        /\ \A q \in Request : req[q].packets \subseteq Packets /\ req[q] \in RequestRec
        /\ \A i \in 1..Len(swp.rest) : swp.rest[i] \in Request
        /\ MaxSent \in Nat
    BY <1>1, RouterAssumption DEF Positions, Handling, Replying, Types, RequestRec, SweepRec
  <1>3. /\ swp.pc = "next" /\ swp.rest \in Seq(Request) /\ swp' \in SweepRec
        /\ swp.rest = <<>> => swp'.pc = "idle" /\ swp'.rest = <<>>
        /\ swp.rest # <<>> => /\ swp'.pc = "check" /\ swp'.q = swp.rest[1] /\ swp'.rest = Tail(swp.rest)
                              /\ swp'.q \in Request
    <2>1. swp.pc = "next" /\ swp.rest \in Seq(Request)
      BY <1>1 DEF SweepNext, Types, SweepRec
    <2>2. CASE swp.rest = <<>>
      BY <2>1, <2>2, RouterAssumption DEF SweepNext, Asleep, SweepRec
    <2>3. CASE swp.rest # <<>>
      <3>1. swp' = [Asleep EXCEPT !.pc = "check", !.q = Head(swp.rest), !.rest = Tail(swp.rest)]
        BY <2>3 DEF SweepNext
      <3>2. /\ Head(swp.rest) = swp.rest[1] /\ swp.rest[1] \in Request
            /\ Tail(swp.rest) \in Seq(Request)
        BY <2>1, <2>3
      <3>3. Head(swp.rest) \in 0..MaxRequests
        BY <3>2, RouterAssumption DEF Request
      <3> QED
        BY <2>1, <2>3, <3>1, <3>2, <3>3 DEF Asleep, SweepRec, Handling
    <2> QED
      BY <2>1, <2>2, <2>3
  <1>4. /\ entries' = entries /\ req' = req /\ requests' = requests /\ outcome' = outcome
        /\ pkt' = pkt /\ tick' = tick /\ replies' = replies /\ fate' = fate
    BY DEF SweepNext
  <1>5. Types'
    BY <1>1, <1>2, <1>3, <1>4 DEF Types
  <1>6. OneOutcome'
    BY <1>1, <1>2, <1>3, <1>4 DEF OneOutcome
  <1>7. Queued'
    BY <1>1, <1>2, <1>3, <1>4 DEF Queued
  <1>8. WaitingIsKept'
    BY <1>1, <1>2, <1>3, <1>4 DEF WaitingIsKept
  <1>9. Positions'
    <2>1. CASE swp.rest = <<>>
      BY <1>1, <1>2, <1>3, <1>4, <2>1 DEF Positions, Handling, Replying
    <2>2. CASE swp.rest # <<>>
      <3>1. /\ Len(swp.rest) \in Nat /\ Len(swp.rest) > 0 /\ Len(Tail(swp.rest)) = Len(swp.rest) - 1
            /\ \A i \in 1..Len(Tail(swp.rest)) : Tail(swp.rest)[i] = swp.rest[i + 1]
        BY <1>3, <2>2
      <3>2. \A i \in 1..Len(swp'.rest) : i + 1 \in 1..Len(swp.rest) /\ swp'.rest[i] = swp.rest[i + 1]
        <4>1. swp'.rest = Tail(swp.rest)
          BY <1>3, <2>2
        <4>2. \A i \in 1..(Len(swp.rest) - 1) : i + 1 \in 1..Len(swp.rest)
          BY <3>1
        <4> QED
          BY <3>1, <4>1, <4>2
      <3>3. 1 \in 1..Len(swp.rest) /\ \A i \in 1..Len(swp'.rest) : i + 1 # 1
        BY <1>3, <2>2, <3>1
      <3>4. req[swp'.q].state = "queued" /\ swp'.q = swp.rest[1]
        BY <1>1, <1>3, <2>2, <3>3 DEF Positions
      <3>5. \A i \in 1..Len(swp'.rest) : swp'.rest[i] # swp'.q /\ req[swp'.rest[i]].state = "queued"
        BY <1>1, <3>2, <3>3, <3>4 DEF Positions
      <3>6. \A i, j \in 1..Len(swp'.rest) : i # j => swp'.rest[i] # swp'.rest[j]
        <4>1. \A i, j \in 1..Len(swp'.rest) : i # j => i + 1 # j + 1
          OBVIOUS
        <4> QED
          BY <1>1, <3>2, <4>1 DEF Positions
      <3> QED
        BY <1>1, <1>3, <1>4, <2>2, <3>4, <3>5, <3>6 DEF Positions, Handling, Replying
    <2> QED
      BY <2>1, <2>2
  <1>10. Counts'
    BY <1>1, <1>2, <1>3, <1>4 DEF Counts, Freed
  <1>11. Held'
    BY <1>1, <1>2, <1>3, <1>4 DEF Held
  <1>12. KeptOnce'
    BY <1>1, <1>2, <1>3, <1>4 DEF KeptOnce
  <1>13. DealtWith'
    BY <1>1, <1>2, <1>3, <1>4 DEF DealtWith
  <1>14. NotKnown'
    BY <1>1, <1>2, <1>3, <1>4 DEF NotKnown
  <1> QED
    BY <1>5, <1>6, <1>7, <1>8, <1>9, <1>10, <1>11, <1>12, <1>13, <1>14 DEF Safe

LEMMA SweepCheckSafe ==
  ASSUME Safe, SweepCheck
  PROVE  Safe'
  <1>1. /\ Types /\ OneOutcome /\ Queued /\ WaitingIsKept
        /\ Positions /\ Counts /\ Held /\ KeptOnce /\ DealtWith /\ NotKnown
    BY DEF Safe
  <1>2. /\ pkt.pc \in {"send", "sent", "check", "resend", "count", "unreachable", "destroy"} =>
             pkt.q \in Request
        /\ swp.pc \in {"check", "resend", "unreachable", "destroy"} =>
             swp.q \in Request
        /\ \A q \in Request : req[q].packets \subseteq Packets /\ req[q] \in RequestRec
        /\ \A i \in 1..Len(swp.rest) : swp.rest[i] \in Request
        /\ MaxSent \in Nat
    BY <1>1, RouterAssumption DEF Positions, Handling, Replying, Types, RequestRec, SweepRec
  <1>3. swp.pc = "check" /\ swp.q \in Request /\ req[swp.q].state = "queued"
    BY <1>1 DEF SweepCheck, Positions, Handling
  <1>4. /\ swp' \in SweepRec /\ swp'.pc \in {"next", "unreachable", "resend"}
        /\ swp'.q = swp.q /\ swp'.rest = swp.rest
        /\ swp'.pc = "resend" => req[swp.q].times_sent < MaxSent
    <2> DEFINE pc == IF Decision(swp.q) = "done" THEN "next" ELSE Decision(swp.q)
    <2>1. swp \in SweepRec /\ swp' = [swp EXCEPT !.pc = pc]
      BY <1>1 DEF SweepCheck, Types
    <2>2. pc \in {"next", "unreachable", "resend"}
      BY DecisionFacts
    <2>3. pc = "resend" => req[swp.q].times_sent < MaxSent
      <3>1. req[swp.q].times_sent \in Nat
        BY <1>2, <1>3 DEF RequestRec
      <3> QED
        BY <3>1, DecisionFacts, RouterAssumption
    <2> HIDE DEF pc
    <2> QED
      BY <2>1, <2>2, <2>3 DEF SweepRec, Handling
  <1>5. /\ entries' = entries /\ req' = req /\ requests' = requests /\ outcome' = outcome
        /\ pkt' = pkt /\ tick' = tick /\ replies' = replies /\ fate' = fate
    BY DEF SweepCheck
  <1>6. req[swp.q].times_sent \in Nat /\ MaxSent \in Nat
    BY <1>2, <1>3, RouterAssumption DEF RequestRec
  <1>7. Types'
    BY <1>1, <1>2, <1>3, <1>4, <1>5, <1>6 DEF Types
  <1>8. OneOutcome'
    BY <1>1, <1>2, <1>3, <1>4, <1>5, <1>6 DEF OneOutcome
  <1>9. Queued'
    BY <1>1, <1>2, <1>3, <1>4, <1>5, <1>6 DEF Queued
  <1>10. WaitingIsKept'
    BY <1>1, <1>2, <1>3, <1>4, <1>5, <1>6 DEF WaitingIsKept
  <1>11. Positions'
    BY <1>1, <1>2, <1>3, <1>4, <1>5, <1>6 DEF Positions, Handling, Replying
  <1>12. Counts'
    BY <1>1, <1>2, <1>3, <1>4, <1>5, <1>6 DEF Counts, Freed
  <1>13. Held'
    BY <1>1, <1>2, <1>3, <1>4, <1>5, <1>6 DEF Held
  <1>14. KeptOnce'
    BY <1>1, <1>2, <1>3, <1>4, <1>5, <1>6 DEF KeptOnce
  <1>15. DealtWith'
    BY <1>1, <1>2, <1>3, <1>4, <1>5, <1>6 DEF DealtWith
  <1>16. NotKnown'
    BY <1>1, <1>2, <1>3, <1>4, <1>5, <1>6 DEF NotKnown
  <1> QED
    BY <1>7, <1>8, <1>9, <1>10, <1>11, <1>12, <1>13, <1>14, <1>15, <1>16 DEF Safe

LEMMA SweepResendSafe ==
  ASSUME Safe, SweepResend
  PROVE  Safe'
  <1>1. /\ Types /\ OneOutcome /\ Queued /\ WaitingIsKept
        /\ Positions /\ Counts /\ Held /\ KeptOnce /\ DealtWith /\ NotKnown
    BY DEF Safe
  <1>2. /\ pkt.pc \in {"send", "sent", "check", "resend", "count", "unreachable", "destroy"} =>
             pkt.q \in Request
        /\ swp.pc \in {"check", "resend", "unreachable", "destroy"} =>
             swp.q \in Request
        /\ \A q \in Request : req[q].packets \subseteq Packets /\ req[q] \in RequestRec
        /\ \A i \in 1..Len(swp.rest) : swp.rest[i] \in Request
        /\ MaxSent \in Nat
    BY <1>1, RouterAssumption DEF Positions, Handling, Replying, Types, RequestRec, SweepRec
  <1>3. swp.pc = "resend" /\ swp.q \in Request /\ req[swp.q].state = "queued"
    BY <1>1 DEF SweepResend, Positions, Handling
  <1>4. /\ req' \in [Request -> RequestRec]
        /\ \A x \in Request : /\ req'[x].state = req[x].state /\ req'[x].ip = req[x].ip
                              /\ req'[x].packets = req[x].packets
                              /\ x # swp.q => req'[x] = req[x]
        /\ req'[swp.q].times_sent = MaxSent \/ req'[swp.q].times_sent = req[swp.q].times_sent + 1
        /\ req[swp.q].times_sent \in 0..MaxSent
    <2>1. req \in [Request -> RequestRec]
      BY <1>1 DEF Types
    <2>2. req[swp.q].times_sent \in 0..MaxSent
      BY <1>1, <1>2, <1>3, RouterAssumption DEF Counts, RequestRec
    <2>3. req' = Resent(swp.q, req[swp.q].times_sent)
      BY <1>3 DEF SweepResend, Freed
    <2> QED
      BY <1>3, <2>1, <2>2, <2>3, ResentFacts
  <1>5. swp' \in SweepRec /\ swp'.pc = "next" /\ swp'.q = swp.q /\ swp'.rest = swp.rest
    BY <1>1, <1>3 DEF SweepResend, Types, SweepRec, Handling
  <1>6. /\ entries' = entries /\ requests' = requests /\ outcome' = outcome /\ pkt' = pkt
        /\ tick' = tick /\ replies' = replies /\ fate' = fate
    BY DEF SweepResend
  <1>7. pkt.pc \in {"resend", "count"} /\ pkt.q = swp.q => req[swp.q].times_sent < MaxSent
    BY <1>1, <1>3 DEF Counts
  <1>8. req[swp.q].times_sent \in Nat /\ MaxSent \in Nat /\ pkt.n \in 0..MaxSent
    BY <1>1, <1>2, <1>3, RouterAssumption DEF RequestRec, Types, PacketRec
  <1>9. Types'
    BY <1>1, <1>2, <1>3, <1>4, <1>5, <1>6, <1>7, <1>8 DEF Types
  <1>10. OneOutcome'
    BY <1>1, <1>2, <1>3, <1>4, <1>5, <1>6, <1>7, <1>8 DEF OneOutcome
  <1>11. Queued'
    BY <1>1, <1>2, <1>3, <1>4, <1>5, <1>6, <1>7, <1>8 DEF Queued
  <1>12. WaitingIsKept'
    BY <1>1, <1>2, <1>3, <1>4, <1>5, <1>6, <1>7, <1>8 DEF WaitingIsKept
  <1>13. Positions'
    BY <1>1, <1>2, <1>3, <1>4, <1>5, <1>6, <1>7, <1>8 DEF Positions, Handling, Replying
  <1>14. Counts'
    <2>1. CASE pkt.pc \in {"resend", "count"} /\ pkt.q = swp.q
      <3>1. req[swp.q].times_sent < MaxSent
        BY <1>7, <2>1
      <3>2. req'[swp.q].times_sent <= MaxSent
        BY <1>4, <1>8, <3>1
      <3>3. pkt.pc = "count" => pkt.n <= req'[swp.q].times_sent
        BY <1>1, <1>3, <1>4, <1>8, <2>1, <3>1 DEF Counts, Freed
      <3> QED
        BY <1>5, <1>6, <2>1, <3>2, <3>3 DEF Counts
    <2>2. CASE ~(pkt.pc \in {"resend", "count"} /\ pkt.q = swp.q)
      BY <1>1, <1>2, <1>4, <1>5, <1>6, <2>2 DEF Counts, Freed
    <2> QED
      BY <2>1, <2>2
  <1>15. Held'
    BY <1>1, <1>2, <1>3, <1>4, <1>5, <1>6, <1>7, <1>8 DEF Held
  <1>16. KeptOnce'
    BY <1>1, <1>2, <1>3, <1>4, <1>5, <1>6, <1>7, <1>8 DEF KeptOnce
  <1>17. DealtWith'
    BY <1>1, <1>2, <1>3, <1>4, <1>5, <1>6, <1>7, <1>8 DEF DealtWith
  <1>18. NotKnown'
    BY <1>1, <1>2, <1>3, <1>4, <1>5, <1>6, <1>7, <1>8 DEF NotKnown
  <1> QED
    BY <1>9, <1>10, <1>11, <1>12, <1>13, <1>14, <1>15, <1>16, <1>17, <1>18 DEF Safe

LEMMA SweepRefuseSafe ==
  ASSUME Safe, SweepRefuse, req[swp.q].packets \subseteq Answerable
  PROVE  Safe'
  <1>1. /\ Types /\ OneOutcome /\ Queued /\ WaitingIsKept
        /\ Positions /\ Counts /\ Held /\ KeptOnce /\ DealtWith /\ NotKnown
    BY DEF Safe
  <1>2. /\ pkt.pc \in {"send", "sent", "check", "resend", "count", "unreachable", "destroy"} =>
             pkt.q \in Request
        /\ swp.pc \in {"check", "resend", "unreachable", "destroy"} =>
             swp.q \in Request
        /\ \A q \in Request : req[q].packets \subseteq Packets /\ req[q] \in RequestRec
        /\ \A i \in 1..Len(swp.rest) : swp.rest[i] \in Request
        /\ MaxSent \in Nat
    BY <1>1, RouterAssumption DEF Positions, Handling, Replying, Types, RequestRec, SweepRec
  <1>3. swp.pc = "unreachable" /\ swp.q \in Request /\ req[swp.q].state = "queued"
    BY <1>1 DEF SweepRefuse, Positions, Handling
  <1>4. /\ outcome' \in [Packets -> {{x} : x \in AnyOutcome}]
        /\ \A p \in Packets : outcome'[p] = IF p \in req[swp.q].packets THEN {"host_unreachable"}
                                                                      ELSE outcome[p]
    <2>1. \A p \in req[swp.q].packets : outcome[p] \in {{"waiting"}, {"host_unreachable"}}
      BY <1>1, <1>2, <1>3 DEF Held, Positions, Replying
    <2>2. outcome' = Refused(swp.q)
      BY <1>3 DEF SweepRefuse, Freed
    <2> QED
      BY <1>1, <1>3, <2>1, <2>2, RefusedFacts
  <1>5. swp' \in SweepRec /\ swp'.pc = "destroy" /\ swp'.q = swp.q /\ swp'.rest = swp.rest
    BY <1>1, <1>3 DEF SweepRefuse, Types, SweepRec, Handling
  <1>6. /\ entries' = entries /\ req' = req /\ requests' = requests /\ pkt' = pkt
        /\ tick' = tick /\ replies' = replies /\ fate' = fate
    BY DEF SweepRefuse
  <1>7. Types'
    BY <1>1, <1>2, <1>3, <1>4, <1>5, <1>6 DEF Types
  <1>8. OneOutcome'
    BY <1>1, <1>2, <1>3, <1>4, <1>5, <1>6 DEF OneOutcome
  <1>9. Queued'
    BY <1>1, <1>2, <1>3, <1>4, <1>5, <1>6 DEF Queued
  <1>10. WaitingIsKept'
    BY <1>1, <1>2, <1>3, <1>4, <1>5, <1>6 DEF WaitingIsKept
  <1>11. Positions'
    BY <1>1, <1>2, <1>3, <1>4, <1>5, <1>6 DEF Positions, Handling, Replying
  <1>12. Counts'
    BY <1>1, <1>2, <1>3, <1>4, <1>5, <1>6 DEF Counts, Freed
  <1>13. Held'
    BY <1>1, <1>2, <1>3, <1>4, <1>5, <1>6 DEF Held, KeptOnce
  <1>14. KeptOnce'
    BY <1>1, <1>2, <1>3, <1>4, <1>5, <1>6 DEF KeptOnce
  <1>15. DealtWith'
    <2>1. pkt.pc = "sent" => pkt.q # swp.q /\ req[pkt.q].packets \intersect req[swp.q].packets = {}
      BY <1>1, <1>2, <1>3 DEF Positions, Replying, KeptOnce
    <2> QED
      BY <1>1, <1>2, <1>3, <1>4, <1>5, <1>6, <2>1 DEF DealtWith
  <1>16. NotKnown'
    BY <1>1, <1>2, <1>3, <1>4, <1>5, <1>6 DEF NotKnown
  <1> QED
    BY <1>7, <1>8, <1>9, <1>10, <1>11, <1>12, <1>13, <1>14, <1>15, <1>16 DEF Safe

LEMMA SweepDestroySafe ==
  ASSUME Safe, SweepDestroy
  PROVE  Safe'
  <1>1. /\ Types /\ OneOutcome /\ Queued /\ WaitingIsKept
        /\ Positions /\ Counts /\ Held /\ KeptOnce /\ DealtWith /\ NotKnown
    BY DEF Safe
  <1>2. /\ pkt.pc \in {"send", "sent", "check", "resend", "count", "unreachable", "destroy"} =>
             pkt.q \in Request
        /\ swp.pc \in {"check", "resend", "unreachable", "destroy"} =>
             swp.q \in Request
        /\ \A q \in Request : req[q].packets \subseteq Packets /\ req[q] \in RequestRec
        /\ \A i \in 1..Len(swp.rest) : swp.rest[i] \in Request
        /\ MaxSent \in Nat
    BY <1>1, RouterAssumption DEF Positions, Handling, Replying, Types, RequestRec, SweepRec
  <1>3. swp.pc = "destroy" /\ swp.q \in Request /\ req[swp.q].state = "queued"
    BY <1>1 DEF SweepDestroy, Positions, Handling
  <1>4. /\ req' \in [Request -> RequestRec]
        /\ \A x \in Request \ {swp.q} : req'[x] = req[x]
        /\ req'[swp.q].state = "freed" /\ req'[swp.q].packets = {} /\ req'[swp.q].times_sent = 0
    <2>1. req \in [Request -> RequestRec]
      BY <1>1 DEF Types
    <2>2. req' = Destroyed(swp.q)
      BY <1>3 DEF SweepDestroy, Freed
    <2> QED
      BY <2>1, <2>2, <1>3, DestroyedFacts
  <1>5. /\ requests' \in Seq(Request) /\ Distinct(requests')
        /\ \A x : Member(requests', x) <=> x # swp.q /\ Member(requests, x)
    <2>1. Distinct(requests)
      BY <1>1 DEF Queued
    <2>2. requests \in Seq(Request)
      BY <1>1 DEF Types
    <2>3. requests' = Without(requests, swp.q)
      BY <1>3 DEF SweepDestroy, Freed
    <2> QED
      BY <2>1, <2>2, <2>3, WithoutKeeps
  <1>6. swp' \in SweepRec /\ swp'.pc = "next" /\ swp'.q = swp.q /\ swp'.rest = swp.rest
    BY <1>1, <1>3 DEF SweepDestroy, Types, SweepRec, Handling
  <1>7. /\ entries' = entries /\ outcome' = outcome /\ pkt' = pkt /\ tick' = tick
        /\ replies' = replies /\ fate' = fate
    BY DEF SweepDestroy
  <1>8. Types'
    BY <1>1, <1>2, <1>3, <1>4, <1>5, <1>6, <1>7 DEF Types
  <1>9. OneOutcome'
    BY <1>1, <1>2, <1>3, <1>4, <1>5, <1>6, <1>7 DEF OneOutcome
  <1>10. Queued'
    BY <1>1, <1>2, <1>3, <1>4, <1>5, <1>6, <1>7 DEF Queued
  <1>11. WaitingIsKept'
    BY <1>1, <1>2, <1>3, <1>4, <1>5, <1>6, <1>7 DEF WaitingIsKept, DealtWith
  <1>12. Positions'
    BY <1>1, <1>2, <1>3, <1>4, <1>5, <1>6, <1>7 DEF Positions, Handling, Replying
  <1>13. Counts'
    BY <1>1, <1>2, <1>3, <1>4, <1>5, <1>6, <1>7 DEF Counts, Freed
  <1>14. Held'
    BY <1>1, <1>2, <1>3, <1>4, <1>5, <1>6, <1>7 DEF Held
  <1>15. KeptOnce'
    BY <1>1, <1>2, <1>3, <1>4, <1>5, <1>6, <1>7 DEF KeptOnce
  <1>16. DealtWith'
    BY <1>1, <1>2, <1>3, <1>4, <1>5, <1>6, <1>7 DEF DealtWith
  <1>17. NotKnown'
    BY <1>1, <1>2, <1>3, <1>4, <1>5, <1>6, <1>7 DEF NotKnown
  <1> QED
    BY <1>8, <1>9, <1>10, <1>11, <1>12, <1>13, <1>14, <1>15, <1>16, <1>17 DEF Safe

(* The sweep begins.                                                       *)
LEMMA SweepSafe ==
  ASSUME Safe, Sweep
  PROVE  Safe'
  <1>1. /\ Types /\ OneOutcome /\ Queued /\ WaitingIsKept
        /\ Positions /\ Counts /\ Held /\ KeptOnce /\ DealtWith /\ NotKnown
    BY DEF Safe
  <1>2. /\ pkt.pc \in {"send", "sent", "check", "resend", "count", "unreachable", "destroy"} =>
             pkt.q \in Request
        /\ swp.pc \in {"check", "resend", "unreachable", "destroy"} =>
             swp.q \in Request
        /\ \A q \in Request : req[q].packets \subseteq Packets /\ req[q] \in RequestRec
        /\ \A i \in 1..Len(swp.rest) : swp.rest[i] \in Request
        /\ MaxSent \in Nat
    BY <1>1, RouterAssumption DEF Positions, Handling, Replying, Types, RequestRec, SweepRec
  <1>3. swp.pc = "idle" /\ requests \in Seq(Request)
    BY <1>1 DEF Sweep, Locked, Types
  <1>4. swp' \in SweepRec /\ swp'.pc = "next" /\ swp'.rest = requests
    <2>1. swp' = [pc |-> "next", q |-> 0, n |-> 0, rest |-> requests]
      BY DEF Sweep, Asleep
    <2>2. 0 \in 0..MaxRequests
      BY RouterAssumption
    <2> QED
      BY <1>3, <2>1, <2>2 DEF SweepRec
  <1>5. /\ entries' \in [Entry -> EntryRec]
        /\ \A e \in Entry : entries'[e].ip = entries[e].ip /\ (entries'[e].valid => entries[e].valid)
    <2> DEFINE y(e) == IF entries[e].age > Timeout
                         THEN [entries[e] EXCEPT !.valid = FALSE, !.age = 0] ELSE entries[e]
    <2>1. entries' = [e \in Entry |-> y(e)]
      BY DEF Sweep
    <2>2. ASSUME NEW e \in Entry
          PROVE  y(e) \in EntryRec /\ y(e).ip = entries[e].ip /\ (y(e).valid => entries[e].valid)
      <3>1. entries[e] \in EntryRec /\ 0 \in 0..(Timeout + 1)
        BY <1>1, RouterAssumption DEF Types
      <3>2. CASE entries[e].age > Timeout
        BY <3>1, <3>2 DEF EntryRec
      <3>3. CASE ~(entries[e].age > Timeout)
        BY <3>1, <3>3
      <3> QED
        BY <3>2, <3>3
    <2> HIDE DEF y
    <2> QED
      BY <2>1, <2>2
  <1>6. tick' \in BOOLEAN
    BY DEF Sweep
  <1>7. /\ req' = req /\ requests' = requests /\ outcome' = outcome /\ pkt' = pkt
        /\ replies' = replies /\ fate' = fate
    BY DEF Sweep
  <1>8. Types'
    BY <1>1, <1>2, <1>3, <1>4, <1>5, <1>6, <1>7 DEF Types
  <1>9. OneOutcome'
    BY <1>1, <1>2, <1>3, <1>4, <1>5, <1>6, <1>7 DEF OneOutcome
  <1>10. Queued'
    BY <1>1, <1>2, <1>3, <1>4, <1>5, <1>6, <1>7 DEF Queued
  <1>11. WaitingIsKept'
    BY <1>1, <1>2, <1>3, <1>4, <1>5, <1>6, <1>7 DEF WaitingIsKept
  <1>12. Positions'
    <2>1. /\ \A i \in 1..Len(requests) : req[requests[i]].state = "queued"
          /\ \A i, j \in 1..Len(requests) : i # j => requests[i] # requests[j]
      <3>1. \A i \in 1..Len(requests) : requests[i] \in Request /\ Member(requests, requests[i])
        BY <1>3 DEF Member
      <3> QED
        BY <1>1, <3>1 DEF Queued, Distinct
    <2> QED
      BY <1>1, <1>2, <1>3, <1>4, <1>5, <1>6, <1>7, <2>1 DEF Positions, Handling, Replying
  <1>13. Counts'
    BY <1>1, <1>2, <1>3, <1>4, <1>5, <1>6, <1>7 DEF Counts, Freed
  <1>14. Held'
    BY <1>1, <1>2, <1>3, <1>4, <1>5, <1>6, <1>7 DEF Held
  <1>15. KeptOnce'
    BY <1>1, <1>2, <1>3, <1>4, <1>5, <1>6, <1>7 DEF KeptOnce
  <1>16. DealtWith'
    BY <1>1, <1>2, <1>3, <1>4, <1>5, <1>6, <1>7 DEF DealtWith
  <1>17. NotKnown'
    BY <1>1, <1>2, <1>3, <1>4, <1>5, <1>6, <1>7 DEF NotKnown
  <1> QED
    BY <1>8, <1>9, <1>10, <1>11, <1>12, <1>13, <1>14, <1>15, <1>16, <1>17 DEF Safe

(* A second passes.                                                        *)
LEMMA TickSafe ==
  ASSUME Safe, Tick
  PROVE  Safe'
  <1>1. /\ Types /\ OneOutcome /\ Queued /\ WaitingIsKept
        /\ Positions /\ Counts /\ Held /\ KeptOnce /\ DealtWith /\ NotKnown
    BY DEF Safe
  <1>2. /\ pkt.pc \in {"send", "sent", "check", "resend", "count", "unreachable", "destroy"} =>
             pkt.q \in Request
        /\ swp.pc \in {"check", "resend", "unreachable", "destroy"} =>
             swp.q \in Request
        /\ \A q \in Request : req[q].packets \subseteq Packets /\ req[q] \in RequestRec
        /\ \A i \in 1..Len(swp.rest) : swp.rest[i] \in Request
        /\ MaxSent \in Nat
    BY <1>1, RouterAssumption DEF Positions, Handling, Replying, Types, RequestRec, SweepRec
  <1>3. swp.pc = "idle"
    BY DEF Tick, Locked
  <1>4. /\ req' \in [Request -> RequestRec]
        /\ \A x \in Request : /\ req'[x].state = req[x].state /\ req'[x].ip = req[x].ip
                              /\ req'[x].packets = req[x].packets
                              /\ req'[x].times_sent = req[x].times_sent
    <2> DEFINE y(q) == IF req[q].state = "queued" THEN [req[q] EXCEPT !.sent = Older(@, Long)] ELSE req[q]
    <2>1. req' = [q \in Request |-> y(q)]
      BY DEF Tick
    <2>2. ASSUME NEW q \in Request
          PROVE  /\ y(q) \in RequestRec /\ y(q).state = req[q].state /\ y(q).ip = req[q].ip
                 /\ y(q).packets = req[q].packets /\ y(q).times_sent = req[q].times_sent
      <3>1. req[q] \in RequestRec /\ Older(req[q].sent, Long) \in 0..Long
        BY <1>2 DEF RequestRec, Older, Long
      <3>2. CASE req[q].state = "queued"
        BY <3>1, <3>2 DEF RequestRec
      <3>3. CASE req[q].state # "queued"
        BY <3>1, <3>3
      <3> QED
        BY <3>2, <3>3
    <2> HIDE DEF y
    <2> QED
      BY <2>1, <2>2
  <1>5. /\ entries' \in [Entry -> EntryRec]
        /\ \A e \in Entry : entries'[e].ip = entries[e].ip /\ (entries'[e].valid => entries[e].valid)
    <2> DEFINE y(e) == IF entries[e].valid THEN [entries[e] EXCEPT !.age = Older(@, Timeout + 1)]
                         ELSE entries[e]
    <2>1. entries' = [e \in Entry |-> y(e)]
      BY DEF Tick
    <2>2. ASSUME NEW e \in Entry
          PROVE  y(e) \in EntryRec /\ y(e).ip = entries[e].ip /\ (y(e).valid => entries[e].valid)
      <3>1. entries[e] \in EntryRec
        BY <1>1 DEF Types
      <3>2. Older(entries[e].age, Timeout + 1) \in 0..(Timeout + 1)
        BY <3>1, RouterAssumption DEF EntryRec, Older
      <3>3. CASE entries[e].valid
        BY <3>1, <3>2, <3>3 DEF EntryRec
      <3>4. CASE ~entries[e].valid
        BY <3>1, <3>4
      <3> QED
        BY <3>3, <3>4
    <2> HIDE DEF y
    <2> QED
      BY <2>1, <2>2
  <1>6. tick' \in BOOLEAN
    BY DEF Tick
  <1>7. /\ requests' = requests /\ outcome' = outcome /\ pkt' = pkt /\ swp' = swp
        /\ replies' = replies /\ fate' = fate
    BY DEF Tick
  <1>8. Types'
    BY <1>1, <1>2, <1>3, <1>4, <1>5, <1>6, <1>7 DEF Types
  <1>9. OneOutcome'
    BY <1>1, <1>2, <1>3, <1>4, <1>5, <1>6, <1>7 DEF OneOutcome
  <1>10. Queued'
    BY <1>1, <1>2, <1>3, <1>4, <1>5, <1>6, <1>7 DEF Queued
  <1>11. WaitingIsKept'
    BY <1>1, <1>2, <1>3, <1>4, <1>5, <1>6, <1>7 DEF WaitingIsKept
  <1>12. Positions'
    BY <1>1, <1>2, <1>3, <1>4, <1>5, <1>6, <1>7 DEF Positions, Handling, Replying
  <1>13. Counts'
    BY <1>1, <1>2, <1>3, <1>4, <1>5, <1>6, <1>7 DEF Counts, Freed
  <1>14. Held'
    BY <1>1, <1>2, <1>3, <1>4, <1>5, <1>6, <1>7 DEF Held
  <1>15. KeptOnce'
    BY <1>1, <1>2, <1>3, <1>4, <1>5, <1>6, <1>7 DEF KeptOnce
  <1>16. DealtWith'
    BY <1>1, <1>2, <1>3, <1>4, <1>5, <1>6, <1>7 DEF DealtWith
  <1>17. NotKnown'
    BY <1>1, <1>2, <1>3, <1>4, <1>5, <1>6, <1>7 DEF NotKnown
  <1> QED
    BY <1>8, <1>9, <1>10, <1>11, <1>12, <1>13, <1>14, <1>15, <1>16, <1>17 DEF Safe

(* A packet is queued.                                                     *)
LEMMA QueueSafe ==
  ASSUME Safe, NEW p \in Packets, NEW ttl, NEW ip \in Hosts, Queue(p, ttl, ip)
  PROVE  Safe'
  <1>1. /\ Types /\ OneOutcome /\ Queued /\ WaitingIsKept
        /\ Positions /\ Counts /\ Held /\ KeptOnce /\ DealtWith /\ NotKnown
    BY DEF Safe
  <1>2. /\ pkt.pc \in {"send", "sent", "check", "resend", "count", "unreachable", "destroy"} =>
             pkt.q \in Request
        /\ swp.pc \in {"check", "resend", "unreachable", "destroy"} =>
             swp.q \in Request
        /\ \A q \in Request : req[q].packets \subseteq Packets /\ req[q] \in RequestRec
        /\ \A i \in 1..Len(swp.rest) : swp.rest[i] \in Request
        /\ MaxSent \in Nat
    BY <1>1, RouterAssumption DEF Positions, Handling, Replying, Types, RequestRec, SweepRec
  <1>3. /\ swp.pc = "idle" /\ pkt.pc = "idle" /\ outcome[p] = {"expected"} /\ p \in Packets /\ ip \in Hosts
        /\ \A e \in Entry : ~(entries[e].valid /\ entries[e].ip = ip)
    BY LookupFinds DEF Queue, Arrives, Locked
  <1>4. \A x \in Request : p \notin req[x].packets
    BY <1>1, <1>3 DEF Held
  <1>5. /\ \A r \in Packets \ {p} : outcome'[r] = outcome[r]
        /\ outcome'[p] = {"waiting"} /\ outcome' \in [Packets -> {{o} : o \in AnyOutcome}]
    <2>1. {"waiting"} \in {{o} : o \in AnyOutcome}
      BY DEF AnyOutcome
    <2> QED
      BY <1>1, <1>3, <2>1 DEF Queue, Become, OneOutcome
  <1>6. PICK q \in IF QueuedFor(ip) # {} THEN QueuedFor(ip) ELSE Fresh :
           /\ req' = Joined(q, ip, p)
           /\ requests' = IF QueuedFor(ip) # {} THEN requests ELSE <<q>> \o requests
           /\ pkt' = [pkt EXCEPT !.pc = "check", !.q = q]
    BY DEF Queue
  <1>7. /\ q \in Request
        /\ \/ req[q].state = "queued" /\ req[q].ip = ip /\ requests' = requests
           \/ /\ req[q].state = "unused" /\ requests' = <<q>> \o requests
              /\ \A x \in Request : req[x].state = "queued" => req[x].ip # ip
    BY <1>6 DEF QueuedFor, Fresh
  <1>8. /\ req' \in [Request -> RequestRec]
        /\ \A x \in Request \ {q} : req'[x] = req[x]
        /\ req'[q].state = "queued" /\ req'[q].ip = ip /\ req'[q].packets = req[q].packets \union {p}
    <2> DEFINE y == [req[q] EXCEPT !.state = "queued", !.ip = ip, !.packets = @ \union {p}]
    <2>1. req \in [Request -> RequestRec]
      BY <1>1 DEF Types
    <2>2. req' = [req EXCEPT ![q] = y]
      BY <1>6 DEF Joined
    <2>3. /\ y \in RequestRec /\ y.state = "queued" /\ y.ip = ip
          /\ y.packets = req[q].packets \union {p}
      BY <1>2, <1>3, <1>7 DEF RequestRec
    <2> HIDE DEF y
    <2> QED
      BY <1>7, <2>1, <2>2, <2>3
  <1>9. /\ requests' \in Seq(Request) /\ Distinct(requests')
        /\ \A x : Member(requests', x) <=> x = q \/ Member(requests, x)
    <2>1. /\ Distinct(requests) /\ requests \in Seq(Request) /\ Len(requests) \in Nat
          /\ Member(requests, q) <=> req[q].state = "queued"
      BY <1>1, <1>7 DEF Queued, Types
    <2>2. CASE req[q].state = "queued" /\ requests' = requests
      BY <2>1, <2>2
    <2>3. CASE req[q].state = "unused" /\ requests' = <<q>> \o requests
      <3>1. /\ requests' \in Seq(Request) /\ Len(requests') = Len(requests) + 1
            /\ \A i \in 1..Len(requests') : requests'[i] = IF i = 1 THEN q ELSE requests[i - 1]
        <4>1. <<q>> \in Seq(Request) /\ Len(<<q>>) = 1 /\ <<q>>[1] = q
          BY <1>7
        <4> HIDE DEF QueuedFor
        <4>2. /\ requests' \in Seq(Request) /\ Len(requests') = 1 + Len(requests)
              /\ \A i \in 1..1 + Len(requests) :
                   requests'[i] = IF i <= 1 THEN <<q>>[i] ELSE requests[i - 1]
          BY <2>1, <2>3, <4>1, ConcatProperties
        <4>3. \A i \in 1..1 + Len(requests) : i <= 1 <=> i = 1
          BY <2>1
        <4> QED
          BY <2>1, <4>1, <4>2, <4>3
      <3>2. \A i \in 1..Len(requests) : requests[i] # q
        BY <2>1, <2>3 DEF Member
      <3>3. \A i \in 1..Len(requests') : i # 1 => i - 1 \in 1..Len(requests)
        BY <2>1, <3>1
      <3>5. Distinct(requests')
        <4>1. ASSUME NEW i \in 1..Len(requests'), NEW j \in 1..Len(requests'), i # j
              PROVE  requests'[i] # requests'[j]
          <5>1. CASE i = 1 \/ j = 1
            BY <3>1, <3>2, <3>3, <4>1, <5>1
          <5>2. CASE i # 1 /\ j # 1
            <6>1. i - 1 # j - 1
              BY <4>1
            <6> QED
              BY <2>1, <3>1, <3>3, <5>2, <6>1 DEF Distinct
          <5> QED
            BY <5>1, <5>2
        <4> QED
          BY <4>1 DEF Distinct
      <3>6. ASSUME NEW x, Member(requests', x) PROVE x = q \/ Member(requests, x)
        BY <3>1, <3>3, <3>6 DEF Member
      <3>7. Member(requests', q)
        <4>1. 1 \in 1..Len(requests')
          BY <2>1, <3>1
        <4> QED
          BY <3>1, <4>1 DEF Member
      <3>8. ASSUME NEW i \in 1..Len(requests) PROVE Member(requests', requests[i])
        <4>1. i + 1 \in 1..Len(requests') /\ i + 1 # 1 /\ (i + 1) - 1 = i
          BY <2>1, <3>1
        <4> QED
          BY <3>1, <4>1 DEF Member
      <3> QED
        BY <3>1, <3>5, <3>6, <3>7, <3>8 DEF Member
    <2> QED
      BY <1>7, <2>2, <2>3
  <1>10. pkt' \in PacketRec /\ pkt'.pc = "check"
    <2>1. pkt \in PacketRec /\ q \in 0..MaxRequests
      BY <1>1, <1>7, RouterAssumption DEF Types, Request
    <2> QED
      BY <1>6, <2>1 DEF PacketRec, Handling
  <1>11. pkt'.q = q
    BY <1>1, <1>6 DEF Types, PacketRec
  <1>12. /\ entries' = entries /\ swp' = swp /\ tick' = tick /\ replies' = replies
         /\ fate' = fate
    BY DEF Queue
  <1>13. swp.rest = <<>>
    BY <1>1, <1>3 DEF Positions
  <1>14. Types'
    BY <1>1, <1>2, <1>3, <1>4, <1>5, <1>6, <1>7, <1>8, <1>9, <1>10, <1>11, <1>12, <1>13 DEF Types
  <1>15. OneOutcome'
    BY <1>1, <1>2, <1>3, <1>4, <1>5, <1>6, <1>7, <1>8, <1>9, <1>10, <1>11, <1>12, <1>13 DEF OneOutcome
  <1>16. Queued'
    BY <1>1, <1>2, <1>3, <1>4, <1>5, <1>6, <1>7, <1>8, <1>9, <1>10, <1>11, <1>12, <1>13 DEF Queued
  <1>17. WaitingIsKept'
    <2> SUFFICES ASSUME NEW x \in Packets, "waiting" \in outcome'[x]
                 PROVE  \E r \in Request : req'[r].state \in {"queued", "unlinked"} /\ x \in req'[r].packets
      BY DEF WaitingIsKept
    <2>1. CASE x = p
      BY <1>7, <1>8, <2>1
    <2>2. CASE x # p
      <3>1. PICK r \in Request : req[r].state \in {"queued", "unlinked"} /\ x \in req[r].packets
        BY <1>1, <1>5, <2>2 DEF WaitingIsKept
      <3> QED
        BY <1>7, <1>8, <3>1
    <2> QED
      BY <2>1, <2>2
  <1>18. Positions'
    BY <1>1, <1>2, <1>3, <1>4, <1>5, <1>6, <1>7, <1>8, <1>9, <1>10, <1>11, <1>12, <1>13 DEF Positions, Handling, Replying
  <1>19. Counts'
    BY <1>1, <1>2, <1>3, <1>4, <1>5, <1>6, <1>7, <1>8, <1>9, <1>10, <1>11, <1>12, <1>13 DEF Counts, Freed
  <1>20. Held'
    <2> SUFFICES ASSUME NEW r \in Request, NEW x \in req'[r].packets
                 PROVE  outcome'[x] = {"waiting"}
      BY DEF Held
    <2>1. CASE x = p
      BY <1>5, <2>1
    <2>2. CASE x # p
      <3>1. x \in req[r].packets
        BY <1>8, <2>2
      <3> QED
        BY <1>1, <1>2, <1>3, <1>5, <2>2, <3>1 DEF Held
    <2> QED
      BY <2>1, <2>2
  <1>21. KeptOnce'
    <2> SUFFICES ASSUME NEW x \in Request, NEW y \in Request, x # y
                 PROVE  req'[x].packets \intersect req'[y].packets = {}
      BY DEF KeptOnce
    <2>1. req[x].packets \intersect req[y].packets = {} /\ p \notin req[x].packets /\ p \notin req[y].packets
      BY <1>1, <1>4 DEF KeptOnce
    <2>2. CASE x = q
      BY <1>8, <2>1, <2>2
    <2>3. CASE y = q
      BY <1>8, <2>1, <2>3
    <2>4. CASE x # q /\ y # q
      BY <1>8, <2>1, <2>4
    <2> QED
      BY <2>2, <2>3, <2>4
  <1>22. DealtWith'
    BY <1>1, <1>2, <1>3, <1>4, <1>5, <1>6, <1>7, <1>8, <1>9, <1>10, <1>11, <1>12, <1>13 DEF DealtWith
  <1>23. NotKnown'
    BY <1>1, <1>2, <1>3, <1>4, <1>5, <1>6, <1>7, <1>8, <1>9, <1>10, <1>11, <1>12, <1>13 DEF NotKnown
  <1> QED
    BY <1>14, <1>15, <1>16, <1>17, <1>18, <1>19, <1>20, <1>21, <1>22, <1>23 DEF Safe

LEMMA ArpReplyNewSafe ==
  ASSUME Safe, NEW ip \in Hosts, ArpReply(ip), QueuedFor(ip) = {}
  PROVE  Safe'
  <1>1. /\ Types /\ OneOutcome /\ Queued /\ WaitingIsKept
        /\ Positions /\ Counts /\ Held /\ KeptOnce /\ DealtWith /\ NotKnown
    BY DEF Safe
  <1>2. /\ pkt.pc \in {"send", "sent", "check", "resend", "count", "unreachable", "destroy"} =>
             pkt.q \in Request
        /\ swp.pc \in {"check", "resend", "unreachable", "destroy"} =>
             swp.q \in Request
        /\ \A q \in Request : req[q].packets \subseteq Packets /\ req[q] \in RequestRec
        /\ \A i \in 1..Len(swp.rest) : swp.rest[i] \in Request
        /\ MaxSent \in Nat
    BY <1>1, RouterAssumption DEF Positions, Handling, Replying, Types, RequestRec, SweepRec
  <1>3. swp.pc = "idle" /\ pkt.pc = "idle" /\ swp.rest = <<>>
    BY <1>1 DEF ArpReply, Locked, Positions
  <1>4. /\ entries' \in [Entry -> EntryRec]
        /\ \A e \in Entry : entries'[e].valid => \/ entries[e].valid /\ entries'[e].ip = entries[e].ip
                                                 \/ entries'[e].ip = ip
    <2> DEFINE n == [valid |-> TRUE, ip |-> ip, mac |-> Self, age |-> 0]
    <2>1. entries' = [e \in Entry |-> IF ~entries[e].valid /\ \A f \in 1..(e - 1) : entries[f].valid
                                        THEN n ELSE entries[e]]
      BY DEF ArpReply, Inserted
    <2>2. n \in EntryRec /\ n.ip = ip
      BY RouterAssumption DEF EntryRec
    <2>3. entries \in [Entry -> EntryRec]
      BY <1>1 DEF Types
    <2> HIDE DEF n
    <2>4. \A e \in Entry : entries'[e] = n \/ entries'[e] = entries[e]
      BY <2>1
    <2> QED
      BY <2>1, <2>2, <2>3, <2>4
  <1>5. /\ requests' \in Seq(Request) /\ Distinct(requests')
        /\ \A x : Member(requests', x) <=> req[x].ip # ip /\ Member(requests, x)
    BY <1>1, UnlinkedKeeps DEF ArpReply, Types
  <1>6. replies' \in 0..MaxReplies
    <2>1. replies' = replies + 1 /\ replies < MaxReplies
      BY DEF ArpReply
    <2>2. replies \in 0..MaxReplies
      BY <1>1 DEF Types
    <2> QED
      BY <2>1, <2>2, RouterAssumption
  <1>7. /\ outcome' = outcome /\ swp' = swp /\ tick' = tick /\ fate' = fate
    BY DEF ArpReply
  <1>8. req' = req /\ pkt' = pkt /\ \A x \in Request : req[x].state = "queued" => req[x].ip # ip
    BY DEF ArpReply, QueuedFor
  <1>9. Types'
    BY <1>1, <1>2, <1>3, <1>4, <1>5, <1>6, <1>7, <1>8 DEF Types
  <1>10. OneOutcome'
    BY <1>1, <1>2, <1>3, <1>4, <1>5, <1>6, <1>7, <1>8 DEF OneOutcome
  <1>11. Queued'
    BY <1>1, <1>2, <1>3, <1>4, <1>5, <1>6, <1>7, <1>8 DEF Queued
  <1>12. WaitingIsKept'
    BY <1>1, <1>2, <1>3, <1>4, <1>5, <1>6, <1>7, <1>8 DEF WaitingIsKept
  <1>13. Positions'
    BY <1>1, <1>2, <1>3, <1>4, <1>5, <1>6, <1>7, <1>8 DEF Positions, Handling, Replying
  <1>14. Counts'
    BY <1>1, <1>2, <1>3, <1>4, <1>5, <1>6, <1>7, <1>8 DEF Counts, Freed
  <1>15. Held'
    BY <1>1, <1>2, <1>3, <1>4, <1>5, <1>6, <1>7, <1>8 DEF Held
  <1>16. KeptOnce'
    BY <1>1, <1>2, <1>3, <1>4, <1>5, <1>6, <1>7, <1>8 DEF KeptOnce
  <1>17. DealtWith'
    BY <1>1, <1>2, <1>3, <1>4, <1>5, <1>6, <1>7, <1>8 DEF DealtWith
  <1>18. NotKnown'
    BY <1>1, <1>2, <1>3, <1>4, <1>5, <1>6, <1>7, <1>8 DEF NotKnown
  <1> QED
    BY <1>9, <1>10, <1>11, <1>12, <1>13, <1>14, <1>15, <1>16, <1>17, <1>18 DEF Safe

LEMMA ArpReplyWaitingSafe ==
  ASSUME Safe, NEW ip \in Hosts, ArpReply(ip), QueuedFor(ip) # {}
  PROVE  Safe'
  <1>1. /\ Types /\ OneOutcome /\ Queued /\ WaitingIsKept
        /\ Positions /\ Counts /\ Held /\ KeptOnce /\ DealtWith /\ NotKnown
    BY DEF Safe
  <1>2. /\ pkt.pc \in {"send", "sent", "check", "resend", "count", "unreachable", "destroy"} =>
             pkt.q \in Request
        /\ swp.pc \in {"check", "resend", "unreachable", "destroy"} =>
             swp.q \in Request
        /\ \A q \in Request : req[q].packets \subseteq Packets /\ req[q] \in RequestRec
        /\ \A i \in 1..Len(swp.rest) : swp.rest[i] \in Request
        /\ MaxSent \in Nat
    BY <1>1, RouterAssumption DEF Positions, Handling, Replying, Types, RequestRec, SweepRec
  <1>3. swp.pc = "idle" /\ pkt.pc = "idle" /\ swp.rest = <<>>
    BY <1>1 DEF ArpReply, Locked, Positions
  <1>4. /\ entries' \in [Entry -> EntryRec]
        /\ \A e \in Entry : entries'[e].valid => \/ entries[e].valid /\ entries'[e].ip = entries[e].ip
                                                 \/ entries'[e].ip = ip
    <2> DEFINE n == [valid |-> TRUE, ip |-> ip, mac |-> Self, age |-> 0]
    <2>1. entries' = [e \in Entry |-> IF ~entries[e].valid /\ \A f \in 1..(e - 1) : entries[f].valid
                                        THEN n ELSE entries[e]]
      BY DEF ArpReply, Inserted
    <2>2. n \in EntryRec /\ n.ip = ip
      BY RouterAssumption DEF EntryRec
    <2>3. entries \in [Entry -> EntryRec]
      BY <1>1 DEF Types
    <2> HIDE DEF n
    <2>4. \A e \in Entry : entries'[e] = n \/ entries'[e] = entries[e]
      BY <2>1
    <2> QED
      BY <2>1, <2>2, <2>3, <2>4
  <1>5. /\ requests' \in Seq(Request) /\ Distinct(requests')
        /\ \A x : Member(requests', x) <=> req[x].ip # ip /\ Member(requests, x)
    BY <1>1, UnlinkedKeeps DEF ArpReply, Types
  <1>6. replies' \in 0..MaxReplies
    <2>1. replies' = replies + 1 /\ replies < MaxReplies
      BY DEF ArpReply
    <2>2. replies \in 0..MaxReplies
      BY <1>1 DEF Types
    <2> QED
      BY <2>1, <2>2, RouterAssumption
  <1>7. /\ outcome' = outcome /\ swp' = swp /\ tick' = tick /\ fate' = fate
    BY DEF ArpReply
  <1>8. PICK q \in QueuedFor(ip) : /\ pkt' = [pkt EXCEPT !.pc = "send", !.q = q]
                                     /\ req' = [req EXCEPT ![q].state = "unlinked"]
    BY DEF ArpReply
  <1>9. q \in Request /\ req[q].state = "queued" /\ req[q].ip = ip
    BY <1>8 DEF QueuedFor
  <1>10. /\ req' \in [Request -> RequestRec]
         /\ \A x \in Request \ {q} : req'[x] = req[x]
         /\ req'[q].state = "unlinked" /\ req'[q].packets = req[q].packets
    <2> DEFINE y == [req[q] EXCEPT !.state = "unlinked"]
    <2>1. req \in [Request -> RequestRec]
      BY <1>1 DEF Types
    <2>2. req' = [req EXCEPT ![q] = y]
      BY <1>8
    <2>3. y \in RequestRec /\ y.state = "unlinked" /\ y.packets = req[q].packets
      BY <1>2, <1>9 DEF RequestRec
    <2> HIDE DEF y
    <2> QED
      BY <1>9, <2>1, <2>2, <2>3
  <1>11. pkt' \in PacketRec /\ pkt'.pc = "send" /\ pkt'.q = q
    <2>1. pkt \in PacketRec /\ q \in 0..MaxRequests
      BY <1>1, <1>9, RouterAssumption DEF Types, Request
    <2> QED
      BY <1>8, <2>1 DEF PacketRec, Replying
  <1>12. \A x \in Request \ {q} : req[x].state = "queued" => req[x].ip # ip
    BY <1>1, <1>9 DEF Queued
  <1>13. Types'
    BY <1>1, <1>2, <1>3, <1>4, <1>5, <1>6, <1>7, <1>8, <1>9, <1>10, <1>11, <1>12 DEF Types
  <1>14. OneOutcome'
    BY <1>1, <1>2, <1>3, <1>4, <1>5, <1>6, <1>7, <1>8, <1>9, <1>10, <1>11, <1>12 DEF OneOutcome
  <1>15. Queued'
    BY <1>1, <1>2, <1>3, <1>4, <1>5, <1>6, <1>7, <1>8, <1>9, <1>10, <1>11, <1>12 DEF Queued
  <1>16. WaitingIsKept'
    <2> SUFFICES ASSUME NEW x \in Packets, "waiting" \in outcome[x]
                 PROVE  \E r \in Request : req'[r].state \in {"queued", "unlinked"} /\ x \in req'[r].packets
      BY <1>7 DEF WaitingIsKept
    <2>1. PICK r \in Request : req[r].state \in {"queued", "unlinked"} /\ x \in req[r].packets
      BY <1>1 DEF WaitingIsKept
    <2>2. req'[r].state \in {"queued", "unlinked"} /\ x \in req'[r].packets
      <3>1. CASE r = q
        BY <1>10, <2>1, <3>1
      <3>2. CASE r # q
        BY <1>10, <2>1, <3>2
      <3> QED
        BY <3>1, <3>2
    <2> QED
      BY <2>2
  <1>17. Positions'
    BY <1>1, <1>2, <1>3, <1>4, <1>5, <1>6, <1>7, <1>8, <1>9, <1>10, <1>11, <1>12 DEF Positions, Handling, Replying
  <1>18. Counts'
    BY <1>1, <1>2, <1>3, <1>4, <1>5, <1>6, <1>7, <1>8, <1>9, <1>10, <1>11, <1>12 DEF Counts, Freed
  <1>19. Held'
    BY <1>1, <1>2, <1>3, <1>4, <1>5, <1>6, <1>7, <1>8, <1>9, <1>10, <1>11, <1>12 DEF Held
  <1>20. KeptOnce'
    BY <1>1, <1>2, <1>3, <1>4, <1>5, <1>6, <1>7, <1>8, <1>9, <1>10, <1>11, <1>12 DEF KeptOnce
  <1>21. DealtWith'
    BY <1>1, <1>2, <1>3, <1>4, <1>5, <1>6, <1>7, <1>8, <1>9, <1>10, <1>11, <1>12 DEF DealtWith
  <1>22. NotKnown'
    BY <1>1, <1>2, <1>3, <1>4, <1>5, <1>6, <1>7, <1>8, <1>9, <1>10, <1>11, <1>12 DEF NotKnown
  <1> QED
    BY <1>13, <1>14, <1>15, <1>16, <1>17, <1>18, <1>19, <1>20, <1>21, <1>22 DEF Safe
-----------------------------------------------------------------------------

(***************************************************************************)
(* The invariant.                                                          *)
(***************************************************************************)
LEMMA InitSafe ==
  ASSUME Init
  PROVE  Safe
  <1>1. /\ entries = [e \in Entry |-> Invalid] /\ req = [q \in Request |-> NoRequest]
        /\ requests = <<>> /\ outcome = [p \in Packets |-> {"expected"}]
        /\ pkt = Asleep /\ swp = Asleep /\ tick = FALSE /\ replies = 0 /\ fate = "alive"
    BY DEF Init
  <1>2. /\ Invalid \in EntryRec /\ Invalid.valid = FALSE
    BY RouterAssumption DEF Invalid, EntryRec
  <1>3. /\ NoRequest \in RequestRec /\ NoRequest.state = "unused" /\ NoRequest.packets = {}
    BY RouterAssumption DEF NoRequest, RequestRec, Long
  <1>4. Asleep \in PacketRec /\ Asleep \in SweepRec /\ Asleep.pc = "idle" /\ Asleep.rest = <<>>
    BY RouterAssumption DEF Asleep, PacketRec, SweepRec
  <1>5. Types
    <2>1. /\ [e \in Entry |-> Invalid] \in [Entry -> EntryRec]
          /\ [q \in Request |-> NoRequest] \in [Request -> RequestRec]
      BY <1>2, <1>3
    <2>2. <<>> \in Seq(Request) /\ 0 \in 0..MaxReplies
      BY RouterAssumption
    <2> QED
      BY <1>1, <1>4, <2>1, <2>2 DEF Types
  <1>6. OneOutcome
    BY <1>1 DEF OneOutcome, AnyOutcome
  <1>7. Queued
    BY <1>1, <1>3 DEF Queued, Distinct, Member
  <1>8. WaitingIsKept
    BY <1>1 DEF WaitingIsKept
  <1>9. Positions
    BY <1>1, <1>4 DEF Positions, Handling, Replying
  <1>10. Counts
    BY <1>1, <1>4 DEF Counts
  <1>11. Held /\ KeptOnce
    BY <1>1, <1>3 DEF Held, KeptOnce
  <1>12. DealtWith
    BY <1>1, <1>4 DEF DealtWith
  <1>13. NotKnown
    BY <1>1, <1>2 DEF NotKnown
  <1> QED
    BY <1>5, <1>6, <1>7, <1>8, <1>9, <1>10, <1>11, <1>12, <1>13 DEF Safe

LEMMA PacketThreadSafe ==
  ASSUME Safe, PacketThread
  PROVE  Safe'
  <1>1. CASE SendWaiting
    BY <1>1, SendWaitingSafe
  <1>2. CASE Sent
    BY <1>2, SentSafe
  <1>3. CASE PacketCheck
    BY <1>3, PacketCheckSafe, UndefinedSafe DEF PacketCheck
  <1>4. CASE PacketRead
    BY <1>4, PacketReadSafe, UndefinedSafe DEF PacketRead
  <1>5. CASE PacketResend
    BY <1>5, PacketResendSafe, UndefinedSafe DEF PacketResend
  <1>6. CASE PacketRefuse
    BY <1>6, PacketRefuseSafe, UndefinedSafe DEF PacketRefuse
  <1>7. CASE PacketDestroy
    BY <1>7, PacketDestroySafe, UndefinedSafe DEF PacketDestroy
  <1> QED
    BY <1>1, <1>2, <1>3, <1>4, <1>5, <1>6, <1>7 DEF PacketThread

LEMMA ArrivalSafe ==
  ASSUME Safe, Arrival
  PROVE  Safe'
  <1>1. ASSUME NEW p \in Packets, ForRouter(p) PROVE Safe'
    <2>1. PICK what \in {"echo_reply", "dropped", "port_unreachable"} : Become(p, what)
      BY <1>1 DEF ForRouter
    <2>2. what \in Outcome
      BY DEF Outcome
    <2> QED
      BY <1>1, <2>1, <2>2, BecomeSafe DEF ForRouter, Arrives
  <1>2. {"time_exceeded", "net_unreachable", "forwarded"} \subseteq Outcome
    BY DEF Outcome
  <1>3. ASSUME NEW p \in Packets, NEW ttl, TimeExceeded(p, ttl) PROVE Safe'
    BY <1>2, <1>3, BecomeSafe DEF TimeExceeded, Arrives
  <1>4. ASSUME NEW p \in Packets, NEW ttl, NEW ip, NoRoute(p, ttl, ip) PROVE Safe'
    BY <1>2, <1>4, BecomeSafe DEF NoRoute, Arrives
  <1>5. ASSUME NEW p \in Packets, NEW ttl, NEW ip, Forward(p, ttl, ip) PROVE Safe'
    BY <1>2, <1>5, BecomeSafe DEF Forward, Arrives
  <1>6. ASSUME NEW p \in Packets, NEW ttl, NEW ip \in Hosts, Queue(p, ttl, ip) PROVE Safe'
    BY <1>6, QueueSafe
  <1>7. ASSUME NEW ip \in Hosts, ArpReply(ip) PROVE Safe'
    BY <1>7, ArpReplyNewSafe, ArpReplyWaitingSafe
  <1> QED
    BY <1>1, <1>3, <1>4, <1>5, <1>6, <1>7 DEF Arrival

LEMMA NextSafe ==
  ASSUME Safe, [Next]_vars
  PROVE  Safe'
  <1>1. CASE PacketThread
    BY <1>1, PacketThreadSafe
  <1>2. CASE SweepThread
    <2>1. ASSUME SweepRefuse PROVE Safe'
      BY <2>1, SweepRefuseSafe, UndefinedSafe DEF SweepRefuse
    <2> QED
      BY <1>2, <2>1, SweepSafe, SweepNextSafe, SweepCheckSafe, SweepResendSafe,
         SweepDestroySafe DEF SweepThread
  <1>3. CASE Arrival
    BY <1>3, ArrivalSafe
  <1>4. CASE Tick
    BY <1>4, TickSafe
  <1>5. CASE UNCHANGED vars
    <2>1. /\ entries' = entries /\ req' = req /\ requests' = requests /\ outcome' = outcome
          /\ pkt' = pkt /\ swp' = swp /\ tick' = tick /\ replies' = replies /\ fate' = fate
      BY <1>5 DEF vars
    <2> QED
      BY <2>1 DEF Safe, Types, OneOutcome, Queued, WaitingIsKept, Positions, Counts, Freed,
         Held, KeptOnce, DealtWith, NotKnown
  <1> QED
    BY <1>1, <1>2, <1>3, <1>4, <1>5 DEF Next

LEMMA SafeAlways == Spec => []Safe
  <1>1. Init => Safe
    BY InitSafe
  <1>2. Safe /\ [Next]_vars => Safe'
    BY NextSafe
  <1> QED
    BY <1>1, <1>2, PTL DEF Spec

-----------------------------------------------------------------------------
(***************************************************************************)
(* How often a packet is refused.                                          *)
(***************************************************************************)

(* Steps that refuse nothing.                                              *)
LEMMA RefusalsFrame ==
  ASSUME Safe, Refusals, refusals' = refusals,
         \A q \in Request : req'[q].packets # {} =>
           /\ req'[q].packets = req[q].packets
           /\ Told(pkt', q) = Told(pkt, q) /\ Told(swp', q) = Told(swp, q),
         \A p \in Packets : outcome'[p] \in {{"expected"}, {"forwarded"}} =>
           outcome'[p] = outcome[p] \/ refusals[p] = 0,
         \A p \in Packets : refusals[p] = 2 =>
           pkt'.pc = "destroy" /\ (Freed(pkt.q)' \/ p \in req'[pkt'.q].packets)
  PROVE  Refusals'
  <1>1. \A q \in Request : req[q].packets \subseteq Packets
    BY DEF Safe, Types, RequestRec
  <1>2. refusals' \in [Packets -> 0..2]
    BY DEF Refusals
  <1>3. ASSUME NEW q \in Request, NEW p \in req'[q].packets
        PROVE  refusals'[p] = Told(pkt', q) + Told(swp', q)
    BY <1>3 DEF Refusals
  <1>4. \A p \in Packets : outcome'[p] \in {{"expected"}, {"forwarded"}} => refusals'[p] = 0
    BY DEF Refusals
  <1>5. \A p \in Packets : refusals'[p] = 2 =>
          pkt'.pc = "destroy" /\ (Freed(pkt.q)' \/ p \in req'[pkt'.q].packets)
    OBVIOUS
  <1> QED
    BY <1>2, <1>3, <1>4, <1>5 DEF Refusals, Told

(* The packets of a request are refused by one of the threads.             *)
LEMMA RefusedOnceMore ==
  ASSUME Safe, Refusals, req' = req, NEW q \in Request,
         refusals' = OnceMore(q), outcome' = Refused(q),
         \/ /\ pkt.pc = "unreachable" /\ pkt.q = q /\ swp' = swp
            /\ pkt'.pc = "destroy" /\ pkt'.q = q
         \/ /\ swp.pc = "unreachable" /\ swp.q = q /\ pkt' = pkt
            /\ swp'.pc = "destroy" /\ swp'.q = q
  PROVE  Refusals'
  <1>1. /\ \A r \in Request : req[r].packets \subseteq Packets
        /\ \A r \in Request : r # q => req[r].packets \intersect req[q].packets = {}
    BY DEF Safe, Types, RequestRec, KeptOnce
  <1>2. /\ \A p \in req[q].packets : refusals'[p] = refusals[p] + 1
        /\ \A p \in Packets : p \notin req[q].packets =>
             refusals'[p] = refusals[p] /\ outcome'[p] = outcome[p]
        /\ \A p \in req[q].packets : "host_unreachable" \in outcome'[p]
        /\ DOMAIN refusals' = Packets /\ refusals' = [p \in Packets |-> refusals'[p]]
    BY <1>1 DEF OnceMore, Refused
  <1>3. /\ Told(pkt', q) + Told(swp', q) = Told(pkt, q) + Told(swp, q) + 1
        /\ Told(pkt', q) + Told(swp', q) \in 1..2
        /\ Told(pkt', q) + Told(swp', q) = 2 => pkt'.pc = "destroy" /\ pkt'.q = q
    BY DEF Told
  <1>4. \A r \in Request : r # q => Told(pkt', r) = Told(pkt, r) /\ Told(swp', r) = Told(swp, r)
    BY DEF Told
  <1>5. \A p \in req[q].packets : refusals'[p] = Told(pkt', q) + Told(swp', q)
    BY <1>1, <1>2, <1>3 DEF Refusals, Told
  <1>6. \A r \in Request : \A p \in req'[r].packets :
          refusals'[p] = Told(pkt', r) + Told(swp', r)
    <2> SUFFICES ASSUME NEW r \in Request, NEW p \in req[r].packets
                 PROVE  refusals'[p] = Told(pkt', r) + Told(swp', r)
      OBVIOUS
    <2>1. CASE r = q
      BY <1>5, <2>1
    <2>2. CASE r # q
      <3>1. refusals'[p] = refusals[p]
        BY <1>1, <1>2, <2>2
      <3>2. refusals[p] = Told(pkt, r) + Told(swp, r)
        BY DEF Refusals
      <3> QED
        BY <1>4, <2>2, <3>1, <3>2
    <2> QED
      BY <2>1, <2>2
  <1>7. refusals' \in [Packets -> 0..2]
    <2>1. \A p \in Packets : refusals'[p] \in 0..2
      <3> SUFFICES ASSUME NEW p \in Packets PROVE refusals'[p] \in 0..2
        OBVIOUS
      <3>1. CASE p \in req[q].packets
        BY <1>3, <1>5, <3>1
      <3>2. CASE p \notin req[q].packets
        BY <1>2, <3>2 DEF Refusals
      <3> QED
        BY <3>1, <3>2
    <2> QED
      BY <1>2, <2>1
  <1>8. \A p \in Packets : outcome'[p] \in {{"expected"}, {"forwarded"}} => refusals'[p] = 0
    <2> SUFFICES ASSUME NEW p \in Packets, outcome'[p] \in {{"expected"}, {"forwarded"}}
                 PROVE  refusals'[p] = 0
      OBVIOUS
    <2>1. p \notin req[q].packets
      BY <1>2
    <2> QED
      BY <1>2, <2>1 DEF Refusals
  <1>9. \A p \in Packets : refusals'[p] = 2 =>
          pkt'.pc = "destroy" /\ (Freed(pkt.q)' \/ p \in req'[pkt'.q].packets)
    <2> SUFFICES ASSUME NEW p \in Packets, refusals'[p] = 2
                 PROVE  pkt'.pc = "destroy" /\ (Freed(pkt.q)' \/ p \in req'[pkt'.q].packets)
      OBVIOUS
    <2>1. CASE p \in req[q].packets
      BY <1>3, <1>5, <2>1
    <2>2. CASE p \notin req[q].packets
      <3>1. refusals[p] = 2
        BY <1>2, <2>2
      <3>2. pkt.pc = "destroy" /\ (Freed(pkt.q) \/ p \in req[pkt.q].packets)
        BY <3>1 DEF Refusals
      <3>3. pkt' = pkt
        BY <3>2
      <3> QED
        BY <3>2, <3>3 DEF Freed
    <2> QED
      BY <2>1, <2>2
  <1> QED
    BY <1>6, <1>7, <1>8, <1>9 DEF Refusals, Told

LEMMA RefusalsPacketThread ==
  ASSUME Safe, Refusals, PacketThread
  PROVE  Refusals'
  <1>1. /\ pkt \in PacketRec /\ req \in [Request -> RequestRec]
        /\ pkt.pc \in Replying => pkt.q \in Request /\ req[pkt.q].state = "unlinked"
        /\ pkt.pc \in Handling => pkt.q \in Request
        /\ swp.pc \in Handling => swp.q \in Request /\ req[swp.q].state = "queued"
        /\ \A q \in Request : req[q].packets \subseteq Packets
    BY DEF Safe, Types, Positions, RequestRec
  <1>2. ASSUME Undefined PROVE Refusals'
    <2>1. /\ req' = req /\ outcome' = outcome /\ refusals' = refusals
          /\ pkt' = pkt /\ swp' = swp
      BY <1>2 DEF Undefined
    <2> QED
      BY <2>1 DEF Refusals, Told, Freed
  <1>3. CASE SendWaiting
    <2>1. /\ pkt.pc = "send" /\ pkt'.pc = "sent" /\ req' = req /\ swp' = swp
          /\ refusals' = refusals
      BY <1>1, <1>3 DEF SendWaiting, PacketRec
    <2>2. pkt.q \in Request /\ req[pkt.q].state = "unlinked"
      BY <1>1, <2>1 DEF Replying
    <2>3. \A q \in Request : Told(pkt', q) = Told(pkt, q) /\ Told(swp', q) = Told(swp, q)
      BY <2>1 DEF Told
    <2>4. \A p \in req[pkt.q].packets : refusals[p] = 0
      <3>1. Told(pkt, pkt.q) = 0 /\ Told(swp, pkt.q) = 0
        BY <1>1, <2>1, <2>2 DEF Told, Handling
      <3> QED
        BY <2>2, <3>1 DEF Refusals
    <2>5. \A p \in Packets : p \notin req[pkt.q].packets => outcome'[p] = outcome[p]
      BY <1>3 DEF SendWaiting
    <2>6. \A p \in Packets : refusals[p] # 2
      BY <2>1 DEF Refusals
    <2> QED
      BY <2>1, <2>3, <2>4, <2>5, <2>6, RefusalsFrame
  <1>4. CASE Sent
    <2>1. /\ pkt.pc = "sent" /\ pkt'.pc = "idle" /\ swp' = swp
          /\ refusals' = refusals /\ outcome' = outcome /\ req' = Destroyed(pkt.q)
      BY <1>1, <1>4 DEF Sent, Asleep
    <2>2. pkt.q \in Request
      BY <1>1, <2>1 DEF Replying
    <2>3. \A q \in Request : req'[q].packets # {} =>
            /\ req'[q].packets = req[q].packets
            /\ Told(pkt', q) = Told(pkt, q) /\ Told(swp', q) = Told(swp, q)
      BY <1>1, <2>1, <2>2, DestroyedFacts DEF Told
    <2>4. \A p \in Packets : refusals[p] # 2
      BY <2>1 DEF Refusals
    <2> QED
      BY <2>1, <2>3, <2>4, RefusalsFrame
  <1>5. ASSUME \/ PacketCheck /\ ~Freed(pkt.q)
               \/ PacketRead /\ ~Freed(pkt.q)
               \/ PacketResend /\ ~Freed(pkt.q)
        PROVE  Refusals'
    <2>1. /\ pkt.pc \in {"check", "resend", "count"}
          /\ pkt'.pc # "destroy" /\ swp' = swp
          /\ refusals' = refusals /\ outcome' = outcome
      <3>1. CASE PacketCheck /\ ~Freed(pkt.q)
        BY <1>1, <3>1, DecisionFacts DEF PacketCheck, PacketRec, Asleep
      <3>2. CASE PacketRead /\ ~Freed(pkt.q)
        BY <1>1, <3>2 DEF PacketRead, PacketRec
      <3>3. CASE PacketResend /\ ~Freed(pkt.q)
        BY <1>1, <3>3 DEF PacketResend, Asleep
      <3> QED
        BY <1>5, <3>1, <3>2, <3>3
    <2>2. pkt.q \in Request
      BY <1>1, <2>1 DEF Handling
    <2>3. \A q \in Request : req'[q].packets = req[q].packets
      <3>1. CASE req' = req
        BY <3>1
      <3>2. CASE req' = Resent(pkt.q, pkt.n)
        BY <1>1, <2>2, <3>2 DEF Resent, RequestRec
      <3> QED
        BY <1>5, <3>1, <3>2 DEF PacketCheck, PacketRead, PacketResend
    <2>4. \A q \in Request : Told(pkt', q) = Told(pkt, q) /\ Told(swp', q) = Told(swp, q)
      BY <2>1 DEF Told
    <2>5. \A p \in Packets : refusals[p] # 2
      BY <2>1 DEF Refusals
    <2> QED
      BY <2>1, <2>3, <2>4, <2>5, RefusalsFrame
  <1>6. ASSUME PacketRefuse, ~Freed(pkt.q), req[pkt.q].packets \subseteq Answerable
        PROVE  Refusals'
    <2>1. /\ pkt.pc = "unreachable" /\ pkt'.pc = "destroy" /\ pkt'.q = pkt.q
          /\ req' = req /\ swp' = swp
          /\ refusals' = OnceMore(pkt.q) /\ outcome' = Refused(pkt.q)
      BY <1>1, <1>6 DEF PacketRefuse, PacketRec
    <2>2. pkt.q \in Request
      BY <1>1, <2>1 DEF Handling
    <2> QED
      BY <1>1, <2>1, <2>2, RefusedOnceMore
  <1>7. ASSUME PacketDestroy, ~Freed(pkt.q) PROVE Refusals'
    <2>1. /\ pkt.pc = "destroy" /\ pkt'.pc = "idle" /\ swp.pc = "idle" /\ swp' = swp
          /\ refusals' = refusals /\ outcome' = outcome /\ req' = Destroyed(pkt.q)
      BY <1>1, <1>7 DEF PacketDestroy, Asleep, Locked
    <2>2. pkt.q \in Request
      BY <1>1, <2>1 DEF Handling
    <2>3. \A q \in Request : req'[q].packets # {} =>
            /\ req'[q].packets = req[q].packets
            /\ Told(pkt', q) = Told(pkt, q) /\ Told(swp', q) = Told(swp, q)
      BY <1>1, <2>1, <2>2, DestroyedFacts DEF Told
    <2>4. \A p \in Packets : refusals[p] # 2
      <3> SUFFICES ASSUME NEW p \in Packets, refusals[p] = 2 PROVE FALSE
        OBVIOUS
      <3>1. p \in req[pkt.q].packets
        BY <1>7 DEF Refusals
      <3>2. refusals[p] = Told(pkt, pkt.q) + Told(swp, pkt.q)
        BY <2>2, <3>1 DEF Refusals
      <3> QED
        BY <2>1, <3>2 DEF Told
    <2> QED
      BY <2>1, <2>3, <2>4, RefusalsFrame
  <1> QED
    BY <1>2, <1>3, <1>4, <1>5, <1>6, <1>7
    DEF PacketThread, PacketCheck, PacketRead, PacketResend, PacketRefuse, PacketDestroy

LEMMA RefusalsSweepThread ==
  ASSUME Safe, Refusals, SweepThread
  PROVE  Refusals'
  <1>1. /\ pkt \in PacketRec /\ swp \in SweepRec /\ req \in [Request -> RequestRec]
        /\ pkt.pc \in Handling => pkt.q \in Request
        /\ swp.pc \in Handling => swp.q \in Request /\ req[swp.q].state = "queued"
        /\ \A q \in Request : req[q].packets \subseteq Packets
    BY DEF Safe, Types, Positions, RequestRec
  <1>2. ASSUME Sweep \/ SweepNext \/ SweepCheck \/ SweepResend PROVE Refusals'
    <2>1. swp.pc # "destroy" /\ swp'.pc # "destroy"
      <3>1. CASE Sweep
        BY <3>1 DEF Sweep, Asleep, Locked
      <3>2. CASE SweepNext
        BY <3>2 DEF SweepNext, Asleep
      <3>3. CASE SweepCheck
        BY <1>1, <3>3, DecisionFacts DEF SweepCheck, SweepRec
      <3>4. CASE SweepResend
        BY <1>1, <3>4 DEF SweepResend, SweepRec
      <3> QED
        BY <1>2, <3>1, <3>2, <3>3, <3>4
    <2>2. refusals' = refusals /\ outcome' = outcome /\ pkt' = pkt
      BY <1>2 DEF Sweep, SweepNext, SweepCheck, SweepResend
    <2>3. \A q \in Request : req'[q].packets = req[q].packets /\ req'[q].state = req[q].state
      <3>1. CASE req' = req
        BY <3>1
      <3>2. CASE SweepResend
        <4>1. swp.q \in Request /\ req' = Resent(swp.q, req[swp.q].times_sent)
          BY <1>1, <3>2 DEF SweepResend, Handling
        <4> QED
          BY <1>1, <4>1 DEF Resent, RequestRec
      <3> QED
        BY <1>2, <3>1, <3>2 DEF Sweep, SweepNext, SweepCheck
    <2>4. \A q \in Request : Told(pkt', q) = Told(pkt, q) /\ Told(swp', q) = Told(swp, q)
      BY <2>1, <2>2 DEF Told
    <2>5. \A p \in Packets : refusals[p] = 2 =>
            pkt'.pc = "destroy" /\ (Freed(pkt.q)' \/ p \in req'[pkt'.q].packets)
      BY <1>1, <2>2, <2>3 DEF Refusals, Freed, Handling
    <2> QED
      BY <2>2, <2>3, <2>4, <2>5, RefusalsFrame
  <1>3. CASE SweepRefuse
    <2>1. CASE ~(req[swp.q].packets \subseteq Answerable)
      <3>1. /\ req' = req /\ outcome' = outcome /\ refusals' = refusals
            /\ pkt' = pkt /\ swp' = swp
        BY <1>3, <2>1 DEF SweepRefuse, Undefined
      <3> QED
        BY <3>1 DEF Refusals, Told, Freed
    <2>2. CASE req[swp.q].packets \subseteq Answerable
      <3>1. /\ swp.pc = "unreachable" /\ swp'.pc = "destroy" /\ swp'.q = swp.q
            /\ req' = req /\ pkt' = pkt
            /\ refusals' = OnceMore(swp.q) /\ outcome' = Refused(swp.q)
        BY <1>1, <1>3, <2>2 DEF SweepRefuse, SweepRec
      <3>2. swp.q \in Request
        BY <1>1, <3>1 DEF Handling
      <3> QED
        BY <1>1, <3>1, <3>2, RefusedOnceMore
    <2> QED
      BY <2>1, <2>2
  <1>4. CASE SweepDestroy
    <2>1. /\ swp.pc = "destroy" /\ swp'.pc = "next" /\ pkt' = pkt
          /\ refusals' = refusals /\ outcome' = outcome /\ req' = Destroyed(swp.q)
      BY <1>1, <1>4 DEF SweepDestroy, SweepRec
    <2>2. swp.q \in Request
      BY <1>1, <2>1 DEF Handling
    <2>3. /\ req'[swp.q].packets = {} /\ req'[swp.q].state = "freed"
          /\ \A q \in Request \ {swp.q} : req'[q] = req[q]
      BY <1>1, <2>1, <2>2, DestroyedFacts
    <2>4. \A q \in Request : req'[q].packets # {} =>
            /\ req'[q].packets = req[q].packets
            /\ Told(pkt', q) = Told(pkt, q) /\ Told(swp', q) = Told(swp, q)
      BY <2>1, <2>3 DEF Told
    <2>5. \A p \in Packets : refusals[p] = 2 =>
            pkt'.pc = "destroy" /\ (Freed(pkt.q)' \/ p \in req'[pkt'.q].packets)
      BY <1>1, <2>1, <2>2, <2>3 DEF Refusals, Freed, Handling
    <2> QED
      BY <2>1, <2>4, <2>5, RefusalsFrame
  <1> QED
    BY <1>2, <1>3, <1>4 DEF SweepThread

LEMMA RefusalsArrival ==
  ASSUME Safe, Refusals, Arrival
  PROVE  Refusals'
  <1>1. /\ pkt \in PacketRec /\ req \in [Request -> RequestRec]
        /\ outcome \in [Packets -> {{o} : o \in AnyOutcome}]
        /\ \A q \in Request : req[q].packets \subseteq Packets
    BY DEF Safe, Types, RequestRec, OneOutcome
  <1>2. ASSUME NEW p \in Packets, NEW what, Arrives(p), Become(p, what),
               UNCHANGED <<req, refusals, pkt, swp>>
        PROVE  Refusals'
    <2>1. refusals[p] = 0 /\ pkt.pc = "idle"
      BY <1>2 DEF Refusals, Arrives
    <2>2. \A r \in Packets : r # p => outcome'[r] = outcome[r]
      BY <1>1, <1>2 DEF Become
    <2>3. req' = req /\ refusals' = refusals /\ pkt' = pkt /\ swp' = swp
      BY <1>2
    <2>4. \A r \in Packets : refusals[r] # 2
      BY <2>1 DEF Refusals
    <2> QED
      BY <2>1, <2>2, <2>3, <2>4, RefusalsFrame
  <1>3. ASSUME NEW p \in Packets, ForRouter(p) PROVE Refusals'
    BY <1>2, <1>3 DEF ForRouter
  <1>4. ASSUME NEW p \in Packets, NEW ttl, TimeExceeded(p, ttl) PROVE Refusals'
    BY <1>2, <1>4 DEF TimeExceeded
  <1>5. ASSUME NEW p \in Packets, NEW ttl, NEW ip, NoRoute(p, ttl, ip) PROVE Refusals'
    BY <1>2, <1>5 DEF NoRoute
  <1>6. ASSUME NEW p \in Packets, NEW ttl, NEW ip, Forward(p, ttl, ip) PROVE Refusals'
    BY <1>2, <1>6 DEF Forward
  <1>7. ASSUME NEW p \in Packets, NEW ttl, NEW ip \in Hosts, Queue(p, ttl, ip) PROVE Refusals'
    <2>1. /\ pkt.pc = "idle" /\ swp.pc = "idle" /\ outcome[p] = {"expected"}
          /\ refusals' = refusals /\ swp' = swp /\ Become(p, "waiting")
      BY <1>7 DEF Queue, Arrives, Locked
    <2>2. PICK q \in Request : req' = Joined(q, ip, p) /\ pkt'.pc = "check"
      BY <1>1, <1>7 DEF Queue, QueuedFor, Fresh, PacketRec
    <2>3. \A r \in Request : Told(pkt', r) = 0 /\ Told(swp', r) = 0
                             /\ Told(pkt, r) = 0 /\ Told(swp, r) = 0
      BY <2>1, <2>2 DEF Told
    <2>4. \A r \in Request : \A x \in req'[r].packets :
            x = p \/ x \in req[r].packets
      BY <1>1, <2>2 DEF Joined, RequestRec
    <2>5. refusals[p] = 0
      BY <2>1 DEF Refusals
    <2>6. \A r \in Request : \A x \in req'[r].packets : refusals'[x] = 0 + 0
      BY <2>1, <2>3, <2>4, <2>5 DEF Refusals
    <2>7. \A x \in Packets : x # p => outcome'[x] = outcome[x]
      BY <1>1, <2>1 DEF Become
    <2>8. \A x \in Packets : refusals[x] # 2
      BY <2>1 DEF Refusals
    <2>9. \A r \in Request : \A x \in req'[r].packets :
            refusals'[x] = Told(pkt', r) + Told(swp', r)
      BY <2>3, <2>6
    <2>10. \A x \in Packets : outcome'[x] \in {{"expected"}, {"forwarded"}} => refusals'[x] = 0
      BY <2>1, <2>5, <2>7 DEF Refusals
    <2>11. refusals' \in [Packets -> 0..2] /\ \A x \in Packets : refusals'[x] # 2
      BY <2>1, <2>8 DEF Refusals
    <2> QED
      BY <2>9, <2>10, <2>11 DEF Refusals, Told
  <1>8. ASSUME NEW ip \in Hosts, ArpReply(ip) PROVE Refusals'
    <2>1. /\ pkt.pc = "idle" /\ swp.pc = "idle" /\ swp' = swp
          /\ refusals' = refusals /\ outcome' = outcome
      BY <1>8 DEF ArpReply, Locked
    <2>2. pkt'.pc # "destroy" /\ \A q \in Request : req'[q].packets = req[q].packets
      <3>1. CASE QueuedFor(ip) = {}
        BY <1>8, <2>1, <3>1 DEF ArpReply
      <3>2. CASE QueuedFor(ip) # {}
        <4>1. PICK q \in Request : pkt' = [pkt EXCEPT !.pc = "send", !.q = q]
                                   /\ req' = [req EXCEPT ![q].state = "unlinked"]
          BY <1>8, <3>2 DEF ArpReply, QueuedFor
        <4> QED
          BY <1>1, <4>1 DEF PacketRec, RequestRec
      <3> QED
        BY <3>1, <3>2
    <2>3. \A q \in Request : Told(pkt', q) = Told(pkt, q) /\ Told(swp', q) = Told(swp, q)
      BY <2>1, <2>2 DEF Told
    <2>4. \A p \in Packets : refusals[p] # 2
      BY <2>1 DEF Refusals
    <2> QED
      BY <2>1, <2>2, <2>3, <2>4, RefusalsFrame
  <1> QED
    BY <1>3, <1>4, <1>5, <1>6, <1>7, <1>8 DEF Arrival

LEMMA RefusalsNext ==
  ASSUME Safe, Refusals, [Next]_vars
  PROVE  Refusals'
  <1>1. CASE PacketThread
    BY <1>1, RefusalsPacketThread
  <1>2. CASE SweepThread
    BY <1>2, RefusalsSweepThread
  <1>3. CASE Arrival
    BY <1>3, RefusalsArrival
  <1>4. CASE Tick
    <2>1. /\ refusals' = refusals /\ outcome' = outcome /\ pkt' = pkt /\ swp' = swp
          /\ req' = [q \in Request |-> IF req[q].state = "queued"
                                         THEN [req[q] EXCEPT !.sent = Older(@, Long)]
                                         ELSE req[q]]
      BY <1>4 DEF Tick
    <2>2. \A q \in Request : req[q] \in RequestRec
      BY DEF Safe, Types
    <2>3. \A q \in Request : req'[q].packets = req[q].packets /\ req'[q].state = req[q].state
      BY <2>1, <2>2 DEF RequestRec
    <2>4. pkt.pc \in Handling => pkt.q \in Request
      BY DEF Safe, Positions
    <2>5. \A p \in Packets : refusals[p] = 2 =>
            pkt'.pc = "destroy" /\ (Freed(pkt.q)' \/ p \in req'[pkt'.q].packets)
      BY <2>1, <2>3, <2>4 DEF Refusals, Freed, Handling
    <2> QED
      BY <2>1, <2>3, <2>5, RefusalsFrame
  <1>5. CASE UNCHANGED vars
    <2>1. /\ req' = req /\ outcome' = outcome /\ refusals' = refusals
          /\ pkt' = pkt /\ swp' = swp
      BY <1>5 DEF vars
    <2> QED
      BY <2>1 DEF Refusals, Told, Freed
  <1> QED
    BY <1>1, <1>2, <1>3, <1>4, <1>5 DEF Next

LEMMA RefusalsAlways == Spec => []Refusals
  <1>1. Init => Refusals
    BY DEF Init, Refusals, NoRequest, Asleep, Told
  <1>2. Safe /\ Refusals /\ [Next]_vars => Refusals'
    BY RefusalsNext
  <1> QED
    BY <1>1, <1>2, SafeAlways, PTL DEF Spec

-----------------------------------------------------------------------------
(* The cache, the queue and the two threads have the values they should,   *)
(* no request is sent more than once too often, the queue holds exactly    *)
(* the requests that are neither unlinked nor freed, one for an address,   *)
(* and a packet that waits is in the list of one of them.                  *)
THEOREM QueueIsExact == Spec => []Inv
  <1>1. Safe /\ Refusals => Inv
    <2> SUFFICES ASSUME Safe, Refusals PROVE Inv
      OBVIOUS
    <2>1. Types /\ OneOutcome /\ Queued /\ WaitingIsKept
      BY DEF Safe
    <2>2. TypeOK
      <3>1. \A e \in Entry : /\ entries[e].valid \in BOOLEAN
                             /\ entries[e].ip \in Hosts \union {Self}
                             /\ entries[e].mac \in Hosts \union {Self}
                             /\ entries[e].age \in 0..(Timeout + 1)
        BY <2>1 DEF Types, EntryRec
      <3>2. \A q \in Request : /\ req[q].state \in {"unused", "queued", "unlinked", "freed"}
                               /\ req[q].ip \in Hosts \union {Self}
                               /\ req[q].sent \in 0..Long
                               /\ req[q].times_sent \in 0..(MaxSent + 1)
                               /\ req[q].packets \subseteq Packets
        BY <2>1 DEF Types, RequestRec
      <3>3. \A o \in AnyOutcome : {o} \in SUBSET (Outcome \union {"expected", "waiting"})
        BY DEF AnyOutcome
      <3>4. outcome \in [Packets -> SUBSET (Outcome \union {"expected", "waiting"})]
        BY <2>1, <3>3 DEF OneOutcome
      <3>5. pkt.q \in 0..MaxRequests /\ swp.q \in 0..MaxRequests
        BY <2>1 DEF Types, PacketRec, SweepRec
      <3>6. refusals \in [Packets -> 0..2]
        BY DEF Refusals
      <3> QED
        BY <2>1, <3>1, <3>2, <3>4, <3>5, <3>6 DEF TypeOK, Types
    <2>3. QueueExact
      <3>1. /\ DOMAIN requests = 1..Len(requests)
            /\ \A i \in 1..Len(requests) : requests[i] \in Request
        BY <2>1 DEF Types
      <3>2. \A i \in 1..Len(requests) : Member(requests, requests[i])
        BY DEF Member
      <3>3. \A q \in Request : req[q].state = "queued" <=> \E i \in DOMAIN requests : requests[i] = q
        BY <2>1, <3>1 DEF Queued, Member
      <3>4. \A i, j \in DOMAIN requests : i # j => req[requests[i]].ip # req[requests[j]].ip
        BY <2>1, <3>1, <3>2 DEF Queued, Distinct
      <3> QED
        BY <3>3, <3>4 DEF QueueExact
    <2> QED
      BY <2>1, <2>2, <2>3 DEF Inv
  <1> QED
    BY <1>1, SafeAlways, RefusalsAlways, PTL

(* No packet is both sent on and answered with an error, although the two  *)
(* threads look after its request without a common lock, and none is       *)
(* refused twice but by a packet thread that has yet to destroy the        *)
(* request.                                                                *)
THEOREM PacketsAreDecidedOnce == Spec => []DecidedOnce
  <1>1. Safe /\ Refusals => DecidedOnce
    <2> SUFFICES ASSUME Safe, Refusals, NEW p \in Packets
                 PROVE  /\ Cardinality(outcome[p]) = 1
                        /\ refusals[p] <= (IF pkt.pc = "destroy" THEN 2 ELSE 1)
                        /\ "forwarded" \in outcome[p] => refusals[p] = 0
      BY DEF DecidedOnce
    <2>1. PICK o \in AnyOutcome : outcome[p] = {o}
      BY DEF Safe, OneOutcome
    <2>2. Cardinality(outcome[p]) = 1
      BY <2>1, FS_Singleton
    <2>3. refusals[p] <= (IF pkt.pc = "destroy" THEN 2 ELSE 1)
      BY DEF Refusals
    <2>4. "forwarded" \in outcome[p] => refusals[p] = 0
      BY <2>1 DEF Refusals
    <2> QED
      BY <2>2, <2>3, <2>4
  <1> QED
    BY <1>1, SafeAlways, RefusalsAlways, PTL

(* There is no request in the queue for an address the cache would give.   *)
THEOREM AnsweredIsNotAsked == Spec => []KnownNotAsked
  <1>1. Safe => KnownNotAsked
    <2> SUFFICES ASSUME Safe PROVE KnownNotAsked
      OBVIOUS
    <2>1. /\ DOMAIN requests = 1..Len(requests)
          /\ \A i \in 1..Len(requests) : requests[i] \in Request /\ Member(requests, requests[i])
      BY DEF Safe, Types, Member
    <2>2. \A i \in 1..Len(requests) : \A e \in Entry :
            ~(entries[e].valid /\ entries[e].ip = req[requests[i]].ip)
      BY <2>1 DEF Safe, Queued, NotKnown
    <2> QED
      BY <2>1, <2>2, LookupFinds DEF KnownNotAsked
  <1> QED
    BY <1>1, SafeAlways, PTL
=============================================================================
