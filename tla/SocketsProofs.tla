--------------------------- MODULE SocketsProofs ---------------------------
(***************************************************************************)
(* What is proved of module Sockets, for any number of handlers, sockets,  *)
(* ports and peers: that assigned ports belong to sockets that use them,   *)
(* that a lookup is exact, and when connections share a port.              *)
(***************************************************************************)
EXTENDS Sockets, TLAPS, SequenceTheorems, WellFoundedInduction

(***************************************************************************)
(* The inductive invariant.                                                *)
(***************************************************************************)
Syn == [p : Port, r : Remotes]
Label == {"idle", "read", "bind", "accept", "spawn", "connect", "close", "wait", "exit", "gone"}

SockRec == [available : BOOLEAN, type : {"uninitialized", "active", "passive"},
            state : TcpState, creator : Handlers \union {Null}, lport : 0..LastPort,
            any : BOOLEAN, remote : Remotes \union {Null}, pending : Seq(Syn),
            flags : SUBSET {"app_connect", "app_close", "cleanup"}, kept : BOOLEAN]
HandlerRec == [pc : Label, s : Socket \union {Null}, p : 0..LastPort, c : Syn \union {Null},
               until : SUBSET TcpState, i : 1..(NSockets + 1), shut : BOOLEAN]

OtherTypes ==
  /\ found \in [s : Socket, p : Port, r : Remotes] \union {Null}
  /\ daemon \in {"running", "stopping", "stopped", "aborted", "undefined"}
  /\ turn \in 1..(NHandlers + 1)
  /\ calls \in 0..MaxCalls /\ syns \in 0..MaxSyns
  /\ rebound \subseteq Socket /\ spoiled \subseteq Port

Types == /\ sock \in [Socket -> SockRec]
         /\ port_table \in [Port -> Socket \union {Null}]
         /\ hnd \in [Handlers -> HandlerRec]
         /\ OtherTypes

(* An entry of the table: only an active socket has a remote address, and  *)
(* a local port with it.                                                   *)
Entry(S) == /\ S.available = TRUE <=> S.creator = Null
            /\ S.available = TRUE => S.type = "uninitialized"
            /\ S.remote # Null => S.type = "active" /\ S.lport # 0

(* What a handler that is in the middle of a call remembers.               *)
Doing(H) == /\ H.pc \in {"bind", "connect", "spawn", "accept", "close", "wait"} => H.s \in Socket
            /\ H.pc \in {"bind", "connect"} => H.p \in Port
            /\ H.pc = "spawn" => H.c \in Syn
            /\ H.pc # "gone" => H.i \in Socket

TableSafe == /\ Types /\ PortOwnerUsesIt
             /\ \A s \in Socket : Entry(sock[s])
             /\ \A h \in Handlers : Doing(hnd[h])

(* A socket that has its local port from BIND or CONNECT, and not from the *)
(* listener whose accept() made it, is the one port_table names, and a     *)
(* port that has been chosen is on no such socket and chosen by nobody     *)
(* else: as long as the port is not spoiled.                               *)
Owner(S) == S.lport # 0 /\ (S.any = TRUE \/ S.remote = Null)

Owners == \A s \in Socket :
   Owner(sock[s]) /\ sock[s].lport \notin spoiled => port_table[sock[s].lport] = s

Reserved == \A h \in Handlers, p \in Port \ spoiled :
   Chosen(h, p) => /\ \A s \in Socket : Owner(sock[s]) => sock[s].lport # p
                   /\ \A g \in Handlers \ {h} : ~Chosen(g, p)

Safe == TableSafe /\ Owners /\ Reserved

-----------------------------------------------------------------------------
(***************************************************************************)
(* Lookups, ports and entries.                                             *)
(***************************************************************************)
LEMMA HasLeast ==
  ASSUME NEW S \in SUBSET Nat, S # {}
  PROVE  \E m \in S : \A n \in S : m <= n
  <1>1. IsWellFoundedOn(OpToRel(<, Nat), Nat)
    BY NatLessThanWellFounded
  <1>2. PICK m \in S : \A n \in S : ~(<<n, m>> \in OpToRel(<, Nat))
    <2> HIDE DEF OpToRel
    <2> QED
      BY <1>1, WFMin
  <1>3. \A n \in S : ~(n < m)
    BY <1>2 DEF OpToRel
  <1> QED
    BY <1>3

LEMMA ConstantFacts ==
  /\ NHandlers \in Nat \ {0} /\ NSockets \in Nat \ {0} /\ EphemeralStart \in Nat \ {0}
  /\ LastPort \in Nat /\ LastPort \in Port /\ EphemeralStart <= LastPort
  /\ Null \notin Socket /\ Null \notin Handlers /\ Null \notin Port /\ Null \notin Remotes
  /\ Port \subseteq 0..LastPort /\ 0 \notin Port
  /\ EphemeralStart..LastPort \subseteq Port /\ MaxCalls \in Nat /\ MaxSyns \in Nat
  <1>1. /\ NHandlers \in Nat \ {0} /\ NSockets \in Nat \ {0} /\ EphemeralStart \in Nat \ {0}
        /\ LastPort \in Nat /\ EphemeralStart <= LastPort
        /\ MaxCalls \in Nat /\ MaxSyns \in Nat /\ Null \notin Nat /\ Null \notin Remotes
    BY SocketsAssumption
  <1>2. EphemeralStart <= LastPort /\ 1 <= EphemeralStart /\ 1 <= NSockets
    BY <1>1
  <1>3. Null \notin Socket /\ Null \notin Handlers /\ Null \notin Port
    BY <1>1 DEF Socket, Handlers, Port
  <1> QED
    BY <1>1, <1>2, <1>3 DEF Port

LEMMA SafeFacts ==
  ASSUME Safe
  PROVE  /\ Types /\ PortOwnerUsesIt /\ OtherTypes
         /\ sock \in [Socket -> SockRec] /\ hnd \in [Handlers -> HandlerRec]
         /\ port_table \in [Port -> Socket \union {Null}]
         /\ \A s \in Socket : sock[s] \in SockRec /\ Entry(sock[s])
         /\ \A h \in Handlers : hnd[h] \in HandlerRec /\ Doing(hnd[h])
  BY DEF Safe, TableSafe, Types

(* An entry after memset, and one that has just been allocated.            *)
LEMMA ClearedFacts ==
  /\ Cleared \in SockRec /\ Entry(Cleared) /\ ~Owner(Cleared) /\ Cleared.available = TRUE
  <1>0. 0 \in 0..LastPort /\ Null \notin Handlers /\ <<>> \in Seq(Syn)
    BY ConstantFacts
  <1>1. PICK z \in 0..LastPort : z = 0
    BY <1>0
  <1>2. PICK e \in Seq(Syn) : e = <<>>
    BY <1>0
  <1>3. Cleared = [available |-> TRUE, type |-> "uninitialized", state |-> "CLOSED",
                   creator |-> Null, lport |-> z, any |-> TRUE, remote |-> Null,
                   pending |-> e, flags |-> {}, kept |-> FALSE]
    BY <1>1, <1>2 DEF Cleared
  <1>4. /\ Cleared.available = TRUE /\ Cleared.type = "uninitialized" /\ Cleared.creator = Null
        /\ Cleared.lport = z /\ Cleared.remote = Null
    BY <1>3
  <1>5. Cleared \in SockRec
    BY <1>3 DEF SockRec, TcpState
  <1> QED
    BY <1>1, <1>4, <1>5 DEF Entry, Owner

LEMMA AllocatedFacts ==
  ASSUME Safe, NEW h \in Handlers, NEW s \in FirstAvailable
  PROVE  /\ s \in Socket /\ Allocated(h, s) \in SockRec /\ Entry(Allocated(h, s))
         /\ Allocated(h, s).available = FALSE
         /\ Allocated(h, s).lport = sock[s].lport /\ Allocated(h, s).any = sock[s].any
         /\ Allocated(h, s).remote = sock[s].remote
  <1>1. s \in Socket /\ sock[s].available = TRUE /\ sock[s] \in SockRec /\ Entry(sock[s])
    BY SafeFacts DEF FirstAvailable, SockRec
  <1>2. PICK no \in BOOLEAN : no = FALSE
    OBVIOUS
  <1>3. PICK y : y = [sock[s] EXCEPT !.available = no, !.creator = h, !.type = "uninitialized",
                                     !.state = "CLOSED", !.kept = no]
    OBVIOUS
  <1>4. Allocated(h, s) = y
    BY <1>2, <1>3 DEF Allocated
  <1>5. /\ y \in SockRec /\ y.available = no /\ y.creator = h /\ y.type = "uninitialized"
        /\ y.lport = sock[s].lport /\ y.any = sock[s].any /\ y.remote = sock[s].remote
    BY <1>1, <1>3 DEF SockRec, TcpState
  <1>6. sock[s].remote = Null
    BY <1>1 DEF Entry
  <1>7. Entry(y)
    BY <1>2, <1>5, <1>6, ConstantFacts DEF Entry
  <1> QED
    BY <1>1, <1>2, <1>4, <1>5, <1>7

(* Of the sockets that fit, there is one that chitcpd_lookup_socket takes. *)
LEMMA LookupFacts ==
  ASSUME NEW p, NEW r, NEW v \in Socket, Fits(v, p, r)
  PROVE  /\ Lookup(p, r) \in Socket /\ Fits(Lookup(p, r), p, r)
         /\ Wildcards(Lookup(p, r)) <= Wildcards(v)
  <1> DEFINE F == {s \in Socket : Fits(s, p, r)}
             W == {Wildcards(s) : s \in F}
             Best(s) == \A u \in F \ {s} : \/ Wildcards(s) < Wildcards(u)
                                           \/ Wildcards(s) = Wildcards(u) /\ s < u
  <1>1. \A s : Wildcards(s) \in Nat
    BY DEF Wildcards
  <1>2. F \subseteq Nat /\ v \in F
    BY DEF Socket
  <1>3. PICK w \in W : \A n \in W : w <= n
    <2>1. W \in SUBSET Nat /\ W # {}
      BY <1>1, <1>2
    <2> QED
      BY <2>1, HasLeast
  <1> DEFINE B == {s \in F : Wildcards(s) = w}
  <1>4. PICK b \in B : \A n \in B : b <= n
    <2>1. B \in SUBSET Nat /\ B # {}
      BY <1>2, <1>3
    <2> QED
      BY <2>1, HasLeast
  <1>5. Best(b)
    <2> SUFFICES ASSUME NEW u \in F \ {b}
                 PROVE  \/ Wildcards(b) < Wildcards(u)
                        \/ Wildcards(b) = Wildcards(u) /\ b < u
      OBVIOUS
    <2>1. w <= Wildcards(u) /\ Wildcards(b) = w /\ b \in Nat /\ u \in Nat
      BY <1>2, <1>3
    <2>2. CASE Wildcards(u) = w
      <3>1. b <= u
        BY <1>4, <2>2
      <3> QED
        BY <2>1, <2>2, <3>1
    <2>3. CASE Wildcards(u) # w
      BY <1>1, <2>1, <2>3
    <2> QED
      BY <2>2, <2>3
  <1>6. Lookup(p, r) = CHOOSE s \in F : Best(s)
    BY <1>2 DEF Lookup
  <1>7. b \in F
    OBVIOUS
  <1> HIDE DEF Best
  <1>8. Lookup(p, r) \in F /\ Best(Lookup(p, r))
    BY <1>5, <1>6, <1>7
  <1>9. Wildcards(Lookup(p, r)) <= Wildcards(v)
    <2>1. CASE v = Lookup(p, r)
      BY <1>1, <2>1
    <2>2. CASE v # Lookup(p, r)
      BY <1>1, <1>2, <1>8, <2>2 DEF Best
    <2> QED
      BY <2>1, <2>2
  <1> QED
    BY <1>8, <1>9

(* The packets of a connection reach it, or one with the same addresses.   *)
LEMMA SafeIsExact ==
  ASSUME Safe
  PROVE  LookupExact
  <1> SUFFICES ASSUME NEW s \in Socket, Connection(s), sock[s].remote # Null,
                      sock[s].any => sock[s].lport \notin spoiled
               PROVE  LET u == Lookup(sock[s].lport, sock[s].remote)
                      IN /\ Connection(u) /\ sock[u].lport = sock[s].lport
                         /\ sock[u].remote = sock[s].remote
    BY DEF LookupExact
  <1>1. PICK u : u = Lookup(sock[s].lport, sock[s].remote)
    OBVIOUS
  <1>2. Fits(s, sock[s].lport, sock[s].remote)
    BY DEF Fits, Connection
  <1>3. u \in Socket /\ Fits(u, sock[s].lport, sock[s].remote) /\ Wildcards(u) <= Wildcards(s)
    BY <1>1, <1>2, LookupFacts
  <1>4. Entry(sock[u]) /\ sock[s] \in SockRec /\ sock[u] \in SockRec
    BY <1>3, SafeFacts
  <1>5. InUse(u) /\ sock[u].lport = sock[s].lport /\ sock[u].remote \in {Null, sock[s].remote}
    BY <1>3 DEF Fits
  <1>6. sock[u].remote # Null
    <2>1. CASE sock[s].any = FALSE
      BY <1>3, <2>1 DEF Wildcards
    <2>2. CASE sock[s].any = TRUE
      <3> SUFFICES ASSUME sock[u].remote = Null
                   PROVE  FALSE
        OBVIOUS
      <3>1. sock[s].lport # 0 /\ sock[s].lport \notin spoiled
        BY <2>2, SafeFacts DEF Entry
      <3>2. Owner(sock[s]) /\ Owner(sock[u])
        BY <1>5, <2>2, <3>1 DEF Owner
      <3>3. port_table[sock[s].lport] = s /\ port_table[sock[s].lport] = u
        BY <1>3, <1>5, <3>1, <3>2 DEF Safe, Owners
      <3> QED
        BY <3>3
    <2> QED
      BY <1>4, <2>1, <2>2 DEF SockRec
  <1>7. sock[u].type = "active" /\ sock[u].remote = sock[s].remote
    BY <1>4, <1>5, <1>6 DEF Entry
  <1> QED
    BY <1>1, <1>5, <1>7 DEF Connection

(* Two connections on one port that is not spoiled are one.                *)
LEMMA SafeIsApart ==
  ASSUME Safe
  PROVE  ConnectionsApart
  <1> SUFFICES ASSUME NEW s \in Socket, NEW u \in Socket, Originated(s), Originated(u), s # u,
                      sock[s].lport = sock[u].lport, sock[s].lport \notin spoiled
               PROVE  FALSE
    BY DEF ConnectionsApart
  <1>1. /\ Entry(sock[s]) /\ Entry(sock[u]) /\ sock[s] \in SockRec /\ sock[u] \in SockRec
    BY SafeFacts
  <1>2. Owner(sock[s]) /\ Owner(sock[u])
    BY <1>1 DEF Owner, Originated, Entry, SockRec
  <1>3. port_table[sock[s].lport] = s /\ port_table[sock[u].lport] = u
    BY <1>2 DEF Safe, Owners
  <1> QED
    BY <1>3

LEMMA SafeIsInv ==
  ASSUME Safe
  PROVE  Inv
  <1>1. Types /\ PortOwnerUsesIt
    BY SafeFacts
  <1>2. ASSUME NEW s \in Socket
        PROVE  /\ sock[s].available \in BOOLEAN /\ sock[s].kept \in BOOLEAN
               /\ sock[s].any \in BOOLEAN
               /\ sock[s].type \in {"uninitialized", "active", "passive"}
               /\ sock[s].state \in TcpState
               /\ sock[s].creator \in Handlers \union {Null}
               /\ sock[s].lport \in 0..LastPort
               /\ sock[s].remote \in Remotes \union {Null}
               /\ sock[s].flags \subseteq {"app_connect", "app_close", "cleanup"}
               /\ InUse(s) <=> sock[s].creator # Null
    <2>1. sock[s] \in SockRec /\ Entry(sock[s])
      BY SafeFacts
    <2> QED
      BY <2>1 DEF SockRec, Entry, InUse
  <1>3. \A h \in Handlers : hnd[h].s \in Socket \union {Null} /\ hnd[h].i \in 1..(NSockets + 1)
    BY SafeFacts DEF HandlerRec
  <1> QED
    BY <1>1, <1>2, <1>3 DEF Inv, TypeOK, Types, OtherTypes

-----------------------------------------------------------------------------
(***************************************************************************)
(* Steps of each kind.                                                     *)
(***************************************************************************)
(* No socket gets a port, and only spoiled ports lose their owners.        *)
LEMMA ApartFrame ==
  ASSUME Safe, spoiled \subseteq spoiled',
         \A s \in Socket : Owner(sock'[s]) /\ sock'[s].lport \notin spoiled' =>
           /\ Owner(sock[s]) /\ sock'[s].lport = sock[s].lport
           /\ port_table'[sock[s].lport] = port_table[sock[s].lport],
         \A g \in Handlers : hnd'[g] = hnd[g] \/ hnd'[g].pc \notin {"bind", "connect"}
  PROVE  Owners' /\ Reserved'
  <1>1. Owners /\ Reserved
    BY DEF Safe
  <1>2. Owners'
    <2> SUFFICES ASSUME NEW s \in Socket, Owner(sock'[s]), sock'[s].lport \notin spoiled'
                 PROVE  port_table'[sock'[s].lport] = s
      BY DEF Owners, Owner
    <2>1. /\ Owner(sock[s]) /\ sock'[s].lport = sock[s].lport
          /\ port_table'[sock[s].lport] = port_table[sock[s].lport]
      OBVIOUS
    <2> QED
      BY <1>1, <2>1 DEF Owners
  <1>3. ASSUME NEW g \in Handlers, NEW p \in Port, Chosen(g, p)'
        PROVE  Chosen(g, p)
    BY <1>3 DEF Chosen
  <1>4. Reserved'
    <2> SUFFICES ASSUME NEW h \in Handlers, NEW p \in Port \ spoiled', Chosen(h, p)'
                 PROVE  /\ \A s \in Socket : Owner(sock'[s]) => sock'[s].lport # p
                        /\ \A g \in Handlers \ {h} : ~Chosen(g, p)'
      BY DEF Reserved, Owner
    <2>1. Chosen(h, p) /\ p \in Port \ spoiled
      BY <1>3
    <2>2. /\ \A s \in Socket : Owner(sock[s]) => sock[s].lport # p
          /\ \A g \in Handlers \ {h} : ~Chosen(g, p)
      BY <1>1, <2>1 DEF Reserved
    <2>3. ASSUME NEW s \in Socket, Owner(sock'[s])
          PROVE  sock'[s].lport # p
      BY <2>2, <2>3
    <2> QED
      BY <1>3, <2>2, <2>3
  <1> QED
    BY <1>2, <1>4

(* Sockets keep their ports.                                               *)
LEMMA QuietStep ==
  ASSUME Safe, sock' \in [Socket -> SockRec],
         \A s \in Socket : /\ Entry(sock'[s])
                           /\ sock'[s].lport = sock[s].lport /\ sock'[s].any = sock[s].any
                           /\ sock'[s].remote = sock[s].remote
                           /\ sock[s].available = FALSE => sock'[s].available = FALSE,
         port_table' = port_table, rebound' = rebound, spoiled' = spoiled, OtherTypes',
         hnd' \in [Handlers -> HandlerRec],
         \A g \in Handlers : \/ hnd'[g] = hnd[g]
                             \/ Doing(hnd'[g]) /\ hnd'[g].pc \notin {"bind", "connect"}
  PROVE  Safe'
  <1>1. Owners' /\ Reserved'
    <2>1. \A s \in Socket : Owner(sock'[s]) => Owner(sock[s])
      BY DEF Owner
    <2> QED
      BY <2>1, ApartFrame
  <1>2. PortOwnerUsesIt'
    <2> SUFFICES ASSUME NEW p \in Port, port_table[p] \notin rebound \union {Null}
                 PROVE  /\ sock'[port_table[p]].available = FALSE
                        /\ sock'[port_table[p]].lport = p
      BY DEF PortOwnerUsesIt, InUse
    <2>1. PICK s \in Socket : s = port_table[p]
      BY SafeFacts
    <2>2. InUse(s) /\ sock[s].lport = p /\ sock[s] \in SockRec
      BY <2>1, SafeFacts DEF PortOwnerUsesIt
    <2> QED
      BY <2>1, <2>2 DEF InUse, SockRec
  <1>3. \A g \in Handlers : Doing(hnd'[g])
    BY SafeFacts
  <1> QED
    BY <1>1, <1>2, <1>3, SafeFacts DEF Safe, TableSafe, Types

(* One handler goes on, the tables are as they were.                       *)
LEMMA HandlerStep ==
  ASSUME Safe, NEW h \in Handlers, NEW z \in HandlerRec, hnd' = [hnd EXCEPT ![h] = z],
         Doing(z), z.pc \notin {"bind", "connect"} \/ (z.pc = hnd[h].pc /\ z.p = hnd[h].p),
         sock' = sock, port_table' = port_table, rebound' = rebound, spoiled' = spoiled,
         OtherTypes'
  PROVE  Safe'
  <1>1. hnd' \in [Handlers -> HandlerRec] /\ hnd'[h] = z
        /\ \A g \in Handlers \ {h} : hnd'[g] = hnd[g]
    BY SafeFacts
  <1>2. CASE z.pc \notin {"bind", "connect"}
    BY <1>1, <1>2, SafeFacts, QuietStep
  <1>3. CASE z.pc = hnd[h].pc /\ z.p = hnd[h].p
    <2>1. Owners' /\ PortOwnerUsesIt'
      BY SafeFacts DEF Safe, Owners, Owner, PortOwnerUsesIt, InUse
    <2>2. \A g \in Handlers, p \in Port : Chosen(g, p)' <=> Chosen(g, p)
      BY <1>1, <1>3 DEF Chosen
    <2>3. Reserved'
      BY <2>2 DEF Safe, Reserved, Owner
    <2>4. \A g \in Handlers : Doing(hnd'[g])
      BY <1>1, SafeFacts
    <2> QED
      BY <1>1, <2>1, <2>3, <2>4, SafeFacts DEF Safe, TableSafe, Types
  <1> QED
    BY <1>2, <1>3

(* One entry changes, but not its addresses.                               *)
LEMMA EntryStep ==
  ASSUME Safe, NEW s \in Socket, NEW y \in SockRec, sock' = [sock EXCEPT ![s] = y],
         Entry(y), y.lport = sock[s].lport, y.any = sock[s].any, y.remote = sock[s].remote,
         sock[s].available = FALSE => y.available = FALSE,
         port_table' = port_table, rebound' = rebound, spoiled' = spoiled, OtherTypes',
         hnd' \in [Handlers -> HandlerRec],
         \A g \in Handlers : \/ hnd'[g] = hnd[g]
                             \/ Doing(hnd'[g]) /\ hnd'[g].pc \notin {"bind", "connect"}
  PROVE  Safe'
  <1>1. /\ sock' \in [Socket -> SockRec] /\ sock'[s] = y
        /\ \A u \in Socket \ {s} : sock'[u] = sock[u]
    BY SafeFacts
  <1>2. \A u \in Socket : /\ Entry(sock'[u])
                          /\ sock'[u].lport = sock[u].lport /\ sock'[u].any = sock[u].any
                          /\ sock'[u].remote = sock[u].remote
                          /\ sock[u].available = FALSE => sock'[u].available = FALSE
    BY <1>1, SafeFacts
  <1> QED
    BY <1>1, <1>2, QuietStep

(* An entry is freed.                                                      *)
LEMMA FreeStep ==
  ASSUME Safe, NEW s \in Socket, FreeEntry(s), OtherTypes',
         hnd' \in [Handlers -> HandlerRec],
         \A g \in Handlers : \/ hnd'[g] = hnd[g]
                             \/ Doing(hnd'[g]) /\ hnd'[g].pc \notin {"bind", "connect"}
  PROVE  Safe'
  <1>1. sock[s] \in SockRec /\ Entry(sock[s])
    BY SafeFacts
  <1>2. PICK q : q = LocalPort(s)
    OBVIOUS
  <1>3. /\ sock' = [sock EXCEPT ![s] = Cleared]
        /\ port_table' = [port_table EXCEPT ![q] = Null]
        /\ spoiled' = IF port_table[q] \in {Null, s} THEN spoiled ELSE spoiled \union {q}
        /\ rebound' = rebound
    BY <1>2 DEF FreeEntry, PortsWithout
  <1>4. q \in Port
    BY <1>1, <1>2, ConstantFacts DEF SockRec, Port, LocalPort
  <1>5. /\ sock' \in [Socket -> SockRec] /\ sock'[s] = Cleared
        /\ \A u \in Socket \ {s} : sock'[u] = sock[u]
        /\ port_table' \in [Port -> Socket \union {Null}] /\ port_table'[q] = Null
        /\ \A p \in Port \ {q} : port_table'[p] = port_table[p]
    BY <1>3, <1>4, SafeFacts, ClearedFacts
  <1>6. \A u \in Socket : Entry(sock'[u])
    BY <1>5, SafeFacts, ClearedFacts
  <1>7. PortOwnerUsesIt'
    <2> SUFFICES ASSUME NEW p \in Port, port_table'[p] \notin rebound \union {Null}
                 PROVE  /\ sock'[port_table'[p]].available = FALSE
                        /\ sock'[port_table'[p]].lport = p
      BY <1>3 DEF PortOwnerUsesIt, InUse
    <2>1. p # q /\ port_table'[p] = port_table[p]
      BY <1>5
    <2>2. PICK u \in Socket : u = port_table[p]
      BY <2>1, SafeFacts
    <2>3. InUse(u) /\ sock[u].lport = p /\ sock[u] \in SockRec
      BY <2>1, <2>2, SafeFacts DEF PortOwnerUsesIt
    <2>4. u # s
      BY <1>2, <2>1, <2>3, ConstantFacts DEF LocalPort
    <2> QED
      BY <1>5, <2>1, <2>2, <2>3, <2>4 DEF InUse, SockRec
  <1>8. Owners' /\ Reserved'
    <2>1. ASSUME NEW u \in Socket, Owner(sock'[u]), sock'[u].lport \notin spoiled'
          PROVE  /\ Owner(sock[u]) /\ sock'[u].lport = sock[u].lport
                 /\ port_table'[sock[u].lport] = port_table[sock[u].lport]
      <3>1. u # s /\ sock'[u] = sock[u]
        BY <1>5, <2>1, ClearedFacts
      <3>2. sock[u].lport \notin spoiled
        BY <1>3, <2>1, <3>1
      <3>3. port_table[sock[u].lport] = u
        BY <2>1, <3>1, <3>2 DEF Safe, Owners
      <3>4. sock[u].lport # q
        BY <1>3, <2>1, <3>1, <3>3, ConstantFacts
      <3>5. sock[u].lport \in Port
        BY <2>1, <3>1, SafeFacts, ConstantFacts DEF Owner, SockRec, Port
      <3> QED
        BY <1>5, <2>1, <3>1, <3>4, <3>5
    <2>2. spoiled \subseteq spoiled'
      BY <1>3
    <2>3. \A g \in Handlers : hnd'[g] = hnd[g] \/ hnd'[g].pc \notin {"bind", "connect"}
      OBVIOUS
    <2> QED
      BY <2>1, <2>2, <2>3, ApartFrame
  <1>9. \A g \in Handlers : Doing(hnd'[g])
    BY SafeFacts
  <1> QED
    BY <1>5, <1>6, <1>7, <1>8, <1>9, SafeFacts DEF Safe, TableSafe, Types

-----------------------------------------------------------------------------
(***************************************************************************)
(* What a handler goes on with, as one change of its record.               *)
(***************************************************************************)
LEMMA IdleFacts ==
  ASSUME Safe, NEW h \in Handlers
  PROVE  LET z == [Waiting EXCEPT !.shut = hnd[h].shut]
         IN z \in HandlerRec /\ Doing(z) /\ z.pc = "idle"
  <1>0. PICK w \in 0..LastPort : w = 0
    BY ConstantFacts
  <1>1. PICK j \in 1..(NSockets + 1) : j = 1 /\ j \in Socket
    BY ConstantFacts DEF Socket
  <1>2. Waiting = [pc |-> "idle", s |-> Null, p |-> w, c |-> Null, until |-> {},
                   i |-> j, shut |-> FALSE]
    BY <1>0, <1>1 DEF Waiting
  <1>3. PICK b \in BOOLEAN : b = hnd[h].shut
    BY SafeFacts DEF HandlerRec
  <1>4. PICK z : z = [Waiting EXCEPT !.shut = b]
    OBVIOUS
  <1>5. z \in HandlerRec /\ z.pc = "idle" /\ z.i = j
    BY <1>2, <1>4 DEF HandlerRec, Label
  <1>6. Doing(z)
    BY <1>1, <1>5 DEF Doing
  <1> QED
    BY <1>3, <1>4, <1>5, <1>6

(* The handlers after one of them has moved.                               *)
LEMMA HandlersAfter ==
  ASSUME Safe, NEW h \in Handlers, NEW z \in HandlerRec, hnd' = [hnd EXCEPT ![h] = z],
         Doing(z), z.pc \notin {"bind", "connect"}
  PROVE  /\ hnd' \in [Handlers -> HandlerRec]
         /\ \A g \in Handlers : \/ hnd'[g] = hnd[g]
                                \/ Doing(hnd'[g]) /\ hnd'[g].pc \notin {"bind", "connect"}
  <1>1. hnd'[h] = z /\ \A g \in Handlers \ {h} : hnd'[g] = hnd[g]
    BY SafeFacts
  <1>2. hnd' \in [Handlers -> HandlerRec]
    BY SafeFacts
  <1> QED
    BY <1>1, <1>2

LEMMA Goes ==
  ASSUME Safe, NEW h \in Handlers, NEW l \in Label \ {"bind", "connect", "spawn", "gone"},
         NEW s \in Socket, Goto(h, l, s), hnd[h].pc # "gone"
  PROVE  \E z \in HandlerRec : hnd' = [hnd EXCEPT ![h] = z] /\ Doing(z) /\ z.pc = l
  <1>1. hnd[h] \in HandlerRec /\ Doing(hnd[h]) /\ hnd \in [Handlers -> HandlerRec]
    BY SafeFacts
  <1>2. PICK z : z = [hnd[h] EXCEPT !.pc = l, !.s = s]
    OBVIOUS
  <1>3. z \in HandlerRec /\ z.pc = l /\ z.s = s /\ z.i = hnd[h].i
    BY <1>1, <1>2 DEF HandlerRec
  <1>4. hnd' = [hnd EXCEPT ![h] = z]
    BY <1>1, <1>2 DEF Goto
  <1>5. Doing(z)
    BY <1>1, <1>3 DEF Doing
  <1> QED
    BY <1>3, <1>4, <1>5

LEMMA Waits ==
  ASSUME Safe, NEW h \in Handlers, NEW states \in SUBSET TcpState,
         NEW s \in Socket, Wait(h, s, states), hnd[h].pc # "gone"
  PROVE  \E z \in HandlerRec : hnd' = [hnd EXCEPT ![h] = z] /\ Doing(z) /\ z.pc = "wait"
  <1>1. hnd[h] \in HandlerRec /\ Doing(hnd[h]) /\ hnd \in [Handlers -> HandlerRec]
    BY SafeFacts
  <1>2. PICK z : z = [hnd[h] EXCEPT !.pc = "wait", !.s = s, !.until = states]
    OBVIOUS
  <1>3. z \in HandlerRec /\ z.pc = "wait" /\ z.s = s /\ z.i = hnd[h].i
    BY <1>1, <1>2 DEF HandlerRec, Label
  <1>4. hnd' = [hnd EXCEPT ![h] = z]
    BY <1>1, <1>2 DEF Wait
  <1>5. Doing(z)
    BY <1>1, <1>3 DEF Doing
  <1> QED
    BY <1>3, <1>4, <1>5

LEMMA Idles ==
  ASSUME Safe, NEW h \in Handlers, Idle(h)
  PROVE  \E z \in HandlerRec : hnd' = [hnd EXCEPT ![h] = z] /\ Doing(z) /\ z.pc = "idle"
  <1>1. PICK z : z = [Waiting EXCEPT !.shut = hnd[h].shut]
    OBVIOUS
  <1>2. z \in HandlerRec /\ Doing(z) /\ z.pc = "idle"
    BY <1>1, IdleFacts
  <1> QED
    BY <1>1, <1>2 DEF Idle

LEMMA IdleStep ==
  ASSUME Safe, NEW h \in Handlers, Idle(h), sock' = sock, port_table' = port_table,
         rebound' = rebound, spoiled' = spoiled, OtherTypes'
  PROVE  Safe'
  <1>1. PICK z \in HandlerRec : hnd' = [hnd EXCEPT ![h] = z] /\ Doing(z) /\ z.pc = "idle"
    BY Idles
  <1>2. z.pc \notin {"bind", "connect"}
    BY <1>1
  <1> QED
    BY <1>1, <1>2, HandlerStep

(* Nothing changes that is told of here.                                   *)
LEMMA OtherStep ==
  ASSUME Safe, UNCHANGED <<sock, port_table, hnd, history>>, OtherTypes'
  PROVE  Safe'
  <1>1. /\ sock' = sock /\ port_table' = port_table /\ hnd' = hnd
        /\ rebound' = rebound /\ spoiled' = spoiled
    BY DEF history
  <1>2. /\ sock' \in [Socket -> SockRec] /\ hnd' \in [Handlers -> HandlerRec]
        /\ \A s \in Socket : /\ Entry(sock'[s])
                             /\ sock'[s].lport = sock[s].lport /\ sock'[s].any = sock[s].any
                             /\ sock'[s].remote = sock[s].remote
                             /\ sock[s].available = FALSE => sock'[s].available = FALSE
        /\ \A g \in Handlers : \/ hnd'[g] = hnd[g]
                               \/ Doing(hnd'[g]) /\ hnd'[g].pc \notin {"bind", "connect"}
    BY <1>1, SafeFacts
  <1> QED
    BY <1>1, <1>2, QuietStep

(***************************************************************************)
(* Handlers that change nothing but what they do.                          *)
(***************************************************************************)
LEMMA HandledFacts ==
  ASSUME Safe, NEW h \in Handlers, Handled(h)
  PROVE  calls' \in 0..MaxCalls /\ hnd[h].pc = "read"
  BY SafeFacts, ConstantFacts DEF Handled, Ready, At, OtherTypes

LEMMA RequestSafe ==
  ASSUME Safe, NEW h \in Handlers, Request(h)
  PROVE  Safe'
  <1>1. hnd[h] \in HandlerRec /\ Doing(hnd[h]) /\ hnd \in [Handlers -> HandlerRec]
    BY SafeFacts
  <1>2. PICK z : z = [hnd[h] EXCEPT !.pc = "read"]
    OBVIOUS
  <1>3. z \in HandlerRec /\ z.pc = "read" /\ z.i = hnd[h].i
    BY <1>1, <1>2 DEF HandlerRec, Label
  <1>4. Doing(z) /\ z.pc \notin {"bind", "connect"}
    BY <1>1, <1>3 DEF Doing, Request, Ready, At
  <1>5. hnd' = [hnd EXCEPT ![h] = z] /\ sock' = sock /\ port_table' = port_table
    BY <1>1, <1>2 DEF Request
  <1>6. OtherTypes' /\ rebound' = rebound /\ spoiled' = spoiled
    BY SafeFacts DEF Request, OtherTypes, history
  <1> QED
    BY <1>3, <1>4, <1>5, <1>6, HandlerStep

LEMMA ExitSafe ==
  ASSUME Safe, NEW h \in Handlers, Exit(h)
  PROVE  Safe'
  <1>1. hnd[h] \in HandlerRec /\ Doing(hnd[h]) /\ hnd \in [Handlers -> HandlerRec]
    BY SafeFacts
  <1>2. PICK z : z = [hnd[h] EXCEPT !.pc = "exit"]
    OBVIOUS
  <1>3. z \in HandlerRec /\ z.pc = "exit" /\ z.i = hnd[h].i
    BY <1>1, <1>2 DEF HandlerRec, Label
  <1>4. Doing(z) /\ z.pc \notin {"bind", "connect"}
    BY <1>1, <1>3 DEF Doing, Exit, Ready, At
  <1>5. hnd' = [hnd EXCEPT ![h] = z] /\ sock' = sock /\ port_table' = port_table
    BY <1>1, <1>2 DEF Exit
  <1>6. OtherTypes' /\ rebound' = rebound /\ spoiled' = spoiled
    BY SafeFacts DEF Exit, OtherTypes, history
  <1> QED
    BY <1>3, <1>4, <1>5, <1>6, HandlerStep

LEMMA RefuseSafe ==
  ASSUME Safe, NEW h \in Handlers, Refuse(h)
  PROVE  Safe'
  <1>1. /\ Idle(h) /\ sock' = sock /\ port_table' = port_table /\ OtherTypes'
        /\ rebound' = rebound /\ spoiled' = spoiled
    BY SafeFacts DEF Refuse, OtherTypes, history
  <1> QED
    BY <1>1, IdleStep

LEMMA WokenSafe ==
  ASSUME Safe, NEW h \in Handlers, Woken(h)
  PROVE  Safe'
  <1>1. /\ Idle(h) /\ sock' = sock /\ port_table' = port_table /\ OtherTypes'
        /\ rebound' = rebound /\ spoiled' = spoiled
    BY SafeFacts DEF Woken, OtherTypes, history
  <1> QED
    BY <1>1, IdleStep

LEMMA AcceptSafe ==
  ASSUME Safe, NEW h \in Handlers, NEW s \in Socket, Accept(h, s)
  PROVE  Safe'
  <1>1. Goto(h, "accept", s) /\ hnd[h].pc = "read" /\ calls' \in 0..MaxCalls
    BY HandledFacts DEF Accept
  <1>2. /\ sock' = sock /\ port_table' = port_table /\ OtherTypes'
        /\ rebound' = rebound /\ spoiled' = spoiled
    BY <1>1, SafeFacts DEF Accept, OtherTypes, history
  <1>3. "accept" \in Label \ {"bind", "connect", "spawn", "gone"}
    BY DEF Label
  <1>4. PICK z \in HandlerRec : /\ hnd' = [hnd EXCEPT ![h] = z] /\ Doing(z)
                                /\ z.pc \notin {"bind", "connect"}
    BY <1>1, <1>3, Goes
  <1> QED
    BY <1>2, <1>4, HandlerStep

LEMMA CloseSafe ==
  ASSUME Safe, NEW h \in Handlers, NEW s \in Socket, Close(h, s)
  PROVE  Safe'
  <1>1. Goto(h, "close", s) /\ hnd[h].pc = "read" /\ calls' \in 0..MaxCalls
    BY HandledFacts DEF Close
  <1>2. /\ sock' = sock /\ port_table' = port_table /\ OtherTypes'
        /\ rebound' = rebound /\ spoiled' = spoiled
    BY <1>1, SafeFacts DEF Close, OtherTypes, history
  <1>3. "close" \in Label \ {"bind", "connect", "spawn", "gone"}
    BY DEF Label
  <1>4. PICK z \in HandlerRec : /\ hnd' = [hnd EXCEPT ![h] = z] /\ Doing(z)
                                /\ z.pc \notin {"bind", "connect"}
    BY <1>1, <1>3, Goes
  <1> QED
    BY <1>2, <1>4, HandlerStep

(* What a handler takes for granted does not hold.                         *)
LEMMA UndefinedSafe ==
  ASSUME Safe, Undefined, calls' \in 0..MaxCalls
  PROVE  Safe'
  <1>1. UNCHANGED <<sock, port_table, hnd, history>> /\ OtherTypes'
    BY SafeFacts DEF Undefined, OtherTypes, history
  <1> QED
    BY <1>1, OtherStep

LEMMA ListenActiveSafe ==
  ASSUME Safe, NEW h \in Handlers, NEW s \in Socket, ListenActive(h, s)
  PROVE  Safe'
  BY HandledFacts, UndefinedSafe DEF ListenActive

LEMMA TooLateSafe ==
  ASSUME Safe, NEW h \in Handlers, TooLate(h)
  PROVE  Safe'
  <1>1. Undefined /\ calls' \in 0..MaxCalls
    BY SafeFacts DEF TooLate, OtherTypes
  <1> QED
    BY <1>1, UndefinedSafe

(* The port chitcpd_find_ephemeral_port returns.                           *)
LEMMA EphemeralPortFacts ==
  /\ EphemeralPort \in EphemeralStart..LastPort
  /\ port_table[EphemeralPort] = Null \/ NoPortIsFree
  <1> DEFINE free == {p \in EphemeralStart..LastPort : port_table[p] = Null}
  <1>1. CASE free = {}
    <2>1. EphemeralPort = LastPort
      BY <1>1 DEF EphemeralPort
    <2> QED
      BY <1>1, <2>1, ConstantFacts DEF NoPortIsFree
  <1>2. CASE free # {}
    <2>1. free \in SUBSET Nat
      BY ConstantFacts
    <2>2. \E p \in free : \A q \in free : p <= q
      BY <1>2, <2>1, HasLeast
    <2>3. EphemeralPort = CHOOSE p \in free : \A q \in free : p <= q
      BY <1>2 DEF EphemeralPort
    <2>4. EphemeralPort \in free
      BY <2>2, <2>3
    <2> QED
      BY <2>4
  <1> QED
    BY <1>1, <1>2

(* A port is chosen: nobody has it, unless it is spoiled now.              *)
LEMMA ChooseSafe ==
  ASSUME Safe, NEW h \in Handlers, NEW s \in Socket, NEW p \in Port,
         NEW label \in {"bind", "connect"}, Choose(h, s, p, label), hnd[h].pc = "read",
         calls' \in 0..MaxCalls, p \notin spoiled' => port_table[p] = Null
  PROVE  Safe'
  <1>1. hnd[h] \in HandlerRec /\ Doing(hnd[h]) /\ hnd \in [Handlers -> HandlerRec]
    BY SafeFacts
  <1>2. /\ sock' = sock /\ port_table' = port_table /\ rebound' = rebound
        /\ \/ /\ spoiled' = spoiled
              /\ ~\E g \in Handlers : Chosen(g, p)
           \/ spoiled' = spoiled \union {p}
    BY DEF Choose
  <1>3. OtherTypes' /\ spoiled \subseteq spoiled'
    BY <1>2, SafeFacts DEF Choose, OtherTypes
  <1>4. PICK z : z = [hnd[h] EXCEPT !.pc = label, !.s = s, !.p = p]
    OBVIOUS
  <1>5. p \in 0..LastPort
    BY ConstantFacts
  <1>6. z \in HandlerRec /\ z.pc = label /\ z.i = hnd[h].i /\ z.s = s /\ z.p = p
    BY <1>1, <1>4, <1>5 DEF HandlerRec, Label
  <1>7. Doing(z)
    BY <1>1, <1>6 DEF Doing
  <1>8. hnd' = [hnd EXCEPT ![h] = z]
    BY <1>1, <1>4 DEF Choose
  <1>9. /\ hnd'[h] = z /\ \A g \in Handlers \ {h} : hnd'[g] = hnd[g]
        /\ hnd' \in [Handlers -> HandlerRec]
    BY <1>1, <1>6, <1>8
  <1>10. /\ \A q : Chosen(h, q)' <=> q = p
         /\ \A g \in Handlers \ {h} : \A q : Chosen(g, q)' <=> Chosen(g, q)
    BY <1>6, <1>9 DEF Chosen
  <1>11. Owners /\ Reserved
    BY DEF Safe
  <1>12. Owners'
    BY <1>2, <1>3, <1>11 DEF Owners, Owner
  <1>13. Reserved'
    <2> SUFFICES ASSUME NEW g \in Handlers, NEW q \in Port \ spoiled', Chosen(g, q)'
                 PROVE  /\ \A u \in Socket : Owner(sock[u]) => sock[u].lport # q
                        /\ \A k \in Handlers \ {g} : ~Chosen(k, q)'
      BY <1>2 DEF Reserved, Owner
    <2>1. CASE g = h
      <3>1. q = p /\ p \notin spoiled /\ port_table[p] = Null
        BY <1>3, <1>10, <2>1
      <3>2. ASSUME NEW u \in Socket, Owner(sock[u])
            PROVE  sock[u].lport # p
        BY <1>11, <3>1, <3>2, ConstantFacts DEF Owners
      <3>3. \A k \in Handlers : ~Chosen(k, p)
        BY <1>2, <3>1
      <3> QED
        BY <1>10, <2>1, <3>1, <3>2, <3>3
    <2>2. CASE g # h
      <3>1. Chosen(g, q) /\ q \in Port \ spoiled
        BY <1>3, <1>10, <2>2
      <3>2. /\ \A u \in Socket : Owner(sock[u]) => sock[u].lport # q
            /\ \A k \in Handlers \ {g} : ~Chosen(k, q)
        BY <1>11, <3>1 DEF Reserved
      <3>3. q # p
        BY <1>2, <3>1
      <3> QED
        BY <1>10, <3>2, <3>3
    <2> QED
      BY <2>1, <2>2
  <1>14. PortOwnerUsesIt' /\ \A u \in Socket : Entry(sock'[u])
    BY <1>2, SafeFacts DEF PortOwnerUsesIt, InUse
  <1>15. \A g \in Handlers : Doing(hnd'[g])
    BY <1>7, <1>9, SafeFacts
  <1> QED
    BY <1>2, <1>3, <1>9, <1>12, <1>13, <1>14, <1>15, SafeFacts DEF Safe, TableSafe, Types

LEMMA BindSafe ==
  ASSUME Safe, NEW h \in Handlers, NEW s \in Socket, NEW p \in Port, Bind(h, s, p)
  PROVE  Safe'
  <1>1. Choose(h, s, p, "bind") /\ port_table[p] = Null /\ Handled(h)
    BY DEF Bind
  <1>2. hnd[h].pc = "read" /\ calls' \in 0..MaxCalls
    BY <1>1, HandledFacts
  <1>3. "bind" \in {"bind", "connect"}
    OBVIOUS
  <1> QED
    BY <1>1, <1>2, <1>3, ChooseSafe

LEMMA ConnectSafe ==
  ASSUME Safe, NEW h \in Handlers, NEW s \in Socket, Connect(h, s)
  PROVE  Safe'
  <1>1. Handled(h) /\ Choose(h, s, EphemeralPort, "connect")
    BY DEF Connect
  <1>2. hnd[h].pc = "read" /\ calls' \in 0..MaxCalls
    BY <1>1, HandledFacts
  <1>3. PICK p \in Port : p = EphemeralPort
    BY EphemeralPortFacts, ConstantFacts
  <1>4. Choose(h, s, p, "connect") /\ "connect" \in {"bind", "connect"}
    BY <1>1, <1>3
  <1>5. p \notin spoiled' => port_table[p] = Null
    BY <1>3, <1>4, EphemeralPortFacts DEF Choose
  <1> QED
    BY <1>2, <1>4, <1>5, ChooseSafe

(* The daemon ends, and a SYN comes.                                       *)
LEMMA ShutdownHandlerSafe ==
  ASSUME Safe, ShutdownHandler
  PROVE  Safe'
  <1>1. PICK h \in Handlers : h = turn
    BY SafeFacts, ConstantFacts DEF ShutdownHandler, OtherTypes, Handlers
  <1>2. hnd[h] \in HandlerRec /\ Doing(hnd[h]) /\ hnd \in [Handlers -> HandlerRec]
    BY SafeFacts
  <1>3. PICK z : z = [hnd[h] EXCEPT !.shut = TRUE]
    OBVIOUS
  <1>5. z \in HandlerRec /\ z.pc = hnd[h].pc /\ z.i = hnd[h].i /\ z.s = hnd[h].s
        /\ z.p = hnd[h].p /\ z.c = hnd[h].c
    BY <1>2, <1>3 DEF HandlerRec
  <1>6. Doing(z)
    BY <1>2, <1>5 DEF Doing
  <1>7. hnd' = [hnd EXCEPT ![h] = z] /\ sock' = sock /\ port_table' = port_table
    BY <1>1, <1>2, <1>3 DEF ShutdownHandler
  <1>8. OtherTypes' /\ rebound' = rebound /\ spoiled' = spoiled
    BY SafeFacts DEF ShutdownHandler, OtherTypes, history
  <1> QED
    BY <1>5, <1>6, <1>7, <1>8, HandlerStep

LEMMA StopServerSafe ==
  ASSUME Safe, StopServer
  PROVE  Safe'
  <1>1. OtherTypes' /\ UNCHANGED <<sock, port_table, hnd, history>>
    BY SafeFacts DEF StopServer, OtherTypes, history
  <1> QED
    BY <1>1, OtherStep

LEMMA JoinSafe ==
  ASSUME Safe, Join
  PROVE  Safe'
  <1>1. OtherTypes' /\ UNCHANGED <<sock, port_table, hnd, history>>
    BY SafeFacts, ConstantFacts DEF Join, OtherTypes, history
  <1> QED
    BY <1>1, OtherStep

LEMMA SynArrivesSafe ==
  ASSUME Safe, NEW p \in Port, NEW r \in Remotes, SynArrives(p, r)
  PROVE  Safe'
  <1>1. PICK v \in Socket : Fits(v, p, r)
    BY DEF SynArrives, Lookup
  <1>2. PICK u \in Socket : u = Lookup(p, r)
    BY <1>1, LookupFacts
  <1>3. found' = [s |-> u, p |-> p, r |-> r]
    BY <1>2 DEF SynArrives
  <1>4. found' \in [s : Socket, p : Port, r : Remotes]
    BY <1>3
  <1>5. OtherTypes' /\ UNCHANGED <<sock, port_table, hnd, history>>
    BY <1>4, SafeFacts, ConstantFacts DEF SynArrives, OtherTypes, history
  <1> QED
    BY <1>5, OtherStep

-----------------------------------------------------------------------------
(***************************************************************************)
(* Steps that change an entry of the table, but not its addresses.         *)
(***************************************************************************)
LEMMA TcpStepSafe ==
  ASSUME Safe, NEW s \in Socket, TcpStep(s)
  PROVE  Safe'
  <1>1. sock[s] \in SockRec /\ Entry(sock[s]) /\ sock \in [Socket -> SockRec]
    BY SafeFacts
  <1>2. PICK state : state \in MovesOn(sock[s].state, "app_close" \in sock[s].flags)
                     /\ sock' = Moved(s, state)
    BY DEF TcpStep
  <1>3. state \in TcpState
    BY <1>2 DEF MovesOn, TcpState
  <1>4. PICK f : f = IF state = "CLOSED" THEN sock[s].flags \union {"cleanup"} ELSE sock[s].flags
    OBVIOUS
  <1>5. f \in SUBSET {"app_connect", "app_close", "cleanup"}
    BY <1>1, <1>4 DEF SockRec
  <1>6. PICK y : y = [sock[s] EXCEPT !.state = state, !.flags = f]
    OBVIOUS
  <1>7. /\ y \in SockRec /\ y.type = sock[s].type /\ y.creator = sock[s].creator
        /\ y.lport = sock[s].lport /\ y.available = sock[s].available
        /\ y.remote = sock[s].remote /\ y.any = sock[s].any
    BY <1>1, <1>3, <1>5, <1>6 DEF SockRec
  <1>8. sock' = [sock EXCEPT ![s] = y]
    BY <1>1, <1>2, <1>4, <1>6 DEF Moved
  <1>9. Entry(y)
    BY <1>1, <1>7 DEF Entry
  <1>10. /\ port_table' = port_table /\ hnd' = hnd /\ OtherTypes'
         /\ rebound' = rebound /\ spoiled' = spoiled
    BY SafeFacts DEF TcpStep, OtherTypes, history
  <1>11. /\ hnd' \in [Handlers -> HandlerRec]
         /\ \A g \in Handlers : \/ hnd'[g] = hnd[g]
                                \/ Doing(hnd'[g]) /\ hnd'[g].pc \notin {"bind", "connect"}
    BY <1>10, SafeFacts
  <1> QED
    BY <1>7, <1>8, <1>9, <1>10, <1>11, EntryStep

LEMMA SendSynSafe ==
  ASSUME Safe, NEW s \in Socket, SendSyn(s)
  PROVE  Safe'
  <1>1. sock[s] \in SockRec /\ Entry(sock[s]) /\ sock \in [Socket -> SockRec]
    BY SafeFacts
  <1>2. PICK f : f = sock[s].flags \ {"app_connect"}
    OBVIOUS
  <1>3. PICK state \in TcpState : state = "OPENING"
    BY DEF TcpState
  <1>5. f \in SUBSET {"app_connect", "app_close", "cleanup"}
    BY <1>1, <1>2 DEF SockRec
  <1>6. PICK y : y = [sock[s] EXCEPT !.flags = f, !.state = state]
    OBVIOUS
  <1>7. /\ y \in SockRec /\ y.type = sock[s].type /\ y.creator = sock[s].creator
        /\ y.lport = sock[s].lport /\ y.available = sock[s].available
        /\ y.remote = sock[s].remote /\ y.any = sock[s].any
    BY <1>1, <1>3, <1>5, <1>6 DEF SockRec
  <1>8. sock' = [sock EXCEPT ![s] = y]
    BY <1>1, <1>2, <1>3, <1>6 DEF SendSyn
  <1>9. Entry(y)
    BY <1>1, <1>7 DEF Entry
  <1>10. /\ port_table' = port_table /\ hnd' = hnd /\ OtherTypes'
         /\ rebound' = rebound /\ spoiled' = spoiled
    BY SafeFacts DEF SendSyn, OtherTypes, history
  <1>11. /\ hnd' \in [Handlers -> HandlerRec]
         /\ \A g \in Handlers : \/ hnd'[g] = hnd[g]
                                \/ Doing(hnd'[g]) /\ hnd'[g].pc \notin {"bind", "connect"}
    BY <1>10, SafeFacts
  <1> QED
    BY <1>7, <1>8, <1>9, <1>10, <1>11, EntryStep

LEMMA AppendPendingSafe ==
  ASSUME Safe, AppendPending
  PROVE  Safe'
  <1>1. /\ port_table' = port_table /\ hnd' = hnd /\ OtherTypes'
        /\ rebound' = rebound /\ spoiled' = spoiled
    BY SafeFacts DEF AppendPending, OtherTypes, history
  <1>2. PICK s \in Socket, p \in Port, r \in Remotes : found = [s |-> s, p |-> p, r |-> r]
    BY SafeFacts DEF AppendPending, OtherTypes
  <1>3. sock[s] \in SockRec /\ Entry(sock[s]) /\ sock \in [Socket -> SockRec]
    BY SafeFacts
  <1>4. CASE sock[s].type = "passive"
    <2>1. PICK q : q = Append(sock[s].pending, [p |-> p, r |-> r])
      OBVIOUS
    <2>2. q \in Seq(Syn)
      BY <1>3, <2>1 DEF SockRec, Syn
    <2>3. PICK y : y = [sock[s] EXCEPT !.pending = q]
      OBVIOUS
    <2>4. /\ y \in SockRec /\ y.type = sock[s].type /\ y.creator = sock[s].creator
          /\ y.lport = sock[s].lport /\ y.available = sock[s].available
          /\ y.remote = sock[s].remote /\ y.any = sock[s].any
      BY <1>3, <2>2, <2>3 DEF SockRec
    <2>5. sock' = [sock EXCEPT ![s] = y]
      BY <1>2, <1>3, <1>4, <2>1, <2>3 DEF AppendPending
    <2>6. Entry(y)
      BY <1>3, <2>4 DEF Entry
    <2>7. /\ hnd' \in [Handlers -> HandlerRec]
          /\ \A g \in Handlers : \/ hnd'[g] = hnd[g]
                                 \/ Doing(hnd'[g]) /\ hnd'[g].pc \notin {"bind", "connect"}
      BY <1>1, SafeFacts
    <2> QED
      BY <1>1, <2>4, <2>5, <2>6, <2>7, EntryStep
  <1>5. CASE sock[s].type # "passive"
    <2>1. sock' = sock
      BY <1>2, <1>5 DEF AppendPending
    <2> QED
      BY <1>1, <2>1, OtherStep DEF history
  <1> QED
    BY <1>4, <1>5

LEMMA ClosingSafe ==
  ASSUME Safe, NEW h \in Handlers, Closing(h)
  PROVE  Safe'
  <1>1. hnd[h] \in HandlerRec /\ Doing(hnd[h]) /\ hnd \in [Handlers -> HandlerRec]
    BY SafeFacts
  <1>2. hnd[h].pc = "close"
    BY DEF Closing, Ready, At
  <1>3. PICK s \in Socket : s = hnd[h].s
    BY <1>1, <1>2 DEF Doing
  <1>4. sock[s] \in SockRec /\ Entry(sock[s]) /\ sock \in [Socket -> SockRec]
    BY SafeFacts
  <1>5. PICK f : f = sock[s].flags \union {"app_close"}
    OBVIOUS
  <1>6. f \in SUBSET {"app_connect", "app_close", "cleanup"}
    BY <1>4, <1>5 DEF SockRec
  <1>7. /\ port_table' = port_table /\ OtherTypes'
        /\ rebound' = rebound /\ spoiled' = spoiled
    BY SafeFacts DEF Closing, OtherTypes, history
  <1>8. CASE sock[s].state \in Open
    <2>1. PICK y : y = [sock[s] EXCEPT !.flags = f]
      OBVIOUS
    <2>2. /\ y \in SockRec /\ y.type = sock[s].type /\ y.creator = sock[s].creator
          /\ y.lport = sock[s].lport /\ y.available = sock[s].available
          /\ y.remote = sock[s].remote /\ y.any = sock[s].any
      BY <1>4, <1>6, <2>1 DEF SockRec
    <2>3. sock' = [sock EXCEPT ![s] = y]
      BY <1>3, <1>4, <1>5, <1>8, <2>1 DEF Closing
    <2>4. Entry(y)
      BY <1>4, <2>2 DEF Entry
    <2>5. PICK states : states = IF sock[s].state = "ESTABLISHED"
                                   THEN {"ENDING", "CLOSED"} ELSE {"LAST_ACK"}
      OBVIOUS
    <2>6. states \in SUBSET TcpState
      BY <2>5 DEF TcpState
    <2>7. Wait(h, s, states)
      BY <1>3, <1>8, <2>5 DEF Closing
    <2>8. PICK z \in HandlerRec : hnd' = [hnd EXCEPT ![h] = z] /\ Doing(z) /\ z.pc = "wait"
      BY <1>2, <2>6, <2>7, Waits
    <2>9. /\ hnd' \in [Handlers -> HandlerRec]
          /\ \A g \in Handlers : \/ hnd'[g] = hnd[g]
                                 \/ Doing(hnd'[g]) /\ hnd'[g].pc \notin {"bind", "connect"}
      BY <2>8, HandlersAfter
    <2> QED
      BY <1>7, <2>2, <2>3, <2>4, <2>9, EntryStep
  <1>9. CASE sock[s].state \notin Open
    <2>0. PICK b \in BOOLEAN : b = TRUE
      OBVIOUS
    <2>1. PICK y : y = [sock[s] EXCEPT !.flags = f, !.kept = b]
      OBVIOUS
    <2>2. /\ y \in SockRec /\ y.type = sock[s].type /\ y.creator = sock[s].creator
          /\ y.lport = sock[s].lport /\ y.available = sock[s].available
          /\ y.remote = sock[s].remote /\ y.any = sock[s].any
      BY <1>4, <1>6, <2>1 DEF SockRec
    <2>3. sock' = [sock EXCEPT ![s] = y]
      BY <1>3, <1>4, <1>5, <1>9, <2>0, <2>1 DEF Closing
    <2>4. Entry(y)
      BY <1>4, <2>2 DEF Entry
    <2>7. Idle(h)
      BY <1>3, <1>9 DEF Closing
    <2>8. PICK z \in HandlerRec : hnd' = [hnd EXCEPT ![h] = z] /\ Doing(z) /\ z.pc = "idle"
      BY <2>7, Idles
    <2>9. /\ hnd' \in [Handlers -> HandlerRec]
          /\ \A g \in Handlers : \/ hnd'[g] = hnd[g]
                                 \/ Doing(hnd'[g]) /\ hnd'[g].pc \notin {"bind", "connect"}
      BY <2>8, HandlersAfter
    <2> QED
      BY <1>7, <2>2, <2>3, <2>4, <2>9, EntryStep
  <1> QED
    BY <1>8, <1>9

LEMMA ListenSafe ==
  ASSUME Safe, NEW h \in Handlers, NEW s \in Socket, Listen(h, s)
  PROVE  Safe'
  <1>1. sock[s] \in SockRec /\ Entry(sock[s]) /\ sock \in [Socket -> SockRec]
    BY SafeFacts
  <1>2. PICK state \in TcpState : state = "LISTEN"
    BY DEF TcpState
  <1>0. <<>> \in Seq(Syn)
    BY ConstantFacts
  <1>3. PICK q \in Seq(Syn) : q = <<>>
    BY <1>0
  <1>4. PICK y : y = [sock[s] EXCEPT !.type = "passive", !.state = state, !.pending = q]
    OBVIOUS
  <1>5. /\ y \in SockRec /\ y.type = "passive" /\ y.creator = sock[s].creator
        /\ y.lport = sock[s].lport /\ y.available = sock[s].available
        /\ y.remote = sock[s].remote /\ y.any = sock[s].any
    BY <1>1, <1>2, <1>3, <1>4 DEF SockRec
  <1>6. sock[s].type # "active" /\ sock[s].available # TRUE
    BY DEF Listen, MayBeSetUp, InUse
  <1>7. Entry(y)
    BY <1>1, <1>5, <1>6 DEF Entry
  <1>8. sock' = [sock EXCEPT ![s] = y]
    BY <1>1, <1>2, <1>3, <1>4 DEF Listen
  <1>9. calls' \in 0..MaxCalls /\ Idle(h)
    BY HandledFacts DEF Listen
  <1>10. /\ port_table' = port_table /\ OtherTypes'
         /\ rebound' = rebound /\ spoiled' = spoiled
    BY <1>9, SafeFacts DEF Listen, OtherTypes, history
  <1>11. PICK z \in HandlerRec : hnd' = [hnd EXCEPT ![h] = z] /\ Doing(z) /\ z.pc = "idle"
    BY <1>9, Idles
  <1>12. /\ hnd' \in [Handlers -> HandlerRec]
         /\ \A g \in Handlers : \/ hnd'[g] = hnd[g]
                                \/ Doing(hnd'[g]) /\ hnd'[g].pc \notin {"bind", "connect"}
    BY <1>11, HandlersAfter
  <1> QED
    BY <1>5, <1>7, <1>8, <1>10, <1>12, EntryStep

(***************************************************************************)
(* Steps that allocate an entry.                                           *)
(***************************************************************************)
LEMMA SocketCallSafe ==
  ASSUME Safe, NEW h \in Handlers, SocketCall(h)
  PROVE  Safe'
  <1>1. PICK s \in FirstAvailable : sock' = [sock EXCEPT ![s] = Allocated(h, s)]
    BY DEF SocketCall
  <1>2. PICK y : y = Allocated(h, s)
    OBVIOUS
  <1>3. /\ s \in Socket /\ y \in SockRec /\ Entry(y) /\ y.available = FALSE
        /\ y.lport = sock[s].lport /\ y.any = sock[s].any /\ y.remote = sock[s].remote
        /\ sock' = [sock EXCEPT ![s] = y]
    BY <1>1, <1>2, AllocatedFacts
  <1>4. calls' \in 0..MaxCalls /\ Idle(h)
    BY HandledFacts DEF SocketCall
  <1>5. /\ port_table' = port_table /\ OtherTypes'
        /\ rebound' = rebound /\ spoiled' = spoiled
    BY <1>4, SafeFacts DEF SocketCall, OtherTypes, history
  <1>6. PICK z \in HandlerRec : hnd' = [hnd EXCEPT ![h] = z] /\ Doing(z) /\ z.pc = "idle"
    BY <1>4, Idles
  <1>7. /\ hnd' \in [Handlers -> HandlerRec]
        /\ \A g \in Handlers : \/ hnd'[g] = hnd[g]
                               \/ Doing(hnd'[g]) /\ hnd'[g].pc \notin {"bind", "connect"}
    BY <1>6, HandlersAfter
  <1> QED
    BY <1>3, <1>5, <1>7, EntryStep

LEMMA FetchPendingSafe ==
  ASSUME Safe, NEW h \in Handlers, FetchPending(h)
  PROVE  Safe'
  <1>1. hnd[h] \in HandlerRec /\ Doing(hnd[h]) /\ hnd \in [Handlers -> HandlerRec]
        /\ hnd[h].pc = "accept"
    BY SafeFacts DEF FetchPending, Ready, At
  <1>2. PICK l \in Socket : l = hnd[h].s
    BY <1>1 DEF Doing
  <1>3. sock[l] \in SockRec /\ Entry(sock[l]) /\ sock \in [Socket -> SockRec]
    BY SafeFacts
  <1>4. sock[l].pending \in Seq(Syn) /\ sock[l].pending # <<>>
    BY <1>2, <1>3 DEF FetchPending, SockRec
  <1>5. PICK q, c : q = Tail(sock[l].pending) /\ c = Head(sock[l].pending)
    OBVIOUS
  <1>6. q \in Seq(Syn) /\ c \in Syn
    BY <1>4, <1>5, HeadTailProperties
  <1>7. PICK y : y = [sock[l] EXCEPT !.pending = q]
    OBVIOUS
  <1>8. /\ y \in SockRec /\ y.type = sock[l].type /\ y.creator = sock[l].creator
        /\ y.lport = sock[l].lport /\ y.available = sock[l].available
        /\ y.remote = sock[l].remote /\ y.any = sock[l].any
    BY <1>3, <1>6, <1>7 DEF SockRec
  <1>9. Entry(y)
    BY <1>3, <1>8 DEF Entry
  <1>10. PICK F : F = [sock EXCEPT ![l] = y]
    OBVIOUS
  <1>11. F = [sock EXCEPT ![l].pending = Tail(@)]
    BY <1>3, <1>5, <1>7, <1>10
  <1>12. /\ F \in [Socket -> SockRec] /\ F[l] = y
         /\ \A u \in Socket \ {l} : F[u] = sock[u]
    BY <1>3, <1>8, <1>10
  <1>13. /\ port_table' = port_table /\ OtherTypes'
         /\ rebound' = rebound /\ spoiled' = spoiled
    BY SafeFacts DEF FetchPending, OtherTypes, history
  <1>14. CASE FirstAvailable = {}
    <2>1. Idle(h) /\ sock' = [sock EXCEPT ![l] = y]
      BY <1>2, <1>10, <1>11, <1>14 DEF FetchPending
    <2>2. PICK z \in HandlerRec : hnd' = [hnd EXCEPT ![h] = z] /\ Doing(z) /\ z.pc = "idle"
      BY <2>1, Idles
    <2>3. /\ hnd' \in [Handlers -> HandlerRec]
          /\ \A g \in Handlers : \/ hnd'[g] = hnd[g]
                                 \/ Doing(hnd'[g]) /\ hnd'[g].pc \notin {"bind", "connect"}
      BY <2>2, HandlersAfter
    <2> QED
      BY <1>8, <1>9, <1>13, <2>1, <2>3, EntryStep
  <1>15. CASE FirstAvailable # {}
    <2>1. PICK s \in FirstAvailable :
            /\ sock' = [F EXCEPT ![s] = Allocated(h, s)]
            /\ hnd' = [hnd EXCEPT ![h].pc = "spawn", ![h].s = s, ![h].c = c]
      BY <1>2, <1>5, <1>11, <1>15 DEF FetchPending
    <2>2. PICK x : x = Allocated(h, s)
      OBVIOUS
    <2>3. /\ s \in Socket /\ x \in SockRec /\ Entry(x) /\ x.available = FALSE
          /\ x.lport = sock[s].lport /\ x.any = sock[s].any /\ x.remote = sock[s].remote
          /\ sock' = [F EXCEPT ![s] = x]
      BY <2>1, <2>2, AllocatedFacts
    <2>4. /\ sock' \in [Socket -> SockRec] /\ sock'[s] = x
          /\ \A u \in Socket \ {s} : sock'[u] = F[u]
      BY <1>12, <2>3
    <2>5. \A u \in Socket :
            /\ Entry(sock'[u])
            /\ sock'[u].lport = sock[u].lport /\ sock'[u].any = sock[u].any
            /\ sock'[u].remote = sock[u].remote
            /\ sock[u].available = FALSE => sock'[u].available = FALSE
      <3> SUFFICES ASSUME NEW u \in Socket
                   PROVE  /\ Entry(sock'[u])
                          /\ sock'[u].lport = sock[u].lport /\ sock'[u].any = sock[u].any
                          /\ sock'[u].remote = sock[u].remote
                          /\ sock[u].available = FALSE => sock'[u].available = FALSE
        OBVIOUS
      <3>1. CASE u = s
        BY <2>3, <2>4, <3>1
      <3>2. CASE u # s /\ u = l
        BY <1>8, <1>9, <1>12, <2>4, <3>2
      <3>3. CASE u # s /\ u # l
        BY <1>12, <2>4, <3>3, SafeFacts
      <3> QED
        BY <3>1, <3>2, <3>3
    <2>6. PICK z : z = [hnd[h] EXCEPT !.pc = "spawn", !.s = s, !.c = c]
      OBVIOUS
    <2>7. z \in HandlerRec /\ z.pc = "spawn" /\ z.s = s /\ z.c = c /\ z.i = hnd[h].i
      BY <1>1, <1>6, <2>3, <2>6 DEF HandlerRec, Label
    <2>8. hnd' = [hnd EXCEPT ![h] = z]
      BY <1>1, <2>1, <2>6
    <2>9. Doing(z) /\ z.pc \notin {"bind", "connect"}
      BY <1>1, <1>6, <2>3, <2>7 DEF Doing
    <2>10. /\ hnd' \in [Handlers -> HandlerRec]
           /\ \A g \in Handlers : \/ hnd'[g] = hnd[g]
                                  \/ Doing(hnd'[g]) /\ hnd'[g].pc \notin {"bind", "connect"}
      BY <2>7, <2>8, <2>9, HandlersAfter
    <2> QED
      BY <1>13, <2>4, <2>5, <2>10, QuietStep
  <1> QED
    BY <1>14, <1>15

(***************************************************************************)
(* Steps that free an entry.                                               *)
(***************************************************************************)
LEMMA FreedFacts ==
  ASSUME Safe, NEW s \in Socket, FreeEntry(s)
  PROVE  rebound' \subseteq Socket /\ spoiled' \subseteq Port
  <1>1. LocalPort(s) \in Port
    BY SafeFacts, ConstantFacts DEF SockRec, Port, LocalPort
  <1> QED
    BY <1>1, SafeFacts DEF FreeEntry, OtherTypes

LEMMA ClosePassiveSafe ==
  ASSUME Safe, NEW h \in Handlers, NEW s \in Socket, ClosePassive(h, s)
  PROVE  Safe'
  <1>1. FreeEntry(s) /\ Idle(h) /\ calls' \in 0..MaxCalls
    BY HandledFacts DEF ClosePassive
  <1>2. OtherTypes'
    BY <1>1, FreedFacts, SafeFacts DEF ClosePassive, OtherTypes
  <1>3. PICK z \in HandlerRec : hnd' = [hnd EXCEPT ![h] = z] /\ Doing(z) /\ z.pc = "idle"
    BY <1>1, Idles
  <1>4. /\ hnd' \in [Handlers -> HandlerRec]
        /\ \A g \in Handlers : \/ hnd'[g] = hnd[g]
                               \/ Doing(hnd'[g]) /\ hnd'[g].pc \notin {"bind", "connect"}
    BY <1>3, HandlersAfter
  <1> QED
    BY <1>1, <1>2, <1>4, FreeStep

LEMMA CleanupSafe ==
  ASSUME Safe, NEW s \in Socket, Cleanup(s)
  PROVE  Safe'
  <1>1. hnd' = hnd
    BY DEF Cleanup
  <1>2. CASE FreeEntry(s) /\ daemon' = daemon
    <2>1. OtherTypes'
      BY <1>2, FreedFacts, SafeFacts DEF Cleanup, OtherTypes
    <2>2. /\ hnd' \in [Handlers -> HandlerRec]
          /\ \A g \in Handlers : \/ hnd'[g] = hnd[g]
                                 \/ Doing(hnd'[g]) /\ hnd'[g].pc \notin {"bind", "connect"}
      BY <1>1, SafeFacts
    <2> QED
      BY <1>2, <2>1, <2>2, FreeStep
  <1>3. CASE daemon' = "aborted" /\ UNCHANGED <<sock, port_table, history>>
    <2>1. OtherTypes' /\ UNCHANGED <<sock, port_table, hnd, history>>
      BY <1>1, <1>3, SafeFacts DEF Cleanup, OtherTypes, history
    <2> QED
      BY <2>1, OtherStep
  <1> QED
    BY <1>2, <1>3 DEF Cleanup

(* A handler thread that ends looks at the next entry.                     *)
LEMMA Looked ==
  ASSUME Safe, NEW h \in Handlers, FreeSockets(h)
  PROVE  \E z \in HandlerRec : hnd' = [hnd EXCEPT ![h] = z] /\ Doing(z)
                               /\ z.pc \in {"exit", "gone"}
  <1>1. hnd[h] \in HandlerRec /\ Doing(hnd[h]) /\ hnd \in [Handlers -> HandlerRec]
    BY SafeFacts
  <1>2. hnd[h].pc = "exit" /\ hnd[h].i \in Socket
    BY <1>1 DEF FreeSockets, Ready, At, Doing
  <1>3. PICK l \in Label : l = IF hnd[h].i = NSockets THEN "gone" ELSE "exit"
    BY DEF Label
  <1>4. PICK j \in 1..(NSockets + 1) : j = hnd[h].i + 1
    BY <1>2, ConstantFacts DEF Socket
  <1>5. PICK z : z = [hnd[h] EXCEPT !.i = j, !.pc = l]
    OBVIOUS
  <1>6. z \in HandlerRec /\ z.i = j /\ z.pc = l
    BY <1>1, <1>5 DEF HandlerRec
  <1>7. l # "gone" => j \in Socket
    BY <1>2, <1>3, <1>4, ConstantFacts DEF Socket
  <1>8. Doing(z)
    BY <1>3, <1>6, <1>7 DEF Doing
  <1>9. hnd' = [hnd EXCEPT ![h] = z]
    BY <1>1, <1>3, <1>4, <1>5 DEF FreeSockets
  <1> QED
    BY <1>3, <1>6, <1>8, <1>9

LEMMA FreeSocketsSafe ==
  ASSUME Safe, NEW h \in Handlers, FreeSockets(h)
  PROVE  Safe'
  <1>1. PICK z \in HandlerRec : hnd' = [hnd EXCEPT ![h] = z] /\ Doing(z)
                              /\ z.pc \notin {"bind", "connect"}
    BY Looked
  <1>2. /\ hnd' \in [Handlers -> HandlerRec]
        /\ \A g \in Handlers : \/ hnd'[g] = hnd[g]
                               \/ Doing(hnd'[g]) /\ hnd'[g].pc \notin {"bind", "connect"}
    BY <1>1, HandlersAfter
  <1>3. UNCHANGED <<found, daemon, turn, calls, syns>>
    BY DEF FreeSockets
  <1>4. PICK s \in Socket : s = hnd[h].i
    BY SafeFacts DEF FreeSockets, Ready, At, Doing
  <1> DEFINE mine == InUse(s) /\ sock[s].creator = h
  <1>5. CASE mine /\ sock[s].type = "active"
    <2>1. sock' = Forced(s) /\ port_table' = port_table /\ history' = history
      BY <1>4, <1>5 DEF FreeSockets
    <2>2. sock[s] \in SockRec /\ Entry(sock[s]) /\ sock \in [Socket -> SockRec]
      BY SafeFacts
    <2>3. PICK f : f = sock[s].flags \union {"cleanup"}
      OBVIOUS
    <2>4. PICK state \in TcpState : state = "CLOSED"
      BY DEF TcpState
    <2>5. f \in SUBSET {"app_connect", "app_close", "cleanup"}
      BY <2>2, <2>3 DEF SockRec
    <2>6. PICK y : y = [sock[s] EXCEPT !.state = state, !.flags = f]
      OBVIOUS
    <2>7. /\ y \in SockRec /\ y.type = sock[s].type /\ y.creator = sock[s].creator
          /\ y.lport = sock[s].lport /\ y.available = sock[s].available
          /\ y.remote = sock[s].remote /\ y.any = sock[s].any
      BY <2>2, <2>4, <2>5, <2>6 DEF SockRec
    <2>8. sock' = [sock EXCEPT ![s] = y]
      BY <2>1, <2>2, <2>3, <2>4, <2>6 DEF Forced
    <2>9. Entry(y)
      BY <2>2, <2>7 DEF Entry
    <2>10. OtherTypes' /\ rebound' = rebound /\ spoiled' = spoiled
      BY <1>3, <2>1, SafeFacts DEF OtherTypes, history
    <2> QED
      BY <1>2, <2>1, <2>7, <2>8, <2>9, <2>10, EntryStep
  <1>6. CASE mine /\ sock[s].type = "passive"
    <2>1. FreeEntry(s)
      BY <1>4, <1>6 DEF FreeSockets
    <2>2. OtherTypes'
      BY <1>3, <2>1, FreedFacts, SafeFacts DEF OtherTypes
    <2> QED
      BY <1>2, <2>1, <2>2, FreeStep
  <1>7. CASE ~(mine /\ sock[s].type = "active") /\ ~(mine /\ sock[s].type = "passive")
    <2>1. sock' = sock /\ port_table' = port_table /\ history' = history
      BY <1>4, <1>7 DEF FreeSockets
    <2>2. OtherTypes' /\ rebound' = rebound /\ spoiled' = spoiled
      BY <1>3, <2>1, SafeFacts DEF OtherTypes, history
    <2> QED
      BY <1>1, <2>1, <2>2, HandlerStep
  <1> QED
    BY <1>5, <1>6, <1>7

(***************************************************************************)
(* Steps that give an entry addresses.                                     *)
(***************************************************************************)
LEMMA AddressStep ==
  ASSUME Safe, NEW s \in Socket, NEW y \in SockRec, sock' = [sock EXCEPT ![s] = y],
         Entry(y), y.available = sock[s].available,
         rebound \subseteq rebound',
         s \in rebound' \/ (sock[s].available = FALSE /\ sock[s].lport \in {0, y.lport}),
         \/ port_table' = port_table
         \/ y.lport \in Port /\ port_table' = [port_table EXCEPT ![y.lport] = s],
         OtherTypes', NEW h \in Handlers, NEW z \in HandlerRec,
         hnd' = [hnd EXCEPT ![h] = z], Doing(z), Owners', Reserved'
  PROVE  Safe'
  <1>1. /\ sock' \in [Socket -> SockRec] /\ sock'[s] = y
        /\ \A u \in Socket \ {s} : sock'[u] = sock[u]
    BY SafeFacts
  <1>2. /\ hnd' \in [Handlers -> HandlerRec] /\ hnd'[h] = z
        /\ \A g \in Handlers \ {h} : hnd'[g] = hnd[g]
    BY SafeFacts
  <1>3. \A u \in Socket : Entry(sock'[u])
    BY <1>1, SafeFacts
  <1>4. \A g \in Handlers : Doing(hnd'[g])
    BY <1>2, SafeFacts
  <1>5. port_table' \in [Port -> Socket \union {Null}]
    BY SafeFacts
  <1>6. PortOwnerUsesIt'
    <2> SUFFICES ASSUME NEW p \in Port, port_table'[p] \notin rebound' \union {Null}
                 PROVE  /\ ~sock'[port_table'[p]].available
                        /\ sock'[port_table'[p]].lport = p
      BY DEF PortOwnerUsesIt, InUse
    <2>1. PICK u \in Socket : u = port_table'[p]
      BY <1>5
    <2>2. CASE u = port_table[p]
      <3>1. InUse(u) /\ sock[u].lport = p
        BY <2>1, <2>2, SafeFacts DEF PortOwnerUsesIt
      <3>2. CASE u = s
        BY <1>1, <2>1, <3>1, <3>2, ConstantFacts
      <3>3. CASE u # s
        BY <1>1, <2>1, <3>1, <3>3 DEF InUse
      <3> QED
        BY <3>2, <3>3
    <2>3. CASE u # port_table[p]
      <3>1. p = y.lport /\ u = s
        BY <2>1, <2>3, SafeFacts
      <3> QED
        BY <1>1, <2>1, <3>1
    <2> QED
      BY <2>2, <2>3
  <1> QED
    BY <1>1, <1>2, <1>3, <1>4, <1>5, <1>6 DEF Safe, TableSafe, Types

(* A port that was chosen is taken.                                        *)
LEMMA TakeStep ==
  ASSUME Safe, NEW s \in Socket, NEW y \in SockRec, sock' = [sock EXCEPT ![s] = y],
         Entry(y), y.available = sock[s].available,
         NEW p \in Port, y.lport = p, port_table' = [port_table EXCEPT ![p] = s],
         NowOn(s, p), spoiled' = spoiled, OtherTypes',
         NEW h \in Handlers, Chosen(h, p), NEW z \in HandlerRec,
         hnd' = [hnd EXCEPT ![h] = z], Doing(z), z.pc \notin {"bind", "connect"}
  PROVE  Safe'
  <1>1. /\ sock'[s] = y /\ \A u \in Socket \ {s} : sock'[u] = sock[u]
        /\ hnd'[h] = z /\ \A g \in Handlers \ {h} : hnd'[g] = hnd[g]
        /\ port_table'[p] = s /\ \A q \in Port \ {p} : port_table'[q] = port_table[q]
    BY SafeFacts
  <1>2. Owners /\ Reserved
    BY DEF Safe
  <1>3. Owners'
    <2> SUFFICES ASSUME NEW u \in Socket, Owner(sock'[u]), sock'[u].lport \notin spoiled
                 PROVE  port_table'[sock'[u].lport] = u
      BY DEF Owners, Owner
    <2>1. CASE u = s
      BY <1>1, <2>1
    <2>2. CASE u # s
      <3>1. Owner(sock[u]) /\ port_table[sock[u].lport] = u /\ sock'[u] = sock[u]
        BY <1>1, <1>2, <2>2 DEF Owners
      <3>2. sock[u].lport \in Port
        BY <3>1, SafeFacts, ConstantFacts DEF Owner, SockRec, Port
      <3>3. sock[u].lport # p
        BY <1>2, <3>1, <3>2 DEF Reserved
      <3> QED
        BY <1>1, <3>1, <3>2, <3>3
    <2> QED
      BY <2>1, <2>2
  <1>4. Reserved'
    <2> SUFFICES ASSUME NEW g \in Handlers, NEW q \in Port \ spoiled, Chosen(g, q)'
                 PROVE  /\ \A u \in Socket : Owner(sock'[u]) => sock'[u].lport # q
                        /\ \A k \in Handlers \ {g} : ~Chosen(k, q)'
      BY DEF Reserved, Owner
    <2>1. ASSUME NEW k \in Handlers, NEW j, Chosen(k, j)'
          PROVE  k # h /\ Chosen(k, j)
      BY <1>1, <2>1 DEF Chosen
    <2>2. /\ g # h /\ Chosen(g, q)
          /\ \A u \in Socket : Owner(sock[u]) => sock[u].lport # q
          /\ \A k \in Handlers \ {g} : ~Chosen(k, q)
      BY <1>2, <2>1 DEF Reserved
    <2>3. q # p
      BY <2>2
    <2>4. ASSUME NEW u \in Socket, Owner(sock'[u])
          PROVE  sock'[u].lport # q
      <3>1. CASE u = s
        BY <1>1, <2>3, <3>1
      <3>2. CASE u # s
        BY <1>1, <2>2, <2>4, <3>2
      <3> QED
        BY <3>1, <3>2
    <2> QED
      BY <2>1, <2>2, <2>4
  <1>5. /\ rebound \subseteq rebound'
        /\ s \in rebound' \/ (sock[s].available = FALSE /\ sock[s].lport \in {0, p})
    <2>1. sock[s].available \in BOOLEAN
      BY SafeFacts DEF SockRec
    <2>2. CASE Rebinds(s, p)
      BY <2>2 DEF NowOn
    <2>3. CASE ~Rebinds(s, p)
      BY <2>1, <2>3 DEF NowOn, Rebinds
    <2> QED
      BY <2>2, <2>3
  <1> QED
    BY <1>3, <1>4, <1>5, AddressStep

LEMMA BoundSafe ==
  ASSUME Safe, NEW h \in Handlers, Bound(h)
  PROVE  Safe'
  <1>1. hnd[h] \in HandlerRec /\ Doing(hnd[h]) /\ hnd[h].pc = "bind"
    BY SafeFacts DEF Bound, Ready, At
  <1>2. PICK s \in Socket : s = hnd[h].s
    BY <1>1 DEF Doing
  <1>3. PICK p \in Port : p = hnd[h].p
    BY <1>1 DEF Doing
  <1>4. sock[s] \in SockRec /\ Entry(sock[s]) /\ sock \in [Socket -> SockRec] /\ p \in 0..LastPort
    BY SafeFacts, ConstantFacts
  <1>5. PICK any \in BOOLEAN :
          sock' = [sock EXCEPT ![s].lport = p, ![s].any = any, ![s].remote = Null]
    BY <1>2, <1>3 DEF Bound
  <1>6. PICK y : y = [sock[s] EXCEPT !.lport = p, !.any = any, !.remote = Null]
    OBVIOUS
  <1>7. /\ y \in SockRec /\ y.type = sock[s].type /\ y.creator = sock[s].creator
        /\ y.lport = p /\ y.available = sock[s].available /\ y.remote = Null
    BY <1>4, <1>6 DEF SockRec
  <1>8. Entry(y)
    BY <1>4, <1>7 DEF Entry
  <1>9. sock' = [sock EXCEPT ![s] = y]
    BY <1>4, <1>5, <1>6
  <1>10. port_table' = [port_table EXCEPT ![p] = s] /\ NowOn(s, p) /\ spoiled' = spoiled /\ Idle(h)
    BY <1>2, <1>3 DEF Bound
  <1>11. OtherTypes'
    BY <1>10, SafeFacts DEF Bound, OtherTypes, NowOn
  <1>12. PICK z \in HandlerRec : hnd' = [hnd EXCEPT ![h] = z] /\ Doing(z) /\ z.pc = "idle"
    BY <1>10, Idles
  <1>13. z.pc \notin {"bind", "connect"} /\ Chosen(h, p)
    BY <1>1, <1>3, <1>12 DEF Chosen
  <1> QED
    BY <1>7, <1>8, <1>9, <1>10, <1>11, <1>12, <1>13, TakeStep

LEMMA ConnectedSafe ==
  ASSUME Safe, NEW h \in Handlers, NEW r \in Remotes, Connected(h, r)
  PROVE  Safe'
  <1>1. hnd[h] \in HandlerRec /\ Doing(hnd[h]) /\ hnd[h].pc = "connect"
    BY SafeFacts DEF Connected, Ready, At
  <1>2. PICK s \in Socket : s = hnd[h].s
    BY <1>1 DEF Doing
  <1>3. PICK p \in Port : p = hnd[h].p
    BY <1>1 DEF Doing
  <1>4. sock[s] \in SockRec /\ Entry(sock[s]) /\ sock \in [Socket -> SockRec] /\ p \in 0..LastPort
    BY SafeFacts, ConstantFacts
  <1>5. PICK f \in SUBSET {"app_connect", "app_close", "cleanup"} : f = {"app_connect"}
    OBVIOUS
  <1>6. PICK any \in BOOLEAN : any = TRUE
    OBVIOUS
  <1>7. PICK y : y = [sock[s] EXCEPT !.type = "active", !.any = any,
                                     !.lport = p, !.remote = r, !.flags = f]
    OBVIOUS
  <1>8. /\ y \in SockRec /\ y.type = "active" /\ y.creator = sock[s].creator
        /\ y.lport = p /\ y.available = sock[s].available /\ y.remote = r
    BY <1>4, <1>5, <1>7 DEF SockRec
  <1>9. sock[s].available # TRUE
    BY <1>2 DEF Connected, IsBlank, InUse
  <1>10. Entry(y)
    BY <1>4, <1>8, <1>9, ConstantFacts DEF Entry
  <1>11. sock' = [sock EXCEPT ![s] = y]
    BY <1>2, <1>3, <1>4, <1>5, <1>6, <1>7 DEF Connected
  <1>12. /\ port_table' = [port_table EXCEPT ![p] = s] /\ NowOn(s, p) /\ spoiled' = spoiled
         /\ Wait(h, s, {"ESTABLISHED"})
    BY <1>2, <1>3 DEF Connected
  <1>13. OtherTypes'
    BY <1>12, SafeFacts DEF Connected, OtherTypes, NowOn
  <1>14. PICK states \in SUBSET TcpState : states = {"ESTABLISHED"}
    BY DEF TcpState
  <1>15. PICK z \in HandlerRec : hnd' = [hnd EXCEPT ![h] = z] /\ Doing(z) /\ z.pc = "wait"
    BY <1>1, <1>12, <1>14, Waits
  <1>16. z.pc \notin {"bind", "connect"} /\ Chosen(h, p)
    BY <1>1, <1>3, <1>15 DEF Chosen
  <1> QED
    BY <1>8, <1>10, <1>11, <1>12, <1>13, <1>15, <1>16, TakeStep

(* The socket ACCEPT makes has its port from its listener.                 *)
LEMMA SpawnSafe ==
  ASSUME Safe, NEW h \in Handlers, Spawn(h)
  PROVE  Safe'
  <1>1. hnd[h] \in HandlerRec /\ Doing(hnd[h]) /\ hnd[h].pc = "spawn"
    BY SafeFacts DEF Spawn, Ready, At
  <1>2. PICK s \in Socket : s = hnd[h].s
    BY <1>1 DEF Doing
  <1>3. PICK p \in Port, r \in Remotes : p = hnd[h].c.p /\ r = hnd[h].c.r
    BY <1>1 DEF Doing, Syn
  <1>4. sock[s] \in SockRec /\ Entry(sock[s]) /\ sock \in [Socket -> SockRec] /\ p \in 0..LastPort
    BY SafeFacts, ConstantFacts
  <1>5. PICK state \in TcpState : state = "LISTEN"
    BY DEF TcpState
  <1>6. PICK any \in BOOLEAN : any = FALSE
    OBVIOUS
  <1>7. PICK f \in SUBSET {"app_connect", "app_close", "cleanup"} : f = {}
    OBVIOUS
  <1>8. PICK y : y = [sock[s] EXCEPT !.type = "active", !.state = state, !.any = any,
                                     !.lport = p, !.remote = r, !.flags = f]
    OBVIOUS
  <1>9. /\ y \in SockRec /\ y.type = "active" /\ y.creator = sock[s].creator
        /\ y.lport = p /\ y.available = sock[s].available /\ y.remote = r /\ y.any = FALSE
    BY <1>4, <1>5, <1>6, <1>7, <1>8 DEF SockRec
  <1>10. sock[s].available # TRUE
    BY <1>2 DEF Spawn, IsBlank, InUse
  <1>11. Entry(y) /\ ~Owner(y)
    BY <1>4, <1>9, <1>10, ConstantFacts DEF Entry, Owner
  <1>12. sock' = [sock EXCEPT ![s] = y]
    BY <1>2, <1>3, <1>4, <1>5, <1>6, <1>7, <1>8 DEF Spawn
  <1>13. /\ port_table' = port_table /\ spoiled' = spoiled /\ Wait(h, s, {"ESTABLISHED"})
         /\ rebound' = IF sock[s].lport \notin {0, p} THEN rebound \union {s} ELSE rebound
    BY <1>2, <1>3 DEF Spawn
  <1>14. OtherTypes'
    BY <1>13, SafeFacts DEF Spawn, OtherTypes
  <1>15. PICK states \in SUBSET TcpState : states = {"ESTABLISHED"}
    BY DEF TcpState
  <1>16. PICK z \in HandlerRec : hnd' = [hnd EXCEPT ![h] = z] /\ Doing(z) /\ z.pc = "wait"
    BY <1>1, <1>13, <1>15, Waits
  <1>17. Owners' /\ Reserved'
    <2>1. /\ sock'[s] = y /\ \A u \in Socket \ {s} : sock'[u] = sock[u]
      BY <1>12, SafeFacts
    <2>2. ASSUME NEW u \in Socket, Owner(sock'[u])
          PROVE  Owner(sock[u]) /\ sock'[u].lport = sock[u].lport
      BY <1>11, <2>1, <2>2
    <2>3. \A g \in Handlers : hnd'[g] = hnd[g] \/ hnd'[g].pc \notin {"bind", "connect"}
      BY <1>16, SafeFacts
    <2> QED
      BY <1>13, <2>2, <2>3, ApartFrame
  <1>18. /\ rebound \subseteq rebound'
         /\ s \in rebound' \/ (sock[s].available = FALSE /\ sock[s].lport \in {0, p})
    BY <1>4, <1>10, <1>13 DEF SockRec
  <1> QED
    BY <1>9, <1>11, <1>12, <1>13, <1>14, <1>16, <1>17, <1>18, AddressStep

-----------------------------------------------------------------------------
(***************************************************************************)
(* The theorems about the tables.                                          *)
(***************************************************************************)
LEMMA InitSafe ==
  ASSUME Init
  PROVE  Safe
  <1>1. PICK z \in HandlerRec : z = Waiting /\ z.i \in Socket /\ z.pc = "idle"
    <2>0. PICK w \in 0..LastPort : w = 0
      BY ConstantFacts
    <2>1. PICK j \in 1..(NSockets + 1) : j = 1 /\ j \in Socket
      BY ConstantFacts DEF Socket
    <2>2. Waiting = [pc |-> "idle", s |-> Null, p |-> w, c |-> Null, until |-> {},
                     i |-> j, shut |-> FALSE]
      BY <2>0, <2>1 DEF Waiting
    <2>3. PICK y : y = Waiting
      OBVIOUS
    <2>4. y \in HandlerRec /\ y.i = j /\ y.pc = "idle"
      BY <2>2, <2>3 DEF HandlerRec, Label
    <2> QED
      BY <2>1, <2>3, <2>4
  <1>2. /\ sock \in [Socket -> SockRec]
        /\ \A s \in Socket : Entry(sock[s]) /\ ~Owner(sock[s])
    BY ClearedFacts DEF Init
  <1>3. hnd \in [Handlers -> HandlerRec] /\ \A h \in Handlers : hnd[h] = z
    BY <1>1 DEF Init
  <1>4. \A h \in Handlers : Doing(hnd[h])
    BY <1>1, <1>3 DEF Doing
  <1>5. port_table \in [Port -> Socket \union {Null}] /\ PortOwnerUsesIt
    BY DEF Init, PortOwnerUsesIt
  <1>6. OtherTypes
    <2>1. 1 \in 1..(NHandlers + 1) /\ 0 \in 0..MaxCalls /\ 0 \in 0..MaxSyns
      BY ConstantFacts
    <2> QED
      BY <2>1 DEF Init, OtherTypes
  <1>7. Owners /\ Reserved
    BY <1>1, <1>2, <1>3 DEF Owners, Reserved, Chosen
  <1> QED
    BY <1>2, <1>3, <1>4, <1>5, <1>6, <1>7 DEF Safe, TableSafe, Types

LEMMA ServeSafe ==
  ASSUME Safe, NEW h \in Handlers, Serve(h)
  PROVE  Safe'
  BY RefuseSafe, SocketCallSafe, BindSafe, ListenSafe, ListenActiveSafe, AcceptSafe,
     ConnectSafe, ClosePassiveSafe, CloseSafe DEF Serve

LEMMA ContinueSafe ==
  ASSUME Safe, NEW h \in Handlers, Continue(h)
  PROVE  Safe'
  BY BoundSafe, FetchPendingSafe, SpawnSafe, TooLateSafe, ConnectedSafe, ClosingSafe,
     WokenSafe, FreeSocketsSafe DEF Continue

LEMMA StepSafe ==
  ASSUME Safe, [Next]_vars
  PROVE  Safe'
  <1>1. CASE \E h \in Handlers : Request(h) \/ Exit(h) \/ Serve(h) \/ Continue(h)
    BY <1>1, RequestSafe, ExitSafe, ServeSafe, ContinueSafe
  <1>2. CASE \E s \in Socket : TcpStep(s) \/ SendSyn(s) \/ Cleanup(s)
    BY <1>2, TcpStepSafe, SendSynSafe, CleanupSafe
  <1>3. CASE \E p \in Port, r \in Remotes : SynArrives(p, r)
    BY <1>3, SynArrivesSafe
  <1>4. CASE AppendPending
    BY <1>4, AppendPendingSafe
  <1>5. CASE StopServer \/ ShutdownHandler \/ Join
    BY <1>5, StopServerSafe, ShutdownHandlerSafe, JoinSafe
  <1>6. CASE UNCHANGED vars
    <2>1. UNCHANGED <<sock, port_table, hnd, history>> /\ OtherTypes'
      BY <1>6, SafeFacts DEF vars, OtherTypes, history
    <2> QED
      BY <2>1, OtherStep
  <1> QED
    BY <1>1, <1>2, <1>3, <1>4, <1>5, <1>6 DEF Next

LEMMA TablesStaySafe == Spec => []Safe
  <1>1. Init => Safe
    BY InitSafe
  <1>2. Safe /\ [Next]_vars => Safe'
    BY StepSafe
  <1> QED
    BY <1>1, <1>2, PTL DEF Spec

(* However the handler threads, the TCP threads, the connection thread and *)
(* the server thread interleave, and whatever sockets clients name in      *)
(* their calls, an assigned port belongs to a socket that is in use and    *)
(* has it as its local port, unless that socket was given a port on top of *)
(* another or after it was freed (PORT_TABLE in handlers.c,                *)
(* chitcpd_free_socket_entry).                                             *)
THEOREM PortsHaveOwners == Spec => []Inv
  BY TablesStaySafe, SafeIsInv, PTL

(* A packet of a connection is given to a socket with exactly its          *)
(* addresses, never to a listener (chitcpd_lookup_socket): always when     *)
(* accept() made the connection, and when connect() made it as long as its *)
(* port is not spoiled.                                                    *)
THEOREM LookupsAreExact == Spec => []LookupExact
  BY TablesStaySafe, SafeIsExact, PTL

(* Two connections that connect() made are on one port only when it was    *)
(* chosen twice at once, chosen with no port free, or given back by the    *)
(* free of another socket (chitcpd_find_ephemeral_port).                   *)
THEOREM EphemeralPortsAreNotShared == Spec => []ConnectionsApart
  BY TablesStaySafe, SafeIsApart, PTL
=============================================================================
