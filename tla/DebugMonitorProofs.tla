------------------------- MODULE DebugMonitorProofs -------------------------
(***************************************************************************)
(* The debug monitors are counted correctly, for any number of threads,    *)
(* sockets and monitors: a thread at a breakpoint never uses a monitor     *)
(* that was destroyed, and no entry of the socket table refers to one.     *)
(***************************************************************************)
EXTENDS DebugMonitor, FiniteSetTheorems, TLAPS

(* Where a thread has lock_sockfd of its monitor.                          *)
Holding == {"obtained", "exchange", "answered", "remove", "release", "destroy",
            "detach"}

Label == {"idle", "init", "wait", "obtained", "exchange", "answered", "remove",
          "release", "destroy", "load", "announce", "detach", "free", "undefined"}

ThreadRecord == [pc : Label, s : Socket \union {Null}, new : Socket \union {Null},
                 m : Monitors \union {Null}, i : 0..(NSockets + 1), closing : BOOLEAN]

MonitorRecord == [state : {"unused", "live", "freed"}, lock : Threads \union {Null},
                  numwaiters : Nat, dying : BOOLEAN, ref_count : Nat]

(* TypeOK, with names for its records.                                     *)
Typed == /\ available \in [Socket -> BOOLEAN]
         /\ debug_monitor \in [Socket -> Monitors \union {Null}]
         /\ mon \in [Monitors -> MonitorRecord]
         /\ thr \in [Threads -> ThreadRecord]
         /\ calls \in 0..MaxCalls

(* What a thread keeps at each point of a call.                            *)
ThreadsSound == \A t \in Threads :
  /\ thr[t].pc # "idle" => thr[t].s \in Socket
  /\ thr[t].pc = "remove" => thr[t].i \in Socket
  /\ thr[t].pc \in Holding \union {"wait"} => thr[t].m \in Monitors
  /\ thr[t].pc \in {"idle", "init", "load", "free"} => thr[t].m = Null
  /\ thr[t].pc \in {"load", "announce", "undefined"} => thr[t].closing

(* Whoever holds the lock of a monitor keeps it alive.                     *)
HoldersLock == \A t \in Threads : thr[t].pc \in Holding =>
  mon[thr[t].m].lock = t /\ mon[thr[t].m].state = "live"

(* So does whoever waits for it at a breakpoint.                           *)
WaitersLive == \A t \in Threads : thr[t].pc = "wait" /\ ~thr[t].closing =>
  mon[thr[t].m].state = "live"

(* A monitor that malloc has not returned yet is nowhere in use.           *)
UnusedIsFresh == \A m \in Monitors : mon[m].state = "unused" =>
  /\ mon[m].numwaiters = 0 /\ ~mon[m].dying
  /\ \A t \in Threads : thr[t].m # m

(* An entry still refers to a dying monitor only as long as the thread     *)
(* that holds its lock is about to take it out of this entry.              *)
DyingIsRemoved == \A m \in Monitors, s \in Socket :
  mon[m].dying /\ debug_monitor[s] = m =>
    \E t \in Threads : /\ thr[t].m = m
                       /\ \/ thr[t].pc = "answered"
                          \/ thr[t].pc = "remove" /\ thr[t].i <= s

(* Nobody at a breakpoint, and no entry, knows a monitor that is about to  *)
(* be destroyed.                                                           *)
DestroyedIsForgotten == \A t \in Threads : thr[t].pc = "destroy" =>
  /\ Attached(thr[t].m) = {}
  /\ \A u \in Users(thr[t].m) : thr[u].pc # "wait"

(* The inductive invariant.                                                *)
Safe == /\ Typed /\ ThreadsSound
        /\ HoldersLock /\ WaitersLive /\ UnusedIsFresh
        /\ NoDanglingMonitor /\ DyingIsRemoved /\ DestroyedIsForgotten
        /\ WaitersCounted /\ RefCovers

(* The threads on their way to the lock of m, whom numwaiters counts.      *)
Waiters(m) == {t \in Threads : thr[t].pc = "wait" /\ thr[t].m = m}

-----------------------------------------------------------------------------
(* Types                                                                   *)

(* The two ways to write the types agree.                                  *)
LEMMA TypedIsTypeOK == Typed <=> TypeOK
  BY DEF Typed, TypeOK, ThreadRecord, MonitorRecord, Label

(* A thread between two calls.                                             *)
LEMMA IdleFacts ==
  /\ Idle \in ThreadRecord
  /\ Idle.pc = "idle" /\ Idle.m = Null /\ Idle.s = Null /\ Idle.i = 0 /\ Idle.closing = FALSE
  BY DebugAssumption DEF Idle, ThreadRecord, Label

(* One entry of a function is replaced.                                    *)
LEMMA ReplacedFacts ==
  ASSUME NEW D, NEW R, NEW f \in [D -> R], NEW d \in D, NEW r \in R
  PROVE  LET g == [f EXCEPT ![d] = r]
         IN  g \in [D -> R] /\ g[d] = r /\ \A e \in D \ {d} : g[e] = f[e]
  OBVIOUS

(* A thread goes on to another point of its call.                          *)
LEMMA GotoFacts ==
  ASSUME Typed, NEW t \in Threads, NEW l \in Label, Goto(t, l)
  PROVE  /\ thr' \in [Threads -> ThreadRecord]
         /\ \A u \in Threads \ {t} : thr'[u] = thr[u]
         /\ thr'[t].pc = l /\ thr'[t].s = thr[t].s /\ thr'[t].m = thr[t].m
         /\ thr'[t].i = thr[t].i /\ thr'[t].closing = thr[t].closing
  <1>1. PICK r \in ThreadRecord : r = thr[t]
    BY DEF Typed
  <1>2. PICK q : q = [r EXCEPT !.pc = l]
    OBVIOUS
  <1>3. q \in ThreadRecord /\ q.pc = l /\ q.s = r.s /\ q.m = r.m /\ q.i = r.i /\ q.closing = r.closing
    BY <1>2 DEF ThreadRecord
  <1>4. thr' = [thr EXCEPT ![t] = q]
    BY <1>1, <1>2 DEF Goto
  <1> QED
    BY <1>1, <1>3, <1>4 DEF Typed

(* The same, with the index of the loop changed.                           *)
LEMMA TurnFacts ==
  ASSUME Typed, NEW t \in Threads, NEW l \in Label, NEW k \in 0..(NSockets + 1),
         \/ thr' = [thr EXCEPT ![t].pc = l, ![t].i = k]
         \/ thr' = [thr EXCEPT ![t].i = k, ![t].pc = l]
  PROVE  /\ thr' \in [Threads -> ThreadRecord]
         /\ \A u \in Threads \ {t} : thr'[u] = thr[u]
         /\ thr'[t].pc = l /\ thr'[t].i = k /\ thr'[t].s = thr[t].s
         /\ thr'[t].m = thr[t].m /\ thr'[t].closing = thr[t].closing
  <1>1. PICK r \in ThreadRecord : r = thr[t]
    BY DEF Typed
  <1>2. PICK q : q = [r EXCEPT !.pc = l, !.i = k]
    OBVIOUS
  <1>3. q = [r EXCEPT !.i = k, !.pc = l]
    BY <1>2 DEF ThreadRecord
  <1>4. q \in ThreadRecord /\ q.pc = l /\ q.i = k /\ q.s = r.s /\ q.m = r.m /\ q.closing = r.closing
    BY <1>2 DEF ThreadRecord
  <1>5. thr' = [thr EXCEPT ![t] = q]
    <2>1. CASE thr' = [thr EXCEPT ![t].pc = l, ![t].i = k]
      BY <1>1, <1>2, <2>1 DEF Typed
    <2>2. CASE thr' = [thr EXCEPT ![t].i = k, ![t].pc = l]
      BY <1>1, <1>3, <2>2 DEF Typed
    <2> QED
      BY <2>1, <2>2
  <1> QED
    BY <1>1, <1>4, <1>5 DEF Typed

(* A monitor that malloc has returned, and one whose debugger has gone.    *)
LEMMA BornFacts ==
  ASSUME NEW q \in MonitorRecord
  PROVE  LET r == [q EXCEPT !.state = "live", !.ref_count = 1]
         IN  /\ r \in MonitorRecord /\ r.state = "live" /\ r.ref_count = 1
             /\ r.numwaiters = q.numwaiters /\ r.dying = q.dying
  BY DEF MonitorRecord

LEMMA BornMonitor ==
  ASSUME Typed, NEW m \in Monitors, mon' = [mon EXCEPT ![m].state = "live", ![m].ref_count = 1]
  PROVE  /\ mon' \in [Monitors -> MonitorRecord] /\ \A n \in Monitors \ {m} : mon'[n] = mon[n]
         /\ mon'[m].state = "live" /\ mon'[m].ref_count = 1
         /\ mon'[m].numwaiters = mon[m].numwaiters /\ mon'[m].dying = mon[m].dying
  <1>1. PICK q \in MonitorRecord : q = mon[m]
    BY DEF Typed
  <1>2. PICK r : r = [q EXCEPT !.state = "live", !.ref_count = 1]
    OBVIOUS
  <1>3. /\ r \in MonitorRecord /\ r.state = "live" /\ r.ref_count = 1
        /\ r.numwaiters = q.numwaiters /\ r.dying = q.dying
    BY <1>1, <1>2, BornFacts
  <1>4. mon' = [mon EXCEPT ![m] = r]
    BY <1>1, <1>2 DEF Typed
  <1>5. PICK f \in [Monitors -> MonitorRecord] : f = mon
    BY DEF Typed
  <1>6. mon' \in [Monitors -> MonitorRecord] /\ mon'[m] = r /\ \A n \in Monitors \ {m} : mon'[n] = mon[n]
    <2>1. PICK g : g = [f EXCEPT ![m] = r]
      OBVIOUS
    <2>2. g \in [Monitors -> MonitorRecord] /\ g[m] = r /\ \A n \in Monitors \ {m} : g[n] = f[n]
      BY <1>3, <2>1, ReplacedFacts, Zenon
    <2>3. mon' = g
      BY <1>4, <1>5, <2>1, Zenon
    <2> QED
      BY <1>5, <2>2, <2>3, Zenon
  <1> QED
    BY <1>1, <1>3, <1>6

LEMMA FailedFacts ==
  ASSUME NEW q \in MonitorRecord
  PROVE  LET r == [q EXCEPT !.dying = TRUE]
         IN  /\ r \in MonitorRecord /\ r.state = q.state /\ r.lock = q.lock
             /\ r.numwaiters = q.numwaiters /\ r.ref_count = q.ref_count
  BY DEF MonitorRecord

(* What debug_mon_release leaves of a monitor.                             *)
LEMMA FreedFacts ==
  LET r == [Unused EXCEPT !.state = "freed"]
  IN r \in MonitorRecord /\ r.state = "freed" /\ ~r.dying
  BY DebugAssumption DEF Unused, MonitorRecord

-----------------------------------------------------------------------------
(* Counting                                                                *)

(* The sets that are counted are finite.                                   *)
LEMMA Finite ==
  /\ \A m : IsFiniteSet(Waiters(m)) /\ Cardinality(Waiters(m)) \in Nat
  /\ \A m : IsFiniteSet(Attached(m)) /\ Cardinality(Attached(m)) \in Nat
  /\ \A S \in SUBSET Socket : IsFiniteSet(S) /\ Cardinality(S) \in Nat
  <1>1. IsFiniteSet(Socket)
    BY FS_Interval, DebugAssumption DEF Socket
  <1>2. \A S \in SUBSET Socket : IsFiniteSet(S) /\ Cardinality(S) \in Nat
    BY <1>1, FS_Subset, FS_CardinalityType
  <1>3. \A m : Waiters(m) \in SUBSET Threads /\ Attached(m) \in SUBSET Socket
    BY DEF Waiters, Attached
  <1> QED
    BY <1>2, <1>3, FS_Subset, FS_CardinalityType, DebugAssumption

(* A step that changes neither who waits nor the number says the truth.    *)
LEMMA StillCounted ==
  ASSUME WaitersCounted,
         \A m \in Monitors : mon'[m].state = "live" =>
            /\ mon[m].state = "live" /\ mon'[m].numwaiters = mon[m].numwaiters
            /\ \A u \in Threads : (thr'[u].pc = "wait" /\ thr'[u].m = m)
                                    <=> (thr[u].pc = "wait" /\ thr[u].m = m)
  PROVE  WaitersCounted'
  <1> SUFFICES ASSUME NEW m \in Monitors, mon'[m].state = "live"
               PROVE  mon'[m].numwaiters = Cardinality(Waiters(m)')
    BY DEF WaitersCounted, Waiters
  <1>1. Waiters(m)' = Waiters(m)
    BY DEF Waiters
  <1> QED
    BY <1>1 DEF WaitersCounted, Waiters

(* A thread announces itself at monitor m.                                 *)
LEMMA OneMoreWaiter ==
  ASSUME Typed, WaitersCounted, NEW t \in Threads, NEW m \in Monitors,
         mon' = Announced(m), thr[t].pc # "wait",
         thr'[t].pc = "wait", thr'[t].m = m,
         \A u \in Threads \ {t} : thr'[u] = thr[u]
  PROVE  WaitersCounted'
  <1> SUFFICES ASSUME NEW n \in Monitors, mon'[n].state = "live"
               PROVE  mon'[n].numwaiters = Cardinality(Waiters(n)')
    BY DEF WaitersCounted, Waiters
  <1>1. mon[n].state = "live" /\ mon[n].numwaiters = Cardinality(Waiters(n))
    BY DEF WaitersCounted, Waiters, Announced, Typed, MonitorRecord
  <1>2. CASE n = m
    <2>1. Waiters(n)' = Waiters(n) \union {t} /\ t \notin Waiters(n)
      BY <1>2 DEF Waiters
    <2>2. mon'[n].numwaiters = mon[n].numwaiters + 1
      BY <1>2 DEF Announced, Typed, MonitorRecord
    <2> QED
      BY <1>1, <2>1, <2>2, Finite, FS_AddElement
  <1>3. CASE n # m
    <2>1. Waiters(n)' = Waiters(n)
      BY <1>3 DEF Waiters
    <2> QED
      BY <1>1, <1>3, <2>1 DEF Announced, Typed
  <1> QED
    BY <1>2, <1>3

(* A thread that waited at monitor m gets its lock.                        *)
LEMMA OneLessWaiter ==
  ASSUME Typed, WaitersCounted, NEW t \in Threads, NEW m \in Monitors,
         mon[m].state = "live", mon' = Locked(m, t),
         thr[t].pc = "wait", thr[t].m = m, thr'[t].pc # "wait",
         \A u \in Threads \ {t} : thr'[u] = thr[u]
  PROVE  WaitersCounted' /\ mon[m].numwaiters > 0
  <1>1. t \in Waiters(m)
    BY DEF Waiters
  <1>2. mon[m].numwaiters = Cardinality(Waiters(m)) /\ Cardinality(Waiters(m)) # 0
    BY <1>1, Finite, FS_EmptySet DEF WaitersCounted, Waiters
  <1>3. mon[m].numwaiters > 0
    BY <1>2, Finite
  <1> SUFFICES ASSUME NEW n \in Monitors, mon'[n].state = "live"
               PROVE  mon'[n].numwaiters = Cardinality(Waiters(n)')
    BY <1>3 DEF WaitersCounted, Waiters
  <1>4. CASE n = m
    <2>1. Waiters(n)' = Waiters(n) \ {t}
      BY <1>4 DEF Waiters
    <2>2. mon'[n].numwaiters = mon[n].numwaiters - 1
      BY <1>4 DEF Locked, Typed, MonitorRecord
    <2> QED
      BY <1>1, <1>2, <1>4, <2>1, <2>2, Finite, FS_RemoveElement
  <1>5. CASE n # m
    <2>1. Waiters(n)' = Waiters(n)
      BY <1>5 DEF Waiters
    <2>2. mon'[n] = mon[n]
      BY <1>5 DEF Locked, Typed
    <2> QED
      BY <2>1, <2>2 DEF WaitersCounted, Waiters
  <1> QED
    BY <1>4, <1>5

(* A step that attaches nothing and does not count down keeps ref_count    *)
(* large enough.                                                           *)
LEMMA StillCovered ==
  ASSUME Typed, Typed', RefCovers,
         \A m \in Monitors : mon'[m].state = "live" =>
            /\ mon[m].state = "live" /\ mon'[m].ref_count >= mon[m].ref_count
            /\ \A s \in Socket : debug_monitor'[s] = m => debug_monitor[s] = m
  PROVE  RefCovers'
  <1> SUFFICES ASSUME NEW m \in Monitors, mon'[m].state = "live"
               PROVE  mon'[m].ref_count >= Cardinality(Attached(m)')
    BY DEF RefCovers
  <1>1. Attached(m)' \in SUBSET Attached(m)
    BY DEF Attached
  <1>2. Cardinality(Attached(m)') <= Cardinality(Attached(m))
    BY <1>1, Finite, FS_Subset
  <1>3. Attached(m)' \in SUBSET Socket
    BY DEF Attached
  <1>4. mon[m].ref_count >= Cardinality(Attached(m))
    BY DEF RefCovers
  <1> QED
    BY <1>2, <1>3, <1>4, Finite DEF Typed, MonitorRecord

(* detach_monitor_from_entry counts off what it detaches, and a monitor    *)
(* that begins to die then has no entry left.                              *)
LEMMA DetachedProperties ==
  ASSUME Typed, RefCovers, NEW m \in Monitors, mon[m].state = "live", NEW s \in Socket,
         mon' = Detached(m, s), debug_monitor' = EntryDetached(m, s)
  PROVE  /\ mon' \in [Monitors -> MonitorRecord]
         /\ debug_monitor' \in [Socket -> Monitors \union {Null}]
         /\ \A n \in Monitors : /\ n # m => mon'[n] = mon[n]
                                /\ mon'[n].state = mon[n].state
                                /\ mon'[n].lock = mon[n].lock
                                /\ mon'[n].numwaiters = mon[n].numwaiters
         /\ debug_monitor'[s] # m
         /\ \A r \in Socket : debug_monitor'[r] \in {debug_monitor[r], Null}
         /\ mon'[m].dying => mon[m].dying \/ \A r \in Socket : debug_monitor'[r] # m
         /\ RefCovers'
  <1>1. CASE debug_monitor[s] # m
    <2>1. mon' = mon /\ debug_monitor' = debug_monitor
      BY <1>1 DEF Detached, EntryDetached
    <2>2. RefCovers'
      BY <2>1 DEF RefCovers, Attached
    <2> QED
      BY <1>1, <2>1, <2>2 DEF Typed
  <1>2. CASE debug_monitor[s] = m
    <2>1. /\ mon' = [mon EXCEPT ![m].ref_count = @ - 1,
                                ![m].dying = @ \/ mon[m].ref_count = 1]
          /\ debug_monitor' = [debug_monitor EXCEPT ![s] = Null]
      BY <1>2 DEF Detached, EntryDetached
    <2>2. s \in Attached(m) /\ Attached(m) \in SUBSET Socket
      BY <1>2 DEF Attached
    <2>3. mon[m].ref_count \in Nat /\ Cardinality(Attached(m)) # 0
      BY <2>2, Finite, FS_EmptySet DEF Typed, MonitorRecord
    <2>4. mon[m].ref_count >= Cardinality(Attached(m))
      BY DEF RefCovers
    <2>5. mon[m].ref_count - 1 \in Nat
      BY <2>3, <2>4, Finite
    <2>6. Attached(m)' = Attached(m) \ {s}
      BY <2>1, DebugAssumption DEF Attached, Typed
    <2>7. Cardinality(Attached(m)') = Cardinality(Attached(m)) - 1
      BY <2>2, <2>6, Finite, FS_RemoveElement
    <2>8. \A n \in Monitors : n # m => mon'[n] = mon[n] /\ Attached(n)' = Attached(n)
      BY <2>1, <1>2, DebugAssumption DEF Attached, Typed
    <2>9. DEFINE r == [mon[m] EXCEPT !.ref_count = @ - 1, !.dying = @ \/ mon[m].ref_count = 1]
    <2>10. mon' = [mon EXCEPT ![m] = r]
      BY <2>1 DEF Typed, MonitorRecord
    <2>11. /\ r \in MonitorRecord /\ r.ref_count = mon[m].ref_count - 1
           /\ r.state = mon[m].state /\ r.lock = mon[m].lock /\ r.numwaiters = mon[m].numwaiters
           /\ r.dying => mon[m].dying \/ mon[m].ref_count = 1
      BY <2>5 DEF Typed, MonitorRecord
    <2> HIDE DEF r
    <2>12. mon' \in [Monitors -> MonitorRecord] /\ mon'[m] = r
      BY <2>10, <2>11 DEF Typed
    <2>13. RefCovers'
      <3> SUFFICES ASSUME NEW n \in Monitors, mon'[n].state = "live"
                   PROVE  mon'[n].ref_count >= Cardinality(Attached(n)')
        BY DEF RefCovers
      <3>1. CASE n = m
        BY <2>3, <2>4, <2>7, <2>11, <2>12, <3>1, Finite
      <3>2. CASE n # m
        BY <2>8, <3>2 DEF RefCovers
      <3> QED
        BY <3>1, <3>2
    <2>14. mon'[m].dying => mon[m].dying \/ \A q \in Socket : debug_monitor'[q] # m
      <3> SUFFICES ASSUME mon[m].ref_count = 1 PROVE \A q \in Socket : debug_monitor'[q] # m
        BY <2>11, <2>12
      <3>1. Cardinality(Attached(m)') = 0
        BY <2>3, <2>4, <2>7, Finite
      <3>2. Attached(m)' \in SUBSET Socket
        BY DEF Attached
      <3>3. Attached(m)' = {}
        BY <3>1, <3>2, Finite, FS_EmptySet
      <3> QED
        BY <3>3 DEF Attached
    <2> QED
      BY <2>1, <2>8, <2>11, <2>12, <2>13, <2>14, DebugAssumption DEF Typed
  <1> QED
    BY <1>1, <1>2

-----------------------------------------------------------------------------
(* Steps                                                                   *)

(* The socket table, as far as the monitors can see it.                    *)
LEMMA AllocateKeeps ==
  ASSUME Safe, NEW t \in Threads, NEW s \in Socket, Allocate(t, s)
  PROVE  Safe'
  <1> USE DebugAssumption DEF Safe
  <1>1. /\ thr' \in [Threads -> ThreadRecord]
        /\ \A u \in Threads \ {t} : thr'[u] = thr[u]
        /\ thr'[t] = thr[t]
    BY IdleFacts DEF Allocate, Typed
  <1>2. /\ UNCHANGED <<debug_monitor, mon>>
        /\ available' \in [Socket -> BOOLEAN] /\ calls' \in 0..MaxCalls
    BY DEF Allocate, Begin, Typed
  <1>3. Typed'
    BY <1>1, <1>2 DEF Typed
  <1>4. ThreadsSound'
    BY <1>1, <1>2 DEF Typed, ThreadsSound, Holding
  <1>5. HoldersLock' /\ WaitersLive'
    BY <1>1, <1>2 DEF Typed, ThreadsSound, HoldersLock, WaitersLive, Holding, NoDanglingMonitor, DestroyedIsForgotten, Users
  <1>6. UnusedIsFresh' /\ NoDanglingMonitor'
    BY <1>1, <1>2 DEF Typed, ThreadsSound, HoldersLock, UnusedIsFresh, NoDanglingMonitor, Holding
  <1>7. DyingIsRemoved'
    BY <1>1, <1>2 DEF Typed, ThreadsSound, HoldersLock, UnusedIsFresh, DyingIsRemoved, Holding
  <1>8. DestroyedIsForgotten'
    BY <1>1, <1>2 DEF Typed, ThreadsSound, HoldersLock, DestroyedIsForgotten, Users, Attached, Holding
  <1>9. WaitersCounted'
    BY <1>1, <1>2, StillCounted DEF Typed, ThreadsSound, HoldersLock, Holding
  <1>10. RefCovers'
    BY <1>1, <1>2, <1>3, StillCovered DEF Typed, MonitorRecord, ThreadsSound, HoldersLock, Holding
  <1> QED
    BY <1>3, <1>4, <1>5, <1>6, <1>7, <1>8, <1>9, <1>10

(* The server thread is asked to register a debugger.                      *)
LEMMA InitConnectionKeeps ==
  ASSUME Safe, NEW t \in Threads, NEW s \in Socket, InitConnection(t, s)
  PROVE  Safe'
  <1> USE DebugAssumption DEF Safe
  <1>1. /\ thr' \in [Threads -> ThreadRecord]
        /\ \A u \in Threads \ {t} : thr'[u] = thr[u]
        /\ thr[t].pc = "idle"
        /\ thr'[t].pc = "init"
        /\ thr'[t].s = s /\ thr'[t].m = Null
    BY IdleFacts DEF InitConnection, Begin, At, Typed, ThreadRecord, Label, ThreadsSound, Holding
  <1>2. /\ UNCHANGED <<debug_monitor, mon>>
        /\ available' \in [Socket -> BOOLEAN] /\ calls' \in 0..MaxCalls
    BY DEF InitConnection, Begin, Typed
  <1>3. Typed'
    BY <1>1, <1>2 DEF Typed
  <1>4. ThreadsSound'
    BY <1>1, <1>2 DEF Typed, ThreadsSound, Holding
  <1>5. HoldersLock' /\ WaitersLive'
    BY <1>1, <1>2 DEF Typed, ThreadsSound, HoldersLock, WaitersLive, Holding, NoDanglingMonitor, DestroyedIsForgotten, Users
  <1>6. UnusedIsFresh' /\ NoDanglingMonitor'
    BY <1>1, <1>2 DEF Typed, ThreadsSound, HoldersLock, UnusedIsFresh, NoDanglingMonitor, Holding
  <1>7. DyingIsRemoved'
    BY <1>1, <1>2 DEF Typed, ThreadsSound, HoldersLock, UnusedIsFresh, DyingIsRemoved, Holding
  <1>8. DestroyedIsForgotten'
    BY <1>1, <1>2 DEF Typed, ThreadsSound, HoldersLock, DestroyedIsForgotten, Users, Attached, Holding
  <1>9. WaitersCounted'
    BY <1>1, <1>2, StillCounted DEF Typed, ThreadsSound, HoldersLock, Holding
  <1>10. RefCovers'
    BY <1>1, <1>2, <1>3, StillCovered DEF Typed, MonitorRecord, ThreadsSound, HoldersLock, Holding
  <1> QED
    BY <1>3, <1>4, <1>5, <1>6, <1>7, <1>8, <1>9, <1>10

(* The entry has a monitor already: EAGAIN.                                *)
LEMMA RegisterAgainKeeps ==
  ASSUME Safe, NEW t \in Threads, Register(t), UNCHANGED <<debug_monitor, mon>>
  PROVE  Safe'
  <1> USE DebugAssumption DEF Safe
  <1>1. /\ thr' \in [Threads -> ThreadRecord]
        /\ \A u \in Threads \ {t} : thr'[u] = thr[u]
        /\ thr[t].pc = "init"
        /\ thr'[t].pc = "idle"
        /\ thr'[t].m = Null
    BY IdleFacts DEF Register, At, Typed, ThreadRecord, Label, ThreadsSound, Holding
  <1>2. /\ UNCHANGED <<debug_monitor, mon>>
        /\ available' \in [Socket -> BOOLEAN] /\ calls' \in 0..MaxCalls
    BY DEF Register, Typed
  <1>3. Typed'
    BY <1>1, <1>2 DEF Typed
  <1>4. ThreadsSound'
    BY <1>1, <1>2 DEF Typed, ThreadsSound, Holding
  <1>5. HoldersLock' /\ WaitersLive'
    BY <1>1, <1>2 DEF Typed, ThreadsSound, HoldersLock, WaitersLive, Holding, NoDanglingMonitor, DestroyedIsForgotten, Users
  <1>6. UnusedIsFresh' /\ NoDanglingMonitor'
    BY <1>1, <1>2 DEF Typed, ThreadsSound, HoldersLock, UnusedIsFresh, NoDanglingMonitor, Holding
  <1>7. DyingIsRemoved'
    BY <1>1, <1>2 DEF Typed, ThreadsSound, HoldersLock, UnusedIsFresh, DyingIsRemoved, Holding
  <1>8. DestroyedIsForgotten'
    BY <1>1, <1>2 DEF Typed, ThreadsSound, HoldersLock, DestroyedIsForgotten, Users, Attached, Holding
  <1>9. WaitersCounted'
    BY <1>1, <1>2, StillCounted DEF Typed, ThreadsSound, HoldersLock, Holding
  <1>10. RefCovers'
    BY <1>1, <1>2, <1>3, StillCovered DEF Typed, MonitorRecord, ThreadsSound, HoldersLock, Holding
  <1> QED
    BY <1>3, <1>4, <1>5, <1>6, <1>7, <1>8, <1>9, <1>10

(* A new monitor, which counts the entry.                                  *)
LEMMA RegisterNewKeeps ==
  ASSUME Safe, NEW t \in Threads, NEW m \in Monitors,
         Register(t), debug_monitor[thr[t].s] = Null, mon[m].state = "unused",
         mon' = [mon EXCEPT ![m].state = "live", ![m].ref_count = 1], debug_monitor' = [debug_monitor EXCEPT ![thr[t].s] = m]
  PROVE  Safe'
  <1> USE DebugAssumption DEF Safe
  <1>1. /\ thr' \in [Threads -> ThreadRecord]
        /\ \A u \in Threads \ {t} : thr'[u] = thr[u]
        /\ thr[t].pc = "init"
        /\ thr'[t].pc = "idle"
        /\ thr'[t].m = Null
        /\ thr[t].s \in Socket
    BY IdleFacts DEF Register, At, Typed, ThreadRecord, Label, ThreadsSound, Holding
  <1>2. /\ debug_monitor' \in [Socket -> Monitors \union {Null}] /\ mon' \in [Monitors -> MonitorRecord]
        /\ \A n \in Monitors \ {m} : mon'[n] = mon[n]
        /\ mon'[m].state = "live" /\ mon'[m].ref_count = 1
        /\ mon'[m].numwaiters = mon[m].numwaiters /\ mon'[m].dying = mon[m].dying
        /\ \A u \in Threads : thr[u].m # m
        /\ \A r \in Socket : debug_monitor[r] # m
        /\ available' \in [Socket -> BOOLEAN] /\ calls' \in 0..MaxCalls
    <2>4. /\ mon' \in [Monitors -> MonitorRecord] /\ \A n \in Monitors \ {m} : mon'[n] = mon[n]
          /\ mon'[m].state = "live" /\ mon'[m].ref_count = 1
          /\ mon'[m].numwaiters = mon[m].numwaiters /\ mon'[m].dying = mon[m].dying
      BY BornMonitor
    <2>5. (\A u \in Threads : thr[u].m # m) /\ \A q \in Socket : debug_monitor[q] # m
      BY DEF UnusedIsFresh, NoDanglingMonitor, Typed
    <2> QED
      BY <1>1, <2>4, <2>5 DEF Register, Typed
  <1>3. Typed'
    BY <1>1, <1>2 DEF Typed
  <1>4. ThreadsSound'
    BY <1>1, <1>2 DEF Typed, ThreadsSound, Holding
  <1>5. HoldersLock' /\ WaitersLive'
    BY <1>1, <1>2 DEF Typed, ThreadsSound, HoldersLock, WaitersLive, Holding, NoDanglingMonitor, DestroyedIsForgotten, Users
  <1>6. UnusedIsFresh' /\ NoDanglingMonitor'
    BY <1>1, <1>2 DEF Typed, ThreadsSound, HoldersLock, UnusedIsFresh, NoDanglingMonitor, Holding
  <1>7. DyingIsRemoved'
    <2> SUFFICES ASSUME NEW m_1 \in Monitors, NEW r \in Socket,
                        mon'[m_1].dying, debug_monitor'[r] = m_1
                 PROVE  \E u \in Threads : /\ thr'[u].m = m_1
                                           /\ \/ thr'[u].pc = "answered"
                                              \/ thr'[u].pc = "remove" /\ thr'[u].i <= r
      BY DEF DyingIsRemoved
    <2>0. mon[m_1].dying /\ debug_monitor[r] = m_1
      BY <1>1, <1>2 DEF UnusedIsFresh, Typed
    <2>1. PICK u \in Threads : /\ thr[u].m = m_1
                               /\ \/ thr[u].pc = "answered"
                                  \/ thr[u].pc = "remove" /\ thr[u].i <= r
      BY <2>0 DEF DyingIsRemoved
    <2>2. u # t
      BY <1>1, <2>1
    <2> QED
      BY <1>1, <2>1, <2>2
  <1>8. DestroyedIsForgotten'
    BY <1>1, <1>2 DEF Typed, ThreadsSound, HoldersLock, DestroyedIsForgotten, Users, Attached, Holding
  <1>9. WaitersCounted'
    <2> SUFFICES ASSUME NEW n \in Monitors, mon'[n].state = "live"
                 PROVE  mon'[n].numwaiters = Cardinality(Waiters(n)')
      BY DEF WaitersCounted, Waiters
    <2>1. Waiters(n)' = Waiters(n)
      BY <1>1 DEF Waiters
    <2>2. CASE n = m
      <3>1. Waiters(m) = {} /\ mon[m].numwaiters = 0
        BY <1>2 DEF Waiters, UnusedIsFresh
      <3> QED
        BY <1>2, <2>1, <2>2, <3>1, FS_EmptySet
    <2>3. CASE n # m
      BY <1>2, <2>1, <2>3 DEF WaitersCounted, Waiters
    <2> QED
      BY <2>2, <2>3
  <1>10. RefCovers'
    <2> SUFFICES ASSUME NEW n \in Monitors, mon'[n].state = "live"
                 PROVE  mon'[n].ref_count >= Cardinality(Attached(n)')
      BY DEF RefCovers
    <2>1. CASE n = m
      <3>1. Attached(m)' = {thr[t].s}
        BY <1>1, <1>2 DEF Attached, Typed
      <3>2. Cardinality(Attached(n)') = 1
        BY <2>1, <3>1, FS_Singleton
      <3> QED
        BY <1>2, <2>1, <3>2
    <2>2. CASE n # m
      <3>1. Attached(n)' = Attached(n)
        BY <1>1, <1>2, <2>2, DebugAssumption DEF Attached, Typed
      <3> QED
        BY <1>2, <2>2, <3>1 DEF RefCovers
    <2> QED
      BY <2>1, <2>2
  <1> QED
    BY <1>3, <1>4, <1>5, <1>6, <1>7, <1>8, <1>9, <1>10

(* A thread reaches a breakpoint and counts itself, under the lock of the  *)
(* entry.                                                                  *)
LEMMA BreakpointKeeps ==
  ASSUME Safe, NEW t \in Threads, NEW s \in Socket, NEW new \in Socket \union {Null}, Breakpoint(t, s, new)
  PROVE  Safe'
  <1> USE DebugAssumption DEF Safe
  <1>1. /\ thr' \in [Threads -> ThreadRecord]
        /\ \A u \in Threads \ {t} : thr'[u] = thr[u]
        /\ thr[t].pc = "idle"
        /\ thr'[t].pc = "wait"
        /\ thr'[t].s = s /\ thr'[t].m = debug_monitor[s] /\ debug_monitor[s] \in Monitors
    BY IdleFacts DEF Breakpoint, Begin, At, Typed, ThreadRecord, Label, ThreadsSound, Holding
  <1>2. /\ mon' = Announced(debug_monitor[s]) /\ mon' \in [Monitors -> MonitorRecord]
        /\ \A n \in Monitors : /\ n # debug_monitor[s] => mon'[n] = mon[n]
                               /\ mon'[n].state = mon[n].state /\ mon'[n].dying = mon[n].dying
                               /\ mon'[n].ref_count = mon[n].ref_count /\ mon'[n].lock = mon[n].lock
        /\ UNCHANGED debug_monitor
        /\ available' \in [Socket -> BOOLEAN] /\ calls' \in 0..MaxCalls
    BY <1>1 DEF Breakpoint, Begin, Announced, Typed, MonitorRecord
  <1>3. Typed'
    BY <1>1, <1>2 DEF Typed
  <1>4. ThreadsSound'
    BY <1>1, <1>2 DEF Typed, ThreadsSound, Holding
  <1>5. HoldersLock' /\ WaitersLive'
    BY <1>1, <1>2 DEF Typed, ThreadsSound, HoldersLock, WaitersLive, Holding, NoDanglingMonitor, DestroyedIsForgotten, Users
  <1>6. UnusedIsFresh' /\ NoDanglingMonitor'
    BY <1>1, <1>2 DEF Typed, ThreadsSound, HoldersLock, UnusedIsFresh, NoDanglingMonitor, Holding
  <1>7. DyingIsRemoved'
    BY <1>1, <1>2 DEF Typed, ThreadsSound, HoldersLock, UnusedIsFresh, DyingIsRemoved, Holding
  <1>8. DestroyedIsForgotten'
    BY <1>1, <1>2 DEF Typed, ThreadsSound, HoldersLock, DestroyedIsForgotten, Users, Attached, Holding
  <1>9. WaitersCounted'
    BY <1>1, <1>2, OneMoreWaiter
  <1>10. RefCovers'
    BY <1>1, <1>2, <1>3, StillCovered DEF Typed, MonitorRecord, ThreadsSound, HoldersLock, Holding
  <1> QED
    BY <1>3, <1>4, <1>5, <1>6, <1>7, <1>8, <1>9, <1>10

(* A waiting thread gets lock_sockfd.                                      *)
LEMMA LockKeeps ==
  ASSUME Safe, NEW t \in Threads, Lock(t)
  PROVE  Safe'
  <1> USE DebugAssumption DEF Safe
  <1>1. /\ thr' \in [Threads -> ThreadRecord]
        /\ \A u \in Threads \ {t} : thr'[u] = thr[u]
        /\ thr[t].pc = "wait"
        /\ thr'[t].pc \in {"detach", "obtained"}
        /\ thr'[t].s = thr[t].s /\ thr'[t].m = thr[t].m /\ thr'[t].closing = thr[t].closing
    <2>1. PICK l \in {"detach", "obtained"} : Goto(t, l)
      BY DEF Lock
    <2>2. thr[t].pc = "wait" /\ l \in Label
      BY DEF Lock, At, Label
    <2> QED
      BY <2>1, <2>2, GotoFacts
  <1>2. /\ thr[t].m \in Monitors /\ mon[thr[t].m].state = "live" /\ mon[thr[t].m].lock = Null
        /\ WaitersCounted'
        /\ mon' \in [Monitors -> MonitorRecord]
        /\ \A n \in Monitors : /\ n # thr[t].m => mon'[n] = mon[n]
                               /\ mon'[n].state = mon[n].state /\ mon'[n].dying = mon[n].dying
                               /\ mon'[n].ref_count = mon[n].ref_count
        /\ mon'[thr[t].m].lock = t
        /\ UNCHANGED debug_monitor
        /\ available' \in [Socket -> BOOLEAN] /\ calls' \in 0..MaxCalls
    <2>1. /\ thr[t].m \in Monitors /\ mon[thr[t].m].state = "live" /\ mon[thr[t].m].lock = Null
          /\ mon' = Locked(thr[t].m, t)
      BY <1>1 DEF Lock, ThreadsSound, Holding
    <2>2. WaitersCounted' /\ mon[thr[t].m].numwaiters > 0
      BY <1>1, <2>1, OneLessWaiter
    <2>3. /\ mon[thr[t].m] \in MonitorRecord
          /\ mon[thr[t].m].numwaiters \in Nat /\ mon[thr[t].m].numwaiters - 1 \in Nat
      BY <2>1, <2>2 DEF Typed, MonitorRecord
    <2>4. PICK q \in MonitorRecord : q = mon[thr[t].m]
      BY <2>3
    <2>5. PICK r : r = [q EXCEPT !.lock = t, !.numwaiters = @ - 1]
      OBVIOUS
    <2>6. /\ r \in MonitorRecord /\ r.lock = t
          /\ r.state = q.state /\ r.dying = q.dying /\ r.ref_count = q.ref_count
      BY <2>3, <2>4, <2>5 DEF MonitorRecord
    <2>7. mon' = [mon EXCEPT ![thr[t].m] = r]
      BY <2>1, <2>4, <2>5 DEF Locked, Typed
    <2>8. mon' \in [Monitors -> MonitorRecord] /\ mon'[thr[t].m] = r /\ \A n \in Monitors : n # thr[t].m => mon'[n] = mon[n]
      BY <2>1, <2>6, <2>7 DEF Typed
    <2>9. UNCHANGED debug_monitor /\ available' \in [Socket -> BOOLEAN] /\ calls' \in 0..MaxCalls
      BY DEF Lock, Typed
    <2> QED
      BY <2>1, <2>2, <2>4, <2>6, <2>8, <2>9
  <1>3. Typed'
    BY <1>1, <1>2 DEF Typed
  <1>4. ThreadsSound'
    BY <1>1, <1>2 DEF Typed, ThreadsSound, Holding
  <1>5. HoldersLock' /\ WaitersLive'
    BY <1>1, <1>2 DEF Typed, ThreadsSound, HoldersLock, WaitersLive, Holding, NoDanglingMonitor, DestroyedIsForgotten, Users
  <1>6. UnusedIsFresh' /\ NoDanglingMonitor'
    BY <1>1, <1>2 DEF Typed, ThreadsSound, HoldersLock, UnusedIsFresh, NoDanglingMonitor, Holding
  <1>7. DyingIsRemoved'
    <2> SUFFICES ASSUME NEW m \in Monitors, NEW r \in Socket,
                        mon'[m].dying, debug_monitor'[r] = m
                 PROVE  \E u \in Threads : /\ thr'[u].m = m
                                           /\ \/ thr'[u].pc = "answered"
                                              \/ thr'[u].pc = "remove" /\ thr'[u].i <= r
      BY DEF DyingIsRemoved
    <2>1. PICK u \in Threads : /\ thr[u].m = m
                               /\ \/ thr[u].pc = "answered"
                                  \/ thr[u].pc = "remove" /\ thr[u].i <= r
      BY <1>1, <1>2 DEF DyingIsRemoved, Typed
    <2>2. u # t
      BY <1>1, <2>1
    <2> QED
      BY <1>1, <2>1, <2>2
  <1>8. DestroyedIsForgotten'
    BY <1>1, <1>2 DEF Typed, ThreadsSound, HoldersLock, DestroyedIsForgotten, Users, Attached, Holding
  <1>9. WaitersCounted'
    BY <1>2
  <1>10. RefCovers'
    BY <1>1, <1>2, <1>3, StillCovered DEF Typed, MonitorRecord, ThreadsSound, HoldersLock, Holding
  <1> QED
    BY <1>3, <1>4, <1>5, <1>6, <1>7, <1>8, <1>9, <1>10

(* The second half of obtain_debug_mon: still the monitor of the entry?    *)
LEMMA ObtainedKeeps ==
  ASSUME Safe, NEW t \in Threads, Obtained(t)
  PROVE  Safe'
  <1> USE DebugAssumption DEF Safe
  <1>1. /\ thr' \in [Threads -> ThreadRecord]
        /\ \A u \in Threads \ {t} : thr'[u] = thr[u]
        /\ thr[t].pc = "obtained"
        /\ thr'[t].pc \in {"exchange", "release"}
        /\ thr'[t].pc = "exchange" => debug_monitor[thr[t].s] = thr[t].m
        /\ thr'[t].s = thr[t].s /\ thr'[t].m = thr[t].m /\ thr'[t].closing = thr[t].closing
    <2>1. PICK l \in {"exchange", "release"} : Goto(t, l) /\ (l = "exchange" => debug_monitor[thr[t].s] = thr[t].m)
      BY DEF Obtained
    <2>2. thr[t].pc = "obtained" /\ l \in Label
      BY DEF Obtained, At, Label
    <2> QED
      BY <2>1, <2>2, GotoFacts
  <1>2. /\ UNCHANGED <<debug_monitor, mon>>
        /\ available' \in [Socket -> BOOLEAN] /\ calls' \in 0..MaxCalls
    BY DEF Obtained, Begin, Typed
  <1>3. Typed'
    BY <1>1, <1>2 DEF Typed
  <1>4. ThreadsSound'
    BY <1>1, <1>2 DEF Typed, ThreadsSound, Holding
  <1>5. HoldersLock' /\ WaitersLive'
    BY <1>1, <1>2 DEF Typed, ThreadsSound, HoldersLock, WaitersLive, Holding, NoDanglingMonitor, DestroyedIsForgotten, Users
  <1>6. UnusedIsFresh' /\ NoDanglingMonitor'
    BY <1>1, <1>2 DEF Typed, ThreadsSound, HoldersLock, UnusedIsFresh, NoDanglingMonitor, Holding
  <1>7. DyingIsRemoved'
    BY <1>1, <1>2 DEF Typed, ThreadsSound, HoldersLock, UnusedIsFresh, DyingIsRemoved, Holding
  <1>8. DestroyedIsForgotten'
    BY <1>1, <1>2 DEF Typed, ThreadsSound, HoldersLock, DestroyedIsForgotten, Users, Attached, Holding
  <1>9. WaitersCounted'
    BY <1>1, <1>2, StillCounted DEF Typed, ThreadsSound, HoldersLock, Holding
  <1>10. RefCovers'
    BY <1>1, <1>2, <1>3, StillCovered DEF Typed, MonitorRecord, ThreadsSound, HoldersLock, Holding
  <1> QED
    BY <1>3, <1>4, <1>5, <1>6, <1>7, <1>8, <1>9, <1>10

(* The debugger is gone: the monitor begins to die.                        *)
LEMMA FailKeeps ==
  ASSUME Safe, NEW t \in Threads, Fail(t)
  PROVE  Safe'
  <1> USE DebugAssumption DEF Safe
  <1>1. /\ thr' \in [Threads -> ThreadRecord]
        /\ \A u \in Threads \ {t} : thr'[u] = thr[u]
        /\ thr[t].pc = "exchange"
        /\ thr'[t].pc = "answered"
        /\ thr'[t].s = thr[t].s /\ thr'[t].m = thr[t].m /\ thr'[t].closing = thr[t].closing
    <2>1. thr[t].pc = "exchange" /\ Goto(t, "answered")
      BY DEF Fail, At
    <2>2. "answered" \in Label
      BY DEF Label
    <2> QED
      BY <2>1, <2>2, GotoFacts
  <1>2. /\ mon' \in [Monitors -> MonitorRecord]
        /\ \A n \in Monitors : /\ n # thr[t].m => mon'[n] = mon[n]
                               /\ mon'[n].state = mon[n].state /\ mon'[n].lock = mon[n].lock
                               /\ mon'[n].numwaiters = mon[n].numwaiters
                               /\ mon'[n].ref_count = mon[n].ref_count
        /\ UNCHANGED debug_monitor
        /\ available' \in [Socket -> BOOLEAN] /\ calls' \in 0..MaxCalls
    <2>0. thr[t].m \in Monitors
      BY <1>1 DEF ThreadsSound, Holding
    <2>1. PICK q \in MonitorRecord : q = mon[thr[t].m]
      BY <2>0 DEF Typed
    <2>2. PICK r : r = [q EXCEPT !.dying = TRUE]
      OBVIOUS
    <2>3. mon' = [mon EXCEPT ![thr[t].m] = r]
      BY <2>0, <2>1, <2>2 DEF Fail, Typed
    <2>4. /\ r \in MonitorRecord /\ r.state = mon[thr[t].m].state /\ r.lock = mon[thr[t].m].lock
          /\ r.numwaiters = mon[thr[t].m].numwaiters /\ r.ref_count = mon[thr[t].m].ref_count
      BY <2>1, <2>2, FailedFacts
    <2> QED
      BY <2>0, <2>3, <2>4 DEF Fail, Typed
  <1>3. Typed'
    BY <1>1, <1>2 DEF Typed
  <1>4. ThreadsSound'
    BY <1>1, <1>2 DEF Typed, ThreadsSound, Holding
  <1>5. HoldersLock' /\ WaitersLive'
    BY <1>1, <1>2 DEF Typed, ThreadsSound, HoldersLock, WaitersLive, Holding, NoDanglingMonitor, DestroyedIsForgotten, Users
  <1>6. UnusedIsFresh' /\ NoDanglingMonitor'
    BY <1>1, <1>2 DEF Typed, ThreadsSound, HoldersLock, UnusedIsFresh, NoDanglingMonitor, Holding
  <1>7. DyingIsRemoved'
    <2> SUFFICES ASSUME NEW m \in Monitors, NEW r \in Socket,
                        mon'[m].dying, debug_monitor'[r] = m
                 PROVE  \E u \in Threads : /\ thr'[u].m = m
                                           /\ \/ thr'[u].pc = "answered"
                                              \/ thr'[u].pc = "remove" /\ thr'[u].i <= r
      BY DEF DyingIsRemoved
    <2>1. CASE m = thr[t].m
      BY <1>1, <2>1
    <2>2. CASE m # thr[t].m
      <3>1. PICK u \in Threads : /\ thr[u].m = m
                                 /\ \/ thr[u].pc = "answered"
                                    \/ thr[u].pc = "remove" /\ thr[u].i <= r
        BY <1>2, <2>2 DEF DyingIsRemoved
      <3> QED
        BY <1>1, <2>2, <3>1
    <2> QED
      BY <2>1, <2>2
  <1>8. DestroyedIsForgotten'
    BY <1>1, <1>2 DEF Typed, ThreadsSound, HoldersLock, DestroyedIsForgotten, Users, Attached, Holding
  <1>9. WaitersCounted'
    BY <1>1, <1>2, StillCounted DEF Typed, ThreadsSound, HoldersLock, Holding
  <1>10. RefCovers'
    BY <1>1, <1>2, <1>3, StillCovered DEF Typed, MonitorRecord, ThreadsSound, HoldersLock, Holding
  <1> QED
    BY <1>3, <1>4, <1>5, <1>6, <1>7, <1>8, <1>9, <1>10

(* The debugger answers that it has seen enough of the entry.              *)
LEMMA StopKeeps ==
  ASSUME Safe, NEW t \in Threads, Stop(t)
  PROVE  Safe'
  <1> USE DebugAssumption DEF Safe
  <1>1. /\ thr' \in [Threads -> ThreadRecord]
        /\ \A u \in Threads \ {t} : thr'[u] = thr[u]
        /\ thr[t].pc = "exchange"
        /\ thr'[t].pc = "answered"
        /\ thr'[t].s = thr[t].s /\ thr'[t].m = thr[t].m /\ thr'[t].closing = thr[t].closing
    <2>1. thr[t].pc = "exchange" /\ Goto(t, "answered")
      BY DEF Stop, At
    <2>2. "answered" \in Label
      BY DEF Label
    <2> QED
      BY <2>1, <2>2, GotoFacts
  <1>2. /\ mon' \in [Monitors -> MonitorRecord] /\ debug_monitor' \in [Socket -> Monitors \union {Null}]
        /\ \A n \in Monitors : /\ n # thr[t].m => mon'[n] = mon[n]
                               /\ mon'[n].state = mon[n].state /\ mon'[n].lock = mon[n].lock
                               /\ mon'[n].numwaiters = mon[n].numwaiters
        /\ debug_monitor'[thr[t].s] # thr[t].m
        /\ \A r \in Socket : debug_monitor'[r] \in {debug_monitor[r], Null}
        /\ mon'[thr[t].m].dying => mon[thr[t].m].dying \/ \A r \in Socket : debug_monitor'[r] # thr[t].m
        /\ RefCovers'
        /\ available' \in [Socket -> BOOLEAN] /\ calls' \in 0..MaxCalls
    <2>1. thr[t].m \in Monitors /\ mon[thr[t].m].state = "live" /\ thr[t].s \in Socket
      BY <1>1 DEF ThreadsSound, HoldersLock, Holding
    <2>2. mon' = Detached(thr[t].m, thr[t].s) /\ debug_monitor' = EntryDetached(thr[t].m, thr[t].s)
      BY DEF Stop
    <2>3. available' \in [Socket -> BOOLEAN] /\ calls' \in 0..MaxCalls
      BY DEF Stop, Typed
    <2> QED
      BY <2>1, <2>2, <2>3, DetachedProperties
  <1>3. Typed'
    BY <1>1, <1>2 DEF Typed
  <1>4. ThreadsSound'
    BY <1>1, <1>2 DEF Typed, ThreadsSound, Holding
  <1>5. HoldersLock' /\ WaitersLive'
    BY <1>1, <1>2 DEF Typed, ThreadsSound, HoldersLock, WaitersLive, Holding, NoDanglingMonitor, DestroyedIsForgotten, Users
  <1>6. UnusedIsFresh' /\ NoDanglingMonitor'
    <2>1. UnusedIsFresh'
      BY <1>1, <1>2 DEF UnusedIsFresh
    <2>2. NoDanglingMonitor'
      BY <1>1, <1>2 DEF Typed, NoDanglingMonitor
    <2> QED
      BY <2>1, <2>2
  <1>7. DyingIsRemoved'
    <2> SUFFICES ASSUME NEW m \in Monitors, NEW r \in Socket,
                        mon'[m].dying, debug_monitor'[r] = m
                 PROVE  \E u \in Threads : /\ thr'[u].m = m
                                           /\ \/ thr'[u].pc = "answered"
                                              \/ thr'[u].pc = "remove" /\ thr'[u].i <= r
      BY DEF DyingIsRemoved
    <2>0. mon[m].dying /\ debug_monitor[r] = m
      BY <1>2
    <2>1. PICK u \in Threads : /\ thr[u].m = m
                               /\ \/ thr[u].pc = "answered"
                                  \/ thr[u].pc = "remove" /\ thr[u].i <= r
      BY <2>0 DEF DyingIsRemoved
    <2>2. u # t
      BY <1>1, <2>1
    <2> QED
      BY <1>1, <2>1, <2>2
  <1>8. DestroyedIsForgotten'
    BY <1>1, <1>2 DEF Typed, ThreadsSound, HoldersLock, DestroyedIsForgotten, Users, Attached, Holding
  <1>9. WaitersCounted'
    BY <1>1, <1>2, StillCounted DEF Typed, ThreadsSound, HoldersLock, Holding
  <1>10. RefCovers'
    BY <1>2
  <1> QED
    BY <1>3, <1>4, <1>5, <1>6, <1>7, <1>8, <1>9, <1>10

(* The socket that accept() has made gets the monitor of its listener.     *)
LEMMA AcceptMonitorKeeps ==
  ASSUME Safe, NEW t \in Threads, AcceptMonitor(t)
  PROVE  Safe'
  <1> USE DebugAssumption DEF Safe
  <1>1. /\ thr' \in [Threads -> ThreadRecord]
        /\ \A u \in Threads \ {t} : thr'[u] = thr[u]
        /\ thr[t].pc = "exchange"
        /\ thr'[t].pc = "answered"
        /\ thr'[t].s = thr[t].s /\ thr'[t].m = thr[t].m /\ thr'[t].closing = thr[t].closing
    <2>1. thr[t].pc = "exchange" /\ Goto(t, "answered")
      BY DEF AcceptMonitor, At
    <2>2. "answered" \in Label
      BY DEF Label
    <2> QED
      BY <2>1, <2>2, GotoFacts
  <1>2. /\ thr[t].m \in Monitors /\ mon[thr[t].m].state = "live" /\ thr[t].new \in Socket
        /\ mon' \in [Monitors -> MonitorRecord]
        /\ debug_monitor' = [debug_monitor EXCEPT ![thr[t].new] = thr[t].m]
        /\ \A n \in Monitors : /\ n # thr[t].m => mon'[n] = mon[n]
                               /\ mon'[n].state = mon[n].state /\ mon'[n].lock = mon[n].lock
                               /\ mon'[n].numwaiters = mon[n].numwaiters
                               /\ mon'[n].dying = mon[n].dying
        /\ mon'[thr[t].m].ref_count = mon[thr[t].m].ref_count + 1
        /\ available' \in [Socket -> BOOLEAN] /\ calls' \in 0..MaxCalls
    <2>1. PICK m \in Monitors : m = thr[t].m /\ mon[m].state = "live"
      BY <1>1 DEF ThreadsSound, HoldersLock, Holding
    <2>2. thr[t].new \in Socket
      BY DEF AcceptMonitor, Typed, ThreadRecord
    <2>3. PICK q : q = mon[m] /\ q \in MonitorRecord
      BY DEF Typed
    <2>4. PICK r : r = [q EXCEPT !.ref_count = @ + 1]
      OBVIOUS
    <2>5. /\ r \in MonitorRecord /\ r.state = q.state /\ r.lock = q.lock
          /\ r.numwaiters = q.numwaiters /\ r.dying = q.dying /\ r.ref_count = q.ref_count + 1
      BY <2>3, <2>4 DEF MonitorRecord
    <2>6. mon' = [mon EXCEPT ![m] = r]
      BY <2>1, <2>3, <2>4 DEF AcceptMonitor, Counted
    <2>7. mon' \in [Monitors -> MonitorRecord] /\ mon'[m] = r /\ \A n \in Monitors : n # m => mon'[n] = mon[n]
      BY <2>5, <2>6 DEF Typed
    <2>8. /\ available' \in [Socket -> BOOLEAN] /\ calls' \in 0..MaxCalls
          /\ debug_monitor' = [debug_monitor EXCEPT ![thr[t].new] = thr[t].m]
      BY DEF AcceptMonitor, Typed
    <2> QED
      BY <2>1, <2>2, <2>3, <2>5, <2>7, <2>8
  <1>3. Typed'
    BY <1>1, <1>2 DEF Typed
  <1>4. ThreadsSound'
    BY <1>1, <1>2 DEF Typed, ThreadsSound, Holding
  <1>5. HoldersLock' /\ WaitersLive'
    BY <1>1, <1>2 DEF Typed, ThreadsSound, HoldersLock, WaitersLive, Holding, NoDanglingMonitor, DestroyedIsForgotten, Users
  <1>6. UnusedIsFresh' /\ NoDanglingMonitor'
    BY <1>1, <1>2 DEF Typed, ThreadsSound, HoldersLock, UnusedIsFresh, NoDanglingMonitor, Holding
  <1>7. DyingIsRemoved'
    <2> SUFFICES ASSUME NEW m \in Monitors, NEW r \in Socket,
                        mon'[m].dying, debug_monitor'[r] = m
                 PROVE  \E u \in Threads : /\ thr'[u].m = m
                                           /\ \/ thr'[u].pc = "answered"
                                              \/ thr'[u].pc = "remove" /\ thr'[u].i <= r
      BY DEF DyingIsRemoved
    <2>0. CASE m = thr[t].m
      BY <1>1, <2>0
    <2>1. CASE m # thr[t].m
      <3>1. mon[m].dying /\ debug_monitor[r] = m
        BY <1>2, <2>1 DEF Typed
      <3>2. PICK u \in Threads : /\ thr[u].m = m
                                 /\ \/ thr[u].pc = "answered"
                                    \/ thr[u].pc = "remove" /\ thr[u].i <= r
        BY <3>1 DEF DyingIsRemoved
      <3> QED
        BY <1>1, <2>1, <3>2
    <2> QED
      BY <2>0, <2>1
  <1>8. DestroyedIsForgotten'
    BY <1>1, <1>2 DEF Typed, ThreadsSound, HoldersLock, DestroyedIsForgotten, Users, Attached, Holding
  <1>9. WaitersCounted'
    BY <1>1, <1>2, StillCounted DEF Typed, ThreadsSound, HoldersLock, Holding
  <1>10. RefCovers'
    <2> SUFFICES ASSUME NEW n \in Monitors, mon'[n].state = "live"
                 PROVE  mon'[n].ref_count >= Cardinality(Attached(n)')
      BY DEF RefCovers
    <2>1. /\ mon[n].ref_count >= Cardinality(Attached(n)) /\ mon[n].ref_count \in Nat
          /\ Attached(n)' \in SUBSET Socket
      BY <1>2 DEF RefCovers, Typed, MonitorRecord, Attached
    <2>2. CASE n = thr[t].m
      <3>1. Attached(n)' = Attached(n) \union {thr[t].new}
        BY <1>2, <2>2 DEF Attached, Typed
      <3>2. Cardinality(Attached(n)') <= Cardinality(Attached(n)) + 1
        <4>1. CASE thr[t].new \in Attached(n)
          <5>1. Attached(n)' = Attached(n)
            BY <3>1, <4>1
          <5> QED
            BY <5>1, Finite
        <4>2. CASE thr[t].new \notin Attached(n)
          <5>1. Cardinality(Attached(n) \union {thr[t].new}) = Cardinality(Attached(n)) + 1
            BY <4>2, Finite, FS_AddElement
          <5> QED
            BY <3>1, <5>1, Finite
        <4> QED
          BY <4>1, <4>2
      <3> QED
        BY <1>2, <2>1, <2>2, <3>2, Finite
    <2>3. CASE n # thr[t].m
      <3>1. Attached(n)' \in SUBSET Attached(n)
        BY <1>2, <2>3 DEF Attached, Typed
      <3>2. Cardinality(Attached(n)') <= Cardinality(Attached(n))
        BY <3>1, Finite, FS_Subset
      <3> QED
        BY <1>2, <2>1, <2>3, <3>2, Finite
    <2> QED
      BY <2>2, <2>3
  <1> QED
    BY <1>3, <1>4, <1>5, <1>6, <1>7, <1>8, <1>9, <1>10

(* An answer that changes no monitor.                                      *)
LEMMA AnswerKeeps ==
  ASSUME Safe, NEW t \in Threads, Answer(t)
  PROVE  Safe'
  <1> USE DebugAssumption DEF Safe
  <1>1. /\ thr' \in [Threads -> ThreadRecord]
        /\ \A u \in Threads \ {t} : thr'[u] = thr[u]
        /\ thr[t].pc = "exchange"
        /\ thr'[t].pc = "answered"
        /\ thr'[t].s = thr[t].s /\ thr'[t].m = thr[t].m /\ thr'[t].closing = thr[t].closing
    <2>1. thr[t].pc = "exchange" /\ Goto(t, "answered")
      BY DEF Answer, At
    <2>2. "answered" \in Label
      BY DEF Label
    <2> QED
      BY <2>1, <2>2, GotoFacts
  <1>2. /\ UNCHANGED <<debug_monitor, mon>>
        /\ available' \in [Socket -> BOOLEAN] /\ calls' \in 0..MaxCalls
    BY DEF Answer, Begin, Typed
  <1>3. Typed'
    BY <1>1, <1>2 DEF Typed
  <1>4. ThreadsSound'
    BY <1>1, <1>2 DEF Typed, ThreadsSound, Holding
  <1>5. HoldersLock' /\ WaitersLive'
    BY <1>1, <1>2 DEF Typed, ThreadsSound, HoldersLock, WaitersLive, Holding, NoDanglingMonitor, DestroyedIsForgotten, Users
  <1>6. UnusedIsFresh' /\ NoDanglingMonitor'
    BY <1>1, <1>2 DEF Typed, ThreadsSound, HoldersLock, UnusedIsFresh, NoDanglingMonitor, Holding
  <1>7. DyingIsRemoved'
    BY <1>1, <1>2 DEF Typed, ThreadsSound, HoldersLock, UnusedIsFresh, DyingIsRemoved, Holding
  <1>8. DestroyedIsForgotten'
    BY <1>1, <1>2 DEF Typed, ThreadsSound, HoldersLock, DestroyedIsForgotten, Users, Attached, Holding
  <1>9. WaitersCounted'
    BY <1>1, <1>2, StillCounted DEF Typed, ThreadsSound, HoldersLock, Holding
  <1>10. RefCovers'
    BY <1>1, <1>2, <1>3, StillCovered DEF Typed, MonitorRecord, ThreadsSound, HoldersLock, Holding
  <1> QED
    BY <1>3, <1>4, <1>5, <1>6, <1>7, <1>8, <1>9, <1>10

(* The answer is there: a dying monitor is taken out of the table first.   *)
LEMMA AnsweredKeeps ==
  ASSUME Safe, NEW t \in Threads, Answered(t)
  PROVE  Safe'
  <1> USE DebugAssumption DEF Safe
  <1>1. /\ thr' \in [Threads -> ThreadRecord]
        /\ \A u \in Threads \ {t} : thr'[u] = thr[u]
        /\ thr[t].pc = "answered"
        /\ \/ mon[thr[t].m].dying /\ thr'[t].pc = "remove" /\ thr'[t].i = 1
           \/ ~mon[thr[t].m].dying /\ thr'[t].pc = "release"
        /\ thr'[t].s = thr[t].s /\ thr'[t].m = thr[t].m /\ thr'[t].closing = thr[t].closing
    <2>1. CASE mon[thr[t].m].dying
      <3>1. thr' = [thr EXCEPT ![t].pc = "remove", ![t].i = 1] /\ thr[t].pc = "answered"
        BY <2>1 DEF Answered, At
      <3>2. 1 \in 0..(NSockets + 1) /\ "remove" \in Label
        BY DEF Label
      <3>3. /\ thr' \in [Threads -> ThreadRecord]
            /\ \A u \in Threads \ {t} : thr'[u] = thr[u]
            /\ thr'[t].pc = "remove" /\ thr'[t].i = 1 /\ thr'[t].s = thr[t].s
            /\ thr'[t].m = thr[t].m /\ thr'[t].closing = thr[t].closing
        BY <3>1, <3>2, TurnFacts
      <3> QED
        BY <2>1, <3>1, <3>3
    <2>2. CASE ~mon[thr[t].m].dying
      <3>1. thr' = [thr EXCEPT ![t].pc = "release", ![t].i = 1] /\ thr[t].pc = "answered"
        BY <2>2 DEF Answered, At
      <3>2. 1 \in 0..(NSockets + 1) /\ "release" \in Label
        BY DEF Label
      <3>3. /\ thr' \in [Threads -> ThreadRecord]
            /\ \A u \in Threads \ {t} : thr'[u] = thr[u]
            /\ thr'[t].pc = "release" /\ thr'[t].i = 1 /\ thr'[t].s = thr[t].s
            /\ thr'[t].m = thr[t].m /\ thr'[t].closing = thr[t].closing
        BY <3>1, <3>2, TurnFacts
      <3> QED
        BY <2>2, <3>1, <3>3
    <2> QED
      BY <2>1, <2>2
  <1>2. /\ UNCHANGED <<debug_monitor, mon>>
        /\ available' \in [Socket -> BOOLEAN] /\ calls' \in 0..MaxCalls
    BY DEF Answered, Begin, Typed
  <1>3. Typed'
    BY <1>1, <1>2 DEF Typed
  <1>4. ThreadsSound'
    BY <1>1, <1>2 DEF Typed, ThreadsSound, Holding, Socket
  <1>5. HoldersLock' /\ WaitersLive'
    BY <1>1, <1>2 DEF Typed, ThreadsSound, HoldersLock, WaitersLive, Holding, NoDanglingMonitor, DestroyedIsForgotten, Users
  <1>6. UnusedIsFresh' /\ NoDanglingMonitor'
    BY <1>1, <1>2 DEF Typed, ThreadsSound, HoldersLock, UnusedIsFresh, NoDanglingMonitor, Holding
  <1>7. DyingIsRemoved'
    <2> SUFFICES ASSUME NEW m \in Monitors, NEW r \in Socket,
                        mon'[m].dying, debug_monitor'[r] = m
                 PROVE  \E u \in Threads : /\ thr'[u].m = m
                                           /\ \/ thr'[u].pc = "answered"
                                              \/ thr'[u].pc = "remove" /\ thr'[u].i <= r
      BY DEF DyingIsRemoved
    <2>1. PICK u \in Threads : /\ thr[u].m = m
                               /\ \/ thr[u].pc = "answered"
                                  \/ thr[u].pc = "remove" /\ thr[u].i <= r
      BY <1>1, <1>2 DEF DyingIsRemoved, Typed
    <2>2. CASE u = t
      <3>1. thr'[t].pc = "remove" /\ thr'[t].i = 1
        BY <1>1, <1>2, <2>1, <2>2
      <3>2. 1 <= r
        BY DEF Socket
      <3> QED
        BY <1>1, <2>1, <2>2, <3>1, <3>2
    <2>3. CASE u # t
      BY <1>1, <2>1, <2>3
    <2> QED
      BY <2>2, <2>3
  <1>8. DestroyedIsForgotten'
    BY <1>1, <1>2 DEF Typed, ThreadsSound, HoldersLock, DestroyedIsForgotten, Users, Attached, Holding
  <1>9. WaitersCounted'
    BY <1>1, <1>2, StillCounted DEF Typed, ThreadsSound, HoldersLock, Holding
  <1>10. RefCovers'
    BY <1>1, <1>2, <1>3, StillCovered DEF Typed, MonitorRecord, ThreadsSound, HoldersLock, Holding
  <1> QED
    BY <1>3, <1>4, <1>5, <1>6, <1>7, <1>8, <1>9, <1>10

(* One turn of the loop that takes a dying monitor out of the table.       *)
LEMMA RemoveKeeps ==
  ASSUME Safe, NEW t \in Threads, Remove(t)
  PROVE  Safe'
  <1> USE DebugAssumption DEF Safe
  <1>1. /\ thr' \in [Threads -> ThreadRecord]
        /\ \A u \in Threads \ {t} : thr'[u] = thr[u]
        /\ thr[t].pc = "remove" /\ thr[t].i \in Socket
        /\ \/ thr[t].i = NSockets /\ thr'[t].pc = "release"
           \/ thr[t].i # NSockets /\ thr'[t].pc = "remove" /\ thr'[t].i = thr[t].i + 1
        /\ thr'[t].s = thr[t].s /\ thr'[t].m = thr[t].m /\ thr'[t].closing = thr[t].closing
    <2>0. thr[t].pc = "remove" /\ thr[t].i \in Socket /\ thr[t].i + 1 \in 0..(NSockets + 1)
      BY DEF Remove, At, ThreadsSound, Socket
    <2>1. CASE thr[t].i = NSockets
      <3>1. thr' = [thr EXCEPT ![t].i = thr[t].i + 1, ![t].pc = "release"]
        BY <2>1 DEF Remove
      <3>2. "release" \in Label
        BY DEF Label
      <3>3. PICK k \in 0..(NSockets + 1) : k = thr[t].i + 1
        BY <2>0
      <3>4. thr' = [thr EXCEPT ![t].i = k, ![t].pc = "release"]
        BY <3>1, <3>3
      <3>5. /\ thr' \in [Threads -> ThreadRecord]
            /\ \A u \in Threads \ {t} : thr'[u] = thr[u]
            /\ thr'[t].pc = "release" /\ thr'[t].i = k /\ thr'[t].s = thr[t].s
            /\ thr'[t].m = thr[t].m /\ thr'[t].closing = thr[t].closing
        <4>1. Typed
          OBVIOUS
        <4> HIDE DEF Safe
        <4> QED
          BY <3>2, <3>4, <4>1, TurnFacts
      <3> QED
        BY <2>0, <2>1, <3>3, <3>5
    <2>2. CASE thr[t].i # NSockets
      <3>1. thr' = [thr EXCEPT ![t].i = thr[t].i + 1, ![t].pc = "remove"]
        BY <2>2 DEF Remove
      <3>2. "remove" \in Label
        BY DEF Label
      <3>3. PICK k \in 0..(NSockets + 1) : k = thr[t].i + 1
        BY <2>0
      <3>4. thr' = [thr EXCEPT ![t].i = k, ![t].pc = "remove"]
        BY <3>1, <3>3
      <3>5. /\ thr' \in [Threads -> ThreadRecord]
            /\ \A u \in Threads \ {t} : thr'[u] = thr[u]
            /\ thr'[t].pc = "remove" /\ thr'[t].i = k /\ thr'[t].s = thr[t].s
            /\ thr'[t].m = thr[t].m /\ thr'[t].closing = thr[t].closing
        <4>1. Typed
          OBVIOUS
        <4> HIDE DEF Safe
        <4> QED
          BY <3>2, <3>4, <4>1, TurnFacts
      <3> QED
        BY <2>0, <2>2, <3>3, <3>5
    <2> QED
      BY <2>1, <2>2
  <1>2. /\ mon' \in [Monitors -> MonitorRecord] /\ debug_monitor' \in [Socket -> Monitors \union {Null}]
        /\ \A n \in Monitors : /\ n # thr[t].m => mon'[n] = mon[n]
                               /\ mon'[n].state = mon[n].state /\ mon'[n].lock = mon[n].lock
                               /\ mon'[n].numwaiters = mon[n].numwaiters
        /\ debug_monitor'[thr[t].i] # thr[t].m
        /\ \A r \in Socket : debug_monitor'[r] \in {debug_monitor[r], Null}
        /\ mon'[thr[t].m].dying => mon[thr[t].m].dying \/ \A r \in Socket : debug_monitor'[r] # thr[t].m
        /\ RefCovers'
        /\ available' \in [Socket -> BOOLEAN] /\ calls' \in 0..MaxCalls
    <2>1. thr[t].m \in Monitors /\ mon[thr[t].m].state = "live" /\ thr[t].i \in Socket
      BY <1>1 DEF ThreadsSound, HoldersLock, Holding
    <2>2. mon' = Detached(thr[t].m, thr[t].i) /\ debug_monitor' = EntryDetached(thr[t].m, thr[t].i)
      BY DEF Remove
    <2>3. available' \in [Socket -> BOOLEAN] /\ calls' \in 0..MaxCalls
      BY DEF Remove, Typed
    <2> QED
      BY <2>1, <2>2, <2>3, DetachedProperties
  <1>3. Typed'
    BY <1>1, <1>2 DEF Typed
  <1>4. ThreadsSound'
    BY <1>1, <1>2 DEF Typed, ThreadsSound, Holding, Socket
  <1>5. HoldersLock' /\ WaitersLive'
    BY <1>1, <1>2 DEF Typed, ThreadsSound, HoldersLock, WaitersLive, Holding, NoDanglingMonitor, DestroyedIsForgotten, Users
  <1>6. UnusedIsFresh' /\ NoDanglingMonitor'
    <2>1. UnusedIsFresh'
      BY <1>1, <1>2 DEF UnusedIsFresh
    <2>2. NoDanglingMonitor'
      BY <1>1, <1>2 DEF Typed, NoDanglingMonitor
    <2> QED
      BY <2>1, <2>2
  <1>7. DyingIsRemoved'
    <2> SUFFICES ASSUME NEW m \in Monitors, NEW r \in Socket,
                        mon'[m].dying, debug_monitor'[r] = m
                 PROVE  \E u \in Threads : /\ thr'[u].m = m
                                           /\ \/ thr'[u].pc = "answered"
                                              \/ thr'[u].pc = "remove" /\ thr'[u].i <= r
      BY DEF DyingIsRemoved
    <2>0. mon[m].dying /\ debug_monitor[r] = m
      BY <1>2
    <2>1. PICK u \in Threads : /\ thr[u].m = m
                               /\ \/ thr[u].pc = "answered"
                                  \/ thr[u].pc = "remove" /\ thr[u].i <= r
      BY <2>0 DEF DyingIsRemoved
    <2>2. CASE m = thr[t].m
      <3>1. u = t
        BY <1>1, <2>1, <2>2 DEF HoldersLock, Holding
      <3>2. thr[t].i <= r /\ thr[t].i # r
        BY <1>1, <1>2, <2>1, <2>2, <3>1
      <3>3. thr[t].i # NSockets /\ thr[t].i + 1 <= r
        BY <1>1, <3>2 DEF Socket
      <3> QED
        BY <1>1, <2>2, <3>3
    <2>3. CASE m # thr[t].m
      BY <1>1, <2>1, <2>3
    <2> QED
      BY <2>2, <2>3
  <1>8. DestroyedIsForgotten'
    BY <1>1, <1>2 DEF Typed, ThreadsSound, HoldersLock, DestroyedIsForgotten, Users, Attached, Holding
  <1>9. WaitersCounted'
    BY <1>1, <1>2, StillCounted DEF Typed, ThreadsSound, HoldersLock, Holding
  <1>10. RefCovers'
    BY <1>2
  <1> QED
    BY <1>3, <1>4, <1>5, <1>6, <1>7, <1>8, <1>9, <1>10

(* Whoever leaves a monitor has forgotten it.                              *)
LEMMA LeftFacts ==
  ASSUME Typed, ThreadsSound, NEW t \in Threads, thr' = Left(t), thr[t].pc \in Holding
  PROVE  /\ thr' \in [Threads -> ThreadRecord]
         /\ \A u \in Threads \ {t} : thr'[u] = thr[u]
         /\ thr'[t].pc \in {"idle", "free"} /\ thr'[t].m = Null
         /\ thr'[t].pc = "free" => thr'[t].s \in Socket
  <1>1. thr[t].s \in Socket
    BY DEF ThreadsSound, Holding
  <1>2. CASE thr[t].closing
    <2>1. thr' = [thr EXCEPT ![t].pc = "free", ![t].m = Null]
      BY <1>2 DEF Left
    <2>2. PICK q \in ThreadRecord : q = thr[t]
      BY DEF Typed
    <2>3. PICK r : r = [q EXCEPT !.pc = "free", !.m = Null]
      OBVIOUS
    <2>4. r \in ThreadRecord /\ r.pc = "free" /\ r.m = Null /\ r.s = q.s
      BY <2>3 DEF ThreadRecord, Label
    <2>5. thr' = [thr EXCEPT ![t] = r]
      BY <2>1, <2>2, <2>3 DEF Typed
    <2> QED
      BY <1>1, <2>2, <2>4, <2>5 DEF Typed
  <1>3. CASE ~thr[t].closing
    <2>1. thr' = [thr EXCEPT ![t] = Idle]
      BY <1>3 DEF Left
    <2> QED
      BY <2>1, IdleFacts DEF Typed
  <1> QED
    BY <1>2, <1>3

(* Nobody waits for the dying monitor: it will be destroyed.               *)
LEMMA ReleaseToDestroyKeeps ==
  ASSUME Safe, NEW t \in Threads, Release(t), ToDestroy(thr[t].m)
  PROVE  Safe'
  <1> USE DebugAssumption DEF Safe
  <1>1. /\ thr' \in [Threads -> ThreadRecord]
        /\ \A u \in Threads \ {t} : thr'[u] = thr[u]
        /\ thr[t].pc = "release"
        /\ thr'[t].pc = "destroy"
        /\ thr'[t].s = thr[t].s /\ thr'[t].m = thr[t].m /\ thr'[t].closing = thr[t].closing
    <2>1. thr[t].pc = "release" /\ Goto(t, "destroy")
      BY DEF Release, At
    <2>2. "destroy" \in Label
      BY DEF Label
    <2> QED
      BY <2>1, <2>2, GotoFacts
  <1>2. /\ UNCHANGED <<debug_monitor, mon>>
        /\ available' \in [Socket -> BOOLEAN] /\ calls' \in 0..MaxCalls
    BY DEF Release, Typed
  <1>3. Typed'
    BY <1>1, <1>2 DEF Typed
  <1>4. ThreadsSound'
    BY <1>1, <1>2 DEF Typed, ThreadsSound, Holding
  <1>5. HoldersLock' /\ WaitersLive'
    BY <1>1, <1>2 DEF Typed, ThreadsSound, HoldersLock, WaitersLive, Holding, NoDanglingMonitor, DestroyedIsForgotten, Users
  <1>6. UnusedIsFresh' /\ NoDanglingMonitor'
    BY <1>1, <1>2 DEF Typed, ThreadsSound, HoldersLock, UnusedIsFresh, NoDanglingMonitor, Holding
  <1>7. DyingIsRemoved'
    BY <1>1, <1>2 DEF Typed, ThreadsSound, HoldersLock, UnusedIsFresh, DyingIsRemoved, Holding
  <1>8. DestroyedIsForgotten'
    <2>1. thr[t].m \in Monitors /\ mon[thr[t].m].dying /\ mon[thr[t].m].numwaiters = 0
      BY <1>1 DEF ToDestroy, ThreadsSound, Holding
    <2>2. Attached(thr[t].m) = {}
      <3> SUFFICES ASSUME NEW r \in Socket, debug_monitor[r] = thr[t].m PROVE FALSE
        BY DEF Attached
      <3>1. PICK u \in Threads : thr[u].m = thr[t].m /\ thr[u].pc \in {"answered", "remove"}
        BY <2>1 DEF DyingIsRemoved
      <3> QED
        BY <1>1, <3>1 DEF HoldersLock, Holding
    <2>3. Waiters(thr[t].m) = {}
      <3>1. mon[thr[t].m].state = "live"
        BY <1>1 DEF HoldersLock, Holding
      <3>2. Cardinality(Waiters(thr[t].m)) = 0
        BY <2>1, <3>1 DEF WaitersCounted, Waiters
      <3> QED
        BY <3>2, Finite, FS_EmptySet
    <2> QED
      BY <1>1, <1>2, <2>2, <2>3 DEF DestroyedIsForgotten, Users, Attached, Waiters
  <1>9. WaitersCounted'
    BY <1>1, <1>2, StillCounted DEF Typed, ThreadsSound, HoldersLock, Holding
  <1>10. RefCovers'
    BY <1>1, <1>2, <1>3, StillCovered DEF Typed, MonitorRecord, ThreadsSound, HoldersLock, Holding
  <1> QED
    BY <1>3, <1>4, <1>5, <1>6, <1>7, <1>8, <1>9, <1>10

(* Otherwise the monitor is unlocked.                                      *)
LEMMA ReleaseUnlockKeeps ==
  ASSUME Safe, NEW t \in Threads, Release(t), ~ToDestroy(thr[t].m)
  PROVE  Safe'
  <1> USE DebugAssumption DEF Safe
  <1>1. /\ thr' \in [Threads -> ThreadRecord]
        /\ \A u \in Threads \ {t} : thr'[u] = thr[u]
        /\ thr[t].pc = "release"
        /\ thr'[t].pc \in {"idle", "free"} /\ thr'[t].m = Null
        /\ thr'[t].pc = "free" => thr'[t].s \in Socket
    <2>1. thr[t].pc = "release" /\ thr' = Left(t)
      BY DEF Release, At
    <2> QED
      BY <2>1, LeftFacts DEF Holding
  <1>2. /\ thr[t].m \in Monitors
        /\ mon' \in [Monitors -> MonitorRecord]
        /\ \A n \in Monitors : /\ n # thr[t].m => mon'[n] = mon[n]
                               /\ mon'[n].state = mon[n].state /\ mon'[n].dying = mon[n].dying
                               /\ mon'[n].numwaiters = mon[n].numwaiters
                               /\ mon'[n].ref_count = mon[n].ref_count
        /\ UNCHANGED debug_monitor
        /\ available' \in [Socket -> BOOLEAN] /\ calls' \in 0..MaxCalls
    BY <1>1 DEF Release, Unlocked, Typed, MonitorRecord, ThreadsSound, Holding
  <1>3. Typed'
    BY <1>1, <1>2 DEF Typed
  <1>4. ThreadsSound'
    BY <1>1, <1>2 DEF Typed, ThreadsSound, Holding
  <1>5. HoldersLock' /\ WaitersLive'
    BY <1>1, <1>2 DEF Typed, ThreadsSound, HoldersLock, WaitersLive, Holding, NoDanglingMonitor, DestroyedIsForgotten, Users
  <1>6. UnusedIsFresh' /\ NoDanglingMonitor'
    BY <1>1, <1>2 DEF Typed, ThreadsSound, HoldersLock, UnusedIsFresh, NoDanglingMonitor, Holding
  <1>7. DyingIsRemoved'
    <2> SUFFICES ASSUME NEW m \in Monitors, NEW r \in Socket,
                        mon'[m].dying, debug_monitor'[r] = m
                 PROVE  \E u \in Threads : /\ thr'[u].m = m
                                           /\ \/ thr'[u].pc = "answered"
                                              \/ thr'[u].pc = "remove" /\ thr'[u].i <= r
      BY DEF DyingIsRemoved
    <2>1. PICK u \in Threads : /\ thr[u].m = m
                               /\ \/ thr[u].pc = "answered"
                                  \/ thr[u].pc = "remove" /\ thr[u].i <= r
      BY <1>1, <1>2 DEF DyingIsRemoved, Typed
    <2>2. u # t
      BY <1>1, <2>1
    <2> QED
      BY <1>1, <2>1, <2>2
  <1>8. DestroyedIsForgotten'
    BY <1>1, <1>2 DEF Typed, ThreadsSound, HoldersLock, DestroyedIsForgotten, Users, Attached, Holding
  <1>9. WaitersCounted'
    BY <1>1, <1>2, StillCounted DEF Typed, ThreadsSound, HoldersLock, Holding
  <1>10. RefCovers'
    BY <1>1, <1>2, <1>3, StillCovered DEF Typed, MonitorRecord, ThreadsSound, HoldersLock, Holding
  <1> QED
    BY <1>3, <1>4, <1>5, <1>6, <1>7, <1>8, <1>9, <1>10

(* The last one out destroys the monitor.                                  *)
LEMMA DestroyKeeps ==
  ASSUME Safe, NEW t \in Threads, Destroy(t)
  PROVE  Safe'
  <1> USE DebugAssumption DEF Safe
  <1>1. /\ thr' \in [Threads -> ThreadRecord]
        /\ \A u \in Threads \ {t} : thr'[u] = thr[u]
        /\ thr[t].pc = "destroy"
        /\ thr'[t].pc \in {"idle", "free"} /\ thr'[t].m = Null
        /\ thr'[t].pc = "free" => thr'[t].s \in Socket
    <2>1. thr[t].pc = "destroy" /\ thr' = Left(t)
      BY DEF Destroy, At
    <2> QED
      BY <2>1, LeftFacts DEF Holding
  <1>2. /\ thr[t].m \in Monitors
        /\ mon' \in [Monitors -> MonitorRecord]
        /\ \A n \in Monitors \ {thr[t].m} : mon'[n] = mon[n]
        /\ mon'[thr[t].m].state = "freed" /\ ~mon'[thr[t].m].dying
        /\ UNCHANGED debug_monitor
        /\ available' \in [Socket -> BOOLEAN] /\ calls' \in 0..MaxCalls
    BY <1>1, FreedFacts DEF Destroy, Typed, ThreadsSound, Holding
  <1>3. Typed'
    BY <1>1, <1>2 DEF Typed
  <1>4. ThreadsSound'
    BY <1>1, <1>2 DEF Typed, ThreadsSound, Holding
  <1>5. HoldersLock' /\ WaitersLive'
    BY <1>1, <1>2 DEF Typed, ThreadsSound, HoldersLock, WaitersLive, Holding, NoDanglingMonitor, DestroyedIsForgotten, Users
  <1>6. UnusedIsFresh' /\ NoDanglingMonitor'
    BY <1>1, <1>2 DEF Typed, ThreadsSound, HoldersLock, UnusedIsFresh, NoDanglingMonitor, Holding, DestroyedIsForgotten, Attached
  <1>7. DyingIsRemoved'
    <2> SUFFICES ASSUME NEW m \in Monitors, NEW r \in Socket,
                        mon'[m].dying, debug_monitor'[r] = m
                 PROVE  \E u \in Threads : /\ thr'[u].m = m
                                           /\ \/ thr'[u].pc = "answered"
                                              \/ thr'[u].pc = "remove" /\ thr'[u].i <= r
      BY DEF DyingIsRemoved
    <2>0. m # thr[t].m /\ mon[m].dying /\ debug_monitor[r] = m
      BY <1>2
    <2>1. PICK u \in Threads : /\ thr[u].m = m
                               /\ \/ thr[u].pc = "answered"
                                  \/ thr[u].pc = "remove" /\ thr[u].i <= r
      BY <2>0 DEF DyingIsRemoved
    <2>2. u # t
      BY <1>1, <2>1
    <2> QED
      BY <1>1, <2>1, <2>2
  <1>8. DestroyedIsForgotten'
    BY <1>1, <1>2 DEF Typed, ThreadsSound, HoldersLock, DestroyedIsForgotten, Users, Attached, Holding
  <1>9. WaitersCounted'
    BY <1>1, <1>2, StillCounted DEF Typed, ThreadsSound, HoldersLock, Holding
  <1>10. RefCovers'
    BY <1>1, <1>2, <1>3, StillCovered DEF Typed, MonitorRecord, ThreadsSound, HoldersLock, Holding
  <1> QED
    BY <1>3, <1>4, <1>5, <1>6, <1>7, <1>8, <1>9, <1>10

(* An entry is about to be freed.                                          *)
LEMMA FreeEntryKeeps ==
  ASSUME Safe, NEW t \in Threads, NEW s \in Socket, FreeEntry(t, s)
  PROVE  Safe'
  <1> USE DebugAssumption DEF Safe
  <1>1. /\ thr' \in [Threads -> ThreadRecord]
        /\ \A u \in Threads \ {t} : thr'[u] = thr[u]
        /\ thr[t].pc = "idle"
        /\ thr'[t].pc \in {"free", "load"}
        /\ thr'[t].s = s /\ thr'[t].m = Null /\ thr'[t].closing
    BY IdleFacts DEF FreeEntry, Begin, At, Typed, ThreadRecord, Label, ThreadsSound, Holding
  <1>2. /\ UNCHANGED <<debug_monitor, mon>>
        /\ available' \in [Socket -> BOOLEAN] /\ calls' \in 0..MaxCalls
    BY DEF FreeEntry, Begin, Typed
  <1>3. Typed'
    BY <1>1, <1>2 DEF Typed
  <1>4. ThreadsSound'
    BY <1>1, <1>2 DEF Typed, ThreadsSound, Holding
  <1>5. HoldersLock' /\ WaitersLive'
    BY <1>1, <1>2 DEF Typed, ThreadsSound, HoldersLock, WaitersLive, Holding, NoDanglingMonitor, DestroyedIsForgotten, Users
  <1>6. UnusedIsFresh' /\ NoDanglingMonitor'
    BY <1>1, <1>2 DEF Typed, ThreadsSound, HoldersLock, UnusedIsFresh, NoDanglingMonitor, Holding
  <1>7. DyingIsRemoved'
    BY <1>1, <1>2 DEF Typed, ThreadsSound, HoldersLock, UnusedIsFresh, DyingIsRemoved, Holding
  <1>8. DestroyedIsForgotten'
    BY <1>1, <1>2 DEF Typed, ThreadsSound, HoldersLock, DestroyedIsForgotten, Users, Attached, Holding
  <1>9. WaitersCounted'
    BY <1>1, <1>2, StillCounted DEF Typed, ThreadsSound, HoldersLock, Holding
  <1>10. RefCovers'
    BY <1>1, <1>2, <1>3, StillCovered DEF Typed, MonitorRecord, ThreadsSound, HoldersLock, Holding
  <1> QED
    BY <1>3, <1>4, <1>5, <1>6, <1>7, <1>8, <1>9, <1>10

(* chitcpd_debug_detach_monitor reads the pointer without the lock.        *)
LEMMA LoadKeeps ==
  ASSUME Safe, NEW t \in Threads, Load(t)
  PROVE  Safe'
  <1> USE DebugAssumption DEF Safe
  <1>1. /\ thr' \in [Threads -> ThreadRecord]
        /\ \A u \in Threads \ {t} : thr'[u] = thr[u]
        /\ thr[t].pc = "load"
        /\ thr'[t].pc = "announce"
        /\ thr'[t].s = thr[t].s /\ thr'[t].m = debug_monitor[thr[t].s]
        /\ thr'[t].closing = thr[t].closing
    BY DEF Load, At, Typed, ThreadRecord, Label, ThreadsSound, Holding
  <1>2. /\ UNCHANGED <<debug_monitor, mon>>
        /\ available' \in [Socket -> BOOLEAN] /\ calls' \in 0..MaxCalls
    BY DEF Load, Begin, Typed
  <1>3. Typed'
    BY <1>1, <1>2 DEF Typed
  <1>4. ThreadsSound'
    BY <1>1, <1>2 DEF Typed, ThreadsSound, Holding
  <1>5. HoldersLock' /\ WaitersLive'
    BY <1>1, <1>2 DEF Typed, ThreadsSound, HoldersLock, WaitersLive, Holding, NoDanglingMonitor, DestroyedIsForgotten, Users
  <1>6. UnusedIsFresh' /\ NoDanglingMonitor'
    BY <1>1, <1>2 DEF Typed, ThreadsSound, HoldersLock, UnusedIsFresh, NoDanglingMonitor, Holding
  <1>7. DyingIsRemoved'
    BY <1>1, <1>2 DEF Typed, ThreadsSound, HoldersLock, UnusedIsFresh, DyingIsRemoved, Holding
  <1>8. DestroyedIsForgotten'
    BY <1>1, <1>2 DEF Typed, ThreadsSound, HoldersLock, DestroyedIsForgotten, Users, Attached, Holding
  <1>9. WaitersCounted'
    BY <1>1, <1>2, StillCounted DEF Typed, ThreadsSound, HoldersLock, Holding
  <1>10. RefCovers'
    BY <1>1, <1>2, <1>3, StillCovered DEF Typed, MonitorRecord, ThreadsSound, HoldersLock, Holding
  <1> QED
    BY <1>3, <1>4, <1>5, <1>6, <1>7, <1>8, <1>9, <1>10

(* The thread that frees the entry counts itself: the monitor is still there. *)
LEMMA AnnounceWaitsKeeps ==
  ASSUME Safe, NEW t \in Threads, Announce(t), thr[t].m # Null, mon[thr[t].m].state = "live"
  PROVE  Safe'
  <1> USE DebugAssumption DEF Safe
  <1>1. /\ thr' \in [Threads -> ThreadRecord]
        /\ \A u \in Threads \ {t} : thr'[u] = thr[u]
        /\ thr[t].pc = "announce"
        /\ thr'[t].pc = "wait"
        /\ thr'[t].s = thr[t].s /\ thr'[t].m = thr[t].m /\ thr'[t].closing = thr[t].closing
        /\ thr[t].m \in Monitors /\ thr[t].closing
    <2>1. thr[t].pc = "announce" /\ Goto(t, "wait")
      BY DEF Announce, At
    <2>2. "wait" \in Label
      BY DEF Label
    <2> QED
      BY <2>1, <2>2, GotoFacts DEF Typed, ThreadRecord, ThreadsSound, Holding
  <1>2. /\ mon' = Announced(thr[t].m) /\ mon' \in [Monitors -> MonitorRecord]
        /\ \A n \in Monitors : /\ n # thr[t].m => mon'[n] = mon[n]
                               /\ mon'[n].state = mon[n].state /\ mon'[n].dying = mon[n].dying
                               /\ mon'[n].ref_count = mon[n].ref_count /\ mon'[n].lock = mon[n].lock
        /\ UNCHANGED debug_monitor
        /\ available' \in [Socket -> BOOLEAN] /\ calls' \in 0..MaxCalls
    BY <1>1 DEF Announce, Announced, Typed, MonitorRecord
  <1>3. Typed'
    BY <1>1, <1>2 DEF Typed
  <1>4. ThreadsSound'
    BY <1>1, <1>2 DEF Typed, ThreadsSound, Holding
  <1>5. HoldersLock' /\ WaitersLive'
    BY <1>1, <1>2 DEF Typed, ThreadsSound, HoldersLock, WaitersLive, Holding, NoDanglingMonitor, DestroyedIsForgotten, Users
  <1>6. UnusedIsFresh' /\ NoDanglingMonitor'
    BY <1>1, <1>2 DEF Typed, ThreadsSound, HoldersLock, UnusedIsFresh, NoDanglingMonitor, Holding
  <1>7. DyingIsRemoved'
    <2> SUFFICES ASSUME NEW m \in Monitors, NEW r \in Socket,
                        mon'[m].dying, debug_monitor'[r] = m
                 PROVE  \E u \in Threads : /\ thr'[u].m = m
                                           /\ \/ thr'[u].pc = "answered"
                                              \/ thr'[u].pc = "remove" /\ thr'[u].i <= r
      BY DEF DyingIsRemoved
    <2>1. PICK u \in Threads : /\ thr[u].m = m
                               /\ \/ thr[u].pc = "answered"
                                  \/ thr[u].pc = "remove" /\ thr[u].i <= r
      BY <1>1, <1>2 DEF DyingIsRemoved, Typed
    <2>2. u # t
      BY <1>1, <2>1
    <2> QED
      BY <1>1, <2>1, <2>2
  <1>8. DestroyedIsForgotten'
    <2> SUFFICES ASSUME NEW u \in Threads, thr'[u].pc = "destroy"
                 PROVE  /\ \A r \in Socket : debug_monitor'[r] # thr'[u].m
                        /\ \A v \in Threads : thr'[v].m = thr'[u].m /\ ~thr'[v].closing
                                                => thr'[v].pc # "wait"
      BY DEF DestroyedIsForgotten, Attached, Users
    <2>1. /\ \A r \in Socket : debug_monitor[r] # thr[u].m
          /\ \A v \in Threads : thr[v].m = thr[u].m /\ ~thr[v].closing => thr[v].pc # "wait"
          /\ u # t /\ thr'[u] = thr[u]
      BY <1>1 DEF DestroyedIsForgotten, Attached, Users
    <2>2. \A r \in Socket : debug_monitor'[r] # thr'[u].m
      BY <1>2, <2>1
    <2>3. ASSUME NEW v \in Threads, thr'[v].m = thr'[u].m, ~thr'[v].closing
          PROVE  thr'[v].pc # "wait"
      <3>1. CASE v = t
        BY <1>1, <2>3, <3>1
      <3>2. CASE v # t
        BY <1>1, <2>1, <2>3, <3>2
      <3> QED
        BY <3>1, <3>2
    <2> QED
      BY <2>2, <2>3
  <1>9. WaitersCounted'
    BY <1>1, <1>2, OneMoreWaiter
  <1>10. RefCovers'
    BY <1>1, <1>2, <1>3, StillCovered DEF Typed, MonitorRecord, ThreadsSound, HoldersLock, Holding
  <1> QED
    BY <1>3, <1>4, <1>5, <1>6, <1>7, <1>8, <1>9, <1>10

(* Or it has gone, and what follows is undefined.                          *)
LEMMA AnnounceLateKeeps ==
  ASSUME Safe, NEW t \in Threads, Announce(t), ~(thr[t].m # Null /\ mon[thr[t].m].state = "live")
  PROVE  Safe'
  <1> USE DebugAssumption DEF Safe
  <1>1. /\ thr' \in [Threads -> ThreadRecord]
        /\ \A u \in Threads \ {t} : thr'[u] = thr[u]
        /\ thr[t].pc = "announce"
        /\ thr'[t].pc = "undefined"
        /\ thr'[t].s = thr[t].s /\ thr'[t].m = thr[t].m /\ thr'[t].closing = thr[t].closing
    <2>1. thr[t].pc = "announce" /\ Goto(t, "undefined")
      BY DEF Announce, At
    <2>2. "undefined" \in Label
      BY DEF Label
    <2> QED
      BY <2>1, <2>2, GotoFacts
  <1>2. /\ UNCHANGED <<debug_monitor, mon>>
        /\ available' \in [Socket -> BOOLEAN] /\ calls' \in 0..MaxCalls
    BY <1>1 DEF Announce, Typed
  <1>3. Typed'
    BY <1>1, <1>2 DEF Typed
  <1>4. ThreadsSound'
    BY <1>1, <1>2 DEF Typed, ThreadsSound, Holding
  <1>5. HoldersLock' /\ WaitersLive'
    BY <1>1, <1>2 DEF Typed, ThreadsSound, HoldersLock, WaitersLive, Holding, NoDanglingMonitor, DestroyedIsForgotten, Users
  <1>6. UnusedIsFresh' /\ NoDanglingMonitor'
    BY <1>1, <1>2 DEF Typed, ThreadsSound, HoldersLock, UnusedIsFresh, NoDanglingMonitor, Holding
  <1>7. DyingIsRemoved'
    BY <1>1, <1>2 DEF Typed, ThreadsSound, HoldersLock, UnusedIsFresh, DyingIsRemoved, Holding
  <1>8. DestroyedIsForgotten'
    BY <1>1, <1>2 DEF Typed, ThreadsSound, HoldersLock, DestroyedIsForgotten, Users, Attached, Holding
  <1>9. WaitersCounted'
    BY <1>1, <1>2, StillCounted DEF Typed, ThreadsSound, HoldersLock, Holding
  <1>10. RefCovers'
    BY <1>1, <1>2, <1>3, StillCovered DEF Typed, MonitorRecord, ThreadsSound, HoldersLock, Holding
  <1> QED
    BY <1>3, <1>4, <1>5, <1>6, <1>7, <1>8, <1>9, <1>10

(* The thread that frees an entry has the lock of its monitor.             *)
LEMMA DetachKeeps ==
  ASSUME Safe, NEW t \in Threads, Detach(t)
  PROVE  Safe'
  <1> USE DebugAssumption DEF Safe
  <1>1. /\ thr' \in [Threads -> ThreadRecord]
        /\ \A u \in Threads \ {t} : thr'[u] = thr[u]
        /\ thr[t].pc = "detach"
        /\ thr'[t].pc = "release"
        /\ thr'[t].s = thr[t].s /\ thr'[t].m = thr[t].m /\ thr'[t].closing = thr[t].closing
    <2>1. thr[t].pc = "detach" /\ Goto(t, "release")
      BY DEF Detach, At
    <2>2. "release" \in Label
      BY DEF Label
    <2> QED
      BY <2>1, <2>2, GotoFacts
  <1>2. /\ mon' \in [Monitors -> MonitorRecord] /\ debug_monitor' \in [Socket -> Monitors \union {Null}]
        /\ \A n \in Monitors : /\ n # thr[t].m => mon'[n] = mon[n]
                               /\ mon'[n].state = mon[n].state /\ mon'[n].lock = mon[n].lock
                               /\ mon'[n].numwaiters = mon[n].numwaiters
        /\ debug_monitor'[thr[t].s] # thr[t].m
        /\ \A r \in Socket : debug_monitor'[r] \in {debug_monitor[r], Null}
        /\ mon'[thr[t].m].dying => mon[thr[t].m].dying \/ \A r \in Socket : debug_monitor'[r] # thr[t].m
        /\ RefCovers'
        /\ available' \in [Socket -> BOOLEAN] /\ calls' \in 0..MaxCalls
    <2>1. thr[t].m \in Monitors /\ mon[thr[t].m].state = "live" /\ thr[t].s \in Socket
      BY <1>1 DEF ThreadsSound, HoldersLock, Holding
    <2>2. mon' = Detached(thr[t].m, thr[t].s) /\ debug_monitor' = EntryDetached(thr[t].m, thr[t].s)
      BY DEF Detach
    <2>3. available' \in [Socket -> BOOLEAN] /\ calls' \in 0..MaxCalls
      BY DEF Detach, Typed
    <2> QED
      BY <2>1, <2>2, <2>3, DetachedProperties
  <1>3. Typed'
    BY <1>1, <1>2 DEF Typed
  <1>4. ThreadsSound'
    BY <1>1, <1>2 DEF Typed, ThreadsSound, Holding
  <1>5. HoldersLock' /\ WaitersLive'
    BY <1>1, <1>2 DEF Typed, ThreadsSound, HoldersLock, WaitersLive, Holding, NoDanglingMonitor, DestroyedIsForgotten, Users
  <1>6. UnusedIsFresh' /\ NoDanglingMonitor'
    <2>1. UnusedIsFresh'
      BY <1>1, <1>2 DEF UnusedIsFresh
    <2>2. NoDanglingMonitor'
      BY <1>1, <1>2 DEF Typed, NoDanglingMonitor
    <2> QED
      BY <2>1, <2>2
  <1>7. DyingIsRemoved'
    <2> SUFFICES ASSUME NEW m \in Monitors, NEW r \in Socket,
                        mon'[m].dying, debug_monitor'[r] = m
                 PROVE  \E u \in Threads : /\ thr'[u].m = m
                                           /\ \/ thr'[u].pc = "answered"
                                              \/ thr'[u].pc = "remove" /\ thr'[u].i <= r
      BY DEF DyingIsRemoved
    <2>0. mon[m].dying /\ debug_monitor[r] = m
      BY <1>2
    <2>1. PICK u \in Threads : /\ thr[u].m = m
                               /\ \/ thr[u].pc = "answered"
                                  \/ thr[u].pc = "remove" /\ thr[u].i <= r
      BY <2>0 DEF DyingIsRemoved
    <2>2. u # t
      BY <1>1, <2>1
    <2> QED
      BY <1>1, <2>1, <2>2
  <1>8. DestroyedIsForgotten'
    BY <1>1, <1>2 DEF Typed, ThreadsSound, HoldersLock, DestroyedIsForgotten, Users, Attached, Holding
  <1>9. WaitersCounted'
    BY <1>1, <1>2, StillCounted DEF Typed, ThreadsSound, HoldersLock, Holding
  <1>10. RefCovers'
    BY <1>2
  <1> QED
    BY <1>3, <1>4, <1>5, <1>6, <1>7, <1>8, <1>9, <1>10

(* The entry is cleared.                                                   *)
LEMMA FreeKeeps ==
  ASSUME Safe, NEW t \in Threads, Free(t)
  PROVE  Safe'
  <1> USE DebugAssumption DEF Safe
  <1>1. /\ thr' \in [Threads -> ThreadRecord]
        /\ \A u \in Threads \ {t} : thr'[u] = thr[u]
        /\ thr[t].pc = "free"
        /\ thr'[t].pc = "idle"
        /\ thr'[t].m = Null
    BY IdleFacts DEF Free, At, Typed, ThreadRecord, Label, ThreadsSound, Holding
  <1>2. /\ thr[t].s \in Socket
        /\ debug_monitor' = [debug_monitor EXCEPT ![thr[t].s] = Null]
        /\ debug_monitor' \in [Socket -> Monitors \union {Null}]
        /\ UNCHANGED mon
        /\ available' \in [Socket -> BOOLEAN] /\ calls' \in 0..MaxCalls
    BY <1>1 DEF Free, Typed, ThreadsSound
  <1>3. Typed'
    BY <1>1, <1>2 DEF Typed
  <1>4. ThreadsSound'
    BY <1>1, <1>2 DEF Typed, ThreadsSound, Holding
  <1>5. HoldersLock' /\ WaitersLive'
    BY <1>1, <1>2 DEF Typed, ThreadsSound, HoldersLock, WaitersLive, Holding, NoDanglingMonitor, DestroyedIsForgotten, Users
  <1>6. UnusedIsFresh' /\ NoDanglingMonitor'
    BY <1>1, <1>2 DEF Typed, ThreadsSound, HoldersLock, UnusedIsFresh, NoDanglingMonitor, Holding
  <1>7. DyingIsRemoved'
    BY <1>1, <1>2 DEF Typed, ThreadsSound, HoldersLock, UnusedIsFresh, DyingIsRemoved, Holding
  <1>8. DestroyedIsForgotten'
    BY <1>1, <1>2 DEF Typed, ThreadsSound, HoldersLock, DestroyedIsForgotten, Users, Attached, Holding
  <1>9. WaitersCounted'
    BY <1>1, <1>2, StillCounted DEF Typed, ThreadsSound, HoldersLock, Holding
  <1>10. RefCovers'
    BY <1>1, <1>2, <1>3, StillCovered DEF Typed, MonitorRecord, ThreadsSound, HoldersLock, Holding
  <1> QED
    BY <1>3, <1>4, <1>5, <1>6, <1>7, <1>8, <1>9, <1>10

-----------------------------------------------------------------------------
(* The invariant                                                           *)

(* The daemon starts without monitors.                                     *)
LEMMA InitSafe == Init => Safe
  <1> SUFFICES ASSUME Init PROVE Safe
    OBVIOUS
  <1> USE DebugAssumption
  <1>1. \A t \in Threads : thr[t] = Idle
    BY DEF Init
  <1>2. /\ \A m \in Monitors : mon[m].state = "unused" /\ mon[m].numwaiters = 0 /\ ~mon[m].dying
        /\ mon \in [Monitors -> MonitorRecord]
    BY DEF Init, Unused, MonitorRecord
  <1>3. Typed
    BY <1>2, IdleFacts DEF Typed, Init
  <1>4. ThreadsSound /\ HoldersLock /\ WaitersLive /\ UnusedIsFresh /\ DestroyedIsForgotten
    BY <1>1, <1>2, IdleFacts DEF ThreadsSound, HoldersLock, WaitersLive, UnusedIsFresh,
       DestroyedIsForgotten, Holding
  <1>5. NoDanglingMonitor /\ DyingIsRemoved
    BY <1>2 DEF Init, NoDanglingMonitor, DyingIsRemoved
  <1>6. WaitersCounted /\ RefCovers
    BY <1>2 DEF WaitersCounted, RefCovers
  <1> QED
    BY <1>3, <1>4, <1>5, <1>6 DEF Safe

(* Every step of every thread keeps the invariant.                         *)
LEMMA NextKeepsSafe == Safe /\ [Next]_vars => Safe'
  <1> SUFFICES ASSUME Safe, [Next]_vars PROVE Safe'
    OBVIOUS
  <1>1. ASSUME NEW t \in Threads, Continue(t)
        PROVE  Safe'
    <2>1. CASE Register(t)
      BY <2>1, RegisterAgainKeeps, RegisterNewKeeps DEF Register
    <2>2. CASE Release(t)
      BY <2>2, ReleaseToDestroyKeeps, ReleaseUnlockKeeps
    <2>3. CASE Announce(t)
      BY <2>3, AnnounceWaitsKeeps, AnnounceLateKeeps
    <2> QED
      BY <1>1, <2>1, <2>2, <2>3, LockKeeps, ObtainedKeeps, FailKeeps, StopKeeps,
         AcceptMonitorKeeps, AnswerKeeps, AnsweredKeeps, RemoveKeeps, DestroyKeeps,
         LoadKeeps, DetachKeeps, FreeKeeps DEF Continue
  <1>2. ASSUME NEW t \in Threads, NEW s \in Socket, Call(t, s)
        PROVE  Safe'
    BY <1>2, AllocateKeeps, InitConnectionKeeps, FreeEntryKeeps, BreakpointKeeps DEF Call
  <1>3. CASE UNCHANGED vars
    BY <1>3 DEF vars, Safe, Typed, ThreadsSound, HoldersLock, WaitersLive, UnusedIsFresh,
       NoDanglingMonitor, DyingIsRemoved, DestroyedIsForgotten, WaitersCounted, RefCovers,
       Attached, Users
  <1> QED
    BY <1>1, <1>2, <1>3 DEF Next

(* So it holds in every reachable state.                                   *)
LEMMA AlwaysSafe == Spec => []Safe
  BY InitSafe, NextKeepsSafe, PTL DEF Spec

-----------------------------------------------------------------------------
(* What the counters are for                                               *)

(* In every state numwaiters is the number of threads on their way to      *)
(* lock_sockfd and ref_count covers the entries that refer to the monitor, *)
(* although both are changed by threads that hold different locks.         *)
THEOREM CountersAreTrue == Spec => []Inv
  <1>1. Safe => Inv
    BY TypedIsTypeOK DEF Safe, Inv
  <1> QED
    BY <1>1, AlwaysSafe, PTL

(* A thread that reached a breakpoint keeps the monitor it found there     *)
(* alive until it leaves it (obtain_debug_mon to debug_mon_release),       *)
(* whatever debuggers and the threads that free sockets do meanwhile.      *)
THEOREM BreakpointsAreSafe == Spec => []BreakpointIsSafe
  <1>1. Safe => BreakpointIsSafe
    <2> SUFFICES ASSUME Safe, NEW m \in Monitors, NEW t \in Users(m)
                 PROVE  mon[m].state = "live"
      BY DEF BreakpointIsSafe
    <2>1. t \in Threads /\ thr[t].m = m /\ ~thr[t].closing /\ m # Null
      BY DebugAssumption DEF Users
    <2>2. thr[t].pc \in Holding \union {"wait"}
      BY <2>1 DEF Safe, ThreadsSound, Typed, ThreadRecord, Label, Holding
    <2> QED
      BY <2>1, <2>2 DEF Safe, HoldersLock, WaitersLive
  <1> QED
    BY <1>1, AlwaysSafe, PTL

(* No entry of the socket table refers to a monitor that was destroyed:    *)
(* a dying monitor has left the table before debug_mon_release frees it.   *)
THEOREM TableIsClean == Spec => []NoDanglingMonitor
  <1>1. Safe => NoDanglingMonitor
    BY DEF Safe
  <1> QED
    BY <1>1, AlwaysSafe, PTL
=============================================================================
