---------------------------- MODULE DebugMonitor ----------------------------
(***************************************************************************)
(* The debug monitors of chitcpd (chitcpd/breakpoint.c).  A debugger       *)
(* attaches to a socket; from then on every thread that reaches a          *)
(* breakpoint of that socket asks the debugger what to do and waits for    *)
(* the answer.  A monitor may serve several sockets (an accepted socket    *)
(* inherits the one of its listener), it is shared by TCP threads,         *)
(* connection threads and handlers, and it is released by whoever finds    *)
(* that nobody needs it: it is counted by ref_count (sockets), numwaiters  *)
(* (threads on their way to lock_sockfd) and the flag dying.               *)
(*                                                                         *)
(* The sections under lock_debug_monitor and lock_numwaiters never block,  *)
(* so each is one step; lock_sockfd, which is held while the debugger is   *)
(* asked, is the field "lock".  The daemon is running: when it stops,      *)
(* breakpoints are ignored.                                                *)
(***************************************************************************)
EXTENDS Naturals, FiniteSets

CONSTANTS Threads,      \* threads of the daemon
          NSockets,     \* chisocket_table_size
          Monitors,     \* the monitors that malloc may return
          MaxCalls,     \* bound on the calls the threads begin
          Null

ASSUME DebugAssumption == /\ NSockets \in Nat \ {0}
                          /\ MaxCalls \in Nat
                          /\ Null \notin Threads \union Monitors \union Nat
                          /\ IsFiniteSet(Threads)

VARIABLES available,      \* available of each entry of the socket table
          debug_monitor,  \* debug_monitor of each entry
          mon,            \* the monitors
          thr,            \* what each thread is doing
          calls           \* calls begun so far

vars == <<available, debug_monitor, mon, thr, calls>>

Socket == 1..NSockets

(* What a thread keeps: the entry and the monitor, the socket accept() has *)
(* just made, the index of a loop, and whether it is in                    *)
(* chitcpd_debug_detach_monitor, and so about to free the entry.           *)
Idle == [pc |-> "idle", s |-> Null, new |-> Null, m |-> Null, i |-> 0,
         closing |-> FALSE]

Unused == [state |-> "unused", lock |-> Null, numwaiters |-> 0,
           dying |-> FALSE, ref_count |-> 0]

Init == /\ available = [s \in Socket |-> TRUE]
        /\ debug_monitor = [s \in Socket |-> Null]
        /\ mon = [m \in Monitors |-> Unused]
        /\ thr = [t \in Threads |-> Idle]
        /\ calls = 0

At(t, label) == thr[t].pc = label

Goto(t, label) == thr' = [thr EXCEPT ![t].pc = label]

(* Thread t begins a call, if the bound allows one more.                   *)
Begin(t) == /\ At(t, "idle")
            /\ calls < MaxCalls
            /\ calls' = calls + 1

(***************************************************************************)
(* Changes of a monitor.                                                   *)
(***************************************************************************)

(* debug_mon_lock up to the point where the lock is waited for: the caller *)
(* is counted before it lets go of the entry.                              *)
Announced(m) == [mon EXCEPT ![m].numwaiters = @ + 1]

(* The lock is free: take it, and be no longer a waiter.                   *)
LockedStillWaiting(m, t) == [mon EXCEPT ![m].lock = t]
Locked(m, t) == [mon EXCEPT ![m].lock = t, ![m].numwaiters = @ - 1]

UnlockedNever(m) == mon
Unlocked(m) == [mon EXCEPT ![m].lock = Null]

(* attach_monitor_and_flags_to_entry counts the entry, a moment after it   *)
(* is changed; ref_count is looked at under lock_sockfd only, which the    *)
(* caller holds.                                                           *)
CountedOnce(m) == mon
Counted(m) == [mon EXCEPT ![m].ref_count = @ + 1]

(* detach_monitor_from_entry: if the entry still belongs to the monitor,   *)
(* count it off, and let the monitor die with the last entry.              *)
Detached(m, s) ==
  IF debug_monitor[s] = m
    THEN [mon EXCEPT ![m].ref_count = @ - 1,
                     ![m].dying = @ \/ mon[m].ref_count = 1]
    ELSE mon

EntryDetached(m, s) == IF debug_monitor[s] = m
                         THEN [debug_monitor EXCEPT ![s] = Null]
                         ELSE debug_monitor

(***************************************************************************)
(* The socket table, as far as the monitors can see it.                    *)
(***************************************************************************)

(* chitcpd_allocate_socket: the entry keeps its debug_monitor.             *)
Allocate(t, s) == /\ Begin(t)
                  /\ available[s]
                  /\ \A r \in 1..(s - 1) : ~available[r]
                  /\ available' = [available EXCEPT ![s] = FALSE]
                  /\ UNCHANGED <<debug_monitor, mon, thr>>

(***************************************************************************)
(* chitcpd_init_debug_connection, by the server thread: the descriptor is  *)
(* checked first, the entry is locked and given a new monitor later.       *)
(***************************************************************************)
InitConnection(t, s) == /\ Begin(t)
                        /\ ~available[s]
                        /\ thr' = [thr EXCEPT ![t] = [Idle EXCEPT !.pc = "init", !.s = s]]
                        /\ UNCHANGED <<available, debug_monitor, mon>>

Register(t) ==
  /\ At(t, "init")
  /\ thr' = [thr EXCEPT ![t] = Idle]
  /\ \/ /\ debug_monitor[thr[t].s] # Null          \* EAGAIN
        /\ UNCHANGED <<debug_monitor, mon>>
     \/ \E m \in Monitors :
          /\ debug_monitor[thr[t].s] = Null
          /\ mon[m].state = "unused"
          /\ mon' = [mon EXCEPT ![m].state = "live", ![m].ref_count = 1]
          /\ debug_monitor' = [debug_monitor EXCEPT ![thr[t].s] = m]
  /\ UNCHANGED <<available, calls>>

(***************************************************************************)
(* chitcpd_debug_breakpoint.  new is the socket that accept() has just     *)
(* made (DBG_EVT_PENDING_CONNECTION), Null for the other events.           *)
(***************************************************************************)

(* valid_parameters and the first half of obtain_debug_mon.                *)
Breakpoint(t, s, new) ==
  /\ Begin(t)
  /\ ~available[s]
  /\ debug_monitor[s] # Null
  /\ new # Null => (new # s /\ ~available[new])
  /\ mon' = Announced(debug_monitor[s])
  /\ thr' = [thr EXCEPT ![t] = [Idle EXCEPT !.pc = "wait", !.s = s, !.new = new,
                                            !.m = debug_monitor[s]]]
  /\ UNCHANGED <<available, debug_monitor>>

(* debug_mon_lock gets lock_sockfd, for a breakpoint or for a detach.      *)
Lock(t) == /\ At(t, "wait")
           /\ mon[thr[t].m].state = "live"
           /\ mon[thr[t].m].lock = Null
           /\ mon' = Locked(thr[t].m, t)
           /\ Goto(t, IF thr[t].closing THEN "detach" ELSE "obtained")
           /\ UNCHANGED <<available, debug_monitor, calls>>

(* The second half of obtain_debug_mon: while the thread waited the entry  *)
(* may have lost the monitor.                                              *)
Obtained(t) == /\ At(t, "obtained")
               /\ Goto(t, IF debug_monitor[thr[t].s] = thr[t].m
                            THEN "exchange" ELSE "release")
               /\ UNCHANGED <<available, debug_monitor, mon, calls>>

(* exchange_breakpoint_messages fails because the debugger has gone.       *)
Fail(t) == /\ At(t, "exchange")
           /\ mon' = [mon EXCEPT ![thr[t].m].dying = TRUE]
           /\ Goto(t, "answered")
           /\ UNCHANGED <<available, debug_monitor, calls>>

(* The debugger answers DBG_RESP_STOP.                                     *)
Stop(t) == /\ At(t, "exchange")
           /\ mon' = Detached(thr[t].m, thr[t].s)
           /\ debug_monitor' = EntryDetached(thr[t].m, thr[t].s)
           /\ Goto(t, "answered")
           /\ UNCHANGED <<available, calls>>

(* DBG_RESP_ACCEPT_MONITOR: the new socket gets the monitor, whatever it   *)
(* had before.                                                             *)
AcceptMonitor(t) ==
  /\ At(t, "exchange")
  /\ thr[t].new # Null
  /\ debug_monitor' = [debug_monitor EXCEPT ![thr[t].new] = thr[t].m]
  /\ mon' = Counted(thr[t].m)
  /\ Goto(t, "answered")
  /\ UNCHANGED <<available, calls>>

(* Any other answer only matters to the caller.                            *)
Answer(t) == /\ At(t, "exchange")
             /\ Goto(t, "answered")
             /\ UNCHANGED <<available, debug_monitor, mon, calls>>

(* A dying monitor is taken out of the table before it is released.        *)
Answered(t) == /\ At(t, "answered")
               /\ thr' = [thr EXCEPT ![t].pc = IF mon[thr[t].m].dying
                                                 THEN "remove" ELSE "release",
                                     ![t].i = 1]
               /\ UNCHANGED <<available, debug_monitor, mon, calls>>

(* One turn of the loop of debug_mon_remove_from_chisocket_table.          *)
Remove(t) == /\ At(t, "remove")
             /\ mon' = Detached(thr[t].m, thr[t].i)
             /\ debug_monitor' = EntryDetached(thr[t].m, thr[t].i)
             /\ thr' = [thr EXCEPT ![t].i = @ + 1,
                                   ![t].pc = IF thr[t].i = NSockets
                                               THEN "release" ELSE "remove"]
             /\ UNCHANGED <<available, calls>>

(* debug_mon_release: whoever leaves a dying monitor that no thread waits  *)
(* for destroys it; everybody else unlocks it.                             *)
Left(t) == IF thr[t].closing
             THEN [thr EXCEPT ![t].pc = "free", ![t].m = Null]
             ELSE [thr EXCEPT ![t] = Idle]

ToDestroyUncounted(m) == mon[m].dying
ToDestroyHasty(m) == mon[m].numwaiters = 0
ToDestroy(m) == mon[m].dying /\ mon[m].numwaiters = 0

Release(t) ==
  /\ At(t, "release")
  /\ IF ToDestroy(thr[t].m)
       THEN mon' = mon /\ Goto(t, "destroy")
       ELSE /\ mon' = Unlocked(thr[t].m)
            /\ thr' = Left(t)
  /\ UNCHANGED <<available, debug_monitor, calls>>

Destroy(t) == /\ At(t, "destroy")
              /\ mon' = [mon EXCEPT ![thr[t].m] = [Unused EXCEPT !.state = "freed"]]
              /\ thr' = Left(t)
              /\ UNCHANGED <<available, debug_monitor, calls>>

(***************************************************************************)
(* chitcpd_free_socket_entry.  An entry is freed by one thread: by its TCP *)
(* thread when it is active, by a handler when it is passive.              *)
(***************************************************************************)
Freeing(s) == \E t \in Threads : thr[t].s = s /\ thr[t].closing

(* The test whether the entry has a monitor, without its lock.             *)
FreeEntry(t, s) ==
  /\ Begin(t)
  /\ ~available[s]
  /\ ~Freeing(s)
  /\ thr' = [thr EXCEPT ![t] = [Idle EXCEPT !.s = s, !.closing = TRUE,
               !.pc = IF debug_monitor[s] = Null THEN "free" ELSE "load"]]
  /\ UNCHANGED <<available, debug_monitor, mon>>

(* chitcpd_debug_detach_monitor reads the pointer again, without the lock. *)
Load(t) == /\ At(t, "load")
           /\ thr' = [thr EXCEPT ![t].m = debug_monitor[thr[t].s],
                                 ![t].pc = "announce"]
           /\ UNCHANGED <<available, debug_monitor, mon, calls>>

(* debug_mon_lock(debug_mon, NULL).  The monitor may have been destroyed   *)
(* since its address was read, or the address may be NULL: the behaviour   *)
(* is undefined then, and the thread is left where it is, as it is if it   *)
(* waits for a monitor that is destroyed.                                  *)
Announce(t) ==
  /\ At(t, "announce")
  /\ IF thr[t].m # Null /\ mon[thr[t].m].state = "live"
       THEN mon' = Announced(thr[t].m) /\ Goto(t, "wait")
       ELSE mon' = mon /\ Goto(t, "undefined")
  /\ UNCHANGED <<available, debug_monitor, calls>>

Detach(t) == /\ At(t, "detach")
             /\ mon' = Detached(thr[t].m, thr[t].s)
             /\ debug_monitor' = EntryDetached(thr[t].m, thr[t].s)
             /\ Goto(t, "release")
             /\ UNCHANGED <<available, calls>>

(* memset of the entry, which takes no lock.                               *)
Free(t) == /\ At(t, "free")
           /\ available' = [available EXCEPT ![thr[t].s] = TRUE]
           /\ debug_monitor' = [debug_monitor EXCEPT ![thr[t].s] = Null]
           /\ thr' = [thr EXCEPT ![t] = Idle]
           /\ UNCHANGED <<mon, calls>>

(***************************************************************************)
(* The specification.  A call that has begun goes on, and a debugger that  *)
(* is asked answers or its connection ends; nothing is promised of when    *)
(* calls begin.                                                            *)
(***************************************************************************)
Continue(t) == \/ Register(t) \/ Lock(t) \/ Obtained(t)
               \/ Fail(t) \/ Stop(t) \/ AcceptMonitor(t) \/ Answer(t)
               \/ Answered(t) \/ Remove(t) \/ Release(t) \/ Destroy(t)
               \/ Load(t) \/ Announce(t) \/ Detach(t) \/ Free(t)

Call(t, s) == \/ Allocate(t, s) \/ InitConnection(t, s) \/ FreeEntry(t, s)
              \/ \E new \in Socket \union {Null} : Breakpoint(t, s, new)

Next == \E t \in Threads : Continue(t) \/ \E s \in Socket : Call(t, s)

Spec == Init /\ [][Next]_vars

FairSpec == Spec /\ \A t \in Threads : WF_vars(Continue(t))

(***************************************************************************)
(* Properties.                                                             *)
(***************************************************************************)
Attached(m) == {s \in Socket : debug_monitor[s] = m}

Users(m) == {t \in Threads : thr[t].m = m /\ ~thr[t].closing}

TypeOK ==
  /\ available \in [Socket -> BOOLEAN]
  /\ debug_monitor \in [Socket -> Monitors \union {Null}]
  /\ mon \in [Monitors -> [state : {"unused", "live", "freed"},
                           lock : Threads \union {Null}, numwaiters : Nat,
                           dying : BOOLEAN, ref_count : Nat]]
  /\ thr \in [Threads -> [pc : {"idle", "init", "wait", "obtained", "exchange",
                                "answered", "remove", "release", "destroy", "load",
                                "announce", "detach", "free", "undefined"},
                          s : Socket \union {Null}, new : Socket \union {Null},
                          m : Monitors \union {Null}, i : 0..(NSockets + 1),
                          closing : BOOLEAN]]
  /\ calls \in 0..MaxCalls

(* The count that decides over destroying a monitor is the number of       *)
(* threads on their way to its lock (debug_mon_lock).                      *)
WaitersCounted ==
  \A m \in Monitors : mon[m].state = "live" =>
     mon[m].numwaiters = Cardinality({t \in Threads : thr[t].pc = "wait" /\ thr[t].m = m})

(* A thread at a breakpoint never uses a monitor that has been destroyed,  *)
(* whoever else gives it up meanwhile (obtain_debug_mon counts it before   *)
(* it lets go of the entry).                                               *)
BreakpointIsSafe == \A m \in Monitors : Users(m) # {} => mon[m].state = "live"

(* No entry of the table refers to a destroyed monitor.                    *)
NoDanglingMonitor == \A s \in Socket :
                        debug_monitor[s] # Null => mon[debug_monitor[s]].state = "live"

(* ref_count never says that no socket is left while one is, so that a     *)
(* monitor does not begin to die under a socket (detach_monitor_from_entry *)
(* and attach_monitor_and_flags_to_entry).                                 *)
RefCovers == \A m \in Monitors :
  mon[m].state = "live" => mon[m].ref_count >= Cardinality(Attached(m))

Inv == TypeOK /\ WaitersCounted /\ RefCovers

(* A thread that has reached a breakpoint gets past it (obtain_debug_mon   *)
(* to debug_mon_release): nobody keeps lock_sockfd.                        *)
BreakpointReturns == \A t \in Threads :
   (thr[t].m # Null /\ ~thr[t].closing) ~> At(t, "idle")

(* What has begun to die is destroyed, also when several threads wait for  *)
(* it (debug_mon_release: the last one out).                               *)
DyingIsDestroyed == \A m \in Monitors : mon[m].dying ~> mon[m].state = "freed"
=============================================================================
