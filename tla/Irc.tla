-------------------------------- MODULE Irc --------------------------------
(***************************************************************************)
(* chirc: connections and registration.  The server thread accepts         *)
(* connections and starts a thread for each (chirc/src/main.c); the        *)
(* threads handle NICK, USER, LUSERS and QUIT (chirc/src/handlers.c) on    *)
(* one list of clients, most of the time under listLock.                   *)
(*                                                                         *)
(* A call that looks in a list, adds to it or takes out what is at a       *)
(* position is one step, also where the lock is not taken: what a lookup   *)
(* may see of the list of clients while it is being changed is left out.   *)
(* A client is named by the thread that made its struct, which is never    *)
(* freed.  Messages are well formed, as parse.c asks.  The messages of a   *)
(* peer come through its descriptor; a peer that goes without QUIT sends   *)
(* nothing more, and nothing happens then (recv returns 0 for ever).       *)
(***************************************************************************)
EXTENDS Naturals, Sequences, FiniteSets

CONSTANTS NThreads,     \* bound: connections that are accepted
          NFds,         \* descriptors for connections
          Nicks,        \* nicknames
          MaxMessages,  \* bound: messages that arrive
          Null

ASSUME IrcAssumption == /\ NThreads \in Nat /\ NFds \in Nat /\ MaxMessages \in Nat
                        /\ Null \notin Nat \union Nicks

VARIABLES
  handlingSocket,   \* the variable whose address each new thread is given
  open,             \* the descriptors that are open
  thr,              \* the threads
  client,           \* the struct ClientData each of them has made
  clientList,       \* the list of clients
  counting,         \* the thread that iterates the list, and holds listLock
  contended,        \* nicknames two threads were about to set at once
  messages,         \* messages so far
  fate              \* "crashed": a null pointer was used

vars == <<handlingSocket, open, thr, client, clientList, counting, contended,
          messages, fate>>

Thread == 1..NThreads
Fd == 1..NFds

(* nick, c and pos: what NICK, USER and QUIT have found.                   *)
NoThread == [pc |-> "none", fd |-> Null, nick |-> Null, c |-> Null, pos |-> 0]

(* makeClient: no nick and no user yet.                                    *)
NoClient == [fd |-> Null, nick |-> Null, user |-> FALSE, registered |-> FALSE]

Init == /\ handlingSocket = Null
        /\ open = {}
        /\ thr = [t \in Thread |-> NoThread]
        /\ client = [t \in Thread |-> NoClient]
        /\ clientList = <<>>
        /\ counting = Null /\ contended = {}
        /\ messages = 0 /\ fate = "alive"

Alive == fate = "alive"

Ready(t, label) == Alive /\ thr[t].pc = label

(* listLock can be taken.                                                  *)
Unlocked == counting = Null

Goto(t, label) == thr' = [thr EXCEPT ![t].pc = label]

Crash == /\ fate' = "crashed"
         /\ UNCHANGED <<handlingSocket, open, thr, client, clientList, counting,
                        contended, messages>>
-----------------------------------------------------------------------------
(***************************************************************************)
(* The list: simclist with seeker and comparator of threads.c.             *)
(***************************************************************************)

(* The first index of a client of S, 0 if none is listed.                  *)
First(S) ==
  IF \E i \in DOMAIN clientList : clientList[i] \in S
    THEN CHOOSE i \in DOMAIN clientList :
           clientList[i] \in S /\ \A j \in 1..(i - 1) : clientList[j] \notin S
    ELSE 0

(* list_seek by descriptor, Null if nobody has it.                         *)
Seek(fd) == LET i == First({c \in Thread : client[c].fd = fd})
            IN IF i = 0 THEN Null ELSE clientList[i]

(* list_locate by nickname; that of a client without one is the empty one. *)
LocateNever(nick) == 0
Locate(nick) == First({c \in Thread : client[c].nick = nick})

(* list_delete_at does nothing to a list that is iterated, nor at a        *)
(* position that it has not.                                               *)
Deleted(i) ==
  IF counting # Null \/ i \notin DOMAIN clientList THEN clientList
  ELSE SubSeq(clientList, 1, i - 1) \o SubSeq(clientList, i + 1, Len(clientList))
-----------------------------------------------------------------------------
(***************************************************************************)
(* serverListen and the beginning of handleClient.                         *)
(***************************************************************************)

(* accept() returns the lowest free descriptor, and -1 if there is none.   *)
Accept(t) ==
  /\ Ready(t, "none")
  /\ \A u \in 1..(t - 1) : thr[u].pc # "none"
  /\ \E fd \in Fd \ open : /\ \A g \in 1..(fd - 1) : g \in open
                           /\ open' = open \union {fd}
                           /\ handlingSocket' = fd
  /\ Goto(t, "start")
  /\ UNCHANGED <<client, clientList, counting, contended, messages, fate>>

AcceptFails ==
  /\ Alive /\ open = Fd
  /\ handlingSocket' = Null
  /\ UNCHANGED <<open, thr, client, clientList, counting, contended, messages, fate>>

(* The thread reads the variable, which may be another connection's by now.*)
Start(t) ==
  /\ Ready(t, "start")
  /\ thr' = [thr EXCEPT ![t].pc = "append", ![t].fd = handlingSocket]
  /\ client' = [client EXCEPT ![t] = [NoClient EXCEPT !.fd = handlingSocket]]
  /\ UNCHANGED <<handlingSocket, open, clientList, counting, contended, messages, fate>>

AppendClient(t) ==
  /\ Ready(t, "append") /\ Unlocked
  /\ clientList' = Append(clientList, t)
  /\ Goto(t, "recv")
  /\ UNCHANGED <<handlingSocket, open, client, counting, contended, messages, fate>>

(* A message comes through the descriptor of thread t.  What a thread has  *)
(* read is handled also when a QUIT has closed the descriptor since; which *)
(* messages have been read is not kept.                                    *)
Receive(t) == /\ Ready(t, "recv")
              /\ thr[t].fd # Null
              /\ messages < MaxMessages
              /\ messages' = messages + 1
-----------------------------------------------------------------------------
(***************************************************************************)
(* The handlers.                                                           *)
(***************************************************************************)
Rival(t, nick) == \E u \in Thread \ {t} : thr[u].pc = "nick" /\ thr[u].nick = nick

(* NICK: is the nickname taken?                                            *)
Nick(t, nick) ==
  /\ Receive(t) /\ Unlocked
  /\ IF Locate(nick) # 0 THEN UNCHANGED <<thr, contended>>
     ELSE /\ thr' = [thr EXCEPT ![t].pc = "nick", ![t].nick = nick]
          /\ contended' = IF Rival(t, nick) THEN contended \union {nick} ELSE contended
  /\ UNCHANGED <<handlingSocket, open, client, clientList, counting, fate>>

(* If not, it is set in a critical section of its own.                     *)
NickSet(c, nick) == [client EXCEPT ![c].nick = nick]

SetNick(t) ==
  /\ Ready(t, "nick") /\ Unlocked
  /\ LET c == Seek(thr[t].fd) IN
     IF c = Null THEN Crash
     ELSE /\ client' = NickSet(c, thr[t].nick)
          /\ thr' = [thr EXCEPT ![t] = [@ EXCEPT !.pc = "welcome", !.nick = Null, !.c = c]]
          /\ UNCHANGED <<handlingSocket, open, clientList, counting, contended,
                         messages, fate>>

User(t) ==
  /\ Receive(t) /\ Unlocked
  /\ LET c == Seek(thr[t].fd) IN
     IF c = Null
       THEN /\ fate' = "crashed"
            /\ UNCHANGED <<thr, client>>
       ELSE /\ client' = [client EXCEPT ![c].user = TRUE]
            /\ thr' = [thr EXCEPT ![t].pc = "welcome", ![t].c = c]
            /\ UNCHANGED fate
  /\ UNCHANGED <<handlingSocket, open, clientList, counting, contended>>

(* Both end alike, without the lock: whoever has both names is registered  *)
(* and welcomed, and LUSERS follows, and MOTD.                             *)
Complete(c) == client[c].nick # Null /\ client[c].user

RegisteredByNick(c) ==
  LET i == Locate(client[c].nick)
  IN IF i = 0 THEN client ELSE [client EXCEPT ![clientList[i]].registered = TRUE]
Registered(c) == [client EXCEPT ![c].registered = TRUE]

Welcome(t) ==
  /\ Ready(t, "welcome")
  /\ LET c == thr[t].c IN
       /\ client' = IF Complete(c) THEN Registered(c) ELSE client
       /\ thr' = [thr EXCEPT ![t].pc = IF Complete(c) THEN "lusers" ELSE "recv",
                             ![t].c = IF Complete(c) THEN c ELSE Null]
  /\ UNCHANGED <<handlingSocket, open, clientList, counting, contended, messages, fate>>

Ask(t) ==
  /\ Receive(t)
  /\ \E label \in {"lusers", "motd"} : Goto(t, label)
  /\ UNCHANGED <<handlingSocket, open, client, clientList, counting, contended, fate>>

(* handle_LUSERS iterates the list under the lock ...                      *)
Count(t) ==
  /\ Ready(t, "lusers") /\ Unlocked
  /\ counting' = t
  /\ Goto(t, "counting")
  /\ UNCHANGED <<handlingSocket, open, client, clientList, contended, messages, fate>>

Counted(t) ==
  /\ Ready(t, "counting")
  /\ counting' = Null
  /\ Goto(t, "answer")
  /\ UNCHANGED <<handlingSocket, open, client, clientList, contended, messages, fate>>

(* ... and looks for the client it answers without it.                     *)
Answer(t) ==
  /\ Ready(t, "answer")
  /\ IF Seek(thr[t].fd) = Null THEN Crash
     ELSE /\ Goto(t, IF thr[t].c = Null THEN "recv" ELSE "motd")
          /\ UNCHANGED <<handlingSocket, open, client, clientList, counting, contended,
                         messages, fate>>

(* handle_MOTD looks for it again, and once more if there is no file.      *)
Motd(t) ==
  /\ Ready(t, "motd")
  /\ IF Seek(thr[t].fd) = Null THEN Crash
     ELSE /\ thr' = [thr EXCEPT ![t].pc = "recv", ![t].c = Null]
          /\ UNCHANGED <<handlingSocket, open, client, clientList, counting, contended,
                         messages, fate>>

(* Other messages look for the client that sent them and answer it, some   *)
(* of them under the lock: WHOIS, AWAY, OPER, MODE of a nickname, PRIVMSG  *)
(* and NOTICE to one, and a command that is unknown.  What they change is  *)
(* in the modes of the client, which are left out.                         *)
Inform(t) ==
  /\ Receive(t)
  /\ fate' = IF Seek(thr[t].fd) = Null THEN "crashed" ELSE fate
  /\ UNCHANGED <<handlingSocket, open, thr, client, clientList, counting, contended>>

(* QUIT takes no lock; the thread goes on with the descriptor it closes,   *)
(* which the next connection may get.                                      *)
Quit(t) ==
  /\ Receive(t)
  /\ thr' = [thr EXCEPT ![t].pc = "quit", ![t].c = Seek(thr[t].fd)]
  /\ UNCHANGED <<handlingSocket, open, client, clientList, counting, contended, fate>>

(* list_delete looks for the first client that compares equal, which is    *)
(* the first one with the same nickname, ...                               *)
QuitLocate(t) ==
  /\ Ready(t, "quit")
  /\ IF thr[t].c = Null /\ clientList # <<>> THEN Crash
     ELSE /\ thr' = [thr EXCEPT ![t] = [@ EXCEPT !.pc = "delete", !.c = Null, !.pos =
                       IF thr[t].c = Null THEN 0 ELSE Locate(client[thr[t].c].nick)]]
          /\ UNCHANGED <<handlingSocket, open, client, clientList, counting, contended,
                         messages, fate>>

(* ... and deletes whoever is at that position then.                       *)
QuitDelete(t) ==
  /\ Ready(t, "delete")
  /\ clientList' = Deleted(thr[t].pos)
  /\ thr' = [thr EXCEPT ![t].pc = "close", ![t].pos = 0]
  /\ UNCHANGED <<handlingSocket, open, client, counting, contended, messages, fate>>

QuitClose(t) ==
  /\ Ready(t, "close")
  /\ open' = open \ {thr[t].fd}
  /\ Goto(t, "recv")
  /\ UNCHANGED <<handlingSocket, client, clientList, counting, contended, messages, fate>>
-----------------------------------------------------------------------------
Serve(t) == \/ \E nick \in Nicks : Nick(t, nick)
            \/ User(t) \/ Ask(t) \/ Inform(t) \/ Quit(t)

Continue(t) == \/ Start(t) \/ AppendClient(t) \/ SetNick(t) \/ Welcome(t)
               \/ Count(t) \/ Counted(t) \/ Answer(t) \/ Motd(t)
               \/ QuitLocate(t) \/ QuitDelete(t) \/ QuitClose(t)

Next == AcceptFails \/ \E t \in Thread : Accept(t) \/ Serve(t) \/ Continue(t)

Spec == Init /\ [][Next]_vars
-----------------------------------------------------------------------------
(***************************************************************************)
(* Properties.                                                             *)
(***************************************************************************)
TypeOK ==
  /\ handlingSocket \in Fd \union {Null} /\ open \subseteq Fd
  /\ \A t \in Thread :
       /\ thr[t].pc \in {"none", "start", "append", "recv", "nick", "welcome", "lusers",
                         "counting", "answer", "motd", "quit", "delete", "close"}
       /\ thr[t].fd \in Fd \union {Null}
       /\ thr[t].nick \in Nicks \union {Null}
       /\ thr[t].c \in Thread \union {Null} /\ thr[t].pos \in Nat
       /\ client[t].fd \in Fd \union {Null}
       /\ client[t].nick \in Nicks \union {Null}
       /\ client[t].user \in BOOLEAN /\ client[t].registered \in BOOLEAN
  /\ clientList \in Seq(Thread)
  /\ counting \in Thread \union {Null}
  /\ contended \subseteq Nicks
  /\ messages \in 0..MaxMessages /\ fate \in {"alive", "crashed"}

(* A client that is registered has a nickname and a user name, whichever   *)
(* threads have set them and whatever has become of its descriptor.        *)
RegisteredIsNamed == \A c \in Thread :
   client[c].registered => client[c].nick # Null /\ client[c].user

(* A client that has given both names is registered as soon as no thread   *)
(* is finishing NICK or USER for it: when two threads serve one connection *)
(* and each sets one name, at least one of them sees both.                 *)
NamedIsRegistered == \A c \in Thread :
   client[c].nick # Null /\ client[c].user =>
     \/ client[c].registered
     \/ \E t \in Thread : thr[t].pc = "welcome" /\ thr[t].c = c

Inv == TypeOK /\ RegisteredIsNamed /\ NamedIsRegistered

(* Two clients in the list have the same nickname only if two threads were *)
(* between looking for it and setting it at the same time (handle_NICK).   *)
SharedOnlyByRace == \A i, j \in DOMAIN clientList :
   LET nick == client[clientList[i]].nick
   IN i # j /\ nick = client[clientList[j]].nick => nick \in contended \union {Null}
=============================================================================
