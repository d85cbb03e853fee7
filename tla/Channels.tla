------------------------------ MODULE Channels ------------------------------
(***************************************************************************)
(* chirc: the channels (chirc/src/channel.c) and the handlers that use     *)
(* them, JOIN, PART, PRIVMSG, NOTICE, TOPIC, MODE, NAMES and LIST          *)
(* (chirc/src/handlers.c), beside the connections of module Irc.           *)
(*                                                                         *)
(* A handler is a sequence of steps, each of them one call on a list, one  *)
(* access to a counter, or an iteration that nobody can change (its list   *)
(* is locked against additions, and a list that is being iterated refuses  *)
(* deletions).  An addition to the list of channels is two steps, since    *)
(* lookups take no lock and may see it half done.  Once memory is used     *)
(* that has been freed, an entry beyond the end of a list, or a link that  *)
(* is not set yet, nothing more is said of the program.  Modes and the     *)
(* text of topics are left out; what depends on a mode is open.            *)
(***************************************************************************)
EXTENDS Irc, Integers

CONSTANTS Names,        \* names of channels
          NChannels,    \* bound: channels that are created
          MaxCommands   \* bound: messages about channels

ASSUME ChannelsAssumption == /\ NChannels \in Nat /\ MaxCommands \in Nat
                             /\ Null \notin Names

VARIABLES
  chan,         \* the channels that have been created
  channelList,  \* the list of channels
  listing,      \* the thread that iterates it, and holds chanListLock
  task,         \* the handler each thread is in
  misuse,       \* whether a channel or a link of a list was used that is not valid
  commands,     \* messages about channels so far
  late,         \* threads behind whose lookup the list has changed
  raced,        \* names that such a thread has added to the list
  blind,        \* descriptors that joined while the members were iterated
  overlapped    \* whether a PART or TOPIC ran beside another handler, or a
                \* lookup went wrong that met an addition half done

channelVars == <<chan, channelList, listing, task, misuse, commands, late, raced,
                 blind, overlapped>>

Channel == 1..NChannels

(* freed: destroyChannel has run; topic: "freed" until the new one is set; *)
(* reader: the thread of NAMES that iterates the members, and holds        *)
(* UICListLock.                                                            *)
NoChannel == [name |-> Null, members |-> <<>>, nusers |-> 0, freed |-> FALSE,
              topic |-> "set", reader |-> Null]

Idle == [pc |-> "idle", op |-> Null, name |-> Null, c |-> Null, fd |-> Null,
         ch |-> Null, pos |-> 0, n |-> 0, busy |-> FALSE]
-----------------------------------------------------------------------------
(***************************************************************************)
(* Where a run begins: with nothing, and then with no message about        *)
(* channels; or, if the bounds leave room for it, with two registered      *)
(* clients and no channel, or one channel of the first client and one of   *)
(* both.                                                                   *)
(***************************************************************************)
Fresh == Init /\ commands = MaxCommands /\ chan = [k \in Channel |-> NoChannel]
              /\ channelList = <<>>

Connected ==
  /\ {1, 2} \subseteq Thread \intersect Fd
  /\ handlingSocket = 2 /\ open = {1, 2}
  /\ thr = [t \in Thread |->
              IF t \in {1, 2} THEN [NoThread EXCEPT !.pc = "recv", !.fd = t] ELSE NoThread]
  /\ \E m, n \in Nicks :
       /\ m # n
       /\ client = [t \in Thread |->
            IF t \in {1, 2} THEN [fd |-> t, nick |-> IF t = 1 THEN m ELSE n,
                                  user |-> TRUE, registered |-> TRUE]
            ELSE NoClient]
  /\ clientList = <<1, 2>>
  /\ counting = Null /\ contended = {} /\ fate = "alive"
  /\ \E n \in {0, 1} : /\ n <= MaxMessages /\ n <= MaxCommands
                      /\ messages = MaxMessages - n /\ commands = n
  /\ \E x, y \in Names :
       /\ x # y
       /\ \/ chan = [k \in Channel |-> NoChannel] /\ channelList = <<>>
          \/ /\ {1, 2} \subseteq Channel
             /\ chan = [k \in Channel |->
                  CASE k = 1 -> [NoChannel EXCEPT !.name = x, !.members = <<1>>, !.nusers = 1]
                    [] k = 2 -> [NoChannel EXCEPT !.name = y, !.members = <<1, 2>>, !.nusers = 2]
                    [] OTHER -> NoChannel]
             /\ channelList = <<1, 2>>

ChannelInit ==
  /\ Fresh \/ Connected
  /\ listing = Null /\ task = [t \in Thread |-> Idle]
  /\ misuse = FALSE /\ late = {} /\ raced = {} /\ blind = {} /\ overlapped = FALSE
-----------------------------------------------------------------------------
(***************************************************************************)
(* Steps of a handler.                                                     *)
(***************************************************************************)
At(t, label) == Alive /\ ~misuse /\ task[t].pc = label

Goes(t, label) == task' = [task EXCEPT ![t].pc = label]
Ends(t) == task' = [task EXCEPT ![t] = Idle]

history == <<late, raced, blind, overlapped>>
lists == <<chan, channelList, listing>>

Misuse == /\ misuse' = TRUE
          /\ UNCHANGED <<vars, lists, task, commands, history>>

(* A null pointer is used.                                                 *)
Faults == Crash /\ UNCHANGED channelVars

(* The members of the channel of t's handler can be locked.                *)
MembersUnlocked(t) == chan[task[t].ch].reader = Null

Gone(t) == chan[task[t].ch].freed

(* Others whose lookup is older than a change of the list.                 *)
Overtaken(t) == late \union {u \in Thread \ {t} : task[u].pc \in {"get", "create"}}

(* Another JOIN is adding its channel, the last one of the list: it holds  *)
(* chanListLock, but the new entry may not be linked, counted or followed  *)
(* by the pointer to the middle yet.                                       *)
Halfway(t) == \E u \in Thread \ {t} : task[u].pc = "link"

ChanListFree == listing = Null /\ \A u \in Thread : task[u].pc # "link"
-----------------------------------------------------------------------------
(***************************************************************************)
(* A message about channels arrives.  NAMES and LIST may name none.        *)
(***************************************************************************)
Freeing == {"PART", "REMOVE", "TOPIC"}

(* Handlers that look for the client under listLock, and those that need   *)
(* it whatever they find then.                                             *)
Locking == {"JOIN", "PART", "TOPIC", "MODE"}
Asking == Locking \union {"PRIVMSG"}

Command(t, op, name) ==
  LET c == Seek(thr[t].fd)
      others == {u \in Thread \ {t} : task[u] # Idle}
  IN /\ Ready(t, "recv") /\ ~misuse /\ task[t] = Idle
     /\ thr[t].fd # Null
     /\ commands < MaxCommands
     /\ op \in Locking => Unlocked
     /\ commands' = commands + 1
     /\ overlapped' = (overlapped \/ \E u \in others : {op, task[u].op} \cap Freeing # {})
     /\ IF c = Null /\ op \in Asking THEN Crash /\ UNCHANGED task
        ELSE /\ task' = [task EXCEPT ![t] =
                  [Idle EXCEPT !.pc = IF name = Null THEN "iterate" ELSE "locate",
                               !.op = op, !.name = name, !.fd = thr[t].fd, !.c = c]]
             /\ UNCHANGED vars
     /\ UNCHANGED <<lists, misuse, late, raced, blind>>

Commands == {"JOIN", "PART", "PRIVMSG", "NOTICE", "TOPIC", "MODE", "NAMES", "LIST"}
-----------------------------------------------------------------------------
(***************************************************************************)
(* findChannel: list_locate by name, then list_get_at; no lock.            *)
(***************************************************************************)
LocateNone(name) == 0

LocateChannel(name) ==
  IF \E i \in DOMAIN channelList : chan[channelList[i]].name = name
    THEN CHOOSE i \in DOMAIN channelList :
           /\ chan[channelList[i]].name = name
           /\ \A j \in 1..(i - 1) : chan[channelList[j]].name # name
    ELSE 0

(* The names up to the one that is found are read.                         *)
NamesValid(i) == \A j \in DOMAIN channelList : i = 0 \/ j <= i => ~chan[channelList[j]].freed

(* What each handler does with the channel, or with none.                  *)
WhenFound(op) == CASE op = "NAMES" -> "names" [] op = "LIST" -> "show" [] OTHER -> "copy"

NotFound(t) ==
  LET op == task[t].op
  IN CASE op = "JOIN"  -> Goes(t, "create") /\ UNCHANGED vars
       [] op = "NAMES" -> Crash /\ UNCHANGED task
       [] OTHER        -> Ends(t) /\ UNCHANGED vars

(* findChannel makes a channel to compare with, which takes listLock.      *)
FindLocate(t) ==
  /\ At(t, "locate") /\ Unlocked
  /\ LET i == LocateChannel(task[t].name)
     IN IF ~NamesValid(i) THEN Misuse
        ELSE /\ late' = late \ {t}
             /\ IF i = 0 THEN NotFound(t)
                ELSE /\ task' = [task EXCEPT ![t].pc = "get", ![t].pos = i]
                     /\ UNCHANGED vars
             /\ UNCHANGED <<lists, misuse, commands, raced, blind, overlapped>>

FindGet(t) ==
  /\ At(t, "get")
  /\ \/ /\ task[t].pos > Len(channelList)
        /\ NotFound(t)
     \/ /\ task[t].pos <= Len(channelList)
        /\ task' = [task EXCEPT ![t].pc = WhenFound(task[t].op), ![t].pos = 0,
                                ![t].ch = channelList[task[t].pos]]
        /\ UNCHANGED vars
     \/ /\ task[t].pos <= Len(channelList) /\ task[t].op = "MODE"
        /\ Ends(t)      \* a question about the channel
        /\ UNCHANGED vars
  /\ UNCHANGED <<lists, misuse, commands, history>>

(* A lookup by name beside an addition may miss the new channel, ...       *)
LocateHalfway(t) ==
  /\ At(t, "locate") /\ Unlocked /\ Halfway(t)
  /\ LocateChannel(task[t].name) = Len(channelList) /\ NamesValid(0)
  /\ NotFound(t)
  /\ late' = late \union {t} /\ overlapped' = TRUE
  /\ UNCHANGED <<lists, misuse, commands, raced, blind>>

(* ... one by position goes from the middle or the end, and may arrive one *)
(* further or nearer, at either end of the list at nothing, ...            *)
GetHalfway(t) ==
  LET near == {i \in DOMAIN channelList : i - 1 <= task[t].pos /\ task[t].pos <= i + 1}
  IN /\ At(t, "get") /\ Halfway(t)
     /\ \/ NotFound(t)
        \/ /\ \E i \in near : task' = [task EXCEPT ![t].pc = WhenFound(task[t].op),
                                                   ![t].pos = 0, ![t].ch = channelList[i]]
           /\ UNCHANGED vars
     /\ late' = late \union {t} /\ overlapped' = TRUE
     /\ UNCHANGED <<lists, misuse, commands, raced, blind>>

(* ... and each may follow a link that is not set yet, also to delete.     *)
Astray(t) ==
  /\ \/ At(t, "locate") /\ Unlocked /\ LocateChannel(task[t].name) \in {0, Len(channelList)}
     \/ At(t, "get") \/ At(t, "empty") \/ At(t, "destroy")
  /\ Halfway(t)
  /\ misuse' = TRUE /\ overlapped' = TRUE
  /\ UNCHANGED <<vars, lists, task, commands, late, raced, blind>>

(* JOIN creates a channel that it has not found, and adds it ...           *)
Create(t) ==
  /\ At(t, "create") /\ Unlocked /\ ChanListFree
  /\ \E k \in Channel :
       /\ chan[k].name = Null /\ \A j \in 1..(k - 1) : chan[j].name # Null
       /\ chan' = [chan EXCEPT ![k].name = task[t].name]
       /\ channelList' = Append(channelList, k)
       /\ task' = [task EXCEPT ![t].pc = "link", ![t].ch = k, ![t].pos = 0]
  /\ raced' = IF t \in late THEN raced \union {task[t].name} ELSE raced
  /\ late' = Overtaken(t)
  /\ UNCHANGED <<vars, listing, misuse, commands, blind, overlapped>>

(* ... until every lookup finds it.                                        *)
Link(t) ==
  /\ At(t, "link")
  /\ Goes(t, "copy")
  /\ UNCHANGED <<vars, lists, misuse, commands, history>>
-----------------------------------------------------------------------------
(***************************************************************************)
(* isUserInChannel: the head of the list is copied, with its length and    *)
(* its mark of being iterated; then the list is locked and the copy is     *)
(* iterated, which is refused if the copy bears the mark.                  *)
(***************************************************************************)
Copied(t, label) == [task EXCEPT ![t].pc = label,
                                 ![t].n = Len(chan[task[t].ch].members),
                                 ![t].busy = ~MembersUnlocked(t)]

Copy(t) ==
  /\ At(t, "copy")
  /\ task' = Copied(t, "check")
  /\ UNCHANGED <<vars, lists, misuse, commands, history>>

(* The first of n members with the descriptor, 0 if there is none.         *)
PositionTwoOn(members, n, fd) ==
  LET S == {i \in DOMAIN members : i > 1 /\ i <= n /\ client[members[i]].fd = fd}
  IN IF S = {} THEN 0 ELSE CHOOSE i \in S : \A j \in S : i <= j

Position(members, n, fd) ==
  LET S == {i \in DOMAIN members : i <= n /\ client[members[i]].fd = fd}
  IN IF S = {} THEN 0 ELSE CHOOSE i \in S : \A j \in S : i <= j

(* Where a handler goes when the user is at position i, 0 for nowhere.     *)
After(T, i) ==
  CASE T.op = "REMOVE"                       -> {"delete"}
    [] T.op = "JOIN"                         -> {IF i = 0 THEN "count" ELSE "end"}
    [] T.op \notin {"REMOVE", "JOIN"} /\ i = 0 -> {IF T.op = "MODE" THEN "crash" ELSE "end"}
    [] i # 0 /\ T.op = "NOTICE"              -> {IF T.c = Null THEN "crash" ELSE "head"}
    [] i # 0 /\ T.op \in {"PART", "PRIVMSG"} -> {"head"}
    [] i # 0 /\ T.op = "TOPIC"               -> {"show", "free"}
    [] i # 0 /\ T.op \in {"MODE", "MEMBER"}  -> {"member"}

Checked(t, i) ==
  \E label \in After(task[t], i) :
     CASE label = "crash" -> Crash /\ UNCHANGED task
       [] label = "end"   -> Ends(t) /\ UNCHANGED vars
       [] OTHER           -> /\ task' = [task EXCEPT ![t].pc = label, ![t].pos = i,
                                                     ![t].n = 0, ![t].busy = FALSE]
                             /\ UNCHANGED vars

Check(t) ==
  LET T == task[t]
      members == chan[T.ch].members
      i == IF T.busy THEN 0 ELSE Position(members, T.n, T.fd)
  IN /\ At(t, "check") /\ MembersUnlocked(t)
     /\ IF ~T.busy /\ (Gone(t) \/ (i = 0 /\ T.n > Len(members))) THEN Misuse
        ELSE /\ Checked(t, i)
             /\ blind' = IF T.busy /\ T.op = "JOIN" THEN blind \union {T.fd} ELSE blind
             /\ UNCHANGED <<lists, misuse, commands, late, raced, overlapped>>
-----------------------------------------------------------------------------
(***************************************************************************)
(* pairUserWithChannel: nusers is read and written without a lock, the     *)
(* client is appended with it.                                             *)
(***************************************************************************)
Quietly == UNCHANGED <<vars, misuse, commands, history>>

ReadUsers(t, from, to) ==
  /\ At(t, from)
  /\ task' = [task EXCEPT ![t].pc = to, ![t].n = chan[task[t].ch].nusers]
  /\ UNCHANGED lists /\ Quietly

WriteUsers(t, from, to, d) ==
  /\ At(t, from)
  /\ chan' = [chan EXCEPT ![task[t].ch].nusers = task[t].n + d]
  /\ task' = [task EXCEPT ![t].pc = to, ![t].n = 0]
  /\ UNCHANGED <<channelList, listing>> /\ Quietly

JoinRead(t) == ReadUsers(t, "count", "enter")
JoinWrite(t) == WriteUsers(t, "enter", "append", 1)

JoinAppend(t) ==
  /\ At(t, "append") /\ MembersUnlocked(t)
  /\ IF Gone(t) THEN Misuse
     ELSE /\ chan' = [chan EXCEPT ![task[t].ch].members = Append(@, task[t].c)]
          /\ Goes(t, "head")
          /\ UNCHANGED <<channelList, listing>> /\ Quietly

(* messageAllUsers, which copies the head of the list like isUserInChannel.*)
MessageCopy(t) ==
  /\ At(t, "head")
  /\ task' = Copied(t, "send")
  /\ UNCHANGED lists /\ Quietly

MessageAll(t) ==
  LET T == [task[t] EXCEPT !.n = 0, !.busy = FALSE]
  IN /\ At(t, "send") /\ MembersUnlocked(t)
     /\ IF ~task[t].busy /\ (Gone(t) \/ task[t].n > Len(chan[T.ch].members)) THEN Misuse
        ELSE /\ task' = [task EXCEPT ![t] =
                  CASE T.op = "JOIN" -> [T EXCEPT !.pc = "show"]
                    [] T.op = "PART" -> [T EXCEPT !.pc = "copy", !.op = "REMOVE"]
                    [] OTHER         -> Idle]
             /\ UNCHANGED lists /\ Quietly

(* The topic is read: by JOIN, TOPIC and LIST.                             *)
Show(t) ==
  LET T == task[t]
  IN /\ At(t, "show")
     /\ IF Gone(t) \/ chan[T.ch].topic = "freed" THEN Misuse
        ELSE /\ IF T.op = "LIST" /\ T.c = Null THEN Crash /\ UNCHANGED task
                ELSE /\ IF T.op = "LIST" /\ T.name = Null THEN Goes(t, "each") ELSE Ends(t)
                     /\ UNCHANGED vars
             /\ UNCHANGED <<lists, misuse, commands, history>>
-----------------------------------------------------------------------------
(***************************************************************************)
(* TOPIC frees the old topic and sets the new one.                         *)
(***************************************************************************)
TopicFree(t) ==
  /\ At(t, "free")
  /\ IF Gone(t) \/ chan[task[t].ch].topic = "freed" THEN Misuse
     ELSE /\ chan' = [chan EXCEPT ![task[t].ch].topic = "freed"]
          /\ Goes(t, "replace")
          /\ UNCHANGED <<channelList, listing>> /\ Quietly

TopicReplace(t) ==
  /\ At(t, "replace")
  /\ chan' = [chan EXCEPT ![task[t].ch].topic = "set"]
  /\ Goes(t, "head")
  /\ UNCHANGED <<channelList, listing>> /\ Quietly

(* MODE reads the modes of the member at the position it has found, and,   *)
(* if they allow it, tells the channel or looks for another member.        *)
Member(t) ==
  /\ At(t, "member") /\ MembersUnlocked(t)
  /\ IF Gone(t) \/ task[t].pos > Len(chan[task[t].ch].members) THEN Misuse
     ELSE /\ \/ Ends(t)
             \/ task[t].op = "MODE" /\ task' = [task EXCEPT ![t].pc = "head", ![t].pos = 0]
             \/ /\ task[t].op = "MODE" /\ Unlocked
                /\ \E i \in DOMAIN clientList :
                     task' = [task EXCEPT ![t].pc = "copy", ![t].op = "MEMBER", ![t].pos = 0,
                                          ![t].fd = client[clientList[i]].fd]
          /\ UNCHANGED lists /\ Quietly
-----------------------------------------------------------------------------
(***************************************************************************)
(* removeUser and destroyChannel, both without a lock.                     *)
(***************************************************************************)

(* list_delete_at at position i, which does nothing while the list is      *)
(* iterated, nor at a position that it has not.                            *)
Without(s, i, iterated) ==
  IF iterated \/ i \notin DOMAIN s THEN s ELSE SubSeq(s, 1, i - 1) \o SubSeq(s, i + 1, Len(s))

Remove(t) ==
  LET k == task[t].ch
      rest == Without(chan[k].members, task[t].pos, ~MembersUnlocked(t))
  IN /\ At(t, "delete")
     /\ IF rest # chan[k].members /\ Gone(t) THEN Misuse
        ELSE /\ chan' = [chan EXCEPT ![k].members = rest]
             /\ task' = [task EXCEPT ![t].pc = "leave", ![t].pos = 0]
             /\ UNCHANGED <<channelList, listing>> /\ Quietly

LeaveRead(t) == ReadUsers(t, "leave", "left")
LeaveWrite(t) == WriteUsers(t, "left", "empty", -1)

Empty(t) ==
  LET i == LocateChannel(chan[task[t].ch].name)
  IN /\ At(t, "empty")
     /\ IF chan[task[t].ch].nusers # 0 THEN Ends(t) /\ UNCHANGED lists /\ Quietly
        ELSE IF Gone(t) \/ ~NamesValid(i) THEN Misuse
        ELSE /\ task' = [task EXCEPT ![t].pc = "destroy", ![t].pos = i]
             /\ UNCHANGED lists /\ Quietly

UnlistNothing(t) == channelList
Unlist(t) == Without(channelList, task[t].pos, listing # Null)

(* A list that is iterated is not cleared, though it is freed.             *)
Destroy(t) ==
  LET k == task[t].ch
  IN /\ At(t, "destroy")
     /\ IF Gone(t) \/ chan[k].topic = "freed" THEN Misuse
        ELSE /\ channelList' = Unlist(t)
             /\ chan' = [chan EXCEPT ![k].freed = TRUE,
                                     ![k].members = IF MembersUnlocked(t) THEN <<>> ELSE @]
             /\ late' = IF channelList' = channelList THEN late ELSE Overtaken(t)
             /\ Ends(t)
             /\ UNCHANGED <<vars, listing, misuse, commands, raced, blind, overlapped>>
-----------------------------------------------------------------------------
(***************************************************************************)
(* NAMES iterates the members of a channel, and without a name it iterates *)
(* the list of channels, as LIST does.                                     *)
(***************************************************************************)
NamesStart(t) ==
  /\ At(t, "names") /\ MembersUnlocked(t)
  /\ IF Gone(t) THEN Misuse
     ELSE /\ chan' = [chan EXCEPT ![task[t].ch].reader = t]
          /\ Goes(t, "naming")
          /\ UNCHANGED <<channelList, listing>> /\ Quietly

NamesStop(t) ==
  /\ At(t, "naming")
  /\ IF Gone(t) THEN Misuse
     ELSE /\ chan' = [chan EXCEPT ![task[t].ch].reader = Null]
          /\ IF task[t].name = Null THEN Goes(t, "each") ELSE Ends(t)
          /\ UNCHANGED <<channelList, listing>> /\ Quietly

Iterate(t) ==
  /\ At(t, "iterate") /\ ChanListFree
  /\ listing' = t
  /\ task' = [task EXCEPT ![t].pc = "each", ![t].pos = 1]
  /\ UNCHANGED <<chan, channelList>> /\ Quietly

Each(t) ==
  /\ At(t, "each") /\ task[t].pos <= Len(channelList)
  /\ task' = [task EXCEPT ![t].pc = IF task[t].op = "NAMES" THEN "names" ELSE "show",
                          ![t].ch = channelList[task[t].pos], ![t].pos = @ + 1]
  /\ UNCHANGED lists /\ Quietly

IterateEnd(t) ==
  /\ At(t, "each") /\ task[t].pos > Len(channelList)
  /\ listing' = Null
  /\ IF task[t].op = "LIST" /\ task[t].c = Null THEN Crash /\ UNCHANGED task
     ELSE Ends(t) /\ UNCHANGED vars
  /\ UNCHANGED <<chan, channelList, misuse, commands, history>>
-----------------------------------------------------------------------------
Handle(t) ==
  \/ FindLocate(t) \/ FindGet(t) \/ LocateHalfway(t) \/ GetHalfway(t) \/ Astray(t)
  \/ Create(t) \/ Link(t) \/ Copy(t) \/ Check(t)
  \/ JoinRead(t) \/ JoinWrite(t) \/ JoinAppend(t) \/ MessageCopy(t) \/ MessageAll(t) \/ Show(t)
  \/ TopicFree(t) \/ TopicReplace(t) \/ Member(t)
  \/ Remove(t) \/ LeaveRead(t) \/ LeaveWrite(t) \/ Empty(t) \/ Destroy(t)
  \/ NamesStart(t) \/ NamesStop(t) \/ Iterate(t) \/ Each(t) \/ IterateEnd(t)

(* A thread that is in no handler of this module does what Irc says.       *)
Connection(t) ==
  /\ ~misuse /\ task[t] = Idle
  /\ Accept(t) \/ Serve(t) \/ Continue(t)
  /\ UNCHANGED channelVars

ChannelNext ==
  \/ ~misuse /\ AcceptFails /\ UNCHANGED channelVars
  \/ \E t \in Thread :
       \/ Connection(t)
       \/ Handle(t)
       \/ \E op \in Commands, name \in Names : Command(t, op, name)
       \/ \E op \in {"NAMES", "LIST"} : Command(t, op, Null)

ChannelSpec == ChannelInit /\ [][ChannelNext]_<<vars, channelVars>>
-----------------------------------------------------------------------------
(***************************************************************************)
(* Properties.                                                             *)
(***************************************************************************)
ChannelTypeOK ==
  /\ DOMAIN chan = Channel
  /\ \A k \in Channel :
       /\ chan[k].name \in Names \union {Null}
       /\ chan[k].members \in Seq(Thread) /\ chan[k].nusers \in Int
       /\ chan[k].freed \in BOOLEAN /\ chan[k].topic \in {"set", "freed"}
       /\ chan[k].reader \in Thread \union {Null}
  /\ channelList \in Seq(Channel) /\ listing \in Thread \union {Null}
  /\ late \subseteq Thread /\ raced \subseteq Names /\ blind \subseteq Fd
  /\ commands \in 0..MaxCommands

(* As long as no PART and no TOPIC has run beside another handler, and no  *)
(* lookup has gone wrong beside a JOIN that was adding a channel, however  *)
(* JOIN, MODE, NAMES, LIST and messages interleave: no channel is used that*)
(* is freed, no freed channel is listed, and a channel that has lost its   *)
(* last member is gone when the handlers have ended.                       *)
Tidy == ~overlapped =>
  /\ ~misuse
  /\ \A i \in DOMAIN channelList : ~chan[channelList[i]].freed
  /\ (\A t \in Thread : task[t] = Idle) =>
        \A i \in DOMAIN channelList : chan[channelList[i]].members # <<>>

ChannelInv == ChannelTypeOK /\ Tidy

(* Two listed channels have the same name only if the list had changed     *)
(* between some JOIN's lookup of that name and its addition, or was being  *)
(* changed while it looked.                                                *)
NameOnce == \A i, j \in DOMAIN channelList :
   i # j /\ chan[channelList[i]].name = chan[channelList[j]].name =>
      chan[channelList[i]].name \in raced

(* A descriptor is twice among the members of a channel only if two        *)
(* threads serve it, or it joined while NAMES iterated them, when          *)
(* isUserInChannel finds nobody.                                           *)
MemberOnce == \A k \in Channel : \A i, j \in DOMAIN chan[k].members :
   LET fd == client[chan[k].members[i]].fd
   IN i # j /\ client[chan[k].members[j]].fd = fd =>
        \/ fd \in blind
        \/ \E t, u \in Thread : t # u /\ thr[t].fd = fd /\ thr[u].fd = fd
=============================================================================
